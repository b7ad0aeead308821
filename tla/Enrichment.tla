----------------------------- MODULE Enrichment -----------------------------
(***************************************************************************)
(* The enricher's workers (src/internal/enricher) asking the Chainlink     *)
(* provider (src/internal/price/chainlink) for prices at the same time,    *)
(* between the events the adapter and the normalizer produce and the       *)
(* signals the rules make of them (module Events).                         *)
(* What happens on the chains is an activity; LogOf is the log a contract  *)
(* emits for it.  A feed publishes rounds; round i of feed f answers       *)
(* Answers[f][i] with FeedDecimals[f] decimals.  Time is in the unit of    *)
(* the TTL; what a goroutine does between two calls takes none.            *)
(***************************************************************************)
EXTENDS Events, FiniteSets

CONSTANTS Workers,
          Chain,         \* the chain of the adapter and of the provider
          Core,          \* the wormhole core contract
          Activities,    \* what may happen on the chains
          Feeds, Answers, FeedDecimals,
          TTL, Threshold,  \* chainlink.cache_ttl and staleness_threshold
          MaxDecimals,   \* bound: decimals of a feed; Scale = 10 ^ MaxDecimals
          MaxTime        \* bound: the clock

ASSUME ProviderAssumption ==
    /\ TTL \in Nat \ {0} /\ Threshold \in Nat \ {0} /\ MaxTime \in Nat
    /\ MaxDecimals \in Nat /\ Scale = 10 ^ MaxDecimals
    /\ Answers \in [Feeds -> Seq(Nat)] /\ FeedDecimals \in [Feeds -> 0..MaxDecimals]
    /\ \A f \in Feeds : Answers[f] # <<>>
    /\ \A k \in DOMAIN PriceFeeds : PriceFeeds[k] \in Feeds

\* The bridge's contract begins every payload with its type; decoder.go:91 would index an
\* empty one.
ASSUME BridgeAssumption ==
    \A act \in Activities :
        act.kind = "message" /\ act.by = TokenBridge => act.payload # "empty"

\* Arithmetic, which the provers do not know of 10 ^ d.
ASSUME PowersAssumption == \A d \in 0..MaxDecimals : 10 ^ d \in Nat

VARIABLES now,
          rounds,   \* the node: when each round of each feed was published
          cache,    \* p.cache: feed -> None or [price, expiresAt]; "of" is a history field
          decimals, \* p.decimals: feed -> None or a number
          worker    \* what each worker of the pool is doing

vars == <<now, rounds, cache, decimals, worker>>
-----------------------------------------------------------------------------
(* The chains and the stages before the enricher. *)

\* The logs of the contracts.  The token bridge publishes through the core contract.
LogOf(act) ==
    CASE act.kind = "approval" ->
             [address |-> act.token, topics |-> <<"Approval", act.user, act.target>>,
              data |-> [value |-> act.amount]]
      [] act.kind = "message" ->
             [address |-> Core, topics |-> <<"LogMessagePublished", act.by>>,
              data |-> [payload |-> act.payload, token |-> act.token,
                        amount |-> act.amount, target |-> act.target]]
      [] act.kind = "other" -> act.log

\* The events the normalizer sends on for an activity: at most one.  Activities of
\* kind "foreign" reach it as raw events of the other adapters.
EventsOf(act) ==
    LET raws == IF act.kind = "foreign" THEN {act.raw}
                ELSE IF Subscribed(Chain, LogOf(act).address) THEN Decode(Chain, LogOf(act))
                ELSE {}
    IN UNION {Normalize(raw) : raw \in raws}

EventOf(act) == CHOOSE e \in EventsOf(act) : TRUE
FeedOf(act) == LookupPriceFeed(Chain, EventOf(act).token)

\* The unit price of a round's answer, in units of 1 / Scale dollars.
UnitPrice(answer, dec) == answer * 10 ^ (MaxDecimals - dec)
-----------------------------------------------------------------------------
Idle == [pc |-> "idle"]

Init ==
    /\ now = 0
    /\ rounds = [f \in Feeds |-> <<0>>]
    /\ cache = [f \in Feeds |-> None]
    /\ decimals = [f \in Feeds |-> None]
    /\ worker = [w \in Workers |-> Idle]

Tick ==
    /\ now < MaxTime
    /\ now' = now + 1
    /\ UNCHANGED <<rounds, cache, decimals, worker>>

Publish(f) ==
    /\ Len(rounds[f]) < Len(Answers[f])
    /\ rounds' = [rounds EXCEPT ![f] = Append(@, now)]
    /\ UNCHANGED <<now, cache, decimals, worker>>
-----------------------------------------------------------------------------
(* processEvent of worker w. *)

At(w, place) == worker[w].pc = place
Goes(w, state) == worker' = [worker EXCEPT ![w] = state]

Receive(w) ==
    /\ At(w, "idle")
    /\ \E act \in Activities :
           EventsOf(act) # {} /\ Goes(w, [pc |-> "lookup", act |-> act])
    /\ UNCHANGED <<now, rounds, cache, decimals>>

\* GetPriceUSD returned p, None for an error; the round behind it is a history field.
Priced(w, p) == Goes(w, [pc |-> "enriched", act |-> worker[w].act, price |-> p, at |-> now])

NoFeed(w) ==
    /\ At(w, "lookup") /\ FeedOf(worker[w].act) = None
    /\ Priced(w, None)
    /\ UNCHANGED <<now, rounds, cache, decimals>>

\* A cached price that has not expired, read under the read lock.
Usable(f) == cache[f] # None /\ now < cache[f].expiresAt

ServeCached(w) ==
    LET f == FeedOf(worker[w].act)
    IN /\ At(w, "lookup") /\ f # None /\ Usable(f)
       /\ Priced(w, [value |-> cache[f].price, of |-> cache[f].of])
       /\ UNCHANGED <<now, rounds, cache, decimals>>

\* The read lock is given back before the calls: other workers may miss as well.
Miss(w) ==
    LET f == FeedOf(worker[w].act)
    IN /\ At(w, "lookup") /\ f # None /\ ~ Usable(f)
       /\ Goes(w, [pc |-> "decimals", act |-> worker[w].act])
       /\ UNCHANGED <<now, rounds, cache, decimals>>

\* getDecimals, from its map or from the node.
DecimalsKnown(w) ==
    LET f == FeedOf(worker[w].act)
    IN /\ At(w, "decimals")
       /\ decimals' = [decimals EXCEPT ![f] = FeedDecimals[f]]
       /\ Goes(w, [pc |-> "round", act |-> worker[w].act, dec |-> decimals'[f]])
       /\ UNCHANGED <<now, rounds, cache>>

DecimalsDefault(w) ==
    /\ At(w, "decimals") /\ decimals[FeedOf(worker[w].act)] = None
    /\ Goes(w, [pc |-> "round", act |-> worker[w].act, dec |-> 0])
    /\ UNCHANGED <<now, rounds, cache, decimals>>
DecimalsFail(w) ==
    /\ At(w, "decimals") /\ decimals[FeedOf(worker[w].act)] = None
    /\ Priced(w, None)
    /\ UNCHANGED <<now, rounds, cache, decimals>>

\* The node evaluates latestRoundData; the answer is under way.
ReadRound(w) ==
    LET f == FeedOf(worker[w].act)
    IN /\ At(w, "round")
       /\ Goes(w, [pc |-> "check", act |-> worker[w].act, dec |-> worker[w].dec,
                   round |-> Len(rounds[f])])
       /\ UNCHANGED <<now, rounds, cache, decimals>>

RoundFails(w) ==
    /\ At(w, "round") \/ At(w, "check")
    /\ Priced(w, None)
    /\ UNCHANGED <<now, rounds, cache, decimals>>

Age(f, round) == now - rounds[f][round]
Never(f, round) == FALSE
TooOld(f, round) == Age(f, round) > Threshold

Stale(w) ==
    /\ At(w, "check") /\ TooOld(FeedOf(worker[w].act), worker[w].round)
    /\ Priced(w, None)
    /\ UNCHANGED <<now, rounds, cache, decimals>>

\* The answer arrives, is not stale, and is stored under the write lock: last come,
\* last stored, whatever the order of the rounds.
StoreUntilStale(w) ==
    LET f == FeedOf(worker[w].act)
        unit == UnitPrice(Answers[f][worker[w].round], worker[w].dec)
        of == [feed |-> f, round |-> worker[w].round]
    IN /\ At(w, "check") /\ ~ TooOld(f, worker[w].round)
       /\ cache' = [cache EXCEPT ![f] =
                        [price |-> unit, of |-> of, expiresAt |-> now + TTL + Threshold]]
       /\ Priced(w, [value |-> unit, of |-> of])
       /\ UNCHANGED <<now, rounds, decimals>>
Store(w) ==
    LET f == FeedOf(worker[w].act)
        unit == UnitPrice(Answers[f][worker[w].round], worker[w].dec)
        of == [feed |-> f, round |-> worker[w].round]
    IN /\ At(w, "check") /\ ~ TooOld(f, worker[w].round)
       /\ cache' = [cache EXCEPT ![f] =
                        [price |-> unit, of |-> of, expiresAt |-> now + TTL]]
       /\ Priced(w, [value |-> unit, of |-> of])
       /\ UNCHANGED <<now, rounds, decimals>>

\* The enriched event leaves for the engine.
Emit(w) ==
    /\ At(w, "enriched")
    /\ Goes(w, Idle)
    /\ UNCHANGED <<now, rounds, cache, decimals>>

GetPriceUSD(w) ==
    \/ NoFeed(w) \/ ServeCached(w) \/ Miss(w) \/ DecimalsKnown(w) \/ DecimalsFail(w)
    \/ ReadRound(w) \/ RoundFails(w) \/ Stale(w) \/ Store(w)

Next ==
    \/ Tick \/ \E f \in Feeds : Publish(f)
    \/ \E w \in Workers : Receive(w) \/ GetPriceUSD(w) \/ Emit(w)

Spec == Init /\ [][Next]_vars

\* What the engine sees of worker w's event.
EnrichedOf(w) ==
    Enrich(EventOf(worker[w].act), IF worker[w].price = None THEN None
                                   ELSE worker[w].price.value)
-----------------------------------------------------------------------------
(* Properties *)

RoundOf == UNION {[feed : {f}, round : 1..Len(Answers[f])] : f \in Feeds}
Entry == [price : Nat, of : RoundOf, expiresAt : 1..(MaxTime + TTL)]
Price == [value : Nat, of : RoundOf]

\* Cache, decimals and workers keep their shape; an entry lives for at most one TTL.
TypeOK ==
    /\ now \in 0..MaxTime
    /\ rounds \in [Feeds -> Seq(0..now)]
    /\ \A f \in Feeds : Len(rounds[f]) \in 1..Len(Answers[f])
    /\ \A f \in Feeds : cache[f] # None => cache[f] \in Entry /\ cache[f].expiresAt <= now + TTL
    /\ \A f \in Feeds : decimals[f] # None => decimals[f] \in 0..MaxDecimals
    /\ \A w \in Workers :
           \/ worker[w] = Idle
           \/ worker[w] \in [pc : {"lookup", "decimals"}, act : Activities]
           \/ worker[w] \in [pc : {"round"}, act : Activities, dec : 0..MaxDecimals]
           \/ /\ worker[w] \in [pc : {"check"}, act : Activities, dec : 0..MaxDecimals,
                                round : Nat]
              /\ worker[w].round \in DOMAIN rounds[FeedOf(worker[w].act)]
           \/ worker[w] \in [pc : {"enriched"}, act : Activities, price : Price \cup {None},
                             at : 0..now]

Enriched == {w \in Workers : At(w, "enriched")}
PricedWorkers == {w \in Enriched : worker[w].price # None}

\* A price the enricher uses is younger than the staleness threshold and the cache's
\* TTL together, although staleness is not looked at when a cached price is served.
ServedAge ==
    \A w \in PricedWorkers :
        LET of == worker[w].price.of
        IN worker[w].at - rounds[of.feed][of.round] < Threshold + TTL

\* Concurrent misses, failures and late answers never mix feeds: a price is an answer
\* of the feed of the event's own token, scaled by that feed's decimals.
OwnPrice ==
    \A w \in PricedWorkers :
        LET of == worker[w].price.of
        IN /\ of.feed = FeedOf(worker[w].act)
           /\ worker[w].price.value = UnitPrice(Answers[of.feed][of.round], FeedDecimals[of.feed])

\* amount_usd is in dollars (e2e_test.go:312): the deposited number of tokens times the
\* price, where an amount of 10 ^ act.tokenDecimals units is one token.
AmountInDollars ==
    \A w \in PricedWorkers :
        LET act == worker[w].act
        IN act.kind = "message" /\ EnrichedOf(w).usd # None =>
               EnrichedOf(w).usd * 10 ^ act.tokenDecimals
               = act.amount * worker[w].price.value
=============================================================================
