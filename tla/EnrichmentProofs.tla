--------------------------- MODULE EnrichmentProofs ---------------------------
(***************************************************************************)
(* Machine-checked proofs about Enrichment, for any number of workers,     *)
(* feeds, rounds and activities, any registry and any TTL and threshold:   *)
(* what a price that reaches an event may be, however the workers meet in  *)
(* the cache, and what the rules read of an activity on the chain after    *)
(* decoder, normalizer, registry and enricher have handled it.             *)
(***************************************************************************)
EXTENDS Enrichment, TLAPS

\* A round the node has published.
Published(f, i) == f \in Feeds /\ i \in DOMAIN rounds[f]

\* Price p comes from a published round of feed f, with the feed's own decimals.
From(f, of, p) ==
    /\ of.feed = f /\ Published(f, of.round)
    /\ p = UnitPrice(Answers[f][of.round], FeedDecimals[f])

ClockInv ==
    /\ now \in Nat
    /\ rounds \in [Feeds -> Seq(Nat)] /\ \A f \in Feeds : rounds[f] # <<>>
    /\ cache = [f \in Feeds |-> cache[f]] /\ decimals = [f \in Feeds |-> decimals[f]]
    /\ worker = [w \in Workers |-> worker[w]]

\* Only the decimals of the feed itself are ever remembered.
DecimalsInv == \A f \in Feeds : decimals[f] # None => decimals[f] = FeedDecimals[f]

\* A cached price expires before its round is older than threshold and TTL together.
CacheInv ==
    \A f \in Feeds : cache[f] # None =>
        /\ From(f, cache[f].of, cache[f].price)
        /\ cache[f].expiresAt \in Int
        /\ cache[f].expiresAt <= rounds[f][cache[f].of.round] + Threshold + TTL

\* A worker between the calls holds what belongs to the feed of its own event, and one
\* with a price a price from that feed, not too old when it was obtained.
GoodState(s) ==
    /\ s.pc \in {"decimals", "round", "check"} => FeedOf(s.act) \in Feeds
    /\ s.pc \in {"round", "check"} => s.dec = FeedDecimals[FeedOf(s.act)]
    /\ s.pc = "check" => Published(FeedOf(s.act), s.round)
    /\ s.pc = "enriched" /\ s.price # None =>
           /\ From(FeedOf(s.act), s.price.of, s.price.value)
           /\ s.at \in Nat
           /\ s.at - rounds[s.price.of.feed][s.price.of.round] < Threshold + TTL

WorkersInv == \A w \in Workers : GoodState(worker[w])

IInv == ClockInv /\ DecimalsInv /\ CacheInv /\ WorkersInv
-----------------------------------------------------------------------------
\* What the registry finds is a feed.
LEMMA FeedFound ==
    ASSUME NEW act, FeedOf(act) # None
    PROVE  FeedOf(act) \in Feeds
BY ProviderAssumption DEF FeedOf, LookupPriceFeed

LEMMA InitInv == Init => IInv
<1> SUFFICES ASSUME Init PROVE IInv
  OBVIOUS
<1>1. ClockInv
  BY DEF ClockInv, Init
<1>2. DecimalsInv /\ CacheInv
  BY DEF DecimalsInv, CacheInv, Init
<1>3. \A w \in Workers : worker[w].pc = "idle"
  BY DEF Init, Idle
<1>4. WorkersInv
  BY <1>3 DEF WorkersInv, GoodState
<1> QED BY <1>1, <1>2, <1>4 DEF IInv

\* Publishing a round keeps every round that was there.
LEMMA RoundsKept ==
    ASSUME ClockInv, NEW g \in Feeds, Publish(g), NEW f, NEW i, Published(f, i)
    PROVE  /\ rounds' \in [Feeds -> Seq(Nat)]
           /\ i \in DOMAIN rounds'[f] /\ rounds'[f][i] = rounds[f][i]
<1>1. rounds[g] \in Seq(Nat) /\ now \in Nat
  BY DEF ClockInv
<1>2. rounds' = [rounds EXCEPT ![g] = Append(@, now)]
  BY DEF Publish
<1>3. rounds' \in [Feeds -> Seq(Nat)]
  BY <1>1, <1>2 DEF ClockInv
<1>4. CASE f = g
  <2>1. rounds'[f] = Append(rounds[f], now)
    BY <1>2, <1>4 DEF ClockInv
  <2> QED BY <1>1, <1>3, <1>4, <2>1 DEF Published
<1>5. CASE f # g
  BY <1>2, <1>3, <1>5 DEF ClockInv, Published
<1> QED BY <1>4, <1>5

LEMMA PublishStep == ASSUME IInv, NEW g \in Feeds, Publish(g) PROVE IInv'
<1> USE DEF IInv
<1>1. UNCHANGED <<now, cache, decimals, worker>>
  BY DEF Publish
<1>2. rounds' \in [Feeds -> Seq(Nat)] /\ \A f \in Feeds : rounds'[f] # <<>>
  <2>1. /\ rounds[g] \in Seq(Nat) /\ now \in Nat
        /\ rounds' = [rounds EXCEPT ![g] = Append(rounds[g], now)]
    BY DEF ClockInv, Publish
  <2>2. Append(rounds[g], now) \in Seq(Nat) /\ Append(rounds[g], now) # <<>>
    BY <2>1
  <2> QED BY <2>1, <2>2 DEF ClockInv
<1>3. ClockInv' /\ DecimalsInv'
  BY <1>1, <1>2 DEF ClockInv, DecimalsInv
<1>4. \A f, i : Published(f, i) => Published(f, i)' /\ rounds'[f][i] = rounds[f][i]
  BY RoundsKept DEF Published
<1>5. \A f, of, p : From(f, of, p) =>
          From(f, of, p)' /\ rounds'[f][of.round] = rounds[f][of.round]
  BY <1>4 DEF From
<1>6. CacheInv'
  BY <1>1, <1>5 DEF CacheInv
<1>7. \A s : GoodState(s) => GoodState(s)'
  <2> SUFFICES ASSUME NEW s, GoodState(s) PROVE GoodState(s)'
    OBVIOUS
  <2>1. s.pc = "check" => Published(FeedOf(s.act), s.round)'
    BY <1>4 DEF GoodState
  <2>2. CASE s.pc = "enriched" /\ s.price # None
    <3>1. From(FeedOf(s.act), s.price.of, s.price.value) /\ s.price.of.feed = FeedOf(s.act)
      BY <2>2 DEF GoodState, From
    <3>2. /\ From(FeedOf(s.act), s.price.of, s.price.value)'
          /\ rounds'[s.price.of.feed][s.price.of.round] = rounds[s.price.of.feed][s.price.of.round]
      BY <1>5, <3>1
    <3> QED BY <2>1, <2>2, <3>2 DEF GoodState
  <2>3. CASE ~ (s.pc = "enriched" /\ s.price # None)
    BY <2>1, <2>3 DEF GoodState
  <2> QED BY <2>2, <2>3
<1>8. WorkersInv'
  BY <1>1, <1>7 DEF WorkersInv
<1> QED BY <1>3, <1>6, <1>8
-----------------------------------------------------------------------------
\* One worker takes a step to a good state; the rounds stay.
LEMMA WorkerStep ==
    ASSUME IInv, NEW w \in Workers, NEW s, GoodState(s), Goes(w, s), UNCHANGED <<now, rounds>>
    PROVE  WorkersInv' /\ worker' = [v \in Workers |-> worker'[v]]
<1>1. worker' = [v \in Workers |-> IF v = w THEN s ELSE worker[v]]
  BY DEF Goes, IInv, ClockInv
<1>2. \A t : GoodState(t) => GoodState(t)'
  BY DEF GoodState, From, Published
<1>3. \A v \in Workers : GoodState(worker'[v])
  BY <1>1 DEF IInv, WorkersInv
<1>4. WorkersInv'
  <2> SUFFICES ASSUME NEW v \in Workers PROVE GoodState(worker[v])'
    BY DEF WorkersInv
  <2> QED BY <1>2, <1>3
<1> QED BY <1>1, <1>4

\* A step of one worker that leaves the caches alone.
LEMMA QuietStep ==
    ASSUME IInv, NEW w \in Workers, NEW s, GoodState(s), Goes(w, s),
           UNCHANGED <<now, rounds, cache, decimals>>
    PROVE  IInv'
<1>1. WorkersInv' /\ worker' = [v \in Workers |-> worker'[v]]
  BY WorkerStep
<1>2. ClockInv' /\ DecimalsInv' /\ CacheInv'
  BY <1>1 DEF IInv, ClockInv, DecimalsInv, CacheInv, From, Published
<1> QED BY <1>1, <1>2 DEF IInv

\* GetPriceUSD returns an error.
LEMMA ErrorStep ==
    ASSUME IInv, NEW w \in Workers, Priced(w, None), UNCHANGED <<now, rounds, cache, decimals>>
    PROVE  IInv'
<1> DEFINE s == [pc |-> "enriched", act |-> worker[w].act, price |-> None, at |-> now]
<1>1. GoodState(s)
  BY DEF GoodState
<1>2. Goes(w, s)
  BY DEF Priced
<1> HIDE DEF s
<1> QED BY <1>1, <1>2, QuietStep

\* An entry that has not expired is young enough.
LEMMA Unexpired ==
    ASSUME NEW t \in Nat, NEW r \in Nat, NEW expires \in Int,
           t < expires, expires <= r + Threshold + TTL
    PROVE  t - r < Threshold + TTL
<1>1. Threshold \in Nat /\ TTL \in Nat
  BY ProviderAssumption
<1> QED BY <1>1

LEMMA ServeCachedStep == ASSUME IInv, NEW w \in Workers, ServeCached(w) PROVE IInv'
<1> DEFINE f == FeedOf(worker[w].act)
           p == [value |-> cache[f].price, of |-> cache[f].of]
           s == [pc |-> "enriched", act |-> worker[w].act, price |-> p, at |-> now]
<1>1. f \in Feeds /\ Usable(f)
  BY FeedFound DEF ServeCached
<1>2. /\ From(f, cache[f].of, cache[f].price)
      /\ cache[f].expiresAt \in Int
      /\ cache[f].expiresAt <= rounds[f][cache[f].of.round] + Threshold + TTL
      /\ now < cache[f].expiresAt
  BY <1>1 DEF IInv, CacheInv, Usable
<1>3. now \in Nat /\ rounds[f][cache[f].of.round] \in Nat
  BY <1>2 DEF IInv, ClockInv, From, Published
<1>4. now - rounds[f][cache[f].of.round] < Threshold + TTL
  <2> HIDE DEF f
  <2> QED BY <1>2, <1>3, Unexpired
<1>5. GoodState(s)
  BY <1>2, <1>3, <1>4 DEF GoodState, From
<1>6. Goes(w, s) /\ UNCHANGED <<now, rounds, cache, decimals>>
  BY DEF ServeCached, Priced
<1> HIDE DEF s
<1> QED BY <1>5, <1>6, QuietStep

LEMMA MissStep == ASSUME IInv, NEW w \in Workers, Miss(w) PROVE IInv'
<1> DEFINE s == [pc |-> "decimals", act |-> worker[w].act]
<1>1. GoodState(s)
  BY FeedFound DEF Miss, GoodState
<1>2. Goes(w, s) /\ UNCHANGED <<now, rounds, cache, decimals>>
  BY DEF Miss
<1> HIDE DEF s
<1> QED BY <1>1, <1>2, QuietStep

LEMMA DecimalsKnownStep == ASSUME IInv, NEW w \in Workers, DecimalsKnown(w) PROVE IInv'
<1> DEFINE f == FeedOf(worker[w].act)
           s == [pc |-> "round", act |-> worker[w].act, dec |-> FeedDecimals[f]]
<1>1. f \in Feeds
  BY DEF DecimalsKnown, At, IInv, WorkersInv, GoodState
<1>2. decimals' = [decimals EXCEPT ![f] = FeedDecimals[f]] /\ decimals'[f] = FeedDecimals[f]
  BY <1>1 DEF DecimalsKnown, IInv, ClockInv
<1>3. Goes(w, s) /\ UNCHANGED <<now, rounds, cache>>
  BY <1>2 DEF DecimalsKnown
<1>4. GoodState(s)
  BY <1>1 DEF GoodState
<1>5. WorkersInv' /\ worker' = [v \in Workers |-> worker'[v]]
  <2> HIDE DEF s
  <2> QED BY <1>3, <1>4, WorkerStep
<1>6. DecimalsInv'
  BY <1>1, <1>2 DEF IInv, ClockInv, DecimalsInv
<1>7. decimals' = [g \in Feeds |-> decimals'[g]]
  BY <1>2 DEF IInv, ClockInv
<1>8. ClockInv' /\ CacheInv'
  BY <1>3, <1>5, <1>7 DEF IInv, ClockInv, CacheInv, From, Published
<1> QED BY <1>5, <1>6, <1>8 DEF IInv

LEMMA ReadRoundStep == ASSUME IInv, NEW w \in Workers, ReadRound(w) PROVE IInv'
<1> DEFINE f == FeedOf(worker[w].act)
           s == [pc |-> "check", act |-> worker[w].act, dec |-> worker[w].dec,
                 round |-> Len(rounds[f])]
<1>1. f \in Feeds /\ worker[w].dec = FeedDecimals[f]
  BY DEF ReadRound, At, IInv, WorkersInv, GoodState
<1>2. Published(f, Len(rounds[f]))
  <2>1. rounds[f] \in Seq(Nat) /\ rounds[f] # <<>>
    BY <1>1 DEF IInv, ClockInv
  <2> QED BY <1>1, <2>1 DEF Published
<1>3. GoodState(s)
  BY <1>1, <1>2 DEF GoodState
<1>4. Goes(w, s) /\ UNCHANGED <<now, rounds, cache, decimals>>
  BY DEF ReadRound
<1> HIDE DEF s
<1> QED BY <1>3, <1>4, QuietStep

\* The one write to the cache: the answer is not stale, so it cannot outlive threshold
\* and TTL in there.
LEMMA StoreStep == ASSUME IInv, NEW w \in Workers, Store(w) PROVE IInv'
<1> DEFINE f == FeedOf(worker[w].act)
           i == worker[w].round
           unit == UnitPrice(Answers[f][i], worker[w].dec)
           of == [feed |-> f, round |-> i]
           entry == [price |-> unit, of |-> of, expiresAt |-> now + TTL]
           s == [pc |-> "enriched", act |-> worker[w].act,
                 price |-> [value |-> unit, of |-> of], at |-> now]
<1>1. /\ Published(f, i) /\ worker[w].dec = FeedDecimals[f]
      /\ ~ (now - rounds[f][i] > Threshold)
  BY DEF Store, At, IInv, WorkersInv, GoodState, TooOld, Age
<1>2. From(f, of, unit)
  BY <1>1 DEF From
<1>3. now \in Nat /\ rounds[f][i] \in Nat
  BY <1>1 DEF IInv, ClockInv, Published
<1>4. now - rounds[f][i] < Threshold + TTL /\ now + TTL <= rounds[f][i] + Threshold + TTL
  BY <1>1, <1>3, ProviderAssumption
<1>5. GoodState(s)
  BY <1>2, <1>3, <1>4 DEF GoodState
<1>6. /\ cache' = [cache EXCEPT ![f] = entry]
      /\ Goes(w, s) /\ UNCHANGED <<now, rounds, decimals>>
  BY DEF Store, Priced
<1>7. WorkersInv' /\ worker' = [v \in Workers |-> worker'[v]]
  <2> HIDE DEF s
  <2> QED BY <1>5, <1>6, WorkerStep
<1>8. cache' = [g \in Feeds |-> IF g = f THEN entry ELSE cache[g]]
  BY <1>6 DEF IInv, ClockInv
<1>9. ClockInv' /\ DecimalsInv'
  BY <1>6, <1>7, <1>8 DEF IInv, ClockInv, DecimalsInv
<1>10. CacheInv'
  <2> SUFFICES ASSUME NEW g \in Feeds, cache'[g] # None
               PROVE  /\ From(g, cache'[g].of, cache'[g].price)
                      /\ cache'[g].expiresAt \in Int
                      /\ cache'[g].expiresAt
                            <= rounds[g][cache'[g].of.round] + Threshold + TTL
    BY <1>6 DEF CacheInv, From, Published
  <2>1. CASE g = f
    <3>1. cache'[g] = entry
      BY <1>8, <2>1
    <3> QED BY <1>2, <1>3, <1>4, <2>1, <3>1, ProviderAssumption
  <2>2. CASE g # f
    <3>1. cache'[g] = cache[g]
      BY <1>8, <2>2
    <3> QED BY <3>1 DEF IInv, CacheInv
  <2> QED BY <2>1, <2>2
<1> QED BY <1>7, <1>9, <1>10 DEF IInv
-----------------------------------------------------------------------------
\* Every step of the clock, the feeds and the workers keeps the invariant.
LEMMA NextInv == IInv /\ [Next]_vars => IInv'
<1> SUFFICES ASSUME IInv, [Next]_vars PROVE IInv'
  OBVIOUS
<1>1. CASE Tick
  <2>1. UNCHANGED <<rounds, cache, decimals, worker>> /\ now' = now + 1
    BY <1>1 DEF Tick
  <2> QED BY <2>1 DEF IInv, ClockInv, DecimalsInv, CacheInv, WorkersInv, GoodState, From,
                      Published
<1>2. ASSUME NEW f \in Feeds, Publish(f) PROVE IInv'
  BY <1>2, PublishStep
<1>3. ASSUME NEW w \in Workers, Receive(w) PROVE IInv'
  <2>1. PICK act \in Activities : Goes(w, [pc |-> "lookup", act |-> act])
    BY <1>3 DEF Receive
  <2> DEFINE s == [pc |-> "lookup", act |-> act]
  <2>2. GoodState(s)
    BY DEF GoodState
  <2>3. UNCHANGED <<now, rounds, cache, decimals>>
    BY <1>3 DEF Receive
  <2> QED BY <2>1, <2>2, <2>3, QuietStep
<1>4. ASSUME NEW w \in Workers, Emit(w) PROVE IInv'
  <2>1. GoodState(Idle)
    BY DEF GoodState, Idle
  <2> QED BY <1>4, <2>1, QuietStep DEF Emit
<1>5. ASSUME NEW w \in Workers, GetPriceUSD(w) PROVE IInv'
  <2>1. CASE NoFeed(w)
    BY <2>1, ErrorStep DEF NoFeed
  <2>2. CASE ServeCached(w)
    BY <2>2, ServeCachedStep
  <2>3. CASE Miss(w)
    BY <2>3, MissStep
  <2>4. CASE DecimalsKnown(w)
    BY <2>4, DecimalsKnownStep
  <2>5. CASE DecimalsFail(w)
    BY <2>5, ErrorStep DEF DecimalsFail
  <2>6. CASE ReadRound(w)
    BY <2>6, ReadRoundStep
  <2>7. CASE RoundFails(w)
    BY <2>7, ErrorStep DEF RoundFails
  <2>8. CASE Stale(w)
    BY <2>8, ErrorStep DEF Stale
  <2>9. CASE Store(w)
    BY <2>9, StoreStep
  <2> QED BY <1>5, <2>1, <2>2, <2>3, <2>4, <2>5, <2>6, <2>7, <2>8, <2>9 DEF GetPriceUSD
<1>6. CASE UNCHANGED vars
  BY <1>6 DEF vars, IInv, ClockInv, DecimalsInv, CacheInv, WorkersInv, GoodState, From,
              Published
<1> QED BY <1>1, <1>2, <1>3, <1>4, <1>5, <1>6 DEF Next

\* In every reachable state clock, caches and workers are as IInv says.
THEOREM Invariant == Spec => []IInv
BY InitInv, NextInv, PTL DEF Spec

\* For any pool and registry: a price served from the cache or fetched is younger than
\* staleness threshold and TTL together (GetPriceUSD checks staleness on fetching only).
THEOREM AgeServed == Spec => []ServedAge
<1>1. IInv => ServedAge
  BY DEF IInv, WorkersInv, GoodState, ServedAge, PricedWorkers, Enriched, At
<1> QED BY <1>1, Invariant, PTL

\* For any pool and registry: concurrent misses never give an event the price of another
\* feed, nor one scaled by other decimals than its own feed's (p.cache and p.decimals).
THEOREM PricesOwn == Spec => []OwnPrice
<1>1. IInv => OwnPrice
  BY DEF IInv, WorkersInv, GoodState, From, OwnPrice, PricedWorkers, Enriched, At
<1> QED BY <1>1, Invariant, PTL
-----------------------------------------------------------------------------
(* The shape of the state: TypeOK, from the invariant. *)

ClockType ==
    /\ now \in 0..MaxTime
    /\ rounds \in [Feeds -> Seq(0..now)]
    /\ \A f \in Feeds : Len(rounds[f]) \in 1..Len(Answers[f])
CacheType ==
    \A f \in Feeds : cache[f] # None => cache[f] \in Entry /\ cache[f].expiresAt <= now + TTL
DecimalsType == \A f \in Feeds : decimals[f] # None => decimals[f] \in 0..MaxDecimals

\* A worker in state s, as TypeOK has it.
Shaped(s) ==
    \/ s = Idle
    \/ s \in [pc : {"lookup", "decimals"}, act : Activities]
    \/ s \in [pc : {"round"}, act : Activities, dec : 0..MaxDecimals]
    \/ /\ s \in [pc : {"check"}, act : Activities, dec : 0..MaxDecimals, round : Nat]
       /\ s.round \in DOMAIN rounds[FeedOf(s.act)]
    \/ s \in [pc : {"enriched"}, act : Activities, price : Price \cup {None}, at : 0..now]

\* TypeOK, part by part.
LEMMA Parts ==
    TypeOK <=> ClockType /\ CacheType /\ DecimalsType /\ \A w \in Workers : Shaped(worker[w])
BY DEF TypeOK, ClockType, CacheType, DecimalsType, Shaped

\* What a state with a given pc holds.
LEMMA Held ==
    ASSUME NEW s, Shaped(s)
    PROVE  /\ s.pc # "idle" => s.act \in Activities
           /\ s.pc = "round" => s.dec \in 0..MaxDecimals
           /\ s.pc = "check" => s.dec \in 0..MaxDecimals /\ s.round \in Nat
BY DEF Shaped, Idle

\* The price of a published round is a natural number, of a round the feed has.
LEMMA PriceType ==
    ASSUME ClockType, NEW f \in Feeds, NEW i \in DOMAIN rounds[f],
           NEW of, of = [feed |-> f, round |-> i], NEW d \in 0..MaxDecimals
    PROVE  UnitPrice(Answers[f][i], d) \in Nat /\ of \in RoundOf
<1>1. rounds[f] \in Seq(0..now) /\ Answers[f] \in Seq(Nat) /\ MaxDecimals \in Nat
  BY ProviderAssumption DEF ClockType
<1>2. Len(rounds[f]) <= Len(Answers[f])
  BY <1>1 DEF ClockType
<1>3. i \in 1..Len(Answers[f])
  BY <1>1, <1>2
<1>4. Answers[f][i] \in Nat
  BY <1>1, <1>3
<1>5. 10 ^ (MaxDecimals - d) \in Nat
  <2>1. MaxDecimals - d \in 0..MaxDecimals
    BY <1>1
  <2> QED BY <2>1, PowersAssumption
<1>6. UnitPrice(Answers[f][i], d) \in Nat
  <2> DEFINE p == 10 ^ (MaxDecimals - d)
  <2>1. UnitPrice(Answers[f][i], d) = Answers[f][i] * p
    BY DEF UnitPrice
  <2>2. p \in Nat
    BY <1>5
  <2> HIDE DEF p
  <2> QED BY <1>4, <2>1, <2>2
<1>7. of \in [feed : {f}, round : 1..Len(Answers[f])]
  BY <1>3
<1> QED BY <1>6, <1>7 DEF RoundOf

\* One worker goes to a state of the right shape; clock, feeds and caches stay.
LEMMA ShapeStep ==
    ASSUME IInv, TypeOK, NEW w \in Workers, NEW s, Shaped(s), Goes(w, s),
           UNCHANGED <<now, rounds, cache, decimals>>
    PROVE  TypeOK'
<1>1. worker' = [v \in Workers |-> IF v = w THEN s ELSE worker[v]]
  BY DEF Goes, IInv, ClockInv
<1>2. ClockType' /\ CacheType' /\ DecimalsType'
  BY Parts DEF ClockType, CacheType, DecimalsType
<1>3. \A t : Shaped(t) => Shaped(t)'
  BY DEF Shaped
<1>4. \A v \in Workers : Shaped(worker'[v])
  BY <1>1, Parts
<1>5. (\A v \in Workers : Shaped(worker[v]))'
  BY <1>3, <1>4
<1> QED BY <1>2, <1>5 DEF TypeOK, ClockType, CacheType, DecimalsType, Shaped

\* An event leaves GetPriceUSD with a price, or without.
LEMMA PricedShape ==
    ASSUME TypeOK, NEW w \in Workers, worker[w].pc # "idle", NEW p \in Price \cup {None}
    PROVE  Shaped([pc |-> "enriched", act |-> worker[w].act, price |-> p, at |-> now])
<1>1. worker[w].act \in Activities
  BY Parts, Held
<1>2. now \in 0..now
  BY ProviderAssumption, Parts DEF ClockType
<1> QED BY <1>1, <1>2 DEF Shaped

\* GetPriceUSD returns an error: the shape of the worker's state.
LEMMA ErrorShape ==
    ASSUME IInv, TypeOK, NEW w \in Workers, worker[w].pc # "idle", Priced(w, None),
           UNCHANGED <<now, rounds, cache, decimals>>
    PROVE  TypeOK'
<1> DEFINE s == [pc |-> "enriched", act |-> worker[w].act, price |-> None, at |-> now]
<1>1. Shaped(s)
  BY PricedShape
<1>2. Goes(w, s)
  BY DEF Priced
<1> HIDE DEF s
<1> QED BY <1>1, <1>2, ShapeStep

\* A sequence over a set is one over a larger set.
LEMMA WiderSequence ==
    ASSUME NEW S, NEW T, S \subseteq T, NEW q \in Seq(S)
    PROVE  q \in Seq(T)
OBVIOUS

\* Time passes: what was in 0..now still is.
LEMMA TickShape == ASSUME IInv, TypeOK, Tick PROVE TypeOK'
<1>1. /\ now \in Nat /\ now < MaxTime /\ MaxTime \in Nat /\ TTL \in Nat /\ now' = now + 1
      /\ UNCHANGED <<rounds, cache, decimals, worker>>
  BY ProviderAssumption DEF Tick, IInv, ClockInv
<1>2. 0..now \subseteq 0..now' /\ now' \in 0..MaxTime
  BY <1>1
<1>3. ClockType'
  <2>1. \A f \in Feeds : rounds[f] \in Seq(0..now')
    <3> SUFFICES ASSUME NEW f \in Feeds PROVE rounds[f] \in Seq(0..now')
      OBVIOUS
    <3>1. rounds[f] \in Seq(0..now)
      BY Parts DEF ClockType
    <3> QED BY <1>2, <3>1, WiderSequence
  <2>2. rounds' \in [Feeds -> Seq(0..now')]
    BY <1>1, <2>1, Parts DEF ClockType
  <2> QED BY <1>1, <1>2, <2>2, Parts DEF ClockType
<1>4. CacheType'
  <2> SUFFICES ASSUME NEW f \in Feeds, cache[f] # None
               PROVE  cache[f] \in Entry /\ cache[f].expiresAt <= now' + TTL
    BY <1>1 DEF CacheType
  <2>1. cache[f] \in Entry /\ cache[f].expiresAt <= now + TTL /\ cache[f].expiresAt \in Int
    BY <1>1, Parts DEF CacheType, Entry
  <2> QED BY <1>1, <2>1
<1>5. \A t : Shaped(t) => Shaped(t)'
  BY <1>1, <1>2 DEF Shaped
<1>6. DecimalsType' /\ \A v \in Workers : Shaped(worker[v])'
  BY <1>1, <1>5, Parts DEF DecimalsType
<1> QED BY <1>3, <1>4, <1>6 DEF TypeOK, ClockType, CacheType, DecimalsType, Shaped

\* A feed publishes a round it has, at the present time.
LEMMA PublishShape == ASSUME IInv, TypeOK, NEW g \in Feeds, Publish(g) PROVE TypeOK'
<1>1. /\ rounds' = [rounds EXCEPT ![g] = Append(@, now)] /\ Len(rounds[g]) < Len(Answers[g])
      /\ UNCHANGED <<now, cache, decimals, worker>>
  BY DEF Publish
<1>2. rounds[g] \in Seq(0..now) /\ now \in 0..now /\ Answers[g] \in Seq(Nat)
  BY ProviderAssumption, Parts DEF ClockType
<1>3. Append(rounds[g], now) \in Seq(0..now) /\ Len(Append(rounds[g], now)) = Len(rounds[g]) + 1
  BY <1>2
<1>4. rounds' = [f \in Feeds |-> IF f = g THEN Append(rounds[g], now) ELSE rounds[f]]
  BY <1>1, Parts DEF ClockType
<1>5. rounds' \in [Feeds -> Seq(0..now')]
  BY <1>1, <1>3, <1>4, Parts DEF ClockType
<1>6. \A f \in Feeds : Len(rounds'[f]) \in 1..Len(Answers[f])
  <2>1. Len(rounds[g]) + 1 \in 1..Len(Answers[g])
    BY <1>1, <1>2
  <2> QED BY <1>3, <1>4, <2>1, Parts DEF ClockType
<1>7. \A f \in Feeds : DOMAIN rounds[f] \subseteq DOMAIN rounds'[f]
  <2>1. DOMAIN rounds[g] \subseteq DOMAIN Append(rounds[g], now)
    BY <1>2
  <2> QED BY <1>4, <2>1
<1>8. \A v \in Workers : Shaped(worker[v])'
  <2> SUFFICES ASSUME NEW v \in Workers PROVE Shaped(worker[v])'
    OBVIOUS
  <2>1. Shaped(worker[v]) /\ worker'[v] = worker[v]
    BY <1>1, Parts
  <2>2. worker[v].pc = "check" => FeedOf(worker[v].act) \in Feeds
    BY DEF IInv, WorkersInv, GoodState
  <2> QED BY <1>1, <1>7, <2>1, <2>2 DEF Shaped
<1>9. ClockType' /\ CacheType' /\ DecimalsType'
  BY <1>1, <1>5, <1>6, Parts DEF ClockType, CacheType, DecimalsType
<1> QED BY <1>8, <1>9 DEF TypeOK, ClockType, CacheType, DecimalsType, Shaped

\* A cached price is served.
LEMMA ServeCachedShape ==
    ASSUME IInv, TypeOK, NEW w \in Workers, ServeCached(w)
    PROVE  TypeOK'
<1> DEFINE f == FeedOf(worker[w].act)
           p == [value |-> cache[f].price, of |-> cache[f].of]
           s == [pc |-> "enriched", act |-> worker[w].act, price |-> p, at |-> now]
<1>1. f \in Feeds /\ cache[f] # None /\ worker[w].pc # "idle"
  BY FeedFound DEF ServeCached, Usable, At
<1>2. p \in Price
  <2> HIDE DEF f
  <2>1. cache[f] \in Entry
    BY <1>1, Parts DEF CacheType
  <2> QED BY <2>1 DEF Entry, Price
<1>3. Goes(w, s) /\ UNCHANGED <<now, rounds, cache, decimals>>
  BY DEF ServeCached, Priced
<1>4. Shaped(s)
  <2> HIDE DEF p
  <2> QED BY <1>1, <1>2, PricedShape
<1> HIDE DEF s
<1> QED BY <1>3, <1>4, ShapeStep

\* The decimals of a feed are remembered.
LEMMA DecimalsKnownShape ==
    ASSUME IInv, TypeOK, NEW w \in Workers, DecimalsKnown(w)
    PROVE  TypeOK'
<1> DEFINE f == FeedOf(worker[w].act)
           s == [pc |-> "round", act |-> worker[w].act, dec |-> FeedDecimals[f]]
<1>1. f \in Feeds /\ worker[w].pc # "idle"
  BY DEF DecimalsKnown, At, IInv, WorkersInv, GoodState
<1>2. FeedDecimals[f] \in 0..MaxDecimals
  <2> HIDE DEF f
  <2> QED BY <1>1, ProviderAssumption
<1>3. decimals' = [decimals EXCEPT ![f] = FeedDecimals[f]] /\ decimals'[f] = FeedDecimals[f]
  BY <1>1 DEF DecimalsKnown, IInv, ClockInv
<1>4. Goes(w, s) /\ UNCHANGED <<now, rounds, cache>>
  BY <1>3 DEF DecimalsKnown
<1>5. Shaped(s)
  <2>1. worker[w].act \in Activities
    BY <1>1, Parts, Held
  <2> HIDE DEF f
  <2> QED BY <1>2, <2>1 DEF Shaped
<1>6. DecimalsType'
  <2> HIDE DEF f
  <2>1. \A g \in Feeds : decimals'[g] = FeedDecimals[f] \/ decimals'[g] = decimals[g]
    BY <1>3 DEF IInv, ClockInv
  <2> QED BY <1>2, <2>1, Parts DEF DecimalsType
<1>7. worker' = [v \in Workers |-> IF v = w THEN s ELSE worker[v]]
  BY <1>4 DEF Goes, IInv, ClockInv
<1>8. ClockType' /\ CacheType'
  BY <1>4, Parts DEF ClockType, CacheType
<1>9. \A v \in Workers : Shaped(worker[v])'
  <2> HIDE DEF s
  <2>1. \A v \in Workers : Shaped(worker'[v])
    BY <1>5, <1>7, Parts
  <2>2. \A t : Shaped(t) => Shaped(t)'
    BY <1>4 DEF Shaped
  <2> QED BY <2>1, <2>2
<1> QED BY <1>6, <1>8, <1>9 DEF TypeOK, ClockType, CacheType, DecimalsType, Shaped

\* The number of the round under way is that of a round.
LEMMA ReadRoundShape ==
    ASSUME IInv, TypeOK, NEW w \in Workers, ReadRound(w)
    PROVE  TypeOK'
<1> DEFINE f == FeedOf(worker[w].act)
           s == [pc |-> "check", act |-> worker[w].act, dec |-> worker[w].dec,
                 round |-> Len(rounds[f])]
<1>1. f \in Feeds /\ worker[w].pc = "round"
  BY DEF ReadRound, At, IInv, WorkersInv, GoodState
<1>2. worker[w].act \in Activities /\ worker[w].dec \in 0..MaxDecimals
  BY <1>1, Parts, Held
<1>3. Len(rounds[f]) \in Nat /\ Len(rounds[f]) \in DOMAIN rounds[f]
  <2> HIDE DEF f
  <2>1. rounds[f] \in Seq(0..now) /\ Len(rounds[f]) \in 1..Len(Answers[f])
    BY <1>1, Parts DEF ClockType
  <2> QED BY <2>1
<1>4. Shaped(s)
  BY <1>2, <1>3 DEF Shaped
<1>5. Goes(w, s) /\ UNCHANGED <<now, rounds, cache, decimals>>
  BY DEF ReadRound
<1> HIDE DEF s
<1> QED BY <1>4, <1>5, ShapeStep

\* The answer of a published round is stored for one TTL.
LEMMA StoreShape ==
    ASSUME IInv, TypeOK, NEW w \in Workers, Store(w)
    PROVE  TypeOK'
<1> DEFINE f == FeedOf(worker[w].act)
           i == worker[w].round
           unit == UnitPrice(Answers[f][i], worker[w].dec)
           of == [feed |-> f, round |-> i]
           entry == [price |-> unit, of |-> of, expiresAt |-> now + TTL]
           s == [pc |-> "enriched", act |-> worker[w].act,
                 price |-> [value |-> unit, of |-> of], at |-> now]
<1>1. f \in Feeds /\ i \in DOMAIN rounds[f] /\ worker[w].pc = "check"
  BY DEF Store, At, IInv, WorkersInv, GoodState, Published
<1>2. worker[w].dec \in 0..MaxDecimals
  BY <1>1, Parts, Held
<1>3. unit \in Nat /\ of \in RoundOf
  <2> HIDE DEF f, i
  <2> QED BY <1>1, <1>2, Parts, PriceType
<1>4. /\ cache' = [cache EXCEPT ![f] = entry]
      /\ Goes(w, s) /\ UNCHANGED <<now, rounds, decimals>>
  BY DEF Store, Priced
<1> HIDE DEF unit, of
<1>5. [value |-> unit, of |-> of] \in Price
  BY <1>3 DEF Price
<1>6. Shaped(s)
  <2> DEFINE p == [value |-> unit, of |-> of]
  <2>1. p \in Price /\ worker[w].pc # "idle"
    BY <1>1, <1>5
  <2> HIDE DEF p
  <2>2. Shaped([pc |-> "enriched", act |-> worker[w].act, price |-> p, at |-> now])
    BY <2>1, PricedShape
  <2> QED BY <2>2 DEF p
<1>7. entry \in Entry /\ entry.expiresAt <= now + TTL
  <2>1. now + TTL \in 1..(MaxTime + TTL) /\ now + TTL <= now + TTL
    BY ProviderAssumption, Parts DEF ClockType
  <2> QED BY <1>3, <2>1 DEF Entry
<1> HIDE DEF entry, s, f, i
<1>8. cache' = [g \in Feeds |-> IF g = f THEN entry ELSE cache[g]]
  BY <1>4 DEF IInv, ClockInv
<1>9. ClockType' /\ CacheType' /\ DecimalsType'
  BY <1>4, <1>7, <1>8, Parts DEF ClockType, CacheType, DecimalsType
<1>10. worker' = [v \in Workers |-> IF v = w THEN s ELSE worker[v]]
  BY <1>4 DEF Goes, IInv, ClockInv
<1>11. \A v \in Workers : Shaped(worker[v])'
  <2>1. \A v \in Workers : Shaped(worker'[v])
    BY <1>6, <1>10, Parts
  <2>2. \A t : Shaped(t) => Shaped(t)'
    BY <1>4 DEF Shaped
  <2> QED BY <2>1, <2>2
<1> QED BY <1>9, <1>11 DEF TypeOK, ClockType, CacheType, DecimalsType, Shaped

\* Every step keeps the shape of clock, feeds, caches and workers.
LEMMA NextShape == IInv /\ TypeOK /\ [Next]_vars => TypeOK'
<1> SUFFICES ASSUME IInv, TypeOK, [Next]_vars PROVE TypeOK'
  OBVIOUS
<1>1. ASSUME NEW w \in Workers, Receive(w) PROVE TypeOK'
  <2>1. PICK act \in Activities : Goes(w, [pc |-> "lookup", act |-> act])
    BY <1>1 DEF Receive
  <2> DEFINE s == [pc |-> "lookup", act |-> act]
  <2>2. Shaped(s)
    BY DEF Shaped
  <2>3. UNCHANGED <<now, rounds, cache, decimals>>
    BY <1>1 DEF Receive
  <2> HIDE DEF s
  <2> QED BY <2>1, <2>2, <2>3, ShapeStep DEF s
<1>2. ASSUME NEW w \in Workers, Emit(w) PROVE TypeOK'
  <2>1. Shaped(Idle)
    BY DEF Shaped
  <2> QED BY <1>2, <2>1, ShapeStep DEF Emit
<1>3. ASSUME NEW w \in Workers, GetPriceUSD(w) PROVE TypeOK'
  <2>1. CASE NoFeed(w)
    BY <2>1, ErrorShape DEF NoFeed, At
  <2>2. CASE ServeCached(w)
    BY <2>2, ServeCachedShape
  <2>3. CASE Miss(w)
    <3> DEFINE s == [pc |-> "decimals", act |-> worker[w].act]
    <3>1. worker[w].act \in Activities
      BY <2>3, Parts, Held DEF Miss, At
    <3>2. Shaped(s)
      BY <3>1 DEF Shaped
    <3>3. Goes(w, s) /\ UNCHANGED <<now, rounds, cache, decimals>>
      BY <2>3 DEF Miss
    <3> HIDE DEF s
    <3> QED BY <3>2, <3>3, ShapeStep
  <2>4. CASE DecimalsKnown(w)
    BY <2>4, DecimalsKnownShape
  <2>5. CASE DecimalsFail(w)
    BY <2>5, ErrorShape DEF DecimalsFail, At
  <2>6. CASE ReadRound(w)
    BY <2>6, ReadRoundShape
  <2>7. CASE RoundFails(w)
    BY <2>7, ErrorShape DEF RoundFails, At
  <2>8. CASE Stale(w)
    BY <2>8, ErrorShape DEF Stale, At
  <2>9. CASE Store(w)
    BY <2>9, StoreShape
  <2> QED BY <1>3, <2>1, <2>2, <2>3, <2>4, <2>5, <2>6, <2>7, <2>8, <2>9 DEF GetPriceUSD
<1>4. CASE UNCHANGED vars
  BY <1>4 DEF vars, TypeOK
<1> QED BY <1>1, <1>2, <1>3, <1>4, TickShape, PublishShape DEF Next

\* Caches and workers keep their shape for any registry and feeds; a cached price is a
\* natural number, of a round its feed has, and is kept for one TTL at most.
THEOREM TypeCorrect == Spec => []TypeOK
<1>1. Init => TypeOK
  <2> SUFFICES ASSUME Init PROVE TypeOK
    OBVIOUS
  <2>1. /\ now = 0 /\ rounds = [f \in Feeds |-> <<0>>]
        /\ \A w \in Workers : worker[w] = Idle
    BY DEF Init
  <2>2. <<0>> \in Seq(0..now) /\ Len(<<0>>) = 1
    BY <2>1
  <2>3. \A f \in Feeds : Answers[f] \in Seq(Nat) /\ Answers[f] # <<>>
    BY ProviderAssumption
  <2>4. \A f \in Feeds : 1 \in 1..Len(Answers[f])
    BY <2>3
  <2>5. ClockType
    BY <2>1, <2>2, <2>4, ProviderAssumption DEF ClockType
  <2>6. CacheType /\ DecimalsType
    BY DEF Init, CacheType, DecimalsType
  <2>7. \A w \in Workers : Shaped(worker[w])
    BY <2>1 DEF Shaped
  <2> QED BY <2>5, <2>6, <2>7, Parts
<1>2. (IInv /\ TypeOK) /\ [Next]_vars => (IInv /\ TypeOK)'
  BY NextInv, NextShape
<1> QED BY InitInv, <1>1, <1>2, PTL DEF Spec
-----------------------------------------------------------------------------
(* What the rules see: the enriched event, said of the activity itself. *)

\* A worker that is not idle works on an activity that has an event.
WorkInv == \A w \in Workers : worker[w].pc # "idle" =>
               worker[w].act \in Activities /\ EventsOf(worker[w].act) # {}

\* Only Receive gives a worker another activity.
LEMMA WorkStep == IInv /\ WorkInv /\ [Next]_vars => WorkInv'
<1> SUFFICES ASSUME IInv, WorkInv, [Next]_vars PROVE WorkInv'
  OBVIOUS
<1>1. ASSUME NEW w \in Workers, NEW s, Goes(w, s),
             s.pc # "idle" => s.act \in Activities /\ EventsOf(s.act) # {}
      PROVE  WorkInv'
  <2>1. worker' = [v \in Workers |-> IF v = w THEN s ELSE worker[v]]
    BY <1>1 DEF Goes, IInv, ClockInv
  <2> QED BY <1>1, <2>1 DEF WorkInv
<1>2. CASE Tick \/ (\E f \in Feeds : Publish(f)) \/ UNCHANGED vars
  BY <1>2 DEF Tick, Publish, vars, WorkInv
<1>3. ASSUME NEW w \in Workers, Receive(w) PROVE WorkInv'
  <2>1. PICK act \in Activities : EventsOf(act) # {} /\ Goes(w, [pc |-> "lookup", act |-> act])
    BY <1>3 DEF Receive
  <2> QED BY <1>1, <2>1
<1>4. ASSUME NEW w \in Workers, Emit(w) PROVE WorkInv'
  BY <1>1, <1>4 DEF Emit, Idle
<1>5. ASSUME NEW w \in Workers, GetPriceUSD(w) PROVE WorkInv'
  <2>1. worker[w].act \in Activities /\ EventsOf(worker[w].act) # {}
    BY <1>5 DEF WorkInv, GetPriceUSD, NoFeed, ServeCached, Miss, DecimalsKnown, DecimalsFail,
                ReadRound, RoundFails, Stale, Store, At
  <2>2. ASSUME NEW s, Goes(w, s), s.act = worker[w].act PROVE WorkInv'
    BY <1>1, <2>1, <2>2
  <2>3. ASSUME NEW p, Priced(w, p) PROVE WorkInv'
    BY <2>2, <2>3 DEF Priced
  <2>4. CASE Miss(w)
    BY <2>2, <2>4 DEF Miss
  <2>5. CASE DecimalsKnown(w)
    BY <2>2, <2>5 DEF DecimalsKnown
  <2>6. CASE ReadRound(w)
    BY <2>2, <2>6 DEF ReadRound
  <2>7. CASE \/ NoFeed(w) \/ ServeCached(w) \/ DecimalsFail(w) \/ RoundFails(w) \/ Stale(w)
             \/ Store(w)
    BY <2>3, <2>7 DEF NoFeed, ServeCached, DecimalsFail, RoundFails, Stale, Store
  <2> QED BY <1>5, <2>4, <2>5, <2>6, <2>7 DEF GetPriceUSD
<1> QED BY <1>2, <1>3, <1>4, <1>5 DEF Next

\* A worker at work has an activity with an event, always.
LEMMA WorkHolds == Spec => []WorkInv
<1>1. Init => WorkInv
  BY DEF Init, Idle, WorkInv
<1> QED BY <1>1, WorkStep, Invariant, PTL DEF Spec

\* NotString is no string, None no number and no string.
ValuesApart ==
    /\ None \notin Nat /\ \A x, y : None # <<x, y>> /\ NotString # <<x, y>>
    /\ \A id \in DOMAIN ChainNames : ChainNames[id] \notin {None, NotString}

\* An amount on a chain is an unsigned integer.
AmountsNatural ==
    \A act \in Activities : act.kind \in {"message", "approval"} => act.amount \in Nat

\* The event a wormhole transfer, or an approval, stands for.  A bridged token is its last
\* 20 bytes, whatever chain it is native to.
DepositOf(act) ==
    [chain |-> Chain, type |-> "bridge_deposit", token |-> Lower(act.token.address),
     amount |-> Numeral(act.amount * Scale), source |-> Checksummed(TokenBridge),
     contract |-> Checksummed(Core), dest |-> WormholeChainID(act.target)]
ApprovalOf(act) ==
    [chain |-> Chain, type |-> "token_approval", token |-> Lower(act.token),
     amount |-> Numeral(act.amount * Scale), source |-> Checksummed(act.user),
     contract |-> Checksummed(act.token), dest |-> None]

\* Of the messages of the core contract only the bridge's own transfers become events.
LEMMA DepositEvents ==
    ASSUME ValuesApart, NEW act, act.kind = "message", EventsOf(act) # {}
    PROVE  /\ act.by = TokenBridge /\ act.payload \in TransferPayloads
           /\ Subscribed(Chain, Core) /\ EventsOf(act) = {DepositOf(act)}
<1> DEFINE data == [token |-> Lower(act.token.address),
                    amount |-> Numeral(act.amount * Scale),
                    sender |-> Checksummed(TokenBridge),
                    target_chain |-> WormholeChainID(act.target), contract |-> Checksummed(Core)]
           raw == [chain |-> Chain, type |-> "bridge_deposit", data |-> data]
           log == LogOf(act)
<1>1. /\ log.address = Core /\ log.topics = <<"LogMessagePublished", act.by>>
      /\ log.data.payload = act.payload /\ log.data.token = act.token
      /\ log.data.amount = act.amount /\ log.data.target = act.target
  BY DEF LogOf
<1>2. log.topics # <<>> /\ log.topics[1] = "LogMessagePublished" /\ log.topics[2] = act.by
  BY <1>1
<1>3. Decode(Chain, log) \subseteq {raw}
  BY <1>1, <1>2 DEF Decode, LogMessagePublished, Transfer
<1>4. /\ EventsOf(act) = UNION {Normalize(r) : r \in Decode(Chain, log)}
      /\ Subscribed(Chain, Core) /\ Decode(Chain, log) # {}
  <2>1. EventsOf(act) = UNION {Normalize(r) : r \in IF Subscribed(Chain, log.address)
                                                    THEN Decode(Chain, log) ELSE {}}
    BY DEF EventsOf
  <2> QED BY <1>1, <2>1
<1>5. act.by = TokenBridge /\ act.payload \in TransferPayloads
  BY <1>1, <1>2, <1>4 DEF Decode, LogMessagePublished, Transfer
<1>6. /\ data["token"] # NotString /\ data["amount"] # NotString /\ data["sender"] # NotString
      /\ data["contract"] # NotString /\ data["target_chain"] # NotString
  BY DEF ValuesApart, Lower, Numeral, Checksummed, WormholeChainID
<1>7. DOMAIN data = {"token", "amount", "sender", "target_chain", "contract"}
  OBVIOUS
<1>8. Normalize(raw) = {DepositOf(act)}
  <2>1. /\ TokenKey("bridge_deposit") = "token" /\ SenderKey("bridge_deposit") = "sender"
        /\ "bridge_deposit" \in EVMEvents
    BY DEF TokenKey, SenderKey, SolanaEvents, EVMEvents
  <2>2. /\ Field(data, "amount") = Numeral(act.amount * Scale)
        /\ Field(data, "sender") = Checksummed(TokenBridge)
        /\ Field(data, "contract") = Checksummed(Core)
        /\ IsString(data, "token") /\ data["token"] = Lower(act.token.address)
        /\ IsString(data, "target_chain") /\ data["target_chain"] = WormholeChainID(act.target)
    BY <1>6, <1>7 DEF Field, IsString
  <2>3. raw.chain = Chain /\ raw.type = "bridge_deposit" /\ raw.data = data
    OBVIOUS
  <2> HIDE DEF raw, data
  <2> QED BY <2>1, <2>2, <2>3 DEF Normalize, DepositOf
<1>9. Decode(Chain, log) = {raw}
  BY <1>3, <1>4
<1> HIDE DEF raw, log
<1> QED BY <1>4, <1>5, <1>8, <1>9

\* An approval becomes an event of the token's contract.
LEMMA ApprovalEvents ==
    ASSUME ValuesApart, NEW act, act.kind = "approval", EventsOf(act) # {}
    PROVE  Subscribed(Chain, act.token) /\ EventsOf(act) = {ApprovalOf(act)}
<1> DEFINE data == [token |-> Lower(act.token), sender |-> Checksummed(act.user),
                    spender |-> Checksummed(act.target), amount |-> Numeral(act.amount * Scale),
                    contract |-> Checksummed(act.token)]
           raw == [chain |-> Chain, type |-> "token_approval", data |-> data]
           log == LogOf(act)
<1>1. /\ log.address = act.token /\ log.topics = <<"Approval", act.user, act.target>>
      /\ log.data.value = act.amount
  BY DEF LogOf
<1>2. /\ log.topics # <<>> /\ log.topics[1] = "Approval" /\ log.topics[2] = act.user
      /\ log.topics[3] = act.target
  BY <1>1
<1>3. Decode(Chain, log) \subseteq {raw}
  BY <1>1, <1>2 DEF Decode, Approval
<1>4. /\ EventsOf(act) = UNION {Normalize(r) : r \in Decode(Chain, log)}
      /\ Subscribed(Chain, act.token) /\ Decode(Chain, log) # {}
  <2>1. EventsOf(act) = UNION {Normalize(r) : r \in IF Subscribed(Chain, log.address)
                                                    THEN Decode(Chain, log) ELSE {}}
    BY DEF EventsOf
  <2> QED BY <1>1, <2>1
<1>5. /\ data["token"] # NotString /\ data["amount"] # NotString /\ data["sender"] # NotString
      /\ data["contract"] # NotString
  BY DEF ValuesApart, Lower, Numeral, Checksummed
<1>6. DOMAIN data = {"token", "sender", "spender", "amount", "contract"}
  OBVIOUS
<1>7. Normalize(raw) = {ApprovalOf(act)}
  <2>1. /\ TokenKey("token_approval") = "token" /\ SenderKey("token_approval") = "sender"
        /\ "token_approval" \in EVMEvents
    BY DEF TokenKey, SenderKey, SolanaEvents, EVMEvents
  <2>2. /\ Field(data, "amount") = Numeral(act.amount * Scale)
        /\ Field(data, "sender") = Checksummed(act.user)
        /\ Field(data, "contract") = Checksummed(act.token)
        /\ IsString(data, "token") /\ data["token"] = Lower(act.token)
        /\ ~ IsString(data, "target_chain")
    BY <1>5, <1>6 DEF Field, IsString
  <2>3. raw.chain = Chain /\ raw.type = "token_approval" /\ raw.data = data
    OBVIOUS
  <2> HIDE DEF raw, data
  <2> QED BY <2>1, <2>2, <2>3 DEF Normalize, ApprovalOf
<1>8. Decode(Chain, log) = {raw}
  BY <1>3, <1>4
<1> HIDE DEF raw, log
<1> QED BY <1>4, <1>7, <1>8

\* What the enricher makes of an amount and a price (dollars, if the amount has no decimals).
Worth(act, price) ==
    IF price # None /\ act.amount > 0 THEN act.amount * price.value ELSE None

\* What the rules see of an activity: the event above, the registry's entry for the emitting
\* contract, the undivided amount times the price in use, nothing if there is no price,
\* and none but the bridge's own transfers as deposits.
SeenAs(w, e, contract) ==
    EnrichedOf(w) = [event |-> e, info |-> LookupContract(Chain, Checksummed(contract)),
                     usd |-> Worth(worker[w].act, worker[w].price)]
RulesSeeTheActivity ==
    \A w \in Enriched :
        LET act == worker[w].act
        IN /\ act.kind = "message" =>
                  /\ act.by = TokenBridge /\ act.payload \in TransferPayloads
                  /\ SeenAs(w, DepositOf(act), Core)
           /\ act.kind = "approval" => SeenAs(w, ApprovalOf(act), act.token)

\* Scaling an amount up and dividing by the scale loses nothing.
LEMMA ScaleCancels ==
    ASSUME NEW a \in Nat, NEW p \in Nat
    PROVE  (a * Scale > 0 <=> a > 0) /\ ((a * Scale) * p) \div Scale = a * p
<1>1. Scale \in Nat /\ Scale > 0
  BY EventsAssumption
<1>2. a * p \in Int /\ (a * Scale) * p = (a * p) * Scale
  BY <1>1
<1>3. \A n \in Int : (n * Scale) \div Scale = n
  BY <1>1
<1>4. a * Scale > 0 <=> a > 0
  BY <1>1
<1> QED BY <1>2, <1>3, <1>4

\* The enricher's amount_usd of a scaled amount.
LEMMA WorthOfAmount ==
    ASSUME NEW e, NEW a \in Nat, e.amount = Numeral(a * Scale), NEW p, p = None \/ p \in Nat
    PROVE  AmountUSD(e, p) = IF p # None /\ a > 0 THEN a * p ELSE None
<1>1. e.amount[2] = a * Scale /\ ParsesAsFloat(e.amount)
  BY DEF Numeral, ParsesAsFloat
<1>2. CASE p = None
  BY <1>2 DEF AmountUSD
<1>3. CASE p # None
  BY <1>1, <1>3, ScaleCancels DEF AmountUSD
<1> QED BY <1>2, <1>3

\* An event of the chain with the scaled amount of its activity is seen as such.
LEMMA EventSeen ==
    ASSUME ValuesApart, AmountsNatural, WorkInv, TypeOK, NEW w \in Enriched,
           worker[w].act.kind \in {"message", "approval"},
           NEW e, EventsOf(worker[w].act) = {e}, NEW c, e.chain = Chain,
           e.contract = Checksummed(c), e.amount = Numeral(worker[w].act.amount * Scale)
    PROVE  SeenAs(w, e, c)
<1> DEFINE act == worker[w].act
           p == IF worker[w].price = None THEN None ELSE worker[w].price.value
<1>1. w \in Workers /\ worker[w].pc = "enriched"
  BY DEF Enriched, At
<1>2. act.amount \in Nat
  BY <1>1 DEF WorkInv, AmountsNatural
<1>3. worker[w].price = None \/ worker[w].price.value \in Nat
  <2>1. Shaped(worker[w])
    BY <1>1, Parts
  <2>2. worker[w].price \in Price \cup {None}
    BY <1>1, <2>1 DEF Shaped, Idle
  <2> QED BY <2>2 DEF Price
<1>4. p = None \/ p \in Nat
  BY <1>3
<1>5. EventOf(act) = e
  BY DEF EventOf
<1>6. AmountUSD(e, p) = IF p # None /\ act.amount > 0 THEN act.amount * p ELSE None
  BY <1>2, <1>4, WorthOfAmount
<1>7. AmountUSD(e, p) = Worth(act, worker[w].price)
  BY <1>3, <1>6 DEF Worth, ValuesApart
<1>8. EnrichedOf(w) = Enrich(e, p)
  BY <1>5 DEF EnrichedOf
<1> HIDE DEF p, act
<1> QED BY <1>7, <1>8 DEF Enrich, SeenAs, act

\* From the contract's log to the rules, whatever the registry, the feeds and the workers:
\* decoder, normalizer and enricher hand every rule the activity's amount, destination and
\* source, an approval's token, and of a bridged token the last 20 bytes of its address,
\* which name the token only if it is native to this chain.
THEOREM TheActivityIsSeen ==
    ASSUME ValuesApart, AmountsNatural
    PROVE  Spec => []RulesSeeTheActivity
<1>1. ASSUME WorkInv, TypeOK PROVE RulesSeeTheActivity
  <2> SUFFICES ASSUME NEW w \in Enriched, NEW act, act = worker[w].act
               PROVE  /\ act.kind = "message" =>
                            /\ act.by = TokenBridge /\ act.payload \in TransferPayloads
                            /\ SeenAs(w, DepositOf(act), Core)
                      /\ act.kind = "approval" => SeenAs(w, ApprovalOf(act), act.token)
    BY DEF RulesSeeTheActivity
  <2>1. EventsOf(act) # {}
    BY <1>1 DEF Enriched, At, WorkInv
  <2>2. CASE act.kind = "message"
    <3>1. act.by = TokenBridge /\ act.payload \in TransferPayloads
          /\ EventsOf(act) = {DepositOf(act)}
      BY <2>1, <2>2, DepositEvents
    <3>2. /\ DepositOf(act).chain = Chain /\ DepositOf(act).contract = Checksummed(Core)
          /\ DepositOf(act).amount = Numeral(act.amount * Scale)
      BY DEF DepositOf
    <3>3. SeenAs(w, DepositOf(act), Core)
      BY <1>1, <2>2, <3>1, <3>2, EventSeen
    <3> QED BY <2>2, <3>1, <3>3
  <2>3. CASE act.kind = "approval"
    <3>1. EventsOf(act) = {ApprovalOf(act)}
      BY <2>1, <2>3, ApprovalEvents
    <3>2. /\ ApprovalOf(act).chain = Chain
          /\ ApprovalOf(act).contract = Checksummed(act.token)
          /\ ApprovalOf(act).amount = Numeral(act.amount * Scale)
      BY DEF ApprovalOf
    <3>3. SeenAs(w, ApprovalOf(act), act.token)
      BY <1>1, <2>3, <3>1, <3>2, EventSeen
    <3> QED BY <2>3, <3>3
  <2> QED BY <2>2, <2>3
<1> QED BY <1>1, WorkHolds, TypeCorrect, PTL

\* Which chain a bridged token is native to makes no difference to anything: two transfers
\* of tokens with the same last 20 bytes are the same event, looked up at the same feed.
THEOREM OriginIgnored ==
    ASSUME NEW act, NEW other, act.kind = "message", other.kind = "message",
           LogOf(act).data # None, LogOf(other).data # None,
           act.by = other.by, act.payload = other.payload, act.amount = other.amount,
           act.target = other.target, act.token.address = other.token.address
    PROVE  EventsOf(act) = EventsOf(other) /\ FeedOf(act) = FeedOf(other)
<1> DEFINE l == LogOf(act)
           m == LogOf(other)
<1>1. /\ l.address = m.address /\ l.topics = m.topics
      /\ l.topics = <<"LogMessagePublished", act.by>>
      /\ l.data.payload = m.data.payload /\ l.data.amount = m.data.amount
      /\ l.data.target = m.data.target /\ l.data.token.address = m.data.token.address
  BY DEF LogOf
<1>2. l.data # None /\ m.data # None
  OBVIOUS
<1>3. l.topics # <<>> /\ l.topics[1] = "LogMessagePublished"
  BY <1>1
<1> HIDE DEF l, m
<1>4. Transfer(Chain, l) = Transfer(Chain, m)
  BY <1>1 DEF Transfer
<1>5. Decode(Chain, l) = Decode(Chain, m)
  BY <1>1, <1>2, <1>3, <1>4 DEF Decode, LogMessagePublished
<1>6. EventsOf(act) = EventsOf(other)
  BY <1>1, <1>5 DEF EventsOf, l, m
<1>7. EventOf(act) = EventOf(other)
  BY <1>6 DEF EventOf
<1> QED BY <1>6, <1>7 DEF FeedOf

\* A rule like the shipped liquidity rule: a deposit for chain d of more than n.
LargeDeposit(n, d) ==
    <<[field |-> "amount_usd", op |-> "gt", value |-> Numeral(n)],
      [field |-> "destination_chain", op |-> "eq", value |-> d]>>

\* A rule on amount_usd and destination_chain holds of a deposit exactly if there is a
\* price, the amount times that price is above the threshold, and the bridge sends to
\* that chain; without a price it never holds, not even as zero.
RuleMeant(n, d) ==
    \A w \in Enriched :
        LET act == worker[w].act
        IN act.kind = "message" =>
               (MatchConditions(LargeDeposit(n, d), EnrichedOf(w))
                <=> /\ worker[w].price # None
                    /\ act.amount * worker[w].price.value > n
                    /\ WormholeChainID(act.target) = d)

\* What a rule reads of a deposit.
LEMMA FieldsOfDeposit ==
    ASSUME ValuesApart, AmountsNatural, WorkInv, TypeOK, RulesSeeTheActivity,
           NEW w \in Enriched, NEW act, act = worker[w].act, act.kind = "message"
    PROVE  /\ EnrichedOf(w).usd = Worth(act, worker[w].price)
           /\ EnrichedOf(w).event = DepositOf(act)
           /\ worker[w].price # None => worker[w].price.value \in Nat
           /\ act.amount \in Nat
           /\ GetFieldValue("destination_chain", EnrichedOf(w)) = WormholeChainID(act.target)
           /\ GetFieldValue("amount_usd", EnrichedOf(w))
              = IF EnrichedOf(w).usd # None THEN Numeral(EnrichedOf(w).usd) ELSE Empty
<1>1. /\ EnrichedOf(w).usd = Worth(act, worker[w].price)
      /\ EnrichedOf(w).event = DepositOf(act)
  BY DEF RulesSeeTheActivity, SeenAs
<1>2. w \in Workers /\ worker[w].pc = "enriched"
  BY DEF Enriched, At
<1>3. act.amount \in Nat
  BY <1>2 DEF WorkInv, AmountsNatural
<1>4. worker[w].price # None => worker[w].price.value \in Nat
  <2>1. Shaped(worker[w])
    BY <1>2, Parts
  <2>2. worker[w].price \in Price \cup {None}
    BY <1>2, <2>1 DEF Shaped, Idle
  <2> QED BY <2>2 DEF Price
<1>5. WormholeChainID(act.target) # None
  BY DEF WormholeChainID, ValuesApart
<1>6. GetFieldValue("destination_chain", EnrichedOf(w)) = WormholeChainID(act.target)
  <2>1. EnrichedOf(w).event.dest = WormholeChainID(act.target)
    BY <1>1 DEF DepositOf
  <2> QED BY <1>5, <2>1 DEF GetFieldValue
<1>7. GetFieldValue("amount_usd", EnrichedOf(w))
      = IF EnrichedOf(w).usd # None THEN Numeral(EnrichedOf(w).usd) ELSE Empty
  BY DEF GetFieldValue
<1> QED BY <1>1, <1>3, <1>4, <1>6, <1>7

\* Every threshold and every destination: the shipped rule fires for a deposit exactly if
\* there is a price for the last 20 bytes of its token, the undivided amount times that
\* price is above the threshold and the bridge sends to that destination, although amount,
\* price and chain pass through four stages as strings.
THEOREM LargeDepositsFire ==
    ASSUME ValuesApart, AmountsNatural, NEW n \in Nat, NEW d
    PROVE  Spec => []RuleMeant(n, d)
<1>1. ASSUME WorkInv, TypeOK, RulesSeeTheActivity PROVE RuleMeant(n, d)
  <2> SUFFICES ASSUME NEW w \in Enriched, NEW act, act = worker[w].act, act.kind = "message"
               PROVE  MatchConditions(LargeDeposit(n, d), EnrichedOf(w))
                      <=> /\ worker[w].price # None
                          /\ act.amount * worker[w].price.value > n
                          /\ WormholeChainID(act.target) = d
    BY DEF RuleMeant
  <2> DEFINE c1 == [field |-> "amount_usd", op |-> "gt", value |-> Numeral(n)]
             c2 == [field |-> "destination_chain", op |-> "eq", value |-> d]
             usd == EnrichedOf(w).usd
             s == GetFieldValue("amount_usd", EnrichedOf(w))
  <2>1. MatchConditions(LargeDeposit(n, d), EnrichedOf(w))
        <=> EvalCondition(c1, EnrichedOf(w)) /\ EvalCondition(c2, EnrichedOf(w))
    <3> DEFINE q == <<c1, c2>>
    <3>1. DOMAIN q = {1, 2} /\ q[1] = c1 /\ q[2] = c2
      OBVIOUS
    <3>2. LargeDeposit(n, d) = q
      BY DEF LargeDeposit
    <3> HIDE DEF q, c1, c2
    <3> QED BY <3>1, <3>2 DEF MatchConditions
  <2>2. EvalCondition(c2, EnrichedOf(w)) <=> WormholeChainID(act.target) = d
    BY <1>1, FieldsOfDeposit DEF EvalCondition
  <2>3. /\ usd = Worth(act, worker[w].price) /\ act.amount \in Nat
        /\ worker[w].price # None => worker[w].price.value \in Nat
        /\ s = IF usd # None THEN Numeral(usd) ELSE Empty
    BY <1>1, FieldsOfDeposit
  <2>4. EvalCondition(c1, EnrichedOf(w)) <=> CompareNumeric("gt", s, Numeral(n))
    BY DEF EvalCondition
  <2>5. CompareNumeric("gt", Empty, Numeral(n)) = FALSE
    BY DEF CompareNumeric, ParsesAsFloat, Empty, Text
  <2>6. \A v : CompareNumeric("gt", Numeral(v), Numeral(n)) <=> v > n
    BY DEF CompareNumeric, ParsesAsFloat, Numeral, Holds
  <2>7. EvalCondition(c1, EnrichedOf(w))
        <=> worker[w].price # None /\ act.amount * worker[w].price.value > n
    <3> HIDE DEF s, usd
    <3>1. CASE worker[w].price = None
      BY <2>3, <2>4, <2>5, <3>1 DEF Worth
    <3>2. CASE worker[w].price # None /\ act.amount = 0
      <4>1. usd = None /\ s = Empty
        BY <2>3, <3>2 DEF Worth
      <4>2. act.amount * worker[w].price.value = 0
        BY <2>3, <3>2
      <4> QED BY <2>4, <2>5, <4>1, <4>2
    <3>3. CASE worker[w].price # None /\ act.amount > 0
      <4>1. usd = act.amount * worker[w].price.value /\ usd \in Nat
        BY <2>3, <3>3 DEF Worth
      <4>2. s = Numeral(usd)
        BY <2>3, <4>1 DEF ValuesApart
      <4> QED BY <2>4, <2>6, <3>3, <4>1, <4>2
    <3> QED BY <2>3, <3>1, <3>2, <3>3
  <2> HIDE DEF c1, c2
  <2> QED BY <2>1, <2>2, <2>7
<1> QED BY <1>1, WorkHolds, TypeCorrect, TheActivityIsSeen, PTL

\* Without a price, or for an amount of zero, no comparison with amount_usd holds: neither
\* "above" nor "below", as a missing value read as zero would have it.
NothingIsWorthless ==
    \A w \in Enriched :
        LET act == worker[w].act
            unknown == worker[w].price = None \/ act.amount = 0
        IN act.kind = "message" /\ unknown =>
               \A op \in {"gt", "lt", "gte", "lte"} : \A v :
                   ~ EvalCondition([field |-> "amount_usd", op |-> op, value |-> v],
                                   EnrichedOf(w))

\* Neither a missing price nor a missing amount ever satisfies a comparison, whatever the
\* rule compares with.
THEOREM MissingComparesWithNothing ==
    ASSUME ValuesApart, AmountsNatural
    PROVE  Spec => []NothingIsWorthless
<1>1. ASSUME WorkInv, TypeOK, RulesSeeTheActivity PROVE NothingIsWorthless
  <2> SUFFICES ASSUME NEW w \in Enriched, NEW act, act = worker[w].act, act.kind = "message",
                      worker[w].price = None \/ act.amount = 0,
                      NEW op \in {"gt", "lt", "gte", "lte"}, NEW v
               PROVE  ~ EvalCondition([field |-> "amount_usd", op |-> op, value |-> v],
                                      EnrichedOf(w))
    BY DEF NothingIsWorthless
  <2>1. GetFieldValue("amount_usd", EnrichedOf(w)) = Empty
    BY <1>1, FieldsOfDeposit DEF Worth
  <2>2. ~ CompareNumeric(op, Empty, v)
    BY DEF CompareNumeric, ParsesAsFloat, Empty, Text
  <2> QED BY <2>1, <2>2 DEF EvalCondition
<1> QED BY <1>1, WorkHolds, TypeCorrect, TheActivityIsSeen, PTL

\* amount_usd of a deposit is in dollars only for tokens without decimals, whatever the
\* amount and the price, unless it is zero: AmountInDollars holds of no other.
DollarsOnlyUndivided ==
    \A w \in PricedWorkers :
        LET act == worker[w].act
            usd == EnrichedOf(w).usd
        IN act.kind = "message" /\ act.amount > 0 /\ worker[w].price.value > 0 =>
               /\ usd = act.amount * worker[w].price.value
               /\ (usd * 10 ^ act.tokenDecimals = act.amount * worker[w].price.value
                   <=> 10 ^ act.tokenDecimals = 1)

\* The amount is never divided by the token's decimals.
THEOREM DecimalsNeverDivide ==
    ASSUME ValuesApart, AmountsNatural,
           \A act \in Activities : act.kind = "message" => 10 ^ act.tokenDecimals \in Nat
    PROVE  Spec => []DollarsOnlyUndivided
<1>1. ASSUME WorkInv, TypeOK, RulesSeeTheActivity PROVE DollarsOnlyUndivided
  <2> SUFFICES ASSUME NEW w \in PricedWorkers, NEW act, act = worker[w].act,
                      act.kind = "message", act.amount > 0, worker[w].price.value > 0
               PROVE  LET usd == EnrichedOf(w).usd
                      IN /\ usd = act.amount * worker[w].price.value
                         /\ (usd * 10 ^ act.tokenDecimals = act.amount * worker[w].price.value
                             <=> 10 ^ act.tokenDecimals = 1)
    BY DEF DollarsOnlyUndivided
  <2> DEFINE p == worker[w].price.value
             usd == EnrichedOf(w).usd
             ten == 10 ^ act.tokenDecimals
  <2>1. w \in Enriched /\ worker[w].price # None /\ w \in Workers /\ worker[w].pc = "enriched"
    BY DEF PricedWorkers, Enriched, At
  <2>2. /\ usd = Worth(act, worker[w].price)
        /\ p \in Nat /\ act.amount \in Nat
    BY <1>1, <2>1, FieldsOfDeposit
  <2>3. ten \in Nat
    BY <1>1, <2>1 DEF WorkInv
  <2>4. usd = act.amount * p
    BY <2>1, <2>2 DEF Worth
  <2>5. p > 0
    OBVIOUS
  <2> HIDE DEF p, usd, ten
  <2>6. usd \in Nat /\ usd > 0
    BY <2>2, <2>4, <2>5
  <2>7. usd * ten = usd <=> ten = 1
    BY <2>3, <2>6
  <2>8. usd * ten = act.amount * p <=> ten = 1
    BY <2>4, <2>7
  <2> QED BY <2>4, <2>8 DEF p, usd, ten
<1> QED BY <1>1, WorkHolds, TypeCorrect, TheActivityIsSeen, PTL

\* A correlation of approvals with deposits by "source_address", as rules.toml has
\* it, joins no user's approval with a deposit: every deposit has the bridge as its source.
SourcesMeet ==
    \A v, w \in Enriched :
        LET approval == worker[v].act
        IN /\ approval.kind = "approval" /\ worker[w].act.kind = "message"
           /\ EnrichedOf(v).event.source = EnrichedOf(w).event.source
           => approval.user = TokenBridge

\* Only the bridge's own approvals share the source address of a deposit.
THEOREM UsersMeetNoDeposit ==
    ASSUME ValuesApart, AmountsNatural
    PROVE  Spec => []SourcesMeet
<1>1. ASSUME RulesSeeTheActivity PROVE SourcesMeet
  <2> SUFFICES ASSUME NEW v \in Enriched, NEW w \in Enriched,
                      worker[v].act.kind = "approval", worker[w].act.kind = "message",
                      EnrichedOf(v).event.source = EnrichedOf(w).event.source
               PROVE  worker[v].act.user = TokenBridge
    BY DEF SourcesMeet
  <2>1. /\ EnrichedOf(v).event = ApprovalOf(worker[v].act)
        /\ EnrichedOf(w).event = DepositOf(worker[w].act)
    BY <1>1 DEF RulesSeeTheActivity, SeenAs
  <2>2. Checksummed(worker[v].act.user) = Checksummed(TokenBridge)
    BY <2>1 DEF ApprovalOf, DepositOf
  <2> QED BY <2>2 DEF Checksummed
<1> QED BY <1>1, TheActivityIsSeen, PTL
===============================================================================
