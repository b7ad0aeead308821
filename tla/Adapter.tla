------------------------------- MODULE Adapter -------------------------------
(***************************************************************************)
(* The EVM adapter over a subscription that pushes logs:                   *)
(* Adapter.Start and processLog of src/internal/adapter/evm/evm.go inside  *)
(* WithReconnect of src/internal/adapter/reconnect.go, with the block      *)
(* timestamp cache and what the status tracker is told.  One goroutine     *)
(* runs all of it; the node, the reader of Events() and the cancellation   *)
(* interleave with it.  The polling subscription is the module Poller.     *)
(* A log is its number in the order of emission; the header of block b     *)
(* carries the time TimeOf(b), and 0 stands for no timestamp, as in the    *)
(* code.                                                                   *)
(***************************************************************************)
EXTENDS Integers, Sequences, FiniteSets

CONSTANTS Backoffs,     \* the [initial, max, retries] of a chain's configuration
          CacheSize,    \* tuning.block_cache_size
          EventBuffer,  \* event_buffer
          MaxBlock,     \* bound: the newest block
          MaxLogs       \* bound: logs the subscriptions deliver

\* An accepted configuration may have any number of retries but 0, which
\* applyDefaults replaces, and durations of either sign.
ASSUME ConfigAssumption ==
    /\ Backoffs \subseteq [initial : Int, max : Int, retries : Int]
    /\ CacheSize \in Nat \ {0} /\ EventBuffer \in Nat \ {0}
    /\ MaxBlock \in Nat \ {0} /\ MaxLogs \in Nat

VARIABLES cfg,        \* the chain's backoff configuration
          cancelled,  \* the context is done
          pc,         \* where Start is
          attempt, backoff,       \* the variables of WithReconnect
          sub,        \* subscriptions so far; the last one is alive in Subscribed
          emitted,    \* history: the logs subscriptions delivered, with the subscription
          logs,       \* the channel of the live subscription
          cur, ts,    \* the log processLog holds, and its timestamp; ts is also the
                      \* tracker's LastEventAt, which changes with lastBlock
          entries, latest,        \* BlockCache
          connected, lastBlock,   \* the tracker's ChainState
          events, closed,         \* a.events
          taken,      \* history: what the reader received
          losses,     \* history: connect functions that returned an error
          waits,      \* history: the delays waited between attempts
          unstamped,  \* history: logs whose header could not be fetched
          result      \* what Start returned: "running", "nil", "cancelled", "exhausted"

reconnect == <<attempt, backoff, losses, waits>>
cache == <<entries, latest>>
status == <<connected, lastBlock>>
output == <<events, closed, taken>>
vars == <<cfg, cancelled, pc, reconnect, sub, emitted, logs, cur, ts, cache, status,
          output, unstamped, result>>

Subscribed == pc \in {"reading", "header", "send"}
TimeOf(b) == b
-----------------------------------------------------------------------------
Init ==
    /\ cfg \in Backoffs
    /\ cancelled = FALSE /\ pc = "top"
    /\ attempt = 0 /\ backoff = cfg.initial /\ losses = 0 /\ waits = <<>>
    /\ sub = 0 /\ emitted = <<>> /\ logs = <<>> /\ cur = 0 /\ ts = 0
    /\ entries = <<>> /\ latest = 0
    /\ connected = FALSE /\ lastBlock = 0
    /\ events = <<>> /\ closed = FALSE /\ taken = <<>>
    /\ unstamped = {} /\ result = "running"

(* The environment. *)

Cancel ==
    /\ ~ cancelled
    /\ cancelled' = TRUE
    /\ UNCHANGED <<cfg, pc, reconnect, sub, emitted, logs, cur, ts, cache, status, output,
                   unstamped, result>>

\* The node pushes a matching log.  After a reorganisation its block may be lower
\* than that of the log before.  The client library queues what does not fit.  Nobody
\* looks at the block of a log that cannot be decoded; it is 0 here.
Emit ==
    /\ Subscribed /\ Len(emitted) < MaxLogs
    /\ \E b \in 0..MaxBlock :
           emitted' = Append(emitted, [block |-> b, decodable |-> b > 0, sub |-> sub])
    /\ logs' = Append(logs, Len(emitted) + 1)
    /\ UNCHANGED <<cfg, cancelled, pc, reconnect, sub, cur, ts, cache, status, output,
                   unstamped, result>>

\* The reader of Events(); nothing obliges it to read.
Take ==
    /\ events # <<>>
    /\ taken' = Append(taken, Head(events))
    /\ events' = Tail(events)
    /\ UNCHANGED <<cfg, cancelled, pc, reconnect, sub, emitted, logs, cur, ts, cache, status,
                   closed, unstamped, result>>
-----------------------------------------------------------------------------
(* WithReconnect. *)

\* What the adapter tells the tracker.
SetConnected(live) == connected' = live /\ UNCHANGED lastBlock
UpdateBlock(block) == lastBlock' = block /\ UNCHANGED connected

\* Start is about to return r; its deferred calls are Disconnect and CloseEvents.
Leave(r) == pc' = "ending" /\ result' = r

\* The head of the loop: no attempt is left (only when retries < 1), the context
\* is done, or connect is called.
Exhausted ==
    /\ pc = "top" /\ attempt >= cfg.retries
    /\ Leave("exhausted")
    /\ UNCHANGED <<cfg, cancelled, reconnect, sub, emitted, logs, cur, ts, cache, status,
                   output, unstamped>>

Connect ==
    /\ pc = "top" /\ attempt < cfg.retries
    /\ IF cancelled THEN Leave("cancelled") ELSE pc' = "connecting" /\ UNCHANGED result
    /\ UNCHANGED <<cfg, cancelled, reconnect, sub, emitted, logs, cur, ts, cache, status,
                   output, unstamped>>

\* connect returned an error: the checks of the context and of the last attempt.
Failed ==
    /\ pc = "failed"
    /\ losses' = losses + 1
    /\ IF cancelled THEN Leave("cancelled")
       ELSE IF attempt = cfg.retries - 1 THEN Leave("exhausted")
       ELSE pc' = "backoff" /\ UNCHANGED result
    /\ UNCHANGED <<cfg, cancelled, attempt, backoff, waits, sub, emitted, logs, cur, ts, cache,
                   status, output, unstamped>>

Smaller(a, b) == IF a < b THEN a ELSE b

BackoffElapses ==
    /\ pc = "backoff"
    /\ waits' = Append(waits, backoff)
    /\ backoff' = Smaller(2 * backoff, cfg.max)
    /\ attempt' = attempt + 1
    /\ pc' = "top"
    /\ UNCHANGED <<cfg, cancelled, losses, sub, emitted, logs, cur, ts, cache, status, output,
                   unstamped, result>>

BackoffCancelled ==
    /\ pc = "backoff" /\ cancelled
    /\ Leave("cancelled")
    /\ UNCHANGED <<cfg, cancelled, reconnect, sub, emitted, logs, cur, ts, cache, status,
                   output, unstamped>>
-----------------------------------------------------------------------------
(* The connect function: subscribe, then loop over logs, errors and the context. *)

\* createStrategy and Subscribe succeed.  An answer under way when the context is
\* cancelled may still count.
SubscribeAgainFresh ==
    /\ pc = "connecting"
    /\ pc' = "reading" /\ sub' = sub + 1 /\ logs' = <<>>
    /\ attempt' = 0 /\ backoff' = cfg.initial
    /\ SetConnected(TRUE)
    /\ UNCHANGED <<cfg, cancelled, losses, waits, emitted, cur, ts, cache, output, unstamped,
                   result>>
Subscribe ==
    /\ pc = "connecting"
    /\ pc' = "reading" /\ sub' = sub + 1 /\ logs' = <<>>
    /\ SetConnected(TRUE)
    /\ UNCHANGED <<cfg, cancelled, reconnect, emitted, cur, ts, cache, output, unstamped,
                   result>>

SubscribeFails ==
    /\ pc = "connecting"
    /\ pc' = "failed"
    /\ UNCHANGED <<cfg, cancelled, reconnect, sub, emitted, logs, cur, ts, cache, status,
                   output, unstamped, result>>

\* sub.Err() reports an error: sub.Unsubscribe discards what is in the channel.
SubscriptionLost ==
    /\ pc = "reading"
    /\ pc' = "failed" /\ logs' = <<>>
    /\ UNCHANGED <<cfg, cancelled, reconnect, sub, emitted, cur, ts, cache, status, output,
                   unstamped, result>>

\* A strategy closes its log channel, or reports nil: connect returns nil.
SubscriptionEnds ==
    /\ pc = "reading"
    /\ Leave("nil") /\ logs' = <<>>
    /\ UNCHANGED <<cfg, cancelled, reconnect, sub, emitted, cur, ts, cache, status, output,
                   unstamped>>

\* case <-ctx.Done(): connect returns ctx.Err(), and so does WithReconnect.
ReadingCancelled ==
    /\ pc = "reading" /\ cancelled
    /\ Leave("cancelled") /\ logs' = <<>>
    /\ losses' = losses + 1
    /\ UNCHANGED <<cfg, cancelled, attempt, backoff, waits, sub, emitted, cur, ts, cache,
                   status, output, unstamped>>
-----------------------------------------------------------------------------
(* processLog. *)

BlockOf(l) == emitted[l].block

\* A log the decoder rejects is dropped.
SkipUndecodable ==
    /\ pc = "reading" /\ logs # <<>> /\ ~ emitted[Head(logs)].decodable
    /\ logs' = Tail(logs)
    /\ UNCHANGED <<cfg, cancelled, pc, reconnect, sub, emitted, cur, ts, cache, status, output,
                   unstamped, result>>

\* The log's timestamp is known to be t: the tracker is told, the send comes next.
Stamped(l, t) ==
    /\ ts' = t /\ pc' = "send"
    /\ UpdateBlock(BlockOf(l))

CacheHit ==
    /\ pc = "reading" /\ logs # <<>> /\ emitted[Head(logs)].decodable
    /\ BlockOf(Head(logs)) \in DOMAIN entries
    /\ cur' = Head(logs) /\ logs' = Tail(logs)
    /\ Stamped(cur', entries[BlockOf(cur')])
    /\ UNCHANGED <<cfg, cancelled, reconnect, sub, emitted, cache, output, unstamped, result>>

CacheMiss ==
    /\ pc = "reading" /\ logs # <<>> /\ emitted[Head(logs)].decodable
    /\ BlockOf(Head(logs)) \notin DOMAIN entries
    /\ cur' = Head(logs) /\ logs' = Tail(logs)
    /\ pc' = "header"
    /\ UNCHANGED <<cfg, cancelled, reconnect, sub, emitted, ts, cache, status, output,
                   unstamped, result>>

\* BlockCache.Set.
EvictWhenNewer(b, t) ==
    LET known == [c \in DOMAIN entries \cup {b} |-> IF c = b THEN t ELSE entries[c]]
    IN /\ latest' = IF b > latest THEN b ELSE latest
       /\ entries' = IF b > latest
                     THEN [c \in {c \in DOMAIN known : c + CacheSize >= b} |-> known[c]]
                     ELSE known
\* The numbers are unsigned: there is a cutoff only above CacheSize.
Set(b, t) ==
    LET known == [c \in DOMAIN entries \cup {b} |-> IF c = b THEN t ELSE entries[c]]
    IN /\ latest' = IF b > latest THEN b ELSE latest
       /\ entries' = IF latest' > CacheSize
                     THEN [c \in {c \in DOMAIN known : c >= latest' - CacheSize} |-> known[c]]
                     ELSE known

HeaderArrives ==
    /\ pc = "header"
    /\ Set(BlockOf(cur), TimeOf(BlockOf(cur)))
    /\ Stamped(cur, TimeOf(BlockOf(cur)))
    /\ UNCHANGED <<cfg, cancelled, reconnect, sub, emitted, logs, cur, output, unstamped, result>>

\* The event goes out without a timestamp, and nothing is cached.
HeaderFailsKeepsOld ==
    /\ pc = "header"
    /\ Stamped(cur, ts) /\ unstamped' = unstamped \cup {cur}
    /\ UNCHANGED <<cfg, cancelled, reconnect, sub, emitted, logs, cur, cache, output, result>>
HeaderFails ==
    /\ pc = "header"
    /\ Stamped(cur, 0) /\ unstamped' = unstamped \cup {cur}
    /\ UNCHANGED <<cfg, cancelled, reconnect, sub, emitted, logs, cur, cache, output, result>>

SendUnbounded ==
    /\ pc = "send"
    /\ events' = Append(events, [log |-> cur, ts |-> ts])
    /\ pc' = "reading"
    /\ UNCHANGED <<cfg, cancelled, reconnect, sub, emitted, logs, cur, ts, cache, status,
                   closed, taken, unstamped, result>>
Send ==
    /\ pc = "send" /\ Len(events) < EventBuffer
    /\ events' = Append(events, [log |-> cur, ts |-> ts])
    /\ pc' = "reading"
    /\ UNCHANGED <<cfg, cancelled, reconnect, sub, emitted, logs, cur, ts, cache, status,
                   closed, taken, unstamped, result>>

DropWhenFull ==
    /\ pc = "send" /\ (cancelled \/ Len(events) = EventBuffer)
    /\ pc' = "reading"
    /\ UNCHANGED <<cfg, cancelled, reconnect, sub, emitted, logs, cur, ts, cache, status,
                   output, unstamped, result>>
NeverAbandon ==
    /\ pc = "send" /\ cancelled /\ Len(events) < EventBuffer
    /\ pc' = "reading"
    /\ UNCHANGED <<cfg, cancelled, reconnect, sub, emitted, logs, cur, ts, cache, status,
                   output, unstamped, result>>
\* case <-ctx.Done() of the send; the loop goes on until it sees the context too.
AbandonSend ==
    /\ pc = "send" /\ cancelled
    /\ pc' = "reading"
    /\ UNCHANGED <<cfg, cancelled, reconnect, sub, emitted, logs, cur, ts, cache, status,
                   output, unstamped, result>>
-----------------------------------------------------------------------------
(* The deferred calls of Start, last one first. *)

StaysConnected ==
    /\ pc = "ending"
    /\ pc' = "closing"
    /\ UNCHANGED <<cfg, cancelled, reconnect, sub, emitted, logs, cur, ts, cache, status,
                   output, unstamped, result>>
Disconnect ==
    /\ pc = "ending"
    /\ SetConnected(FALSE) /\ pc' = "closing"
    /\ UNCHANGED <<cfg, cancelled, reconnect, sub, emitted, logs, cur, ts, cache, output,
                   unstamped, result>>

CloseEvents ==
    /\ pc = "closing"
    /\ closed' = TRUE /\ pc' = "returned"
    /\ UNCHANGED <<cfg, cancelled, reconnect, sub, emitted, logs, cur, ts, cache, status,
                   events, taken, unstamped, result>>

ProcessLog ==
    \/ SkipUndecodable \/ CacheHit \/ CacheMiss \/ HeaderArrives \/ HeaderFails
    \/ Send \/ AbandonSend

Next ==
    \/ Cancel \/ Emit \/ Take
    \/ Exhausted \/ Connect \/ Failed \/ BackoffElapses \/ BackoffCancelled
    \/ Subscribe \/ SubscribeFails \/ SubscriptionLost \/ SubscriptionEnds \/ ReadingCancelled
    \/ ProcessLog
    \/ Disconnect \/ CloseEvents

Spec == Init /\ [][Next]_vars

\* The goroutine runs, timers fire, and calls to the node end: with an answer, an
\* error, or the context's.  The reader of Events() owes nothing.
Fairness ==
    /\ WF_vars(Exhausted \/ Connect \/ Failed) /\ WF_vars(BackoffElapses \/ BackoffCancelled)
    /\ WF_vars(Subscribe \/ SubscribeFails)
    /\ WF_vars(ProcessLog) /\ SF_vars(ReadingCancelled)
    /\ WF_vars(Disconnect \/ CloseEvents)

FairSpec == Spec /\ Fairness
-----------------------------------------------------------------------------
(* Properties *)

Place == {"top", "connecting", "reading", "header", "send", "failed", "backoff",
          "ending", "closing", "returned"}

\* The adapter's state keeps its shape, its event channel its capacity, and the
\* attempts their limit.
TypeOK ==
    /\ cfg \in Backoffs /\ cancelled \in BOOLEAN /\ pc \in Place
    /\ attempt \in Nat /\ (attempt > 0 => attempt <= cfg.retries) /\ backoff \in Int
    /\ losses \in Nat /\ waits \in Seq(Int) /\ sub \in Nat
    /\ emitted \in Seq([block : 0..MaxBlock, decodable : BOOLEAN, sub : Nat])
    /\ logs \in Seq(1..Len(emitted)) /\ cur \in 0..Len(emitted) /\ ts \in Nat
    /\ entries \in [DOMAIN entries -> Nat] /\ DOMAIN entries \subseteq 1..MaxBlock
    /\ latest \in 0..MaxBlock /\ lastBlock \in 0..MaxBlock
    /\ connected \in BOOLEAN /\ closed \in BOOLEAN
    /\ taken \in Seq([log : 1..Len(emitted), ts : Nat])
    /\ events \in Seq([log : 1..Len(emitted), ts : Nat]) /\ Len(events) <= EventBuffer
    /\ unstamped \subseteq 1..Len(emitted)
    /\ result \in {"running", "nil", "cancelled", "exhausted"}

\* Whatever order the blocks come in, reorganised chains included: the cache holds
\* the newest block it was given and none older than CacheSize blocks before it.
CacheWindow ==
    /\ latest > 0 => latest \in DOMAIN entries
    /\ DOMAIN entries \subseteq (latest - CacheSize)..latest

\* Everything given to the reader of Events, in order.
Handed == taken \o events

\* An event carries the time of its own block, also when it comes from the cache;
\* it has no timestamp exactly when its own header could not be fetched, and such a
\* missing timestamp is never cached for later events.
EventStamped ==
    /\ \A b \in DOMAIN entries : entries[b] = TimeOf(b)
    /\ \A i \in DOMAIN Handed :
           Handed[i].ts = IF Handed[i].log \in unstamped THEN 0
                          ELSE TimeOf(BlockOf(Handed[i].log))

\* The logs processLog has accepted so far, the one in hand included.
Accepted == [i \in DOMAIN Handed |-> Handed[i].log]
            \o (IF pc \in {"header", "send"} THEN <<cur>> ELSE <<>>)
AcceptedLogs == {Accepted[i] : i \in DOMAIN Accepted}
Decodable == {l \in DOMAIN emitted : emitted[l].decodable}

\* Over all connections, events leave in the order of emission and none twice.  Before
\* a cancellation a decodable log is missing only if its subscription broke before
\* the adapter got to it: a full channel or a missing header drops nothing.
NothingSkipped ==
    /\ \A i, j \in DOMAIN Accepted : i < j => Accepted[i] < Accepted[j]
    /\ ~ cancelled => \A l \in Decodable :
           l \in AcceptedLogs
           \/ IF Subscribed /\ emitted[l].sub = sub
              THEN \E i \in DOMAIN logs : logs[i] = l
              ELSE \A m \in AcceptedLogs : emitted[m].sub = emitted[l].sub => m < l

\* max_retries counts the failed connections of the whole life of the adapter,
\* however well it worked in between; after the last failure nothing is waited for.
\* The adapter gives up exactly then.  Each wait is the one before it doubled and
\* capped, whatever connections succeeded in between; the first is not capped.
RetryDiscipline ==
    LET allowed == IF cfg.retries < 0 THEN 0 ELSE cfg.retries
    IN /\ losses <= allowed /\ sub <= allowed
       /\ result = "exhausted" => losses = allowed
       /\ waits # <<>> => Len(waits) < allowed /\ waits[1] = cfg.initial
       /\ \A i \in DOMAIN waits :
              i > 1 => waits[i] = Smaller(2 * waits[i - 1], cfg.max)

\* The tracker never denies a live subscription, no longer claims one when the
\* channel closes, and its last block is that of the last event produced.
TrackerAgrees ==
    LET produced == [i \in DOMAIN Handed |-> Handed[i].log]
                    \o (IF pc = "send" THEN <<cur>> ELSE <<>>)
    IN /\ Subscribed => connected
       /\ closed => ~ connected
       /\ ~ cancelled =>
              lastBlock = IF produced = <<>> THEN 0 ELSE BlockOf(produced[Len(produced)])

\* A cancelled adapter returns and closes its channel, wherever it is: connecting,
\* waiting to reconnect, or holding an event nobody will ever read.
AdapterEnds == cancelled ~> closed
=============================================================================
