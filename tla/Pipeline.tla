------------------------------ MODULE Pipeline ------------------------------
(***************************************************************************)
(* The goroutines of src/cmd/oracle/main.go and the channels between them: *)
(*                                                                         *)
(*   adapter -events-> forwarder -raw-> normalizer -chain-> workers        *)
(*           -enriched-> engine -signals-> emitter                         *)
(*                                                                         *)
(* with the cancellation of the context, the closing of the channels, the  *)
(* stop of the gRPC server and the WaitGroup main waits for at the end.    *)
(* What a stage computes is abstracted to what it sends on: an event is    *)
(* <<e, 0>>, the k-th signal the engine derives from it is <<e, k>>.       *)
(***************************************************************************)
EXTENDS Naturals, Sequences, SequencesExt

CONSTANTS Workers,         \* the enricher's worker goroutines
          Capacity,        \* the buffer of each channel
          Malformed,       \* events Normalize returns an error for
          SignalCount,     \* signals the engine makes of each event
          Wirings,         \* does the forwarder wait for Start to return?  TRUE in
                           \* main.go; FALSE in e2e_test.go
          MaxLogs,         \* bound: logs the chain delivers
          MaxSubscribers   \* bound: streams open at a time

Channels == {"events", "raw", "chain", "enriched", "signals"}
Goroutines == {"adapter", "forwarder", "normalizer", "engine", "emitter"} \cup Workers

ASSUME ConfigAssumption ==
    /\ MaxLogs \in Nat
    /\ MaxSubscribers \in Nat
    /\ Wirings \subseteq BOOLEAN
    /\ Malformed \subseteq 1..MaxLogs
    /\ SignalCount \in [1..MaxLogs -> Nat]
    /\ Capacity \in [Channels -> Nat \ {0}]
    \* applyDefaults replaces 0; make(chan, n) panics before any goroutine for n < 0.

ASSUME WorkersAssumption ==
    /\ Workers # {}
    /\ Workers \cap {"adapter", "forwarder", "normalizer", "engine", "emitter"} = {}

VARIABLES cancelled,   \* ctx is done
          pc,          \* [Goroutines -> {"start", "recv", "send", "done"}]
          held,        \* what a goroutine took and has yet to send
          chan,        \* the buffered items of each channel
          closed,      \* the channels that are closed
          produced,    \* logs the adapter turned into events
          emitted,     \* signals handed to Emitter.Emit, in order
          grpc,        \* "serving", "draining", "stopped"
          subscribers, \* open SubscribeSignals streams
          returned     \* main is past wg.Wait

vars == <<cancelled, pc, held, chan, closed, produced, emitted, grpc, subscribers, returned>>
server == <<grpc, subscribers, returned>>
-----------------------------------------------------------------------------
In(g) == CASE g = "forwarder" -> "events"
           [] g = "normalizer" -> "raw"
           [] g \in Workers -> "chain"
           [] g = "engine" -> "enriched"
           [] g = "emitter" -> "signals"

Out(g) == CASE g = "adapter" -> "events"
            [] g = "forwarder" -> "raw"
            [] g = "normalizer" -> "chain"
            [] g \in Workers -> "enriched"
            [] g = "engine" -> "signals"

Readers == Goroutines \ {"adapter"}
\* The goroutines whose sends select on ctx.Done too, and which return then.
Stages == Workers \cup {"normalizer", "engine"}

\* What a stage sends on for an item it received.
ResultReversed(g, x) ==
    CASE g = "normalizer" -> IF x[1] \in Malformed THEN <<>> ELSE <<x>>
      [] g = "engine" -> LET n == SignalCount[x[1]] IN [k \in 1..n |-> <<x[1], n + 1 - k>>]
      [] g = "emitter" -> <<>>
      [] OTHER -> <<x>>
Result(g, x) ==
    CASE g = "normalizer" -> IF x[1] \in Malformed THEN <<>> ELSE <<x>>
      [] g = "engine" -> [k \in 1..SignalCount[x[1]] |-> <<x[1], k>>]
      [] g = "emitter" -> <<>>
      [] OTHER -> <<x>>

\* A goroutine closes its output when it returns; the enricher's output and
\* rawEvents are closed by a goroutine that waits for all the writers.
AnyWriter(c) == {CHOOSE g \in Goroutines \ {"emitter"} : Out(g) = c}
Writers(c) == {g \in Goroutines \ {"emitter"} : Out(g) = c}
-----------------------------------------------------------------------------
Init ==
    /\ cancelled = FALSE
    /\ \E waits \in Wirings :
           pc = [g \in Goroutines |->
                    IF g = "forwarder" /\ waits THEN "start" ELSE "recv"]
    /\ held = [g \in Goroutines |-> <<>>]
    /\ chan = [c \in Channels |-> <<>>]
    /\ closed = {}
    /\ produced = 0
    /\ emitted = <<>>
    /\ grpc = "serving"
    /\ subscribers = 0
    /\ returned = FALSE

\* SIGINT or SIGTERM, at any time.
Cancel ==
    /\ ~cancelled
    /\ cancelled' = TRUE
    /\ UNCHANGED <<pc, held, chan, closed, produced, emitted, server>>

LogRepeats ==
    /\ pc["adapter"] = "recv" /\ produced < MaxLogs
    /\ produced' \in {produced, produced + 1}
    /\ held' = [held EXCEPT !["adapter"] = << <<produced + 1, 0>> >>]
    /\ pc' = [pc EXCEPT !["adapter"] = "send"]
    /\ UNCHANGED <<cancelled, chan, closed, emitted, server>>

\* The adapter's select takes a log; processLog decodes it into an event.
LogArrives ==
    /\ pc["adapter"] = "recv" /\ produced < MaxLogs
    /\ produced' = produced + 1
    /\ held' = [held EXCEPT !["adapter"] = << <<produced + 1, 0>> >>]
    /\ pc' = [pc EXCEPT !["adapter"] = "send"]
    /\ UNCHANGED <<cancelled, chan, closed, emitted, server>>

\* Adapter.Start returns: ctx is done, the retries are exhausted, or the
\* subscription ended without an error.
AdapterReturns ==
    /\ pc["adapter"] = "recv"
    /\ pc' = [pc EXCEPT !["adapter"] = "done"]
    /\ UNCHANGED <<cancelled, held, chan, closed, produced, emitted, server>>

\* The forwarder of main.go begins to range once Start has returned.
ForwarderStarts ==
    /\ pc["forwarder"] = "start" /\ pc["adapter"] = "done"
    /\ pc' = [pc EXCEPT !["forwarder"] = "recv"]
    /\ UNCHANGED <<cancelled, held, chan, closed, produced, emitted, server>>

\* One round of a range loop.  A stage that finds ctx done returns, and the
\* item it received is gone; the forwarder does not look at ctx.
Receive(g) ==
    /\ pc[g] = "recv" /\ chan[In(g)] # <<>>
    /\ LET x == Head(chan[In(g)])
           stops == cancelled /\ g # "forwarder"
           result == IF stops THEN <<>> ELSE Result(g, x)
       IN /\ chan' = [chan EXCEPT ![In(g)] = Tail(@)]
          /\ held' = [held EXCEPT ![g] = result]
          /\ pc' = [pc EXCEPT ![g] = IF stops THEN "done"
                                     ELSE IF result = <<>> THEN "recv" ELSE "send"]
          /\ emitted' = IF g = "emitter" /\ ~stops THEN Append(emitted, x) ELSE emitted
    /\ UNCHANGED <<cancelled, closed, produced, server>>

RangeEndsEarly(g) ==
    /\ pc[g] = "recv" /\ In(g) \in closed
    /\ pc' = [pc EXCEPT ![g] = "done"]
    /\ UNCHANGED <<cancelled, held, chan, closed, produced, emitted, server>>

\* The range loop ends: the input is closed and empty.
RangeEnds(g) ==
    /\ pc[g] = "recv" /\ chan[In(g)] = <<>> /\ In(g) \in closed
    /\ pc' = [pc EXCEPT ![g] = "done"]
    /\ UNCHANGED <<cancelled, held, chan, closed, produced, emitted, server>>

SendUnbounded(g) ==
    /\ pc[g] = "send"
    /\ chan' = [chan EXCEPT ![Out(g)] = Append(@, Head(held[g]))]
    /\ held' = [held EXCEPT ![g] = Tail(@)]
    /\ pc' = [pc EXCEPT ![g] = IF Len(held[g]) = 1 THEN "recv" ELSE "send"]
    /\ UNCHANGED <<cancelled, closed, produced, emitted, server>>

Send(g) ==
    /\ pc[g] = "send" /\ Len(chan[Out(g)]) < Capacity[Out(g)]
    /\ chan' = [chan EXCEPT ![Out(g)] = Append(@, Head(held[g]))]
    /\ held' = [held EXCEPT ![g] = Tail(@)]
    /\ pc' = [pc EXCEPT ![g] = IF Len(held[g]) = 1 THEN "recv" ELSE "send"]
    /\ UNCHANGED <<cancelled, closed, produced, emitted, server>>

NeverAbandons(g) == FALSE
AbandonsWhenFull(g) ==
    /\ pc[g] = "send" /\ (cancelled \/ Len(chan[Out(g)]) = Capacity[Out(g)])
    /\ held' = [held EXCEPT ![g] = <<>>]
    /\ pc' = [pc EXCEPT ![g] = "recv"]
    /\ UNCHANGED <<cancelled, chan, closed, produced, emitted, server>>

\* case <-ctx.Done() of a send: processLog goes back to the adapter's loop,
\* a stage returns; what they held is lost.
AbandonSend(g) ==
    /\ pc[g] = "send" /\ cancelled
    /\ held' = [held EXCEPT ![g] = <<>>]
    /\ pc' = [pc EXCEPT ![g] = IF g = "adapter" THEN "recv" ELSE "done"]
    /\ UNCHANGED <<cancelled, chan, closed, produced, emitted, server>>

CloseChannel(c) ==
    /\ c \notin closed /\ \A g \in Writers(c) : pc[g] = "done"
    /\ closed' = closed \cup {c}
    /\ UNCHANGED <<cancelled, pc, held, chan, produced, emitted, server>>

(* The gRPC server of Emitter.Start, and the end of main. *)

Subscribe ==
    /\ grpc = "serving" /\ subscribers < MaxSubscribers
    /\ subscribers' = subscribers + 1
    /\ UNCHANGED <<cancelled, pc, held, chan, closed, produced, emitted, grpc, returned>>

\* A stream ends when its client goes away, and only then.
Disconnect ==
    /\ subscribers > 0
    /\ subscribers' = subscribers - 1
    /\ UNCHANGED <<cancelled, pc, held, chan, closed, produced, emitted, grpc, returned>>

StopAfterMain ==
    /\ returned /\ grpc = "serving"
    /\ grpc' = "draining"
    /\ UNCHANGED <<cancelled, pc, held, chan, closed, produced, emitted, subscribers, returned>>

\* GracefulStop refuses new streams ...
GracefulStop ==
    /\ cancelled /\ grpc = "serving"
    /\ grpc' = "draining"
    /\ UNCHANGED <<cancelled, pc, held, chan, closed, produced, emitted, subscribers, returned>>

\* ... and returns, and with it Serve, when the open ones have ended.
ServeReturns ==
    /\ grpc = "draining" /\ subscribers = 0
    /\ grpc' = "stopped"
    /\ UNCHANGED <<cancelled, pc, held, chan, closed, produced, emitted, subscribers, returned>>

\* The goroutines of wg have returned; the one that closes rawEvents is not in wg.
StagesDone == /\ \A g \in Goroutines : pc[g] = "done"
              /\ Channels \ {"raw"} \subseteq closed

MainReturns ==
    /\ cancelled /\ ~returned /\ StagesDone /\ grpc = "stopped"
    /\ returned' = TRUE
    /\ UNCHANGED <<cancelled, pc, held, chan, closed, produced, emitted, grpc, subscribers>>

Senders == {"adapter"} \cup Stages

Next ==
    \/ Cancel
    \/ LogArrives \/ AdapterReturns \/ ForwarderStarts
    \/ \E g \in Readers : Receive(g) \/ RangeEnds(g)
    \/ \E g \in Senders \cup {"forwarder"} : Send(g)
    \/ \E g \in Senders : AbandonSend(g)
    \/ \E c \in Channels : CloseChannel(c)
    \/ Subscribe \/ Disconnect \/ GracefulStop \/ ServeReturns \/ MainReturns

Spec == Init /\ [][Next]_vars

\* Go runs every goroutine that can run.  Nothing obliges a log to arrive, a
\* client to leave, ctx to be cancelled, or Start to return before it is.
Fairness ==
    /\ WF_vars(cancelled /\ AdapterReturns)
    /\ WF_vars(ForwarderStarts)
    /\ \A g \in Readers : WF_vars(Receive(g) \/ RangeEnds(g))
    /\ \A g \in Senders \cup {"forwarder"} : WF_vars(Send(g))
    /\ \A g \in Senders : WF_vars(AbandonSend(g))
    /\ \A c \in Channels : WF_vars(CloseChannel(c))
    /\ WF_vars(GracefulStop) /\ WF_vars(ServeReturns) /\ WF_vars(MainReturns)

FairSpec == Spec /\ Fairness
-----------------------------------------------------------------------------
(* Properties *)

Item == (1..MaxLogs) \X Nat

\* Every goroutine, channel and server state keeps its shape; a channel never
\* holds more than its buffer, and only a sending goroutine holds items.
TypeOK ==
    /\ cancelled \in BOOLEAN
    /\ pc \in [Goroutines -> {"start", "recv", "send", "done"}]
    /\ held \in [Goroutines -> Seq(Item)]
    /\ chan \in [Channels -> Seq(Item)]
    /\ closed \subseteq Channels
    /\ produced \in 0..MaxLogs
    /\ emitted \in Seq(Item)
    /\ grpc \in {"serving", "draining", "stopped"}
    /\ subscribers \in 0..MaxSubscribers
    /\ returned \in BOOLEAN
    /\ \A c \in Channels : Len(chan[c]) <= Capacity[c]
    /\ \A g \in Goroutines : pc[g] = "send" <=> held[g] # <<>>

\* A send on a closed channel panics: whatever order the goroutines return in,
\* none is about to send on a channel that is closed.
NoSendOnClosed == \A g \in Goroutines : pc[g] = "send" => Out(g) \notin closed

\* Up to the enricher's worker pool the events stay in the order of the logs.
Upstream == chan["chain"] \o held["normalizer"] \o chan["raw"] \o held["forwarder"]
            \o chan["events"] \o held["adapter"]
SourceOrder ==
    \A i, j \in DOMAIN Upstream : i < j => Upstream[i][1] < Upstream[j][1]

\* The signals of one event reach the emitter one after the other, the first one
\* first: the engine finishes an event before it receives the next.
SignalsTogether ==
    \A i \in DOMAIN emitted : emitted[i][2] > 1 =>
        i > 1 /\ emitted[i - 1] = <<emitted[i][1], emitted[i][2] - 1>>

\* Where an item can be: <<q, i>> is the i-th place of what q holds.
Holders == ({"chan"} \X Channels) \cup ({"held"} \X Goroutines) \cup {<<"emitted", "emitter">>}
Items(q) == CASE q[1] = "chan" -> chan[q[2]]
              [] q[1] = "held" -> held[q[2]]
              [] q[1] = "emitted" -> emitted
Places(x) == UNION {{q} \X {i \in DOMAIN Items(q) : Items(q)[i] = x} : q \in Holders}

\* The signals the rules derive from the well-formed events.
Signals == UNION {{e} \X (1..SignalCount[e]) : e \in (1..MaxLogs) \ Malformed}

\* Each signal the rules derive from an event is in one place, as the event it
\* will come from or as itself: the pipeline never duplicates, and until ctx is
\* cancelled it never loses.
ExactlyOnce ==
    \A s \in Signals : s[1] <= produced =>
        LET places == Places(<<s[1], 0>>) \cup Places(s)
        IN /\ \A p, q \in places : p = q
           /\ ~cancelled => places # {}

Count(s, x) == Cardinality({i \in DOMAIN s : s[i] = x})

\* Once the adapter has ended, what it queued flows through to the emitter.
DrainsAfterAdapter ==
    \A s \in Signals :
        (s[1] <= produced /\ pc["adapter"] = "done") ~> (cancelled \/ Count(emitted, s) = 1)

\* "pipeline did not shut down in time" (TestGracefulShutdown): after the
\* cancellation every goroutine of the pipeline returns, however full the
\* channels are.  The forwarder's send ignores ctx: this needs the adapter's
\* buffer to fit in rawEvents.
PipelineTerminates == cancelled ~> StagesDone

\* main returns after the cancellation if the subscribers leave for good.
ShutdownWithoutSubscribers == (<>cancelled /\ <>[](subscribers = 0)) => <>returned

\* "Everything talks through buffered channels, so each stage runs at its own
\* pace" (README): while the adapter runs, its events become signals.
LiveFlow == \A s \in Signals : (s[1] <= produced) ~> (cancelled \/ Count(emitted, s) = 1)

\* main ends after the cancellation, as e2e_test.go expects of cancel, wg.Wait.
ShutdownCompletes == cancelled ~> returned
=============================================================================
