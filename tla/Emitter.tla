------------------------------- MODULE Emitter -------------------------------
(***************************************************************************)
(* The signal emitter of src/internal/signal/grpc/grpc.go: Emitter.Run     *)
(* with Emit, which visits the listeners one by one under the read lock,   *)
(* and one SubscribeSignals handler per stream, which registers and        *)
(* removes its listener under the write lock and empties its own buffer    *)
(* in between, whether an Emit is in progress or not.  Signals are named   *)
(* by their position in the history variable log.                          *)
(***************************************************************************)
EXTENDS SignalFilter, Sequences, SequencesExt

CONSTANTS Subscribers,  \* the streams that may be opened
          Prompt,       \* the subscribers that go on reading their stream
          SignalKinds, Filters,
          BufferSize,   \* GRPC.SubscriberBufferSize
          None,
          MaxSignals    \* bound: signals published

ASSUME ConfigAssumption ==
    /\ Prompt \subseteq Subscribers
    /\ SignalKinds \subseteq Signal
    /\ Filters \subseteq Filter /\ None \notin Filters
    /\ BufferSize \in Nat \ {0}
    /\ MaxSignals \in Nat

VARIABLES listeners,  \* Emitter.listeners, in the order of the slice
          stream,     \* the handler of a stream: "none", "open", "leaving", "closed"
          filter,     \* the filter a stream was opened with
          gone,       \* the streams whose context is done
          ch,         \* the buffered channel of each listener
          sending,    \* the signal a handler is in stream.Send with: <<>> or <<n>>
          visit,      \* Emit holds the read lock and is at this listener; 0: no Emit
          emitted, dropped,   \* the counters of the emitter
          \* History:
          log,        \* every signal Emit was called with
          sent,       \* what stream.Send accepted
          since, until \* length of the log at registration and at removal

vars == <<listeners, stream, filter, gone, ch, sending, visit, emitted, dropped, log,
          sent, since, until>>
subscription == <<listeners, stream, filter, since, until>>
-----------------------------------------------------------------------------
Init ==
    /\ listeners = <<>>
    /\ stream = [s \in Subscribers |-> "none"]
    /\ filter = [s \in Subscribers |-> None]
    /\ gone = {}
    /\ ch = [s \in Subscribers |-> <<>>]
    /\ sending = [s \in Subscribers |-> <<>>]
    /\ visit = 0
    /\ emitted = 0 /\ dropped = 0
    /\ log = <<>>
    /\ sent = [s \in Subscribers |-> <<>>]
    /\ since = [s \in Subscribers |-> 0]
    /\ until = [s \in Subscribers |-> 0]

\* Run receives a signal; Emit takes the read lock.
Publish ==
    /\ visit = 0 /\ Len(log) < MaxSignals
    /\ \E sig \in SignalKinds : log' = Append(log, sig)
    /\ visit' = 1
    /\ UNCHANGED <<subscription, gone, ch, sending, emitted, dropped, sent>>

Enqueue(s) ==
    /\ ch' = [ch EXCEPT ![s] = Append(@, Len(log))]
    /\ emitted' = emitted + 1
    /\ UNCHANGED dropped

DropUncounted(s) == UNCHANGED <<ch, emitted, dropped>>

\* The default branch of the select: a slow consumer loses the signal.
Drop(s) ==
    /\ dropped' = dropped + 1
    /\ UNCHANGED <<ch, emitted>>

OfferUnbounded(s) == Enqueue(s)
OfferDropping(s) == IF Len(ch[s]) < BufferSize - 1 THEN Enqueue(s) ELSE Drop(s)
Offer(s) == IF Len(ch[s]) < BufferSize THEN Enqueue(s) ELSE Drop(s)

\* One round of the loop of Emit.
Visit ==
    /\ visit \in DOMAIN listeners
    /\ LET s == listeners[visit]
       IN IF matchesFilter(filter[s], log[Len(log)])
          THEN Offer(s)
          ELSE UNCHANGED <<ch, emitted, dropped>>
    /\ visit' = visit + 1
    /\ UNCHANGED <<subscription, gone, sending, log, sent>>

\* Emit returns and releases the read lock.
EmitReturns ==
    /\ visit > Len(listeners)
    /\ visit' = 0
    /\ UNCHANGED <<subscription, gone, ch, sending, emitted, dropped, log, sent>>

\* SubscribeSignals registers its listener; the write lock excludes an Emit.
Subscribe(s) ==
    /\ visit = 0 /\ stream[s] = "none"
    /\ stream' = [stream EXCEPT ![s] = "open"]
    /\ \E f \in Filters : filter' = [filter EXCEPT ![s] = f]
    /\ listeners' = Append(listeners, s)
    /\ since' = [since EXCEPT ![s] = Len(log)]
    /\ UNCHANGED <<gone, ch, sending, visit, emitted, dropped, log, sent, until>>

DequeueExclusive(s) ==
    /\ stream[s] = "open" /\ \A o \in Subscribers : sending[o] = <<>>
    /\ ch[s] # <<>>
    /\ sending' = [sending EXCEPT ![s] = <<Head(ch[s])>>]
    /\ ch' = [ch EXCEPT ![s] = Tail(@)]
    /\ UNCHANGED <<subscription, gone, visit, emitted, dropped, log, sent>>
DequeueNewest(s) ==
    /\ stream[s] = "open" /\ sending[s] = <<>> /\ ch[s] # <<>>
    /\ sending' = [sending EXCEPT ![s] = <<Last(ch[s])>>]
    /\ ch' = [ch EXCEPT ![s] = Front(@)]
    /\ UNCHANGED <<subscription, gone, visit, emitted, dropped, log, sent>>
\* case sig := <-l.ch
Dequeue(s) ==
    /\ stream[s] = "open" /\ sending[s] = <<>> /\ ch[s] # <<>>
    /\ sending' = [sending EXCEPT ![s] = <<Head(ch[s])>>]
    /\ ch' = [ch EXCEPT ![s] = Tail(@)]
    /\ UNCHANGED <<subscription, gone, visit, emitted, dropped, log, sent>>

\* stream.Send returns nil: flow control let the signal out.
SendSucceeds(s) ==
    /\ stream[s] = "open" /\ sending[s] # <<>> /\ s \notin gone
    /\ sent' = [sent EXCEPT ![s] = @ \o sending[s]]
    /\ sending' = [sending EXCEPT ![s] = <<>>]
    /\ UNCHANGED <<subscription, gone, ch, visit, emitted, dropped, log>>

\* The client disconnects.
ClientLeaves(s) ==
    /\ stream[s] = "open" /\ s \notin gone
    /\ gone' = gone \cup {s}
    /\ UNCHANGED <<subscription, ch, sending, visit, emitted, dropped, log, sent>>

LeaveWhenEmpty(s) ==
    /\ stream[s] = "open" /\ s \in gone /\ ch[s] = <<>> /\ sending[s] = <<>>
    /\ stream' = [stream EXCEPT ![s] = "leaving"]
    /\ UNCHANGED <<listeners, filter, gone, ch, sending, visit, emitted, dropped, log, sent,
                   since, until>>
\* The handler returns: stream.Send fails, or case <-stream.Context().Done(),
\* which the select may take or not while the buffer is not empty.
Leave(s) ==
    /\ stream[s] = "open" /\ s \in gone
    /\ stream' = [stream EXCEPT ![s] = "leaving"]
    /\ UNCHANGED <<listeners, filter, gone, ch, sending, visit, emitted, dropped, log, sent,
                   since, until>>

\* The deferred function of SubscribeSignals removes the listener, which the
\* slice holds once (TypeOK): that is what DeleteFunc finds.
Unsubscribe(s) ==
    /\ visit = 0 /\ stream[s] = "leaving"
    /\ stream' = [stream EXCEPT ![s] = "closed"]
    /\ \E i \in DOMAIN listeners :
          listeners[i] = s /\ listeners' = RemoveAt(listeners, i)
    /\ until' = [until EXCEPT ![s] = Len(log)]
    /\ UNCHANGED <<filter, gone, ch, sending, visit, emitted, dropped, log, sent, since>>

Emit == Visit \/ EmitReturns

Next ==
    \/ Publish \/ Emit
    \/ \E s \in Subscribers :
          \/ Subscribe(s) \/ Dequeue(s) \/ SendSucceeds(s)
          \/ ClientLeaves(s) \/ Leave(s) \/ Unsubscribe(s)

Spec == Init /\ [][Next]_vars

\* Emit and the handlers are scheduled; an RWMutex lets a waiting writer in
\* between two readers.  Only a prompt subscriber's Send is sure to return.
Fairness ==
    /\ WF_vars(Emit)
    /\ \A s \in Subscribers : WF_vars(Dequeue(s)) /\ WF_vars(Leave(s)) /\ SF_vars(Unsubscribe(s))
    /\ \A s \in Prompt : WF_vars(SendSucceeds(s))

FairSpec == Spec /\ Fairness
-----------------------------------------------------------------------------
(* Properties *)

\* The emitter's state keeps its shape, and a buffer stays within its size.
TypeOK ==
    /\ listeners \in Seq(Subscribers) /\ IsInjective(listeners)
    /\ stream \in [Subscribers -> {"none", "open", "leaving", "closed"}]
    /\ filter \in [Subscribers -> Filters \cup {None}]
    /\ gone \subseteq Subscribers
    /\ log \in Seq(SignalKinds) /\ Len(log) <= MaxSignals
    /\ ch \in [Subscribers -> Seq(1..Len(log))]
    /\ sending \in [Subscribers -> Seq(1..Len(log))]
    /\ sent \in [Subscribers -> Seq(1..Len(log))]
    /\ since \in [Subscribers -> 0..Len(log)]
    /\ until \in [Subscribers -> 0..Len(log)]
    /\ \A s \in Subscribers :
          /\ Len(ch[s]) <= BufferSize /\ Len(sending[s]) <= 1
          /\ s \in ToSet(listeners) <=> stream[s] \in {"open", "leaving"}
    /\ visit \in 0..(Len(listeners) + 1)
    /\ emitted \in Nat /\ dropped \in Nat

\* What a subscriber's channel ever accepted, in order.
Accepted(s) == sent[s] \o sending[s] \o ch[s]

\* Emit has still to come to s with the last signal of the log.
Pending(s) == visit > 0 /\ \E i \in DOMAIN listeners : i >= visit /\ listeners[i] = s

\* How far into the log Emit has come with s.
OfferedUpTo(s) ==
    IF stream[s] = "closed" THEN until[s]
    ELSE IF Pending(s) THEN Len(log) - 1 ELSE Len(log)

\* The signals Emit has offered to s so far: all that match since it registered.
Offered(s) ==
    {n \in (since[s] + 1)..OfferedUpTo(s) :
        stream[s] # "none" /\ matchesFilter(filter[s], log[n])}

\* What the channels took and what they missed, of all subscribers.
Taken == UNION {{s} \X DOMAIN Accepted(s) : s \in Subscribers}
Missed == UNION {{s} \X (Offered(s) \ ToSet(Accepted(s))) : s \in Subscribers}

\* The counters GetStatus and the metrics report: emitted counts each signal a
\* buffer took, though it may never be sent, dropped each one that was offered
\* to a subscriber and not taken; together they miss nothing and count nothing twice.
CountersAgree == emitted = Cardinality(Taken) /\ dropped = Cardinality(Missed)

\* Only a backlog makes a subscriber lose signals: however the offers and its
\* reads interleave, the first BufferSize signals that match it are taken.
FirstSignalsTaken ==
    \A s \in Subscribers : \A n \in Offered(s) :
        Cardinality({m \in Offered(s) : m <= n}) <= BufferSize => n \in ToSet(Accepted(s))

\* A slow subscriber holds up nobody: Emit returns although no client reads, and what
\* the buffer of a prompt one took is sent, unless that client leaves.
SlowDelayNobody ==
    /\ (visit > 0) ~> (visit = 0)
    /\ \A s \in Prompt, n \in 1..MaxSignals :
           (n \in ToSet(Accepted(s))) ~> (n \in ToSet(sent[s]) \/ s \in gone)

\* The stream of a client that left is taken off the listeners, also when its
\* handler was in the middle of a Send that could not proceed.
GoneRemoved == \A s \in Subscribers : (s \in gone) ~> (s \notin ToSet(listeners))

Stream == INSTANCE SignalStream WITH received <- sent

\* Subscribers see what SignalStream promises: matching signals published after
\* they subscribed, in order, none twice.
ImplementsStream == Stream!Spec
=============================================================================
