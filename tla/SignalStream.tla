---------------------------- MODULE SignalStream ----------------------------
(***************************************************************************)
(* What the gRPC emitter promises a subscriber, whatever buffers, locks    *)
(* and slow clients do: it receives signals of the log that match its      *)
(* filter and were published after it subscribed, in the order of the log  *)
(* and each at most once.  Signals may be missed.                          *)
(***************************************************************************)
EXTENDS SignalFilter, Sequences

CONSTANTS Subscribers, SignalKinds, Filters, None

VARIABLES log,       \* the signals published so far
          filter,    \* filter of each subscriber, None before it subscribes
          since,     \* length of the log when it subscribed
          received   \* log positions it received, in order

vars == <<log, filter, since, received>>

Init ==
    /\ log = <<>>
    /\ filter = [s \in Subscribers |-> None]
    /\ since = [s \in Subscribers |-> 0]
    /\ received = [s \in Subscribers |-> <<>>]

Publish ==
    /\ \E sig \in SignalKinds : log' = Append(log, sig)
    /\ UNCHANGED <<filter, since, received>>

Subscribe(s) ==
    /\ filter[s] = None
    /\ \E f \in Filters : filter' = [filter EXCEPT ![s] = f]
    /\ since' = [since EXCEPT ![s] = Len(log)]
    /\ UNCHANGED <<log, received>>

Deliver(s, n) ==
    /\ filter[s] # None /\ matchesFilter(filter[s], log[n])
    /\ n > since[s]
    /\ received[s] # <<>> => n > received[s][Len(received[s])]
    /\ received' = [received EXCEPT ![s] = Append(@, n)]
    /\ UNCHANGED <<log, filter, since>>

Next ==
    \/ Publish
    \/ \E s \in Subscribers : Subscribe(s) \/ \E n \in DOMAIN log : Deliver(s, n)

Spec == Init /\ [][Next]_vars
=============================================================================
