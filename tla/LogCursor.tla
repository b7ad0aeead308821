------------------------------ MODULE LogCursor ------------------------------
(***************************************************************************)
(* What a subscription to the logs of a chain promises the adapter: from   *)
(* the block the chain had when it was opened, every matching log, one     *)
(* after the other, without a gap and without a repetition.  The matching  *)
(* logs of the chain are numbered 1, 2, ...                                *)
(***************************************************************************)
EXTENDS Integers, Sequences

CONSTANTS LastLog,   \* LastLog[b]: the number of matching logs up to block b
          MaxBlock, None

VARIABLES head,      \* the newest block of the chain
          start,     \* the block the subscription starts after; None: not open
          cancelled, \* the subscriber has given it up
          delivered  \* the logs the subscriber received

vars == <<head, start, cancelled, delivered>>

Init == head \in 0..MaxBlock /\ start = None /\ cancelled = FALSE /\ delivered = <<>>

Mine == head < MaxBlock /\ head' = head + 1 /\ UNCHANGED <<start, cancelled, delivered>>

Open ==
    /\ start = None
    /\ start' \in 0..head
    /\ UNCHANGED <<head, cancelled, delivered>>

Cancel == cancelled' = TRUE /\ UNCHANGED <<head, start, delivered>>

Deliver ==
    /\ start # None
    /\ LET n == LastLog[start] + Len(delivered) + 1
       IN n <= LastLog[head] /\ delivered' = Append(delivered, n)
    /\ UNCHANGED <<head, start, cancelled>>

Next == Mine \/ Open \/ Cancel \/ Deliver

Safety == Init /\ [][Next]_vars
Fairness == WF_vars(Deliver /\ ~cancelled)

Spec == Safety /\ Fairness
=============================================================================
