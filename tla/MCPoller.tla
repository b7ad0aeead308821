------------------------------ MODULE MCPoller ------------------------------
(* Four blocks with two, no, one and three matching logs.                     *)
EXTENDS Poller

LogsUpTo == <<2, 2, 3, 6>>
MCLastLog == [b \in 0..MaxBlock |-> IF b = 0 THEN 0 ELSE LogsUpTo[b]]
=============================================================================
