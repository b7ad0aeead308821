----------------------------- MODULE MCAdapter -----------------------------
(* A chain that may fail three times, with a cap its second wait meets; one   *)
(* whose first wait is longer than the cap; one without any attempt.          *)
EXTENDS Adapter

MCBackoffs == {[initial |-> 2, max |-> 3, retries |-> 3],
               [initial |-> 4, max |-> 3, retries |-> 2],
               [initial |-> 2, max |-> 3, retries |-> -1]}
=============================================================================
