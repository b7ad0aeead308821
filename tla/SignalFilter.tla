---------------------------- MODULE SignalFilter ----------------------------
(* Signals and the filters of subscribers, as matchesFilter of              *)
(* src/internal/signal/grpc/grpc.go compares them.  Confidences are scaled   *)
(* to integers.                                                              *)
EXTENDS Integers

CONSTANTS Names  \* signal types, chains and tokens

Lists == {"signal_types", "source_chains", "destination_chains", "tokens"}

Signal == [names : [Lists -> Names], confidence : Int]
Filter == [lists : [Lists -> SUBSET Names], min_confidence : Int]

\* An empty list and a zero confidence accept everything.
matchesFilter(f, sig) ==
    /\ \A l \in Lists : f.lists[l] # {} => sig.names[l] \in f.lists[l]
    /\ f.min_confidence > 0 => sig.confidence >= f.min_confidence
=============================================================================
