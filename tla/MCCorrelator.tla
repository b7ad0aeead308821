---------------------------- MODULE MCCorrelator ----------------------------
(***************************************************************************)
(* A small instance of Correlator: two correlations share the type         *)
(* "approval" and the trigger "deposit" and differ in window, fields and   *)
(* count; a third one triggers on its own first type.                      *)
(***************************************************************************)
EXTENDS Correlator, TLC

CONSTANTS approval, deposit, other, v1, v2

MCEventTypes == {approval, deposit}
MCMoreEventTypes == {approval, deposit, other}
MCFieldNames == {"token"}
MCFieldValues == {v1, v2}
MCSymmetry == Permutations(MCFieldValues)

MCCorrelations ==
    << [sequence |-> <<approval, deposit>>, window |-> 1,
        sameFields |-> {"token"}, minFirstCount |-> 2],
       [sequence |-> <<approval, deposit>>, window |-> 2,
        sameFields |-> {"token", "tokn"}, minFirstCount |-> 0],
       [sequence |-> <<deposit, deposit>>, window |-> Unparsable,
        sameFields |-> {}, minFirstCount |-> 1] >>
=============================================================================
