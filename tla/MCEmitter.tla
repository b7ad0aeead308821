------------------------------ MODULE MCEmitter ------------------------------
(* A small instance of Emitter: a prompt and a slow subscriber, two kinds of *)
(* signals that differ in a listed name and in confidence, three filters.     *)
EXTENDS Emitter, TLC

CONSTANTS quick, slow, a, b

MCSubscribers == {quick, slow}
MCPrompt == {quick}
MCNames == {a, b}

MCSignal(name, confidence) == [names |-> [l \in Lists |-> name], confidence |-> confidence]
MCFilter(names, confidence) ==
    [lists |-> [l \in Lists |-> IF l = "tokens" THEN names ELSE {}],
     min_confidence |-> confidence]

MCSignalKinds == {MCSignal(a, 80), MCSignal(b, 50)}
MCFewFilters == {MCFilter({}, 0), MCFilter({a}, 0)}
MCFilters == MCFewFilters \cup {MCFilter({a, b}, 60)}

MCSymmetry == Permutations(MCSubscribers)
=============================================================================
