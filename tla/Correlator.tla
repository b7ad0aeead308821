----------------------------- MODULE Correlator -----------------------------
(***************************************************************************)
(* The event correlator of src/internal/engine/correlation.go: one window  *)
(* of remembered events per event type, the engine goroutine that runs     *)
(* Process on each event, and the pruner goroutine of StartPruner.  Each   *)
(* window operation holds the window's mutex, so it is one step; the loop  *)
(* of Process and the loop of the pruner interleave between those steps.   *)
(*                                                                         *)
(* A window is a set of entries: the slice of the code holds them in the   *)
(* order of arrival, which is the order of event.id.                       *)
(***************************************************************************)
EXTENDS Integers, Sequences, FiniteSetsExt

CONSTANTS Correlations,      \* the [[correlations]] of the rules file, in order
          EventTypes,        \* the event types the engine may receive
          FieldNames,        \* the names getFieldValue knows
          FieldValues,
          Unparsable,        \* a window time.ParseDuration rejects
          DefaultWindowTTL,
          MaxDuration,       \* a time.Duration is bounded (int64)
          MaxWindowSize,     \* 0: no cap
          None,
          MaxEvents, MaxTime \* bounds of the model: events received, clock

Durations == {d \in Int : d <= MaxDuration}

Correlation == [sequence : EventTypes \X EventTypes,
                window : Durations \cup {Unparsable},
                sameFields : SUBSET STRING,
                minFirstCount : Int]

\* The correlations of a file that LoadRules accepts: it rejects a sequence that does not
\* have two elements, and looks at nothing else.
LoadRules == Seq(Correlation)

ASSUME CorrelationsAssumption == Correlations \in LoadRules

ASSUME ConfigAssumption ==
    /\ MaxDuration \in Nat
    /\ DefaultWindowTTL \in Durations
    /\ MaxWindowSize \in Nat
    /\ MaxEvents \in Nat
    /\ MaxTime \in Nat
    /\ FieldNames \subseteq STRING

Event == [id : 1..MaxEvents, type : EventTypes, data : [FieldNames -> FieldValues]]
Entry == [event : Event, expiresAt : Int]

ASSUME NoneAssumption == None \notin Event

VARIABLES now,      \* the monotonic clock
          windows,  \* Correlator.windows
          cur,      \* the event Process works on, or None
          next,     \* index of the next correlation of the loop of Process
          arrived,  \* events received so far; the id of the last one
          running,  \* Engine.Run has not returned (done is open)
          pruner,   \* the pruner goroutine is alive
          pruning,  \* windows the current prune pass has still to visit
          \* History:
          added,    \* every entry ever put in a window
          takes     \* every TakeMatchingEntries call, with what it took

vars == <<now, windows, cur, next, arrived, running, pruner, pruning, added, takes>>
-----------------------------------------------------------------------------
(* NewCorrelator *)

Index == 1..Len(Correlations)
First(i) == Correlations[i].sequence[1]
Trigger(i) == Correlations[i].sequence[2]

WindowTypes == {First(i) : i \in Index} \cup {Trigger(i) : i \in Index}

Duration(i) == IF Correlations[i].window = Unparsable THEN DefaultWindowTTL
                                                       ELSE Correlations[i].window

\* Every correlation that names a type stretches the window of that type.
WindowTTL(t) == Max({0} \cup {Duration(i) : i \in {j \in Index : t \in {First(j), Trigger(j)}}})

EntryTTL(t) == IF WindowTTL(t) = 0 THEN DefaultWindowTTL ELSE WindowTTL(t)

MinCount(i) == IF Correlations[i].minFirstCount <= 0 THEN 1
                                                     ELSE Correlations[i].minFirstCount
-----------------------------------------------------------------------------
(* EventWindow *)

\* A field name getFieldValue does not know reads as "" on both sides.
FieldsMatch(fields, a, b) == \A f \in fields \cap FieldNames : a.data[f] = b.data[f]

\* expiresAt.Before(now): an entry is still taken at its very deadline ...
Live(w) == {e \in w : e.expiresAt >= now}
\* ... where Prune (not expiresAt.After(now)) already removes it.
Unexpired(w) == {e \in w : e.expiresAt > now}

StaleMatches(i, event) ==
    {e \in windows[First(i)] : FieldsMatch(Correlations[i].sameFields, e.event, event)}
Matches(i, event) ==
    {e \in Live(windows[First(i)]) : FieldsMatch(Correlations[i].sameFields, e.event, event)}

KeepMatches(i, event) == Live(windows[First(i)])
KeepTooFew(i, event) ==
    IF Cardinality(Matches(i, event)) < MinCount(i)
    THEN Live(windows[First(i)])
    ELSE Live(windows[First(i)]) \ Matches(i, event)
Remaining(i, event) == Live(windows[First(i)]) \ Matches(i, event)

\* The suffix of w that the cap leaves: its MaxWindowSize newest entries.
Uncapped(w, kept) == kept = w
KeepsOldest(w, kept) ==
    IF MaxWindowSize = 0 \/ Cardinality(w) <= MaxWindowSize
    THEN kept = w
    ELSE /\ Cardinality(kept) = MaxWindowSize
         /\ \A k \in kept, d \in w \ kept : k.event.id < d.event.id
KeepsNewest(w, kept) ==
    IF MaxWindowSize = 0 \/ Cardinality(w) <= MaxWindowSize
    THEN kept = w
    ELSE /\ Cardinality(kept) = MaxWindowSize
         /\ \A k \in kept, d \in w \ kept : d.event.id < k.event.id
-----------------------------------------------------------------------------
Init ==
    /\ now = 0
    /\ windows = [t \in WindowTypes |-> {}]
    /\ cur = None
    /\ next = 1
    /\ arrived = 0
    /\ running = TRUE
    /\ pruner = TRUE
    /\ pruning = {}
    /\ added = {}
    /\ takes = {}

Tick ==
    /\ now < MaxTime
    /\ now' = now + 1
    /\ UNCHANGED <<windows, cur, next, arrived, running, pruner, pruning, added, takes>>

ReceiveFromZero ==
    /\ running /\ cur = None /\ arrived < MaxEvents
    /\ \E t \in EventTypes, d \in [FieldNames -> FieldValues] :
          cur' = [id |-> arrived + 1, type |-> t, data |-> d]
    /\ arrived' = arrived + 1
    /\ next' = 0
    /\ UNCHANGED <<now, windows, running, pruner, pruning, added, takes>>

\* Engine.Run takes an event from its input and calls Process on it.
Receive ==
    /\ running /\ cur = None /\ arrived < MaxEvents
    /\ \E t \in EventTypes, d \in [FieldNames -> FieldValues] :
          cur' = [id |-> arrived + 1, type |-> t, data |-> d]
    /\ arrived' = arrived + 1
    /\ next' = 1
    /\ UNCHANGED <<now, windows, running, pruner, pruning, added, takes>>

\* The loop of Process passes a correlation another type triggers.
SkipCorrelation ==
    /\ cur # None /\ next \in Index
    /\ Trigger(next) # cur.type
    /\ next' = next + 1
    /\ UNCHANGED <<now, windows, cur, arrived, running, pruner, pruning, added, takes>>

\* The loop of Process: TakeMatchingEntries, and a signal if there are enough.
TakeMatchingEntries ==
    /\ cur # None /\ next \in Index
    /\ Trigger(next) = cur.type
    /\ windows' = [windows EXCEPT ![First(next)] = Remaining(next, cur)]
    /\ takes' = takes \cup
          {[corr |-> next, trigger |-> cur, at |-> now, entries |-> Matches(next, cur),
            fired |-> Cardinality(Matches(next, cur)) >= MinCount(next)]}
    /\ next' = next + 1
    /\ UNCHANGED <<now, cur, arrived, running, pruner, pruning, added>>

\* The end of Process, for a type some correlation mentions: EventWindow.Add.
AddToFirst ==
    /\ cur # None /\ next = Len(Correlations) + 1 /\ cur.type \in WindowTypes
    /\ LET entry == [event |-> cur, expiresAt |-> now + EntryTTL(cur.type)]
           w == windows[First(1)] \cup {entry}
       IN /\ added' = added \cup {entry}
          /\ \E kept \in SUBSET w :
                 /\ KeepsNewest(w, kept)
                 /\ windows' = [windows EXCEPT ![First(1)] = kept]
    /\ cur' = None
    /\ UNCHANGED <<now, next, arrived, running, pruner, pruning, takes>>
Add ==
    /\ cur # None /\ next = Len(Correlations) + 1 /\ cur.type \in WindowTypes
    /\ LET entry == [event |-> cur, expiresAt |-> now + EntryTTL(cur.type)]
           w == windows[cur.type] \cup {entry}
       IN /\ added' = added \cup {entry}
          /\ \E kept \in SUBSET w :
                KeepsNewest(w, kept) /\ windows' = [windows EXCEPT ![cur.type] = kept]
    /\ cur' = None
    /\ UNCHANGED <<now, next, arrived, running, pruner, pruning, takes>>

\* The end of Process for a type no correlation mentions.
Forget ==
    /\ cur # None /\ next = Len(Correlations) + 1 /\ cur.type \notin WindowTypes
    /\ cur' = None
    /\ UNCHANGED <<now, windows, next, arrived, running, pruner, pruning, added, takes>>

\* Engine.Run returns (input closed or ctx cancelled), which closes done.
Stop ==
    /\ running /\ cur = None
    /\ running' = FALSE
    /\ UNCHANGED <<now, windows, cur, next, arrived, pruner, pruning, added, takes>>

PruneTriggers ==
    /\ pruner /\ pruning = {}
    /\ pruning' = {Trigger(i) : i \in Index}
    /\ UNCHANGED <<now, windows, cur, next, arrived, running, pruner, added, takes>>

\* The ticker fires; a select with done closed too may still choose it.
PruneTick ==
    /\ pruner /\ pruning = {}
    /\ pruning' = WindowTypes
    /\ UNCHANGED <<now, windows, cur, next, arrived, running, pruner, added, takes>>

\* The pruner visits the windows in the order of a Go map: any.
Prune(t) ==
    /\ t \in pruning
    /\ windows' = [windows EXCEPT ![t] = Unexpired(@)]
    /\ pruning' = pruning \ {t}
    /\ UNCHANGED <<now, cur, next, arrived, running, pruner, added, takes>>

PrunerExit ==
    /\ pruner /\ pruning = {} /\ ~running
    /\ pruner' = FALSE
    /\ UNCHANGED <<now, windows, cur, next, arrived, running, pruning, added, takes>>

Process == Receive \/ SkipCorrelation \/ TakeMatchingEntries \/ Add \/ Forget
Pruner == PruneTick \/ (\E t \in WindowTypes : Prune(t))

Next == Tick \/ Process \/ Stop \/ Pruner \/ PrunerExit

Spec == Init /\ [][Next]_vars

\* The ticker fires for as long as the pruner lives, and Go schedules the pruner.
FairSpec == Spec /\ WF_vars(Pruner)
-----------------------------------------------------------------------------
(* Properties *)

Take == [corr : Index, trigger : Event, at : 0..MaxTime, entries : SUBSET Entry,
         fired : BOOLEAN]

\* The state of the correlator keeps its shape; the loop index of Process
\* stays between 1 and one past the last correlation.
TypeOK ==
    /\ now \in 0..MaxTime
    /\ windows \in [WindowTypes -> SUBSET Entry]
    /\ cur \in Event \cup {None}
    /\ next \in 1..(Len(Correlations) + 1)
    /\ arrived \in 0..MaxEvents
    /\ running \in BOOLEAN
    /\ pruner \in BOOLEAN
    /\ pruning \in SUBSET WindowTypes
    /\ added \in SUBSET Entry
    /\ takes \in SUBSET Take

\* EventWindow.Add caps the window: whatever Process, the cap and the pruner do
\* in between, no window ever holds more than maxSize entries.
WindowBound == MaxWindowSize > 0 => \A t \in WindowTypes : Cardinality(windows[t]) <= MaxWindowSize

\* The slice is in arrival order, and because one TTL serves the whole window
\* it is in expiry order too: entries[drop:] evicts those closest to expiry.
WindowOrdered ==
    \A t \in WindowTypes : \A e, f \in windows[t] :
        e.event.id < f.event.id => e.expiresAt <= f.expiresAt

\* TakeMatchingEntries removes what it returns: an event counts towards at most
\* one signal of one correlation, and is not left in a window to count again.
NoDoubleUse ==
    \A k \in takes :
        /\ \A l \in takes : k # l => k.entries \cap l.entries = {}
        /\ \A t \in WindowTypes : k.entries \cap windows[t] = {}

\* A correlation fires only on min_first_count distinct events of its first
\* type, each received before the trigger, equal to it in same_fields and not
\* past the window of its type.
SignalJustified ==
    \A k \in takes : k.fired =>
        /\ Cardinality(k.entries) >= MinCount(k.corr)
        /\ k.trigger.type = Trigger(k.corr)
        /\ \A e \in k.entries :
              /\ e.event.type = First(k.corr)
              /\ e.event.id < k.trigger.id
              /\ FieldsMatch(Correlations[k.corr].sameFields, e.event, k.trigger)
              /\ e.expiresAt >= k.at

\* "A trigger always drains its matches ... even below MinFirstCount": once a
\* correlation has seen a trigger, no older matching event is left to be found.
Drained ==
    \A k \in takes : \A e \in windows[First(k.corr)] :
        e.event.id < k.trigger.id =>
            ~ FieldsMatch(Correlations[k.corr].sameFields, e.event, k.trigger)

NewerThan(e) == {f \in added : f.event.type = e.event.type /\ f.event.id > e.event.id}

\* An event leaves its window for three reasons only: a trigger took it, its
\* time is over, or maxSize newer events of its type came after it.
NoSilentLoss ==
    \A e \in added :
        \/ e \in windows[e.event.type]
        \/ \E k \in takes : e \in k.entries
        \/ e.expiresAt <= now
        \/ MaxWindowSize > 0 /\ Cardinality(NewerThan(e)) >= MaxWindowSize

\* The windows do not grow with events that can match nothing any more: an
\* expired entry is eventually removed, with or without triggers of its type.
ExpiredPruned ==
    \A t \in WindowTypes, i \in 1..MaxEvents :
        (running /\ \E e \in windows[t] : e.event.id = i /\ e.expiresAt <= now)
            ~> (~ running \/ ~ \E e \in windows[t] : e.event.id = i)

\* "correlates event sequences within time windows" (README): a correlation
\* fires only on events its own window covers.
WithinOwnWindow ==
    \A k \in takes : k.fired =>
        \A e \in k.entries : k.at <= (e.expiresAt - EntryTTL(e.event.type)) + Duration(k.corr)
=============================================================================
