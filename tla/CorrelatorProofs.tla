--------------------------- MODULE CorrelatorProofs ---------------------------
(***************************************************************************)
(* Machine-checked proofs about Correlator, for every rules file, window   *)
(* cap and bound: what the windows hold and a signal rests on, what leaves *)
(* a window for good, and which correlations of a file can never fire.     *)
(***************************************************************************)
EXTENDS Correlator, FiniteSetTheorems, WellFoundedInduction, TLAPS

\* A set of durations that contains 0 and is bounded has a maximum.
LEMMA MaxDefined ==
    ASSUME NEW S \in SUBSET Int, 0 \in S, NEW b \in Nat, \A d \in S : d <= b
    PROVE  Max(S) \in S /\ \A d \in S : d <= Max(S)
<1> DEFINE R == {p \in Nat \X Nat : p[1] < p[2]}
           T == {b - d : d \in S}
<1>1. IsWellFoundedOn(R, Nat)
  BY NatLessThanWellFounded, Zenon DEF OpToRel
<1>2. T \subseteq Nat /\ T # {}
  OBVIOUS
<1>3. PICK x \in T : \A y \in T : ~ (<<y, x>> \in R)
  <2> HIDE DEF R, T
  <2> QED BY <1>1, <1>2, WFMin
<1>4. \A y \in T : x <= y
  <2> SUFFICES ASSUME NEW y \in T PROVE x <= y
    OBVIOUS
  <2> HIDE DEF T
  <2>1. x \in Nat /\ y \in Nat
    BY <1>2
  <2>2. ~ (<<y, x>> \in R)
    BY <1>3
  <2> QED BY <2>1, <2>2
<1>5. PICK m \in S : x = b - m
  OBVIOUS
<1>6. \A d \in S : d <= m
  BY <1>4, <1>5
<1> QED BY <1>6 DEF Max

-----------------------------------------------------------------------------
(* What NewCorrelator and the loop of Process read from the rules file. *)

LEMMA CorrelationTypes ==
    ASSUME NEW i \in Index
    PROVE  /\ Correlations[i] \in Correlation
           /\ First(i) \in WindowTypes
           /\ Trigger(i) \in WindowTypes
           /\ Duration(i) \in Durations
<1>1. Correlations[i] \in Correlation
  BY CorrelationsAssumption DEF LoadRules, Index
<1>2. First(i) \in WindowTypes /\ Trigger(i) \in WindowTypes
  BY DEF WindowTypes
<1>3. Correlations[i].window \in Durations \cup {Unparsable}
  BY <1>1 DEF Correlation
<1>4. Duration(i) \in Durations
  BY <1>3, ConfigAssumption DEF Duration
<1> QED BY <1>1, <1>2, <1>4

\* The time a window keeps an event is a number, whatever the windows of the rules.
LEMMA EntryTTLType == ASSUME NEW t PROVE EntryTTL(t) \in Int
<1> DEFINE S == {0} \cup {Duration(i) : i \in {j \in Index : t \in {First(j), Trigger(j)}}}
<1>1. S \in SUBSET Int
  BY CorrelationTypes DEF Durations
<1>2. \A d \in S : d <= MaxDuration
  BY CorrelationTypes, ConfigAssumption DEF Durations
<1>3. Max(S) \in S
  <2> HIDE DEF S
  <2>1. 0 \in S
    BY DEF S
  <2> QED BY <1>1, <1>2, <2>1, MaxDefined, ConfigAssumption
<1>4. WindowTTL(t) \in Int
  BY <1>1, <1>3 DEF WindowTTL
<1> QED BY <1>4, ConfigAssumption DEF EntryTTL, Durations

LEMMA LengthType == Len(Correlations) \in Nat /\ Index = 1..Len(Correlations)
BY CorrelationsAssumption DEF LoadRules, Index
-----------------------------------------------------------------------------
(* Type correctness *)

LEMMA TypeInit == Init => TypeOK
BY LengthType, ConfigAssumption DEF Init, TypeOK

LEMMA TypeStep == TypeOK /\ [Next]_vars => TypeOK'
<1> SUFFICES ASSUME TypeOK, [Next]_vars PROVE TypeOK'
  OBVIOUS
<1> USE LengthType, ConfigAssumption
<1>1. CASE Tick
  BY <1>1 DEF Tick, TypeOK, Take
<1>2. CASE Receive
  <2>1. PICK t \in EventTypes, d \in [FieldNames -> FieldValues] :
            cur' = [id |-> arrived + 1, type |-> t, data |-> d]
    BY <1>2 DEF Receive
  <2>2. arrived + 1 \in 1..MaxEvents /\ arrived' \in 0..MaxEvents
    BY <1>2 DEF Receive, TypeOK
  <2>3. cur' \in Event
    BY <2>1, <2>2 DEF Event
  <2> QED BY <1>2, <2>2, <2>3 DEF Receive, TypeOK
<1>3. CASE SkipCorrelation
  BY <1>3 DEF SkipCorrelation, TypeOK
<1>4. CASE TakeMatchingEntries
  <2>1. next \in Index /\ cur \in Event /\ now \in 0..MaxTime
    BY <1>4 DEF TakeMatchingEntries, TypeOK
  <2>2. windows[First(next)] \subseteq Entry
    BY <2>1, CorrelationTypes DEF TypeOK
  <2>3. Remaining(next, cur) \subseteq Entry /\ Matches(next, cur) \subseteq Entry
    BY <2>2 DEF Remaining, Matches, Live
  <2>4. windows' \in [WindowTypes -> SUBSET Entry]
    BY <1>4, <2>3 DEF TakeMatchingEntries, TypeOK
  <2>5. [corr |-> next, trigger |-> cur, at |-> now, entries |-> Matches(next, cur),
         fired |-> Cardinality(Matches(next, cur)) >= MinCount(next)] \in Take
    BY <2>1, <2>3 DEF Take
  <2>6. takes' \subseteq Take
    BY <1>4, <2>5 DEF TakeMatchingEntries, TypeOK
  <2>7. next' \in 1..(Len(Correlations) + 1)
    BY <1>4 DEF TakeMatchingEntries, TypeOK
  <2> QED BY <1>4, <2>4, <2>6, <2>7 DEF TakeMatchingEntries, TypeOK
<1>5. CASE Add
  <2> DEFINE entry == [event |-> cur, expiresAt |-> now + EntryTTL(cur.type)]
  <2>1. cur \in Event /\ now \in Int /\ cur.type \in WindowTypes
    BY <1>5 DEF Add, TypeOK
  <2>2. entry \in Entry
    BY <2>1, EntryTTLType DEF Entry
  <2>3. PICK kept \in SUBSET (windows[cur.type] \cup {entry}) :
            windows' = [windows EXCEPT ![cur.type] = kept]
    BY <1>5 DEF Add
  <2>4. kept \subseteq Entry
    BY <2>1, <2>2, <2>3 DEF TypeOK
  <2>5. windows' \in [WindowTypes -> SUBSET Entry]
    BY <2>3, <2>4 DEF TypeOK
  <2>6. added' \subseteq Entry
    BY <1>5, <2>2 DEF Add, TypeOK
  <2> QED BY <1>5, <2>5, <2>6 DEF Add, TypeOK
<1>6. CASE Forget
  BY <1>6 DEF Forget, TypeOK
<1>7. CASE Stop
  BY <1>7 DEF Stop, TypeOK
<1>8. CASE PruneTick
  BY <1>8 DEF PruneTick, TypeOK
<1>9. ASSUME NEW t \in WindowTypes, Prune(t) PROVE TypeOK'
  <2>1. windows' \in [WindowTypes -> SUBSET Entry]
    BY <1>9 DEF Prune, TypeOK, Unexpired
  <2> QED BY <1>9, <2>1 DEF Prune, TypeOK
<1>10. CASE PrunerExit
  BY <1>10 DEF PrunerExit, TypeOK
<1>11. CASE UNCHANGED vars
  BY <1>11 DEF vars, TypeOK
<1> QED
  BY <1>1, <1>2, <1>3, <1>4, <1>5, <1>6, <1>7, <1>8, <1>9, <1>10, <1>11
  DEF Next, Process, Pruner

\* The correlator keeps its shape for every rules file: in particular the loop
\* of Process never indexes outside the correlations.
THEOREM TypeCorrect == Spec => []TypeOK
BY TypeInit, TypeStep, PTL DEF Spec
-----------------------------------------------------------------------------
(* The inductive invariant *)

\* Windows hold entries that were added under their type; ids grow with arrival;
\* what a trigger took had been added.
HistoryInv ==
    /\ \A t \in WindowTypes : \A e \in windows[t] : e \in added /\ e.event.type = t
    /\ \A e \in added : e.event.id <= arrived /\ (cur # None => e.event.id < arrived)
    /\ cur # None => cur.id = arrived
    /\ \A k \in takes : k.trigger.id <= arrived /\ k.entries \subseteq added
    /\ \A e \in added : e.event.type \in WindowTypes
    /\ IsFiniteSet(added)

\* Later entries of a type expire later, and the next one will too.
ExpiryInv ==
    /\ \A e \in added : e.expiresAt <= now + EntryTTL(e.event.type)
    /\ \A e, f \in added :
          e.event.type = f.event.type /\ e.event.id < f.event.id => e.expiresAt <= f.expiresAt

IInv == /\ TypeOK /\ HistoryInv /\ ExpiryInv /\ NoDoubleUse
        /\ SignalJustified /\ Drained /\ WindowBound /\ NoSilentLoss

\* The steps that touch neither the windows nor the events.
Quiet == UNCHANGED <<windows, cur, arrived, added, takes>> /\ now' \in {now, now + 1}

LEMMA StepCases ==
    [Next]_vars => \/ Quiet \/ Receive \/ TakeMatchingEntries \/ Add \/ Forget
                   \/ \E t \in WindowTypes : Prune(t)
<1> SUFFICES ASSUME [Next]_vars
             PROVE  \/ Quiet \/ Receive \/ TakeMatchingEntries \/ Add \/ Forget
                    \/ \E t \in WindowTypes : Prune(t)
  OBVIOUS
<1>1. Tick => Quiet
  BY DEF Tick, Quiet
<1>2. SkipCorrelation => Quiet
  BY DEF SkipCorrelation, Quiet
<1>3. Stop \/ PruneTick \/ PrunerExit => Quiet
  BY DEF Stop, PruneTick, PrunerExit, Quiet
<1>4. UNCHANGED vars => Quiet
  BY DEF vars, Quiet
<1> QED BY <1>1, <1>2, <1>3, <1>4 DEF Next, Process, Pruner

\* What the types give about the members of the state.
LEMMA Types ==
    ASSUME TypeOK
    PROVE  /\ now \in Int /\ arrived \in Int
           /\ cur # None => cur \in Event /\ cur.id \in Int
           /\ \A e \in added : e \in Entry /\ e.event.id \in Int /\ e.expiresAt \in Int
           /\ \A t \in WindowTypes : \A e \in windows[t] :
                 e.event.id \in Int /\ e.expiresAt \in Int
           /\ \A k \in takes : k.corr \in Index /\ k.trigger.id \in Int
BY ConfigAssumption DEF TypeOK, Entry, Event, Take

\* Each window after a step of the loop of Process or of the pruner.
LEMMA TakeShrinks ==
    ASSUME TypeOK, TakeMatchingEntries
    PROVE  /\ next \in Index /\ cur # None /\ First(next) \in WindowTypes
           /\ windows'[First(next)] = Remaining(next, cur)
           /\ \A t \in WindowTypes : t # First(next) => windows'[t] = windows[t]
           /\ \A t \in WindowTypes : windows'[t] \subseteq windows[t]
           /\ Matches(next, cur) \subseteq windows[First(next)]
           /\ UNCHANGED <<now, cur, arrived, added>>
BY CorrelationTypes DEF TakeMatchingEntries, TypeOK, Remaining, Matches, Live

LEMMA PruneShrinks ==
    ASSUME TypeOK, NEW u \in WindowTypes, Prune(u)
    PROVE  /\ windows'[u] = Unexpired(windows[u])
           /\ \A t \in WindowTypes : t # u => windows'[t] = windows[t]
           /\ \A t \in WindowTypes : windows'[t] \subseteq windows[t]
           /\ UNCHANGED <<now, cur, arrived, added, takes>>
BY DEF Prune, TypeOK, Unexpired

LEMMA AddGrows ==
    ASSUME TypeOK, HistoryInv, Add
    PROVE  \E entry \in Entry :
              /\ entry = [event |-> cur, expiresAt |-> now + EntryTTL(cur.type)]
              /\ entry.event = cur /\ entry.expiresAt = now + EntryTTL(cur.type)
              /\ cur # None /\ cur.id = arrived /\ cur.type \in WindowTypes
              /\ added' = added \cup {entry}
              /\ windows'[cur.type] \subseteq windows[cur.type] \cup {entry}
              /\ KeepsNewest(windows[cur.type] \cup {entry}, windows'[cur.type])
              /\ \A t \in WindowTypes : t # cur.type => windows'[t] = windows[t]
              /\ cur' = None
              /\ UNCHANGED <<now, arrived, takes>>
<1> DEFINE entry == [event |-> cur, expiresAt |-> now + EntryTTL(cur.type)]
           w == windows[cur.type] \cup {entry}
<1>1. cur # None /\ cur \in Event /\ cur.id = arrived /\ cur.type \in WindowTypes
  BY DEF Add, TypeOK, HistoryInv
<1>2. entry \in Entry
  BY <1>1, EntryTTLType, Types DEF Entry
<1>3. PICK kept \in SUBSET w :
          KeepsNewest(w, kept) /\ windows' = [windows EXCEPT ![cur.type] = kept]
  BY DEF Add
<1>4. windows'[cur.type] = kept /\ \A t \in WindowTypes : t # cur.type => windows'[t] = windows[t]
  BY <1>1, <1>3 DEF TypeOK
<1>5. added' = added \cup {entry} /\ cur' = None /\ UNCHANGED <<now, arrived, takes>>
  BY DEF Add
<1> HIDE DEF w
<1>6. entry.event = cur /\ entry.expiresAt = now + EntryTTL(cur.type)
  OBVIOUS
<1> HIDE DEF entry
<1> QED BY <1>1, <1>2, <1>3, <1>4, <1>5, <1>6 DEF w, entry
-----------------------------------------------------------------------------
(* Every part of the invariant is preserved *)

LEMMA HistoryStep == TypeOK /\ HistoryInv /\ [Next]_vars => HistoryInv'
<1> SUFFICES ASSUME TypeOK, HistoryInv, [Next]_vars PROVE HistoryInv'
  OBVIOUS
<1>1. CASE Quiet
  BY <1>1 DEF Quiet, HistoryInv
<1>2. CASE Receive
  <2>1. cur = None /\ cur'.id = arrived + 1 /\ arrived' = arrived + 1
        /\ UNCHANGED <<windows, added, takes>>
    BY <1>2 DEF Receive
  <2>2. \A e \in added : e.event.id < arrived'
    BY <2>1, Types DEF HistoryInv
  <2>3. \A k \in takes : k.trigger.id <= arrived' /\ k.entries \subseteq added
    BY <2>1, Types DEF HistoryInv
  <2> QED BY <2>1, <2>2, <2>3, Types DEF HistoryInv
<1>3. CASE TakeMatchingEntries
  <2> DEFINE new == [corr |-> next, trigger |-> cur, at |-> now,
                     entries |-> Matches(next, cur),
                     fired |-> Cardinality(Matches(next, cur)) >= MinCount(next)]
  <2>1. new.trigger.id <= arrived /\ new.entries \subseteq added
    BY <1>3, TakeShrinks, Types DEF HistoryInv
  <2>2. takes' = takes \cup {new}
    BY <1>3 DEF TakeMatchingEntries
  <2> HIDE DEF new
  <2>3. \A k \in takes' : k.trigger.id <= arrived' /\ k.entries \subseteq added'
    BY <1>3, <2>1, <2>2, TakeShrinks DEF HistoryInv
  <2>4. \A t \in WindowTypes : \A e \in windows'[t] : e \in added' /\ e.event.type = t
    BY <1>3, TakeShrinks DEF HistoryInv
  <2> QED BY <1>3, <2>3, <2>4, TakeShrinks DEF HistoryInv
<1>4. CASE Add
  <2>1. PICK entry \in Entry :
              /\ entry.event = cur
              /\ cur # None /\ cur.id = arrived /\ cur.type \in WindowTypes
              /\ added' = added \cup {entry}
              /\ windows'[cur.type] \subseteq windows[cur.type] \cup {entry}
              /\ \A t \in WindowTypes : t # cur.type => windows'[t] = windows[t]
              /\ cur' = None
              /\ UNCHANGED <<now, arrived, takes>>
    BY <1>4, AddGrows
  <2>2. \A t \in WindowTypes : \A e \in windows'[t] : e \in added' /\ e.event.type = t
    BY <2>1 DEF HistoryInv
  <2>3. \A e \in added' : e.event.id <= arrived'
    BY <2>1, Types DEF HistoryInv
  <2>4. IsFiniteSet(added')
    BY <2>1, FS_AddElement DEF HistoryInv
  <2>5. \A k \in takes' : k.trigger.id <= arrived' /\ k.entries \subseteq added'
    BY <2>1 DEF HistoryInv
  <2> QED BY <2>1, <2>2, <2>3, <2>4, <2>5 DEF HistoryInv
<1>5. CASE Forget
  BY <1>5 DEF Forget, HistoryInv
<1>6. ASSUME NEW u \in WindowTypes, Prune(u) PROVE HistoryInv'
  BY <1>6, PruneShrinks DEF HistoryInv
<1> QED BY <1>1, <1>2, <1>3, <1>4, <1>5, <1>6, StepCases

LEMMA ExpiryStep == TypeOK /\ HistoryInv /\ ExpiryInv /\ [Next]_vars => ExpiryInv'
<1> SUFFICES ASSUME TypeOK, HistoryInv, ExpiryInv, [Next]_vars PROVE ExpiryInv'
  OBVIOUS
<1>1. CASE UNCHANGED added /\ now' \in {now, now + 1}
  <2>1. \A e \in added : e.expiresAt <= now' + EntryTTL(e.event.type)
    BY <1>1, Types, EntryTTLType DEF ExpiryInv
  <2> QED BY <1>1, <2>1 DEF ExpiryInv
<1>2. CASE Add
  <2>1. PICK entry \in Entry :
              /\ entry.event = cur /\ entry.expiresAt = now + EntryTTL(cur.type)
              /\ cur # None /\ cur.id = arrived
              /\ added' = added \cup {entry}
              /\ UNCHANGED <<now, arrived, takes>>
    BY <1>2, AddGrows
  <2>2. entry.expiresAt \in Int /\ entry.event.id \in Int
    BY <2>1, Types, EntryTTLType
  <2>3. \A e \in added' : e.expiresAt <= now' + EntryTTL(e.event.type)
    BY <2>1, <2>2 DEF ExpiryInv
  <2>4. \A e \in added : e.event.type = entry.event.type => e.expiresAt <= entry.expiresAt
    BY <2>1 DEF ExpiryInv
  <2>5. \A e \in added : e.event.id < entry.event.id /\ e.event.id \in Int
    BY <2>1, Types DEF HistoryInv
  <2>6. ASSUME NEW e \in added', NEW f \in added',
               e.event.type = f.event.type, e.event.id < f.event.id
        PROVE  e.expiresAt <= f.expiresAt
    <3>1. CASE e \in added /\ f \in added
      BY <2>6, <3>1 DEF ExpiryInv
    <3>2. CASE e \in added /\ f = entry
      BY <2>6, <3>2, <2>4
    <3>3. CASE e = entry /\ f \in added
      BY <2>2, <2>5, <2>6, <3>3
    <3>4. CASE e = entry /\ f = entry
      BY <2>2, <2>6, <3>4
    <3> QED BY <2>1, <3>1, <3>2, <3>3, <3>4
  <2> QED BY <2>3, <2>6 DEF ExpiryInv
<1>3. TakeMatchingEntries => UNCHANGED <<added, now>>
  BY DEF TakeMatchingEntries
<1>4. Receive \/ Forget => UNCHANGED <<added, now>>
  BY DEF Receive, Forget
<1>5. ASSUME NEW u \in WindowTypes, Prune(u) PROVE UNCHANGED <<added, now>>
  BY <1>5 DEF Prune
<1>6. Quiet => UNCHANGED added /\ now' \in {now, now + 1}
  BY DEF Quiet
<1> QED BY <1>1, <1>2, <1>3, <1>4, <1>5, <1>6, StepCases

LEMMA DoubleUseStep == TypeOK /\ HistoryInv /\ NoDoubleUse /\ [Next]_vars => NoDoubleUse'
<1> SUFFICES ASSUME TypeOK, HistoryInv, NoDoubleUse, [Next]_vars PROVE NoDoubleUse'
  OBVIOUS
<1>1. CASE UNCHANGED takes /\ \A t \in WindowTypes : windows'[t] \subseteq windows[t]
  BY <1>1 DEF NoDoubleUse
<1>2. CASE TakeMatchingEntries
  <2> DEFINE new == [corr |-> next, trigger |-> cur, at |-> now,
                     entries |-> Matches(next, cur),
                     fired |-> Cardinality(Matches(next, cur)) >= MinCount(next)]
  <2>1. takes' = takes \cup {new} /\ new.entries = Matches(next, cur)
    BY <1>2 DEF TakeMatchingEntries
  <2> HIDE DEF new
  <2>2. \A k \in takes : k.entries \cap new.entries = {}
    BY <1>2, <2>1, TakeShrinks DEF NoDoubleUse
  <2>3. \A t \in WindowTypes : new.entries \cap windows'[t] = {}
    <3>1. new.entries \cap windows'[First(next)] = {}
      BY <1>2, <2>1, TakeShrinks DEF Remaining
    <3>2. \A t \in WindowTypes : t # First(next) => windows[First(next)] \cap windows[t] = {}
      BY <1>2, TakeShrinks DEF HistoryInv
    <3> QED BY <1>2, <2>1, <3>1, <3>2, TakeShrinks
  <2>4. \A k \in takes : \A t \in WindowTypes : k.entries \cap windows'[t] = {}
    BY <1>2, TakeShrinks DEF NoDoubleUse
  <2> QED BY <2>1, <2>2, <2>3, <2>4 DEF NoDoubleUse
<1>3. CASE Add
  <2>1. PICK entry \in Entry :
              /\ entry.event = cur /\ cur # None /\ cur.id = arrived
              /\ cur.type \in WindowTypes
              /\ windows'[cur.type] \subseteq windows[cur.type] \cup {entry}
              /\ \A t \in WindowTypes : t # cur.type => windows'[t] = windows[t]
              /\ UNCHANGED takes
    BY <1>3, AddGrows
  <2>2. entry \notin added
    BY <2>1, Types DEF HistoryInv
  <2>3. \A k \in takes : entry \notin k.entries
    BY <2>2 DEF HistoryInv
  <2>4. \A k \in takes : \A t \in WindowTypes : k.entries \cap windows'[t] = {}
    BY <2>1, <2>3 DEF NoDoubleUse
  <2> QED BY <2>1, <2>4 DEF NoDoubleUse
<1>4. Quiet \/ Receive \/ Forget => UNCHANGED <<takes, windows>>
  BY DEF Quiet, Receive, Forget
<1> QED BY <1>1, <1>2, <1>3, <1>4, PruneShrinks, StepCases

LEMMA JustifiedStep ==
    TypeOK /\ HistoryInv /\ SignalJustified /\ [Next]_vars => SignalJustified'
<1> SUFFICES ASSUME TypeOK, HistoryInv, SignalJustified, [Next]_vars PROVE SignalJustified'
  OBVIOUS
<1>1. CASE UNCHANGED takes
  BY <1>1 DEF SignalJustified
<1>2. CASE TakeMatchingEntries
  <2> DEFINE new == [corr |-> next, trigger |-> cur, at |-> now,
                     entries |-> Matches(next, cur),
                     fired |-> Cardinality(Matches(next, cur)) >= MinCount(next)]
  <2>1. /\ takes' = takes \cup {new}
        /\ new.corr = next /\ new.trigger = cur /\ new.at = now
        /\ new.entries = Matches(next, cur)
        /\ new.fired => Cardinality(new.entries) >= MinCount(next)
        /\ cur.type = Trigger(next)
    BY <1>2 DEF TakeMatchingEntries
  <2> HIDE DEF new
  <2>2. ASSUME NEW e \in new.entries
        PROVE  /\ e.event.type = First(next) /\ e.event.id < cur.id
               /\ FieldsMatch(Correlations[next].sameFields, e.event, cur)
               /\ e.expiresAt >= now
    <3>1. e \in windows[First(next)] /\ e.expiresAt >= now
          /\ FieldsMatch(Correlations[next].sameFields, e.event, cur)
      BY <2>1 DEF Matches, Live
    <3> QED BY <1>2, <3>1, TakeShrinks DEF HistoryInv
  <2> QED BY <2>1, <2>2 DEF SignalJustified
<1>3. ~ TakeMatchingEntries => UNCHANGED takes
  BY StepCases DEF Quiet, Receive, Add, Forget, Prune
<1> QED BY <1>1, <1>2, <1>3

LEMMA DrainedStep == TypeOK /\ HistoryInv /\ Drained /\ [Next]_vars => Drained'
<1> SUFFICES ASSUME TypeOK, HistoryInv, Drained, [Next]_vars PROVE Drained'
  OBVIOUS
<1>1. CASE UNCHANGED takes /\ \A t \in WindowTypes : windows'[t] \subseteq windows[t]
  BY <1>1, CorrelationTypes, Types DEF Drained
<1>2. CASE TakeMatchingEntries
  <2> DEFINE new == [corr |-> next, trigger |-> cur, at |-> now,
                     entries |-> Matches(next, cur),
                     fired |-> Cardinality(Matches(next, cur)) >= MinCount(next)]
  <2>1. takes' = takes \cup {new} /\ new.corr = next /\ new.trigger = cur
    BY <1>2 DEF TakeMatchingEntries
  <2> HIDE DEF new
  <2>2. \A e \in windows'[First(next)] :
            ~ FieldsMatch(Correlations[next].sameFields, e.event, cur)
    BY <1>2, TakeShrinks DEF Remaining, Matches
  <2>3. ASSUME NEW k \in takes, NEW e \in windows'[First(k.corr)],
               e.event.id < k.trigger.id
        PROVE  ~ FieldsMatch(Correlations[k.corr].sameFields, e.event, k.trigger)
    BY <1>2, <2>3, TakeShrinks, CorrelationTypes, Types DEF Drained
  <2> QED BY <2>1, <2>2, <2>3 DEF Drained
<1>3. CASE Add
  <2>1. PICK entry \in Entry :
              /\ entry.event = cur /\ cur # None /\ cur.id = arrived
              /\ cur.type \in WindowTypes
              /\ windows'[cur.type] \subseteq windows[cur.type] \cup {entry}
              /\ \A t \in WindowTypes : t # cur.type => windows'[t] = windows[t]
              /\ UNCHANGED takes
    BY <1>3, AddGrows
  <2>2. ASSUME NEW k \in takes, NEW e \in windows'[First(k.corr)],
               e.event.id < k.trigger.id
        PROVE  e \in windows[First(k.corr)]
    <3>1. First(k.corr) \in WindowTypes
      BY CorrelationTypes, Types
    <3>2. k.trigger.id <= arrived /\ k.trigger.id \in Int /\ arrived \in Int
      BY Types DEF HistoryInv
    <3>3. e # entry
      BY <2>1, <2>2, <3>2
    <3> QED BY <2>1, <3>1, <3>3
  <2> QED BY <2>1, <2>2 DEF Drained
<1>4. Quiet \/ Receive \/ Forget => UNCHANGED <<takes, windows>>
  BY DEF Quiet, Receive, Forget
<1> QED BY <1>1, <1>2, <1>3, <1>4, PruneShrinks, StepCases

LEMMA WindowFinite ==
    ASSUME HistoryInv, NEW t \in WindowTypes
    PROVE  IsFiniteSet(windows[t]) /\ Cardinality(windows[t]) \in Nat
<1>1. windows[t] \in SUBSET added
  BY DEF HistoryInv
<1> QED BY <1>1, FS_Subset, FS_CardinalityType DEF HistoryInv

LEMMA BoundStep == TypeOK /\ HistoryInv /\ WindowBound /\ [Next]_vars => WindowBound'
<1> SUFFICES ASSUME TypeOK, HistoryInv, WindowBound, [Next]_vars, MaxWindowSize > 0,
                    NEW t \in WindowTypes
             PROVE  Cardinality(windows'[t]) <= MaxWindowSize
  BY DEF WindowBound
<1>1. CASE windows'[t] \subseteq windows[t]
  <2>1. Cardinality(windows'[t]) <= Cardinality(windows[t])
        /\ Cardinality(windows'[t]) \in Nat
    BY <1>1, WindowFinite, FS_Subset, FS_CardinalityType
  <2> QED BY <2>1, WindowFinite, ConfigAssumption DEF WindowBound
<1>2. CASE Add
  <2>1. PICK entry \in Entry :
              /\ cur.type \in WindowTypes
              /\ KeepsNewest(windows[cur.type] \cup {entry}, windows'[cur.type])
              /\ \A u \in WindowTypes : u # cur.type => windows'[u] = windows[u]
    BY <1>2, AddGrows
  <2>2. CASE t # cur.type
    BY <1>1, <2>1, <2>2
  <2>3. CASE t = cur.type
    <3> DEFINE w == windows[cur.type] \cup {entry}
    <3> HIDE DEF w
    <3>1. KeepsNewest(w, windows'[t])
      BY <2>1, <2>3 DEF w
    <3> QED BY <3>1, ConfigAssumption DEF KeepsNewest
  <2> QED BY <2>2, <2>3
<1>3. Quiet \/ Receive \/ Forget => UNCHANGED windows
  BY DEF Quiet, Receive, Forget
<1> QED BY <1>1, <1>2, <1>3, TakeShrinks, PruneShrinks, StepCases

\* The number of newer entries an overflow leaves behind only grows.
LEMMA NewerGrows ==
    ASSUME HistoryInv, HistoryInv', added \subseteq added', NEW e, NEW n \in Nat,
           Cardinality(NewerThan(e)) >= n
    PROVE  Cardinality(NewerThan(e)') >= n
<1>1. NewerThan(e) \in SUBSET added /\ NewerThan(e)' \in SUBSET added'
      /\ NewerThan(e) \in SUBSET NewerThan(e)'
  BY DEF NewerThan
<1>2. IsFiniteSet(NewerThan(e)) /\ IsFiniteSet(NewerThan(e)')
  BY <1>1, FS_Subset DEF HistoryInv
<1>3. Cardinality(NewerThan(e)) <= Cardinality(NewerThan(e)')
  BY <1>1, <1>2, FS_Subset
<1> QED BY <1>2, <1>3, FS_CardinalityType

\* Why an entry may be missing from its window.
Explained(e) == \/ e \in windows[e.event.type]
                \/ \E k \in takes : e \in k.entries
                \/ e.expiresAt <= now
                \/ MaxWindowSize > 0 /\ Cardinality(NewerThan(e)) >= MaxWindowSize

LEMMA LossStep ==
    TypeOK /\ HistoryInv /\ HistoryInv' /\ NoSilentLoss /\ [Next]_vars => NoSilentLoss'
<1> SUFFICES ASSUME TypeOK, HistoryInv, HistoryInv', NoSilentLoss, [Next]_vars
             PROVE  \A e \in added' : Explained(e)'
  BY DEF NoSilentLoss, Explained
<1> USE ConfigAssumption
<1>0. \A e \in added : Explained(e)
  BY DEF NoSilentLoss, Explained
<1>1. CASE Quiet
  <2>1. \A e \in added : NewerThan(e)' = NewerThan(e)
    BY <1>1 DEF Quiet, NewerThan
  <2>2. \A e \in added : e.expiresAt <= now => e.expiresAt <= now'
    BY <1>1, Types DEF Quiet
  <2> QED BY <1>0, <1>1, <2>1, <2>2 DEF Quiet, Explained
<1>2. CASE Receive \/ Forget
  <2>1. UNCHANGED <<windows, takes, now, added>>
    BY <1>2 DEF Receive, Forget
  <2> QED BY <1>0, <2>1 DEF Explained, NewerThan
<1>3. CASE TakeMatchingEntries
  <2> SUFFICES ASSUME NEW e \in added PROVE Explained(e)'
    BY <1>3, TakeShrinks
  <2>1. NewerThan(e)' = NewerThan(e) /\ now' = now /\ takes \subseteq takes'
    BY <1>3 DEF TakeMatchingEntries, NewerThan
  <2>2. CASE e \in windows[e.event.type] /\ e.event.type = First(next)
    <3>1. e \in Matches(next, cur) \/ e.expiresAt < now \/ e \in windows'[First(next)]
      BY <1>3, <2>2, TakeShrinks, Types DEF Remaining, Live
    <3>2. e \in Matches(next, cur) => \E k \in takes' : e \in k.entries
      <4> DEFINE new == [corr |-> next, trigger |-> cur, at |-> now,
                         entries |-> Matches(next, cur),
                         fired |-> Cardinality(Matches(next, cur)) >= MinCount(next)]
      <4>1. new \in takes' /\ new.entries = Matches(next, cur)
        BY <1>3 DEF TakeMatchingEntries
      <4> HIDE DEF new
      <4> QED BY <4>1
    <3> QED BY <2>1, <2>2, <3>1, <3>2, Types DEF Explained
  <2>3. CASE e \in windows[e.event.type] /\ e.event.type # First(next)
    <3>1. e \in windows'[e.event.type]
      BY <1>3, <2>3, TakeShrinks DEF HistoryInv
    <3> QED BY <3>1 DEF Explained
  <2>4. CASE e \notin windows[e.event.type]
    BY <1>0, <2>1, <2>4 DEF Explained
  <2> QED BY <2>2, <2>3, <2>4
<1>4. CASE Add
  <2>1. PICK entry \in Entry :
              /\ entry.event = cur
              /\ cur # None /\ cur.id = arrived /\ cur.type \in WindowTypes
              /\ added' = added \cup {entry}
              /\ KeepsNewest(windows[cur.type] \cup {entry}, windows'[cur.type])
              /\ windows'[cur.type] \subseteq windows[cur.type] \cup {entry}
              /\ \A t \in WindowTypes : t # cur.type => windows'[t] = windows[t]
              /\ UNCHANGED <<now, arrived, takes>>
    BY <1>4, AddGrows
  <2> DEFINE w == windows[cur.type] \cup {entry}
             kept == windows'[cur.type]
  \* What does not fit is followed by a full window of newer entries.
  <2>2. ASSUME NEW e \in w \ kept, e.event.type = cur.type
        PROVE  MaxWindowSize > 0 /\ Cardinality(NewerThan(e)') >= MaxWindowSize
    <3> HIDE DEF w
    <3>1. /\ MaxWindowSize > 0 /\ Cardinality(kept) = MaxWindowSize
          /\ \A k \in kept : e.event.id < k.event.id
      BY <2>1, <2>2 DEF KeepsNewest, w
    <3>2. kept \in SUBSET (NewerThan(e)')
      <4>1. \A k \in kept : k \in added' /\ k.event.type = cur.type
        BY <2>1 DEF HistoryInv
      <4>2. \A k \in kept : k.event.id \in Int
        <5>1. \A k \in added' : k \in Entry
          BY <2>1, Types
        <5> QED BY <4>1, <5>1 DEF Entry, Event
      <4>3. e.event.id \in Int
        BY <2>1, <2>2, Types DEF w, Entry, Event
      <4> QED BY <2>2, <3>1, <4>1, <4>2, <4>3 DEF NewerThan
    <3>3. NewerThan(e)' \in SUBSET added'
      BY DEF NewerThan
    <3>4. IsFiniteSet(NewerThan(e)')
      BY <3>3, FS_Subset DEF HistoryInv
    <3>5. Cardinality(kept) <= Cardinality(NewerThan(e)')
      BY <3>2, <3>4, FS_Subset
    <3> QED BY <3>1, <3>4, <3>5, FS_CardinalityType
  <2>3. ASSUME NEW e \in w, e.event.type = cur.type PROVE Explained(e)'
    BY <2>2, <2>3 DEF Explained
  <2>4. Explained(entry)'
    BY <2>1, <2>3
  <2>5. ASSUME NEW e \in added PROVE Explained(e)'
    <3>1. CASE e \in windows[e.event.type] /\ e.event.type = cur.type
      BY <2>3, <3>1
    <3>2. CASE e \in windows[e.event.type] /\ e.event.type # cur.type
      <4>1. windows'[e.event.type] = windows[e.event.type]
        BY <2>1, <3>2 DEF HistoryInv
      <4> QED BY <3>2, <4>1 DEF Explained
    <3>3. CASE MaxWindowSize > 0 /\ Cardinality(NewerThan(e)) >= MaxWindowSize
      <4>1. Cardinality(NewerThan(e)') >= MaxWindowSize
        BY <2>1, <3>3, NewerGrows
      <4> QED BY <3>3, <4>1 DEF Explained
    <3>4. CASE (\E k \in takes : e \in k.entries) \/ e.expiresAt <= now
      BY <2>1, <3>4 DEF Explained
    <3> QED BY <1>0, <3>1, <3>2, <3>3, <3>4 DEF Explained
  <2> QED BY <2>1, <2>4, <2>5
<1>5. ASSUME NEW u \in WindowTypes, Prune(u) PROVE \A e \in added' : Explained(e)'
  <2> SUFFICES ASSUME NEW e \in added PROVE Explained(e)'
    BY <1>5, PruneShrinks
  <2>1. NewerThan(e)' = NewerThan(e) /\ now' = now /\ takes' = takes
    BY <1>5 DEF Prune, NewerThan
  <2>2. CASE e \in windows[e.event.type]
    <3>1. e.event.type = u => e.expiresAt <= now \/ e \in windows'[u]
      BY <1>5, <2>2, PruneShrinks, Types DEF Unexpired
    <3>2. e.event.type # u => windows'[e.event.type] = windows[e.event.type]
      BY <1>5, PruneShrinks DEF HistoryInv
    <3> QED BY <2>1, <2>2, <3>1, <3>2 DEF Explained
  <2>3. CASE e \notin windows[e.event.type]
    BY <1>0, <2>1, <2>3 DEF Explained
  <2> QED BY <2>2, <2>3
<1> QED BY <1>1, <1>2, <1>3, <1>4, <1>5, StepCases
-----------------------------------------------------------------------------
LEMMA InvInit == Init => IInv
<1> SUFFICES ASSUME Init PROVE IInv
  OBVIOUS
<1>1. TypeOK
  BY TypeInit
<1>2. HistoryInv /\ ExpiryInv /\ NoDoubleUse /\ SignalJustified /\ Drained /\ NoSilentLoss
  BY FS_EmptySet DEF Init, HistoryInv, ExpiryInv, NoDoubleUse, SignalJustified, Drained,
                     NoSilentLoss
<1>3. WindowBound
  BY FS_EmptySet, ConfigAssumption DEF Init, WindowBound
<1> QED BY <1>1, <1>2, <1>3 DEF IInv

LEMMA InvStep == IInv /\ [Next]_vars => IInv'
BY TypeStep, HistoryStep, ExpiryStep, DoubleUseStep, JustifiedStep, DrainedStep, BoundStep,
   LossStep DEF IInv

LEMMA InvHolds == Spec => []IInv
BY InvInit, InvStep, PTL DEF Spec

\* max_window_size is never exceeded, whatever runs between Add and Prune.
THEOREM WindowBounded == Spec => []WindowBound
<1>1. IInv => WindowBound
  BY DEF IInv
<1> QED BY <1>1, InvHolds, PTL

\* The arrival order of a window is its expiry order, for every set of
\* correlations: they share one TTL per event type.
THEOREM WindowsOrdered == Spec => []WindowOrdered
<1>1. IInv => WindowOrdered
  BY DEF IInv, HistoryInv, ExpiryInv, WindowOrdered
<1> QED BY <1>1, InvHolds, PTL

\* No event counts twice, whichever correlations share a first type.
THEOREM TakenOnce == Spec => []NoDoubleUse
<1>1. IInv => NoDoubleUse
  BY DEF IInv
<1> QED BY <1>1, InvHolds, PTL

\* Every correlation signal rests on enough earlier, matching, live events.
THEOREM SignalsJustified == Spec => []SignalJustified
<1>1. IInv => SignalJustified
  BY DEF IInv
<1> QED BY <1>1, InvHolds, PTL

\* A trigger leaves no older match behind, even below MinFirstCount.
THEOREM TriggersDrain == Spec => []Drained
<1>1. IInv => Drained
  BY DEF IInv
<1> QED BY <1>1, InvHolds, PTL

\* An entry is lost only to a trigger, to its deadline or to newer entries.
THEOREM NothingSilentlyLost == Spec => []NoSilentLoss
<1>1. IInv => NoSilentLoss
  BY DEF IInv
<1> QED BY <1>1, InvHolds, PTL
-----------------------------------------------------------------------------
(* Correlations that cannot fire, and the age of what the others fire on. *)

\* A trigger takes no more events than a window holds.
TakesSmall ==
    MaxWindowSize > 0 =>
        \A k \in takes : Cardinality(k.entries) \in Nat /\ Cardinality(k.entries) <= MaxWindowSize

\* The loop of Process records a take for each correlation it has passed that the event
\* triggers.
LoopInv ==
    cur # None =>
        \A i \in Index : i < next /\ Trigger(i) = cur.type =>
            \E k \in takes : k.corr = i /\ k.trigger = cur

\* Correlation i drains what j could use: it comes first in the file, waits for the same
\* trigger over the same window, and compares no field that j does not compare.
Shadows(i, j) ==
    /\ i < j /\ First(i) = First(j) /\ Trigger(i) = Trigger(j)
    /\ Correlations[i].sameFields \subseteq Correlations[j].sameFields
EmptyInv ==
    \A k \in takes : (\E i \in Index : Shadows(i, k.corr)) => k.entries = {} /\ ~k.fired

\* What a take records.
LEMMA TakeRecord ==
    ASSUME TypeOK, TakeMatchingEntries
    PROVE  \E new \in Take :
              /\ takes' = takes \cup {new}
              /\ new.corr = next /\ new.trigger = cur /\ new.entries = Matches(next, cur)
              /\ new.fired <=> Cardinality(new.entries) >= MinCount(next)
<1> DEFINE new == [corr |-> next, trigger |-> cur, at |-> now,
                   entries |-> Matches(next, cur),
                   fired |-> Cardinality(Matches(next, cur)) >= MinCount(next)]
<1>1. next \in Index /\ cur \in Event /\ now \in 0..MaxTime
  BY DEF TakeMatchingEntries, TypeOK
<1>2. windows[First(next)] \subseteq Entry
  BY <1>1, CorrelationTypes DEF TypeOK
<1>3. Matches(next, cur) \subseteq Entry
  BY <1>2 DEF Matches, Live
<1>4. new \in Take
  BY <1>1, <1>3 DEF Take
<1>5. takes' = takes \cup {new}
  BY DEF TakeMatchingEntries
<1>6. /\ new.corr = next /\ new.trigger = cur /\ new.entries = Matches(next, cur)
      /\ new.fired <=> Cardinality(new.entries) >= MinCount(next)
  OBVIOUS
<1> HIDE DEF new
<1> QED BY <1>4, <1>5, <1>6

\* Only a trigger's drain adds to what was taken.
LEMMA TakesKept == TypeOK /\ [Next]_vars => takes' = takes \/ TakeMatchingEntries
BY StepCases DEF Quiet, Receive, Add, Forget, Prune

\* One drain takes no more than the window holds.
LEMMA SmallStep ==
    TypeOK /\ HistoryInv /\ WindowBound /\ TakesSmall /\ [Next]_vars => TakesSmall'
<1> SUFFICES ASSUME TypeOK, HistoryInv, WindowBound, TakesSmall, TakeMatchingEntries,
                    MaxWindowSize > 0
             PROVE  TakesSmall'
  BY TakesKept DEF TakesSmall
<1>1. PICK new \in Take : takes' = takes \cup {new} /\ new.entries = Matches(next, cur)
  BY TakeRecord
<1>2. /\ First(next) \in WindowTypes
      /\ Matches(next, cur) \in SUBSET windows[First(next)]
  BY TakeShrinks
<1>3. /\ IsFiniteSet(windows[First(next)]) /\ Cardinality(windows[First(next)]) \in Nat
      /\ Cardinality(windows[First(next)]) <= MaxWindowSize
  BY <1>2, WindowFinite DEF WindowBound
<1>4. /\ Cardinality(new.entries) \in Nat
      /\ Cardinality(new.entries) <= Cardinality(windows[First(next)])
  BY <1>1, <1>2, <1>3, FS_Subset, FS_CardinalityType
<1>5. MaxWindowSize \in Nat
  BY ConfigAssumption
<1>6. Cardinality(new.entries) <= MaxWindowSize
  BY <1>3, <1>4, <1>5
<1> QED BY <1>1, <1>4, <1>6 DEF TakesSmall

\* The loop goes through the correlations one by one.
LEMMA LoopStep == TypeOK /\ LoopInv /\ [Next]_vars => LoopInv'
<1> SUFFICES ASSUME TypeOK, LoopInv, [Next]_vars, cur' # None, NEW i \in Index,
                    i < next', Trigger(i) = cur'.type
             PROVE  \E k \in takes' : k.corr = i /\ k.trigger = cur'
  BY DEF LoopInv
<1>1. i \in Int /\ i >= 1 /\ next \in Int
  BY LengthType DEF TypeOK
<1>2. ~ Receive
  BY <1>1 DEF Receive
<1>3. CASE SkipCorrelation
  <2>1. cur' = cur /\ takes' = takes /\ next' = next + 1 /\ Trigger(next) # cur.type
    BY <1>3 DEF SkipCorrelation
  <2>2. i # next /\ i < next
    BY <1>1, <2>1
  <2> QED BY <2>1, <2>2 DEF LoopInv
<1>4. CASE TakeMatchingEntries
  <2>1. PICK new \in Take : takes' = takes \cup {new} /\ new.corr = next /\ new.trigger = cur
    BY <1>4, TakeRecord
  <2>2. cur' = cur /\ next' = next + 1
    BY <1>4 DEF TakeMatchingEntries
  <2>3. i = next \/ i < next
    BY <1>1, <2>2
  <2> QED BY <2>1, <2>2, <2>3 DEF LoopInv
<1>5. ~ Add /\ ~ Forget
  BY DEF Add, Forget
<1>6. ASSUME UNCHANGED <<cur, takes, next>> PROVE \E k \in takes' : k.corr = i /\ k.trigger = cur'
  BY <1>6 DEF LoopInv
<1>7. CASE Tick \/ Stop \/ PruneTick \/ PrunerExit \/ UNCHANGED vars
  BY <1>6, <1>7 DEF Tick, Stop, PruneTick, PrunerExit, vars
<1>8. CASE \E t \in WindowTypes : Prune(t)
  BY <1>6, <1>8 DEF Prune
<1> QED BY <1>2, <1>3, <1>4, <1>5, <1>7, <1>8 DEF Next, Process, Pruner

\* What the earlier correlation left behind matches neither of the two.
LEMMA EmptyStep ==
    TypeOK /\ HistoryInv /\ Drained /\ LoopInv /\ EmptyInv /\ [Next]_vars => EmptyInv'
<1> SUFFICES ASSUME TypeOK, HistoryInv, Drained, LoopInv, EmptyInv, TakeMatchingEntries
             PROVE  EmptyInv'
  BY TakesKept DEF EmptyInv
<1>1. PICK new \in Take :
         /\ takes' = takes \cup {new}
         /\ new.corr = next /\ new.trigger = cur /\ new.entries = Matches(next, cur)
         /\ new.fired <=> Cardinality(new.entries) >= MinCount(next)
  BY TakeRecord
<1>2. next \in Index /\ cur # None /\ Trigger(next) = cur.type
  BY DEF TakeMatchingEntries
<1>3. ASSUME NEW i \in Index, Shadows(i, next) PROVE new.entries = {} /\ ~new.fired
  <2>1. PICK k \in takes : k.corr = i /\ k.trigger = cur
    BY <1>2, <1>3 DEF LoopInv, Shadows
  <2>2. ASSUME NEW e \in Matches(next, cur) PROVE FALSE
    <3>1. e \in windows[First(next)] /\ FieldsMatch(Correlations[next].sameFields, e.event, cur)
      BY <2>2 DEF Matches, Live
    <3>2. e.event.id < cur.id
      BY <1>2, <3>1, CorrelationTypes DEF HistoryInv
    <3>3. e \in windows[First(k.corr)] /\ e.event.id < k.trigger.id
      BY <1>3, <2>1, <3>1, <3>2 DEF Shadows
    <3>4. FieldsMatch(Correlations[k.corr].sameFields, e.event, k.trigger)
      BY <1>3, <2>1, <3>1 DEF Shadows, FieldsMatch
    <3> QED BY <3>3, <3>4 DEF Drained
  <2>3. new.entries = {} /\ Cardinality(new.entries) = 0
    BY <1>1, <2>2, FS_EmptySet
  <2>4. MinCount(next) \in Int /\ MinCount(next) >= 1
    <3>1. Correlations[next].minFirstCount \in Int
      BY <1>2, CorrelationTypes DEF Correlation
    <3> QED BY <3>1 DEF MinCount
  <2>5. ~ (Cardinality(new.entries) >= MinCount(next))
    BY <2>3, <2>4
  <2> QED BY <1>1, <2>3, <2>5
<1> QED BY <1>1, <1>3 DEF EmptyInv

UseInv == TakesSmall /\ LoopInv /\ EmptyInv

\* The three facts hold in every state.
LEMMA UseHolds == Spec => []UseInv
<1>1. Init => UseInv
  BY DEF Init, UseInv, TakesSmall, LoopInv, EmptyInv
<1>2. IInv /\ UseInv /\ [Next]_vars => UseInv'
  BY SmallStep, LoopStep, EmptyStep DEF IInv, UseInv
<1> QED BY <1>1, <1>2, InvHolds, PTL DEF Spec

\* A correlation that wants more first events than its window may hold.
TooMany(i) == MaxWindowSize > 0 /\ MinCount(i) > MaxWindowSize
NeverFires(i) == \A k \in takes : k.corr = i => ~k.fired

\* A min_first_count above max_window_size is accepted and never reached: the cap has
\* dropped the oldest events before the count is complete, so the correlation never fires.
THEOREM CountAboveCap ==
    ASSUME NEW i \in Index, TooMany(i)
    PROVE  Spec => []NeverFires(i)
<1>1. IInv /\ UseInv => NeverFires(i)
  <2> SUFFICES ASSUME IInv, UseInv, NEW k \in takes, k.corr = i, k.fired PROVE FALSE
    BY DEF NeverFires
  <2>1. Cardinality(k.entries) \in Nat /\ Cardinality(k.entries) <= MaxWindowSize
    BY DEF UseInv, TakesSmall, TooMany
  <2>2. Cardinality(k.entries) >= MinCount(i)
    BY DEF IInv, SignalJustified
  <2>3. MinCount(i) \in Int
    <3>1. Correlations[i].minFirstCount \in Int
      BY CorrelationTypes DEF Correlation
    <3> QED BY <3>1 DEF MinCount
  <2> QED BY <2>1, <2>2, <2>3, ConfigAssumption DEF TooMany
<1> QED BY <1>1, InvHolds, UseHolds, PTL

\* A trigger drains its matches even below MinFirstCount, so of two correlations over one
\* window and one trigger the later in the file never fires if the earlier compares no more
\* fields: there is nothing left for it, whatever the two counts are.
THEOREM ShadowedNeverFires ==
    ASSUME NEW i \in Index, NEW j \in Index, Shadows(i, j)
    PROVE  Spec => []NeverFires(j)
<1>1. UseInv => NeverFires(j)
  BY DEF UseInv, EmptyInv, NeverFires
<1> QED BY <1>1, UseHolds, PTL

\* The events a correlation fires on are within its own window.
WithinWindow(i) ==
    \A k \in takes : k.corr = i /\ k.fired =>
        \A e \in k.entries : k.at <= (e.expiresAt - EntryTTL(e.event.type)) + Duration(i)

\* A correlation keeps to its own window when no other correlation that names its first
\* type has a wider one: only then is the deadline of the shared window its own.
THEOREM WidestKeepsWindow ==
    ASSUME NEW i \in Index, EntryTTL(First(i)) <= Duration(i)
    PROVE  Spec => []WithinWindow(i)
<1>1. IInv => WithinWindow(i)
  <2> SUFFICES ASSUME IInv, NEW k \in takes, k.corr = i, k.fired, NEW e \in k.entries
               PROVE  k.at <= (e.expiresAt - EntryTTL(e.event.type)) + Duration(i)
    BY DEF WithinWindow
  <2>1. e.event.type = First(i) /\ e.expiresAt >= k.at
    BY DEF IInv, SignalJustified
  <2>2. k \in Take /\ e \in Entry
    BY DEF IInv, TypeOK, Take
  <2>3. k.at \in Int /\ e.expiresAt \in Int
    BY <2>2, ConfigAssumption DEF Take, Entry
  <2>4. EntryTTL(First(i)) \in Int /\ Duration(i) \in Int
    BY EntryTTLType, CorrelationTypes DEF Durations
  <2> QED BY <2>1, <2>3, <2>4
<1> QED BY <1>1, InvHolds, PTL

\* An event that left its window is not there again.
GoneForGood ==
    [][\A e \in added : e \notin windows[e.event.type] => e \notin windows'[e.event.type]]_vars

\* Nothing that a trigger, the pruner or the cap removed comes back: only the event in
\* Process's hands enters a window, once, so no later trigger can count an old event.
THEOREM NothingReturns == Spec => GoneForGood
<1>1. IInv /\ [Next]_vars =>
        [\A e \in added : e \notin windows[e.event.type] => e \notin windows'[e.event.type]]_vars
  <2> SUFFICES ASSUME TypeOK, HistoryInv, [Next]_vars, NEW e \in added,
                      e \notin windows[e.event.type]
               PROVE  e \notin windows'[e.event.type]
    BY DEF IInv
  <2>1. e.event.type \in WindowTypes
    BY DEF HistoryInv
  <2>2. CASE Quiet \/ Receive \/ Forget
    BY <2>2 DEF Quiet, Receive, Forget
  <2>3. CASE TakeMatchingEntries
    BY <2>1, <2>3, TakeShrinks
  <2>4. CASE Add
    <3>1. PICK entry \in Entry :
             /\ entry.event = cur /\ cur # None /\ cur.id = arrived
             /\ windows'[cur.type] \subseteq windows[cur.type] \cup {entry}
             /\ \A t \in WindowTypes : t # cur.type => windows'[t] = windows[t]
      BY <2>4, AddGrows
    <3>2. e.event.id < arrived /\ arrived \in Int
      BY <3>1, Types DEF HistoryInv
    <3>3. e # entry
      BY <3>1, <3>2
    <3> QED BY <2>1, <3>1, <3>3
  <2>5. CASE \E t \in WindowTypes : Prune(t)
    BY <2>1, <2>5, PruneShrinks
  <2> QED BY <2>2, <2>3, <2>4, <2>5, StepCases
<1> QED BY <1>1, InvHolds, PTL DEF Spec, GoneForGood
=============================================================================
