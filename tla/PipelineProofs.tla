---------------------------- MODULE PipelineProofs ----------------------------
(***************************************************************************)
(* Machine-checked proofs about Pipeline, for every number of workers and  *)
(* of logs and every channel capacity: no goroutine sends on a closed      *)
(* channel, the events keep the order of the logs up to the workers, the   *)
(* signals of an event stay together, and no event is duplicated or, until *)
(* the context is cancelled, lost.  And about what waits for what: nothing *)
(* moves behind an adapter that runs, a drain or a shutdown always has a   *)
(* goroutine that can take a step, each such step leaves less to do, and   *)
(* main returns last.                                                      *)
(***************************************************************************)
EXTENDS Pipeline, SequenceLemmas, SequenceTheorems, FiniteSetTheorems, TLAPS

-----------------------------------------------------------------------------
(* Queues whose elements stand in a relation R to those behind them. *)

Ordered(s, R) == \A i, j \in DOMAIN s : i < j => <<s[i], s[j]>> \in R
\* s holds x and what t holds.
With(s, x, t) == \A y : y \in ToSet(s) <=> (y = x \/ y \in ToSet(t))
Across(s, t, R) == \A x \in ToSet(s), y \in ToSet(t) : <<x, y>> \in R

\* The elements of a sequence over S are in S.
LEMMA ElementsIn ==
    ASSUME NEW S, NEW s \in Seq(S)
    PROVE  ToSet(s) \subseteq S
<1>1. \A i \in DOMAIN s : s[i] \in S
  OBVIOUS
<1> QED BY <1>1 DEF ToSet

\* What is left of such a queue when its first element leaves.
LEMMA OrderedTail ==
    ASSUME NEW S, NEW s \in Seq(S), s # <<>>, NEW R, Ordered(s, R), NEW t, t = Tail(s)
    PROVE  /\ t \in Seq(S) /\ Head(s) \in S /\ ToSet(s) = {Head(s)} \cup ToSet(t)
           /\ Ordered(t, R) /\ \A y \in ToSet(t) : <<Head(s), y>> \in R
<1>1. /\ t \in Seq(S) /\ 1 \in DOMAIN s /\ Head(s) = s[1] /\ s[1] \in S
      /\ \A i \in DOMAIN t : i \in Nat /\ i >= 1 /\ i + 1 \in DOMAIN s /\ t[i] = s[i + 1]
      /\ \A i \in DOMAIN s : i = 1 \/ \E j \in DOMAIN t : t[j] = s[i]
  BY Shortened
<1>2. ToSet(s) = {Head(s)} \cup ToSet(t)
  BY <1>1 DEF ToSet
<1>3. Ordered(t, R)
  <2> SUFFICES ASSUME NEW i \in DOMAIN t, NEW j \in DOMAIN t, i < j PROVE <<t[i], t[j]>> \in R
    BY DEF Ordered
  <2>1. /\ i + 1 \in DOMAIN s /\ j + 1 \in DOMAIN s /\ i + 1 < j + 1
        /\ t[i] = s[i + 1] /\ t[j] = s[j + 1]
    BY <1>1
  <2> QED BY <2>1 DEF Ordered
<1>4. \A y \in ToSet(t) : <<Head(s), y>> \in R
  <2> SUFFICES ASSUME NEW i \in DOMAIN t PROVE <<Head(s), t[i]>> \in R
    BY DEF ToSet
  <2>1. i + 1 \in DOMAIN s /\ 1 < i + 1 /\ t[i] = s[i + 1] /\ 1 \in DOMAIN s /\ Head(s) = s[1]
    BY <1>1
  <2> QED BY <2>1 DEF Ordered
<1> QED BY <1>1, <1>2, <1>3, <1>4

\* Such a queue with one more element behind the others.
LEMMA OrderedAppend ==
    ASSUME NEW S, NEW s \in Seq(S), NEW x \in S, NEW R, Ordered(s, R),
           \A y \in ToSet(s) : <<y, x>> \in R, NEW t, t = Append(s, x)
    PROVE  t \in Seq(S) /\ ToSet(t) = ToSet(s) \cup {x} /\ Ordered(t, R)
<1>1. /\ t \in Seq(S) /\ Len(s) \in Nat /\ DOMAIN t = DOMAIN s \cup {Len(s) + 1}
      /\ t[Len(s) + 1] = x
      /\ \A i \in DOMAIN s : i \in Nat /\ i < Len(s) + 1 /\ t[i] = s[i]
  BY Appended
<1>2. ToSet(t) = ToSet(s) \cup {x}
  <2>1. \A i \in DOMAIN t : t[i] \in ToSet(s) \cup {x}
    BY <1>1 DEF ToSet
  <2>2. \A i \in DOMAIN s : s[i] \in ToSet(t)
    BY <1>1 DEF ToSet
  <2>3. x \in ToSet(t)
    BY <1>1 DEF ToSet
  <2> QED BY <2>1, <2>2, <2>3 DEF ToSet
<1>3. Ordered(t, R)
  <2> SUFFICES ASSUME NEW i \in DOMAIN t, NEW j \in DOMAIN t, i < j PROVE <<t[i], t[j]>> \in R
    BY DEF Ordered
  <2>1. i \in DOMAIN s
    BY <1>1
  <2>2. CASE j \in DOMAIN s
    BY <1>1, <2>1, <2>2 DEF Ordered
  <2>3. CASE j = Len(s) + 1
    BY <1>1, <2>1, <2>3 DEF ToSet
  <2> QED BY <1>1, <2>2, <2>3
<1> QED BY <1>1, <1>2, <1>3

\* u holds what s and t hold.
Both(u, s, t) == \A y : y \in ToSet(u) <=> (y \in ToSet(s) \/ y \in ToSet(t))

\* Two such queues, one behind the other.
LEMMA OrderedJoin ==
    ASSUME NEW S, NEW s \in Seq(S), NEW t \in Seq(S), NEW R, Ordered(s, R), Ordered(t, R),
           Across(s, t, R), NEW u, u = s \o t
    PROVE  u \in Seq(S) /\ Ordered(u, R) /\ Both(u, s, t)
<1>1. Len(s) \in Nat /\ Len(t) \in Nat /\ DOMAIN s = 1..Len(s) /\ DOMAIN t = 1..Len(t)
  OBVIOUS
<1>2. /\ u \in Seq(S) /\ DOMAIN u = 1..(Len(s) + Len(t))
      /\ \A i \in DOMAIN u : u[i] = IF i <= Len(s) THEN s[i] ELSE t[i - Len(s)]
  BY Joined
<1>3. \A i \in DOMAIN u : \/ i \in DOMAIN s /\ u[i] = s[i]
                          \/ i > Len(s) /\ i - Len(s) \in DOMAIN t /\ u[i] = t[i - Len(s)]
  <2> SUFFICES ASSUME NEW i \in 1..(Len(s) + Len(t))
               PROVE  \/ i \in DOMAIN s /\ u[i] = s[i]
                      \/ i > Len(s) /\ i - Len(s) \in DOMAIN t /\ u[i] = t[i - Len(s)]
    BY <1>2
  <2>1. CASE i <= Len(s)
    BY <1>1, <1>2, <2>1
  <2>2. CASE i > Len(s)
    BY <1>1, <1>2, <2>2
  <2> QED BY <1>1, <2>1, <2>2
<1>4. \A i \in DOMAIN s : i \in DOMAIN u /\ u[i] = s[i]
  BY <1>1, <1>2
<1>5. \A i \in DOMAIN t : Len(s) + i \in DOMAIN u /\ u[Len(s) + i] = t[i]
  <2> SUFFICES ASSUME NEW i \in 1..Len(t) PROVE Len(s) + i \in DOMAIN u /\ u[Len(s) + i] = t[i]
    BY <1>1
  <2>1. /\ Len(s) + i \in 1..(Len(s) + Len(t)) /\ ~ (Len(s) + i <= Len(s))
        /\ (Len(s) + i) - Len(s) = i
    BY <1>1
  <2> QED BY <1>2, <2>1
<1>6. Both(u, s, t)
  <2>1. \A i \in DOMAIN u : u[i] \in ToSet(s) \cup ToSet(t)
    BY <1>3 DEF ToSet
  <2>2. \A i \in DOMAIN s : s[i] \in ToSet(u)
    BY <1>4 DEF ToSet
  <2>3. \A i \in DOMAIN t : t[i] \in ToSet(u)
    BY <1>5 DEF ToSet
  <2> QED BY <2>1, <2>2, <2>3 DEF Both, ToSet
<1>7. Ordered(u, R)
  <2> SUFFICES ASSUME NEW i \in DOMAIN u, NEW j \in DOMAIN u, i < j PROVE <<u[i], u[j]>> \in R
    BY DEF Ordered
  <2>1. i \in Int /\ j \in Int
    BY <1>1, <1>2
  <2>2. CASE i \in DOMAIN s /\ j \in DOMAIN s
    BY <1>4, <2>2 DEF Ordered
  <2>3. CASE i \in DOMAIN s /\ j \notin DOMAIN s
    <3>1. u[i] \in ToSet(s) /\ u[j] \in ToSet(t)
      BY <1>3, <1>4, <2>3 DEF ToSet
    <3> QED BY <3>1 DEF Across
  <2>4. CASE i \notin DOMAIN s
    <3>1. /\ i - Len(s) \in DOMAIN t /\ u[i] = t[i - Len(s)] /\ i > Len(s)
      BY <1>3, <2>4
    <3>2. j - Len(s) \in DOMAIN t /\ u[j] = t[j - Len(s)] /\ i - Len(s) < j - Len(s)
      BY <1>1, <1>3, <2>1, <3>1
    <3> QED BY <3>1, <3>2 DEF Ordered
  <2> QED BY <2>2, <2>3, <2>4
<1> QED BY <1>2, <1>6, <1>7
-----------------------------------------------------------------------------
(* Several queues: each is ordered by R, and so are the elements of any two  *)
(* of which the first stands before the second, <<q, r>> \in B.              *)

Arranged(F, I, B, R) ==
    /\ \A q \in I : Ordered(F[q], R)
    /\ \A q, r \in I : <<q, r>> \in B => Across(F[q], F[r], R)

\* The first element of a to the end of b.
Shift(F, a, b) == [F EXCEPT ![a] = Tail(F[a]), ![b] = Append(F[b], Head(F[a]))]

\* b stands right before a.
RightBefore(b, a, I, B) ==
    /\ a \in I /\ b \in I /\ a # b /\ <<b, a>> \in B /\ <<b, b>> \notin B
    /\ \A r \in I \ {a, b} :
          /\ <<r, b>> \in B => <<r, a>> \in B
          /\ <<b, r>> \in B => <<a, r>> \in B
Symmetric(R, S) == \A x, y \in S : <<x, y>> \in R => <<y, x>> \in R

\* The first element of a queue goes to the end of the one right before it.
LEMMA Moved ==
    ASSUME NEW I, NEW B, NEW R, NEW S, NEW F \in [I -> Seq(S)], Arranged(F, I, B, R),
           NEW a, NEW b, RightBefore(b, a, I, B), F[a] # <<>>,
           <<a, b>> \in B => Symmetric(R, S), NEW G, G = Shift(F, a, b)
    PROVE  /\ G \in [I -> Seq(S)] /\ Arranged(G, I, B, R)
           /\ Head(F[a]) \in S
           /\ With(F[a], Head(F[a]), G[a]) /\ With(G[b], Head(F[a]), F[b])
<1> USE DEF Shift, RightBefore, Symmetric
<1> DEFINE x == Head(F[a])
<1>1. /\ Tail(F[a]) \in Seq(S) /\ x \in S /\ ToSet(F[a]) = {x} \cup ToSet(Tail(F[a]))
      /\ Ordered(Tail(F[a]), R) /\ \A y \in ToSet(Tail(F[a])) : <<x, y>> \in R
  <2>1. Ordered(F[a], R) /\ F[a] \in Seq(S)
    BY DEF Arranged
  <2> QED BY <2>1, OrderedTail
<1>2. \A y \in ToSet(F[b]) : <<y, x>> \in R
  BY <1>1 DEF Arranged, Across
<1>3. /\ Append(F[b], x) \in Seq(S) /\ ToSet(Append(F[b], x)) = ToSet(F[b]) \cup {x}
      /\ Ordered(Append(F[b], x), R)
  <2>1. Ordered(F[b], R) /\ F[b] \in Seq(S) /\ x \in S
    BY <1>1 DEF Arranged
  <2> HIDE DEF x
  <2> QED BY <1>2, <2>1, OrderedAppend
<1>4. /\ G[a] = Tail(F[a]) /\ G[b] = Append(F[b], x)
      /\ \A r \in I \ {a, b} : G[r] = F[r]
  OBVIOUS
<1> HIDE DEF x
<1>5. G \in [I -> Seq(S)]
  BY <1>1, <1>3 DEF x
<1>6. /\ ToSet(G[a]) \subseteq ToSet(F[a]) /\ ToSet(G[b]) = ToSet(F[b]) \cup {x}
      /\ x \in ToSet(F[a]) /\ \A y \in ToSet(G[a]) : <<x, y>> \in R
  BY <1>1, <1>3, <1>4
<1>7. ASSUME NEW q \in I PROVE Ordered(G[q], R)
  <2>1. CASE q \in {a, b}
    BY <1>1, <1>3, <1>4, <2>1
  <2>2. CASE q \notin {a, b}
    BY <1>4, <2>2 DEF Arranged
  <2> QED BY <2>1, <2>2
<1>8. ASSUME NEW q \in I, NEW r \in I, <<q, r>> \in B PROVE Across(G[q], G[r], R)
  <2>1. Across(F[q], F[r], R)
    BY <1>8 DEF Arranged
  <2>2. CASE q # b /\ r # b
    <3>1. ToSet(G[q]) \subseteq ToSet(F[q]) /\ ToSet(G[r]) \subseteq ToSet(F[r])
      BY <1>4, <1>6, <2>2
    <3> QED BY <2>1, <3>1 DEF Across
  <2>3. CASE r = b /\ q # a
    <3>1. q # b
      BY <1>8, <2>3
    <3>2. Across(F[q], F[a], R)
      BY <1>8, <2>3, <3>1 DEF Arranged
    <3>3. G[q] = F[q]
      BY <1>4, <2>3, <3>1
    <3> QED BY <1>6, <2>1, <2>3, <3>2, <3>3 DEF Across
  <2>4. CASE r = b /\ q = a
    <3>1. \A z, y \in S : <<z, y>> \in R => <<y, z>> \in R
      BY <1>8, <2>4
    <3>2. \A y \in ToSet(G[a]) : y \in S
      BY <1>5, ElementsIn
    <3>3. \A y \in ToSet(G[a]) : <<y, x>> \in R
      BY <1>1, <1>6, <3>1, <3>2
    <3> QED BY <1>6, <2>1, <2>4, <3>3 DEF Across
  <2>5. CASE q = b /\ r # b
    <3>1. CASE r = a
      BY <1>6, <2>1, <2>5, <3>1 DEF Across
    <3>2. CASE r # a
      <4>1. Across(F[a], F[r], R)
        BY <1>8, <2>5, <3>2 DEF Arranged
      <4>2. G[r] = F[r]
        BY <1>4, <2>5, <3>2
      <4> QED BY <1>6, <2>1, <2>5, <4>1, <4>2 DEF Across
    <3> QED BY <3>1, <3>2
  <2> QED BY <2>2, <2>3, <2>4, <2>5
<1>9. /\ Head(F[a]) \in S
      /\ With(F[a], Head(F[a]), G[a])
  BY <1>1, <1>4 DEF x, With
<1>10. With(G[b], Head(F[a]), F[b])
  BY <1>6 DEF x, With
<1> QED BY <1>5, <1>7, <1>8, <1>9, <1>10 DEF Arranged

\* t in the place of what b holds.
Put(F, b, t) == [F EXCEPT ![b] = t]

\* A queue loses its first element.
LEMMA Shrunk ==
    ASSUME NEW I, NEW B, NEW R, NEW S, NEW F \in [I -> Seq(S)], Arranged(F, I, B, R),
           NEW a \in I, F[a] # <<>>, NEW G, G = Put(F, a, Tail(F[a]))
    PROVE  /\ G \in [I -> Seq(S)] /\ Arranged(G, I, B, R)
           /\ Head(F[a]) \in S
           /\ With(F[a], Head(F[a]), G[a])
           /\ \A y \in ToSet(G[a]) : <<Head(F[a]), y>> \in R
<1> DEFINE s == F[a]
           t == Tail(s)
<1>1. s \in Seq(S) /\ Ordered(s, R) /\ s # <<>> /\ t = Tail(s) /\ G = [F EXCEPT ![a] = t]
  BY DEF Arranged, Put
<1>2. s = F[a]
  OBVIOUS
<1> HIDE DEF s, t
<1>3. /\ t \in Seq(S) /\ Head(s) \in S /\ ToSet(s) = {Head(s)} \cup ToSet(t) /\ Ordered(t, R)
      /\ \A y \in ToSet(t) : <<Head(s), y>> \in R
  BY <1>1, OrderedTail
<1>4. G[a] = t /\ (\A r \in I \ {a} : G[r] = F[r]) /\ G \in [I -> Seq(S)]
  BY <1>1, <1>3
<1>5. \A q \in I : Ordered(G[q], R) /\ ToSet(G[q]) \subseteq ToSet(F[q])
  BY <1>2, <1>3, <1>4 DEF Arranged
<1>6. Arranged(G, I, B, R)
  BY <1>5 DEF Arranged, Across
<1>7. With(F[a], Head(F[a]), G[a])
  BY <1>2, <1>3, <1>4 DEF With
<1> QED BY <1>2, <1>3, <1>4, <1>6, <1>7

\* The elements of t would stand in b in order with those of the other queues.
Fits(t, b, F, I, B, R) ==
    /\ Ordered(t, R) /\ <<b, b>> \notin B
    /\ \A r \in I \ {b} :
          /\ <<r, b>> \in B => Across(F[r], t, R)
          /\ <<b, r>> \in B => Across(t, F[r], R)

\* A queue is filled with elements that are in order with all others, or with none.
LEMMA Filled ==
    ASSUME NEW I, NEW B, NEW R, NEW S, NEW F \in [I -> Seq(S)], Arranged(F, I, B, R),
           NEW b \in I, NEW t \in Seq(S), Fits(t, b, F, I, B, R), NEW G, G = Put(F, b, t)
    PROVE  G \in [I -> Seq(S)] /\ Arranged(G, I, B, R)
<1> USE DEF Fits, Put
<1>1. G[b] = t /\ (\A r \in I \ {b} : G[r] = F[r]) /\ G \in [I -> Seq(S)]
  OBVIOUS
<1>2. \A q \in I : Ordered(G[q], R)
  BY <1>1 DEF Arranged
<1>3. \A q, r \in I : <<q, r>> \in B => Across(G[q], G[r], R)
  BY <1>1 DEF Arranged
<1> QED BY <1>1, <1>2, <1>3 DEF Arranged
-----------------------------------------------------------------------------
(* The queues of the pipeline: what each channel, each goroutine and the     *)
(* emitter hold.                                                             *)

Chan(c) == <<"chan", c>>
Held(g) == <<"held", g>>
Emitted == <<"emitted", "emitter">>

Q == [q \in Holders |-> Items(q)]

\* The holders are what they are called.
LEMMA HolderNames ==
    /\ \A c \in Channels : Chan(c) \in Holders /\ Q[Chan(c)] = chan[c]
    /\ \A g \in Goroutines : Held(g) \in Holders /\ Q[Held(g)] = held[g]
    /\ Emitted \in Holders /\ Q[Emitted] = emitted
    /\ \A q \in Holders : \/ \E c \in Channels : q = Chan(c)
                          \/ \E g \in Goroutines : q = Held(g)
                          \/ q = Emitted
    /\ \A x, y : Chan(x) # Held(y) /\ Chan(x) # Emitted /\ Held(x) # Emitted
    /\ \A x, y : Chan(x) = Chan(y) => x = y
    /\ \A x, y : Held(x) = Held(y) => x = y
<1>1. \A q \in Holders : \/ \E c \in Channels : q = Chan(c)
                         \/ \E g \in Goroutines : q = Held(g)
                         \/ q = Emitted
  BY DEF Holders, Chan, Held, Emitted
<1>2. /\ \A c \in Channels : Chan(c) \in Holders /\ Q[Chan(c)] = chan[c]
      /\ \A g \in Goroutines : Held(g) \in Holders /\ Q[Held(g)] = held[g]
      /\ Emitted \in Holders /\ Q[Emitted] = emitted
  BY DEF Holders, Chan, Held, Emitted, Q, Items
<1>3. /\ \A x, y : Chan(x) # Held(y) /\ Chan(x) # Emitted /\ Held(x) # Emitted
      /\ \A x, y : Chan(x) = Chan(y) => x = y
      /\ \A x, y : Held(x) = Held(y) => x = y
  BY DEF Chan, Held, Emitted
<1> QED BY <1>1, <1>2, <1>3

\* The same of the next state.
LEMMA HolderNamesNext ==
    /\ \A c \in Channels : Q'[Chan(c)] = chan'[c]
    /\ \A g \in Goroutines : Q'[Held(g)] = held'[g]
    /\ Q'[Emitted] = emitted'
BY HolderNames DEF Q, Items, Chan, Held, Emitted

\* Each channel and each goroutine holds a sequence of items.
LEMMA QueueTypes ==
    ASSUME TypeOK
    PROVE  Q \in [Holders -> Seq(Item)]
<1>1. \A q \in Holders : Q[q] \in Seq(Item)
  BY HolderNames DEF TypeOK
<1> QED BY <1>1 DEF Q

\* A step that changes what one channel and one goroutine hold.
LEMMA QueuesChanged ==
    ASSUME TypeOK, NEW c \in Channels, NEW g \in Goroutines, NEW u, NEW v,
           chan' = [chan EXCEPT ![c] = u], held' = [held EXCEPT ![g] = v], emitted' = emitted,
           NEW F, F = [Q EXCEPT ![Held(g)] = v, ![Chan(c)] = u]
    PROVE  Q' = F
<1>1. /\ Chan(c) \in Holders /\ Held(g) \in Holders /\ Chan(c) # Held(g)
      /\ DOMAIN Q = Holders /\ DOMAIN Q' = Holders
  BY HolderNames DEF Q
<1>2. /\ DOMAIN F = Holders /\ F[Chan(c)] = u /\ F[Held(g)] = v
      /\ \A q \in Holders \ {Chan(c), Held(g)} : F[q] = Q[q]
  BY <1>1
<1>3. Q'[Chan(c)] = u /\ Q'[Held(g)] = v
  BY HolderNamesNext DEF TypeOK
<1>4. ASSUME NEW q \in Holders \ {Chan(c), Held(g)} PROVE Q'[q] = Q[q]
  <2>1. CASE \E d \in Channels : q = Chan(d)
    BY <2>1, HolderNames, HolderNamesNext DEF TypeOK
  <2>2. CASE \E h \in Goroutines : q = Held(h)
    BY <2>2, HolderNames, HolderNamesNext DEF TypeOK
  <2>3. CASE q = Emitted
    BY <2>3, HolderNames, HolderNamesNext
  <2> QED BY <2>1, <2>2, <2>3, HolderNames
<1>5. \A q \in Holders : Q'[q] = F[q]
  BY <1>2, <1>3, <1>4
<1>6. Q' = [q \in Holders |-> Q'[q]]
  BY <1>1 DEF Q
<1>7. F = [q \in Holders |-> F[q]]
  BY <1>2
<1> QED BY <1>5, <1>6, <1>7

\* A step that changes what one goroutine holds, or what is in one channel.
LEMMA OneChanged ==
    ASSUME TypeOK, NEW a \in Holders, NEW v, emitted' = emitted,
           \/ \E g \in Goroutines : /\ a = Held(g) /\ chan' = chan
                                    /\ held' = [held EXCEPT ![g] = v]
           \/ \E c \in Channels : /\ a = Chan(c) /\ held' = held
                                  /\ chan' = [chan EXCEPT ![c] = v]
    PROVE  Q' = Put(Q, a, v)
<1> DEFINE F == Put(Q, a, v)
<1>1. DOMAIN Q = Holders /\ DOMAIN Q' = Holders
  BY DEF Q
<1>2. DOMAIN F = Holders /\ F[a] = v /\ \A q \in Holders \ {a} : F[q] = Q[q]
  BY <1>1 DEF Put
<1>3. Q'[a] = v
  BY HolderNames, HolderNamesNext DEF TypeOK
<1>4. ASSUME NEW q \in Holders \ {a} PROVE Q'[q] = Q[q]
  <2>1. CASE \E d \in Channels : q = Chan(d)
    BY <1>4, <2>1, HolderNames, HolderNamesNext DEF TypeOK
  <2>2. CASE \E h \in Goroutines : q = Held(h)
    BY <1>4, <2>2, HolderNames, HolderNamesNext DEF TypeOK
  <2>3. CASE q = Emitted
    BY <2>3, HolderNames, HolderNamesNext
  <2> QED BY <2>1, <2>2, <2>3, HolderNames
<1>5. \A q \in Holders : Q'[q] = F[q]
  BY <1>2, <1>3, <1>4
<1>6. Q' = [q \in Holders |-> Q'[q]] /\ F = [q \in Holders |-> F[q]]
  BY <1>1, <1>2 DEF Q, Put
<1> QED BY <1>5, <1>6

\* The emitter takes a signal off its channel and emits it.
LEMMA SignalEmitted ==
    ASSUME TypeOK, NEW u, NEW v, chan' = [chan EXCEPT !["signals"] = u], held' = held,
           emitted' = v
    PROVE  Q' = [Q EXCEPT ![Chan("signals")] = u, ![Emitted] = v]
<1> DEFINE F == [Q EXCEPT ![Chan("signals")] = u, ![Emitted] = v]
<1>1. /\ Chan("signals") \in Holders /\ Emitted \in Holders /\ Chan("signals") # Emitted
      /\ "signals" \in Channels /\ DOMAIN Q = Holders /\ DOMAIN Q' = Holders
  BY HolderNames DEF Q, Channels
<1>2. /\ DOMAIN F = Holders /\ F[Chan("signals")] = u /\ F[Emitted] = v
      /\ \A q \in Holders \ {Chan("signals"), Emitted} : F[q] = Q[q]
  BY <1>1
<1>3. Q'[Chan("signals")] = u /\ Q'[Emitted] = v
  BY <1>1, HolderNamesNext DEF TypeOK
<1>4. ASSUME NEW q \in Holders \ {Chan("signals"), Emitted} PROVE Q'[q] = Q[q]
  <2>1. CASE \E d \in Channels : q = Chan(d)
    BY <1>1, <2>1, HolderNames, HolderNamesNext DEF TypeOK
  <2>2. CASE \E h \in Goroutines : q = Held(h)
    BY <2>2, HolderNames, HolderNamesNext
  <2> QED BY <1>4, <2>1, <2>2, HolderNames
<1>5. \A q \in Holders : Q'[q] = F[q]
  BY <1>2, <1>3, <1>4
<1>6. Q' = [q \in Holders |-> Q'[q]] /\ F = [q \in Holders |-> F[q]]
  BY <1>1, <1>2 DEF Q
<1> QED BY <1>5, <1>6

\* The channels the goroutines read and write.
LEMMA Ends ==
    /\ \A g \in Readers : In(g) \in Channels
    /\ \A g \in Goroutines \ {"emitter"} : Out(g) \in Channels
    /\ In("forwarder") = "events" /\ In("normalizer") = "raw" /\ In("engine") = "enriched"
    /\ In("emitter") = "signals" /\ \A g \in Workers : In(g) = "chain"
    /\ Out("adapter") = "events" /\ Out("forwarder") = "raw" /\ Out("normalizer") = "chain"
    /\ Out("engine") = "signals" /\ \A g \in Workers : Out(g) = "enriched"
<1>1. /\ "forwarder" \notin Workers /\ "normalizer" \notin Workers /\ "engine" \notin Workers
      /\ "emitter" \notin Workers /\ "adapter" \notin Workers
  BY WorkersAssumption
<1>2. /\ In("forwarder") = "events" /\ In("normalizer") = "raw" /\ In("engine") = "enriched"
      /\ In("emitter") = "signals" /\ \A g \in Workers : In(g) = "chain"
  BY <1>1 DEF In
<1>3. /\ Out("adapter") = "events" /\ Out("forwarder") = "raw" /\ Out("normalizer") = "chain"
      /\ Out("engine") = "signals" /\ \A g \in Workers : Out(g) = "enriched"
  BY <1>1 DEF Out
<1>4. \A g \in Readers : In(g) \in Channels
  BY <1>2 DEF Readers, Goroutines, Channels
<1>5. \A g \in Goroutines \ {"emitter"} : Out(g) \in Channels
  BY <1>3 DEF Goroutines, Channels
<1> QED BY <1>2, <1>3, <1>4, <1>5
-----------------------------------------------------------------------------
(* The inductive invariant. *)

\* Who returned stays so, and a channel is closed only when its writers returned.
ReturnInv ==
    /\ \A g \in Goroutines \ {"forwarder"} : pc[g] # "start"
    /\ pc["emitter"] # "send"
    /\ \A c \in closed : \A g \in Writers(c) : pc[g] = "done"

\* Events become signals in the engine, and only those of logs that arrived are there.
Late == {Held("engine"), Chan("signals"), Emitted}
StageInv ==
    \A q \in Holders : \A x \in ToSet(Q[q]) :
        x[1] <= produced /\ (q \in Late <=> x[2] # 0)

\* The holders up to the enricher's workers, in the order of the events they hold.
Line == << Chan("chain"), Held("normalizer"), Chan("raw"), Held("forwarder"), Chan("events"),
           Held("adapter") >>
Seats == 1..6
OnLine(F) == [i \in Seats |-> F[Line[i]]]
L == OnLine(Q)
Before == {p \in Seats \X Seats : p[1] < p[2]}
Less == {p \in Item \X Item : p[1][1] < p[2][1]}
OrderInv == Arranged(L, Seats, Before, Less)

\* No two places hold the same item, nor an event and a signal made of it.
Others == {p \in Holders \X Holders : p[1] # p[2]}
Apart == {p \in Item \X Item :
             ~ (p[1][1] = p[2][1] /\ (p[1][2] = p[2][2] \/ p[1][2] = 0 \/ p[2][2] = 0))}
UniqueInv == Arranged(Q, Holders, Others, Apart)

\* Until the context is cancelled each signal is somewhere, or its event is.
Present(q, s) == <<s[1], 0>> \in ToSet(Q[q]) \/ s \in ToSet(Q[q])
PresentInv ==
    ~cancelled => \A s \in Signals : s[1] <= produced => \E q \in Holders : Present(q, s)

\* Behind the engine each signal but the first of an event follows the one before;
\* what an emitter leaves when it returns is not emitted any more.
Chained(s) == \A i \in DOMAIN s : s[i][2] > 1 => i > 1 /\ s[i - 1] = <<s[i][1], s[i][2] - 1>>
Outflow == (emitted \o chan["signals"]) \o held["engine"]
GroupInv == Chained(emitted) /\ (pc["emitter"] = "done" \/ Chained(Outflow))

IInv == TypeOK /\ ReturnInv /\ StageInv /\ OrderInv /\ UniqueInv /\ PresentInv /\ GroupInv
-----------------------------------------------------------------------------
(* What a step does to the queues. *)

\* Each of these keeps the rest of the state the invariant speaks of.
Idle == Q' = Q /\ produced' = produced /\ (cancelled => cancelled')

Arrival ==
    /\ Q[Held("adapter")] = <<>>
    /\ Q' = Put(Q, Held("adapter"), << <<produced + 1, 0>> >>)
    /\ produced' = produced + 1 /\ produced' \in 1..MaxLogs /\ cancelled' = cancelled

\* The first item of one queue goes to the end of the next.
Steps ==
    {<<Chan(In(g)), Held(g)>> : g \in Readers \ {"engine", "emitter"}}
    \cup {<<Held(g), Chan(Out(g))>> : g \in Goroutines \ {"emitter"}}
    \cup {<<Chan("signals"), Emitted>>}
Motion ==
    /\ \E m \in Steps :
          /\ Q[m[1]] # <<>>
          /\ Q' = Shift(Q, m[1], m[2])
    /\ UNCHANGED <<cancelled, produced>>

\* The engine makes signals of an event.
SignalsOf(e) == [k \in 1..SignalCount[e] |-> <<e, k>>]
Derivation ==
    /\ Q[Chan("enriched")] # <<>> /\ Q[Held("engine")] = <<>>
    /\ Q' = Put(Put(Q, Chan("enriched"), Tail(Q[Chan("enriched")])),
                Held("engine"), SignalsOf(Head(Q[Chan("enriched")])[1]))
    /\ UNCHANGED <<cancelled, produced>>

\* The normalizer skips a malformed event.
Rejection ==
    /\ Q[Chan("raw")] # <<>> /\ Head(Q[Chan("raw")])[1] \in Malformed
    /\ Q' = Put(Q, Chan("raw"), Tail(Q[Chan("raw")]))
    /\ UNCHANGED <<cancelled, produced>>

\* After the cancellation a stage leaves an item, or what it holds, behind.
Loss ==
    /\ cancelled
    /\ \/ \E g \in Goroutines : Q' = Put(Q, Held(g), <<>>)
       \/ \E c \in Channels : /\ Q[Chan(c)] # <<>>
                              /\ Q' = Put(Q, Chan(c), Tail(Q[Chan(c)]))
                              /\ c = "signals" => pc'["emitter"] = "done"
    /\ UNCHANGED <<cancelled, produced>>

Settled == pc["emitter"] = "done" => pc'["emitter"] = "done" /\ emitted' = emitted

Effect ==
    /\ Idle \/ Arrival \/ Motion \/ Derivation \/ Rejection \/ Loss
    /\ Settled

\* A goroutine that is in the middle of its work goes on to another state, and
\* closes nothing: what is closed has no writer that works.
LEMMA GoesOn ==
    ASSUME TypeOK, ReturnInv, NEW g \in Goroutines, NEW new \in {"recv", "send", "done"},
           pc[g] # "done", g = "emitter" => new # "send",
           pc' = [pc EXCEPT ![g] = new], closed' = closed
    PROVE  /\ ReturnInv' /\ pc' \in [Goroutines -> {"start", "recv", "send", "done"}]
           /\ pc'[g] = new /\ \A h \in Goroutines \ {g} : pc'[h] = pc[h]
           /\ g # "emitter" => pc'["emitter"] = pc["emitter"]
<1>1. pc \in [Goroutines -> {"start", "recv", "send", "done"}] /\ "emitter" \in Goroutines
  BY DEF TypeOK, Goroutines
<1>2. /\ pc' \in [Goroutines -> {"start", "recv", "send", "done"}]
      /\ pc'[g] = new /\ \A h \in Goroutines \ {g} : pc'[h] = pc[h]
  BY <1>1
<1>3. g # "emitter" => pc'["emitter"] = pc["emitter"]
  BY <1>1, <1>2
<1>4. \A h \in Goroutines \ {"forwarder"} : pc'[h] # "start"
  BY <1>2 DEF ReturnInv
<1>5. pc'["emitter"] # "send"
  BY <1>1, <1>2 DEF ReturnInv
<1>6. \A c \in closed : \A h \in Writers(c) : pc'[h] = "done"
  BY <1>2 DEF ReturnInv, Writers
<1>7. ReturnInv'
  <2>1. \A c : Writers(c)' = Writers(c)
    BY DEF Writers
  <2> QED BY <1>4, <1>5, <1>6, <2>1 DEF ReturnInv
<1> QED BY <1>2, <1>3, <1>7

\* Steps that move no item: the cancellation, a goroutine that starts or returns, a
\* channel that is closed, and what the gRPC server and main do.
LEMMA QuietStep ==
    ASSUME TypeOK, ReturnInv,
           \/ Cancel \/ AdapterReturns \/ ForwarderStarts
           \/ \E g \in Readers : RangeEnds(g)
           \/ \E c \in Channels : CloseChannel(c)
           \/ Subscribe \/ Disconnect \/ GracefulStop \/ ServeReturns \/ MainReturns
           \/ UNCHANGED vars
    PROVE  TypeOK' /\ ReturnInv' /\ Effect
<1>1. UNCHANGED <<held, chan, produced, emitted>> /\ (cancelled => cancelled')
  BY DEF Cancel, AdapterReturns, ForwarderStarts, RangeEnds, CloseChannel, Subscribe,
         Disconnect, GracefulStop, ServeReturns, MainReturns, server, vars
<1>2. Idle
  BY <1>1 DEF Idle, Q, Items
<1>3. CASE AdapterReturns \/ ForwarderStarts \/ \E g \in Readers : RangeEnds(g)
  <2>1. PICK g \in Goroutines, new \in {"recv", "done"} :
           /\ pc[g] \notin {"done", "send"} /\ pc' = [pc EXCEPT ![g] = new]
           /\ UNCHANGED <<cancelled, closed, server>>
    <3>1. CASE AdapterReturns
      BY <3>1 DEF AdapterReturns, Goroutines
    <3>2. CASE ForwarderStarts
      BY <3>2 DEF ForwarderStarts, Goroutines
    <3>3. CASE \E g \in Readers : RangeEnds(g)
      BY <3>3 DEF RangeEnds, Readers
    <3> QED BY <1>3, <3>1, <3>2, <3>3
  <2>2. /\ ReturnInv' /\ pc' \in [Goroutines -> {"start", "recv", "send", "done"}]
        /\ pc'[g] = new /\ \A h \in Goroutines \ {g} : pc'[h] = pc[h]
        /\ g # "emitter" => pc'["emitter"] = pc["emitter"]
    BY <2>1, GoesOn
  <2>3. Settled
    BY <1>1, <2>1, <2>2 DEF Settled
  <2>4. \A h \in Goroutines : pc'[h] = "send" <=> held'[h] # <<>>
    BY <1>1, <2>1, <2>2 DEF TypeOK
  <2>5. TypeOK'
    BY <1>1, <2>1, <2>2, <2>4 DEF TypeOK, server
  <2> QED BY <1>2, <2>2, <2>3, <2>5 DEF Effect
<1>4. CASE \E c \in Channels : CloseChannel(c)
  <2>1. PICK c \in Channels :
           /\ \A g \in Writers(c) : pc[g] = "done"
           /\ closed' = closed \cup {c} /\ UNCHANGED <<cancelled, pc, server>>
    BY <1>4 DEF CloseChannel
  <2>2. Settled
    BY <1>1, <2>1 DEF Settled
  <2>3. ReturnInv'
    <3>1. \A d : Writers(d)' = Writers(d)
      BY DEF Writers
    <3> QED BY <2>1, <3>1 DEF ReturnInv
  <2>4. TypeOK'
    BY <1>1, <2>1 DEF TypeOK, server
  <2> QED BY <1>2, <2>2, <2>3, <2>4 DEF Effect
<1>5. CASE \/ Cancel \/ Subscribe \/ Disconnect \/ GracefulStop \/ ServeReturns \/ MainReturns
           \/ UNCHANGED vars
  <2>1. UNCHANGED <<pc, closed>> /\ cancelled' \in BOOLEAN
    BY <1>5 DEF Cancel, Subscribe, Disconnect, GracefulStop, ServeReturns, MainReturns, vars,
                TypeOK
  <2>2. Settled
    BY <1>1, <2>1 DEF Settled
  <2>3. ReturnInv'
    <3>1. \A d : Writers(d)' = Writers(d)
      BY DEF Writers
    <3> QED BY <2>1, <3>1 DEF ReturnInv
  <2>4. /\ grpc' \in {"serving", "draining", "stopped"} /\ subscribers' \in 0..MaxSubscribers
        /\ returned' \in BOOLEAN
    <3>1. grpc' \in {"serving", "draining", "stopped"} /\ returned' \in BOOLEAN
      BY <1>5 DEF Cancel, Subscribe, Disconnect, GracefulStop, ServeReturns, MainReturns, vars,
                  server, TypeOK
    <3>2. \/ subscribers' = subscribers
          \/ subscribers' = subscribers + 1 /\ subscribers < MaxSubscribers
          \/ subscribers' = subscribers - 1 /\ subscribers > 0
      BY <1>5 DEF Cancel, Subscribe, Disconnect, GracefulStop, ServeReturns, MainReturns, vars,
                  server
    <3>3. subscribers \in 0..MaxSubscribers /\ MaxSubscribers \in Nat
      BY ConfigAssumption DEF TypeOK
    <3> QED BY <3>1, <3>2, <3>3
  <2>5. TypeOK'
    BY <1>1, <2>1, <2>4 DEF TypeOK
  <2> QED BY <1>2, <2>2, <2>3, <2>5 DEF Effect
<1> QED BY <1>3, <1>4, <1>5

\* A log arrives, and the adapter holds the event made of it.
LEMMA LogArrivesStep ==
    ASSUME TypeOK, ReturnInv, LogArrives
    PROVE  TypeOK' /\ ReturnInv' /\ Effect
<1> DEFINE x == <<produced + 1, 0>>
<1>1. /\ pc["adapter"] = "recv" /\ produced < MaxLogs /\ produced' = produced + 1
      /\ held' = [held EXCEPT !["adapter"] = <<x>>]
      /\ pc' = [pc EXCEPT !["adapter"] = "send"]
      /\ UNCHANGED <<cancelled, chan, closed, emitted, server>>
  BY DEF LogArrives
<1>2. /\ "adapter" \in Goroutines /\ "events" \in Channels
      /\ produced \in 0..MaxLogs /\ MaxLogs \in Nat
  BY ConfigAssumption DEF Goroutines, Channels, TypeOK
<1>3. produced' \in 1..MaxLogs /\ x \in Item /\ <<x>> \in Seq(Item) /\ <<x>> # <<>>
  <2>1. produced + 1 \in 1..MaxLogs
    BY <1>1, <1>2
  <2>2. x \in Item
    BY <2>1 DEF Item
  <2> QED BY <1>1, <2>1, <2>2
<1> HIDE DEF x
<1>4. /\ ReturnInv' /\ pc' \in [Goroutines -> {"start", "recv", "send", "done"}]
      /\ pc'["adapter"] = "send" /\ \A h \in Goroutines \ {"adapter"} : pc'[h] = pc[h]
      /\ pc'["emitter"] = pc["emitter"]
  <2>1. pc["adapter"] # "done"
    BY <1>1
  <2> QED BY <1>1, <1>2, <2>1, GoesOn
<1>5. /\ held' \in [Goroutines -> Seq(Item)] /\ held'["adapter"] = <<x>>
      /\ \A h \in Goroutines \ {"adapter"} : held'[h] = held[h]
  BY <1>1, <1>2, <1>3 DEF TypeOK
<1>6. TypeOK'
  <2>1. \A h \in Goroutines : pc'[h] = "send" <=> held'[h] # <<>>
    BY <1>3, <1>4, <1>5 DEF TypeOK
  <2>2. produced' \in 0..MaxLogs
    BY <1>2, <1>3
  <2> QED BY <1>1, <1>4, <1>5, <2>1, <2>2 DEF TypeOK, server
<1>7. Settled
  BY <1>1, <1>4 DEF Settled
<1>8. Arrival
  <2>1. Q' = Put(Q, Held("adapter"), <<x>>)
    <3>1. held' = [held EXCEPT !["adapter"] = <<x>>] /\ chan' = chan /\ emitted' = emitted
      BY <1>1
    <3>2. Held("adapter") \in Holders
      BY <1>2, HolderNames
    <3> QED BY <1>2, <3>1, <3>2, OneChanged
  <2>2. Q[Held("adapter")] = <<>>
    <3>1. held["adapter"] = <<>>
      BY <1>1, <1>2 DEF TypeOK
    <3> QED BY <1>2, <3>1, HolderNames
  <2> QED BY <1>1, <1>3, <2>1, <2>2 DEF Arrival, x
<1> QED BY <1>4, <1>6, <1>7, <1>8 DEF Effect

\* What a goroutine that receives finds: an empty hand and an item in its channel.
LEMMA Receiving ==
    ASSUME TypeOK, ReturnInv, NEW g \in Readers, Receive(g)
    PROVE  LET c == In(g)
               x == Head(chan[c])
               stops == cancelled /\ g # "forwarder"
               result == IF stops THEN <<>> ELSE Result(g, x)
           IN /\ g \in Goroutines /\ c \in Channels /\ chan[c] # <<>> /\ x \in Item
              /\ Tail(chan[c]) \in Seq(Item) /\ Len(Tail(chan[c])) <= Capacity[c]
              /\ held[g] = <<>> /\ pc[g] = "recv"
              /\ result \in Seq(Item)
              /\ chan' = [chan EXCEPT ![c] = Tail(chan[c])]
              /\ held' = [held EXCEPT ![g] = result]
              /\ pc' = [pc EXCEPT ![g] = IF stops THEN "done"
                                         ELSE IF result = <<>> THEN "recv" ELSE "send"]
              /\ emitted' = IF g = "emitter" /\ ~stops THEN Append(emitted, x) ELSE emitted
              /\ UNCHANGED <<cancelled, closed, produced, server>>
<1> DEFINE c == In(g)
           x == Head(chan[c])
           stops == cancelled /\ g # "forwarder"
           result == IF stops THEN <<>> ELSE Result(g, x)
<1>1. g \in Goroutines /\ c \in Channels
  BY Ends DEF Readers
<1>2. /\ chan[c] # <<>> /\ pc[g] = "recv"
      /\ chan' = [chan EXCEPT ![c] = Tail(chan[c])]
      /\ held' = [held EXCEPT ![g] = result]
      /\ pc' = [pc EXCEPT ![g] = IF stops THEN "done"
                                 ELSE IF result = <<>> THEN "recv" ELSE "send"]
      /\ emitted' = IF g = "emitter" /\ ~stops THEN Append(emitted, x) ELSE emitted
      /\ UNCHANGED <<cancelled, closed, produced, server>>
  BY <1>1 DEF Receive, TypeOK
<1>3. chan[c] \in Seq(Item) /\ Len(chan[c]) <= Capacity[c] /\ Capacity[c] \in Nat
  BY <1>1, ConfigAssumption DEF TypeOK
<1>4. x \in Item /\ Tail(chan[c]) \in Seq(Item) /\ Len(Tail(chan[c])) <= Capacity[c]
  <2> DEFINE s == chan[c]
  <2>1. s \in Seq(Item) /\ s # <<>> /\ Len(s) <= Capacity[c]
    BY <1>2, <1>3
  <2> HIDE DEF s, c
  <2>2. Head(s) \in Item /\ Tail(s) \in Seq(Item) /\ Len(s) \in Nat /\ Len(Tail(s)) = Len(s) - 1
    BY <2>1
  <2> QED BY <1>3, <2>1, <2>2 DEF s
<1>5. held[g] = <<>>
  BY <1>1, <1>2 DEF TypeOK
<1> HIDE DEF x
<1>6. Result(g, x) \in Seq(Item)
  <2>1. x[1] \in 1..MaxLogs /\ SignalCount[x[1]] \in Nat
    BY <1>4, ConfigAssumption DEF Item
  <2>2. [k \in 1..SignalCount[x[1]] |-> <<x[1], k>>] \in Seq(Item)
    <3>1. \A k \in 1..SignalCount[x[1]] : <<x[1], k>> \in Item
      BY <2>1 DEF Item
    <3> QED BY <2>1, <3>1
  <2>3. <<x>> \in Seq(Item) /\ <<>> \in Seq(Item)
    BY <1>4
  <2> QED BY <2>2, <2>3 DEF Result
<1>7. result \in Seq(Item)
  BY <1>6
<1> QED BY <1>1, <1>2, <1>4, <1>5, <1>7 DEF x

\* Whatever it receives, the types and who is done stay right.
LEMMA ReceiveTypes ==
    ASSUME TypeOK, ReturnInv, NEW g \in Readers, Receive(g)
    PROVE  TypeOK' /\ ReturnInv' /\ Settled
<1> DEFINE c == In(g)
           x == Head(chan[c])
           stops == cancelled /\ g # "forwarder"
           result == IF stops THEN <<>> ELSE Result(g, x)
           new == IF stops THEN "done" ELSE IF result = <<>> THEN "recv" ELSE "send"
<1>1. /\ g \in Goroutines /\ c \in Channels /\ chan[c] # <<>> /\ x \in Item
      /\ Tail(chan[c]) \in Seq(Item) /\ Len(Tail(chan[c])) <= Capacity[c]
      /\ held[g] = <<>> /\ pc[g] = "recv"
      /\ result \in Seq(Item)
      /\ chan' = [chan EXCEPT ![c] = Tail(chan[c])]
      /\ held' = [held EXCEPT ![g] = result]
      /\ pc' = [pc EXCEPT ![g] = new]
      /\ emitted' = IF g = "emitter" /\ ~stops THEN Append(emitted, x) ELSE emitted
      /\ UNCHANGED <<cancelled, closed, produced, server>>
  BY Receiving
<1>2. g = "emitter" => result = <<>>
  BY WorkersAssumption DEF Result
<1>3. new \in {"recv", "send", "done"} /\ (g = "emitter" => new # "send")
      /\ (new = "send" <=> result # <<>>)
  BY <1>2
<1> HIDE DEF c, x, result, new
<1>4. /\ ReturnInv' /\ pc' \in [Goroutines -> {"start", "recv", "send", "done"}]
      /\ pc'[g] = new /\ \A h \in Goroutines \ {g} : pc'[h] = pc[h]
      /\ g # "emitter" => pc'["emitter"] = pc["emitter"]
  <2>1. pc[g] # "done" /\ closed' = closed
    BY <1>1
  <2> QED BY <1>1, <1>3, <2>1, GoesOn
<1>5. Settled
  BY <1>1, <1>4 DEF Settled
<1>6. emitted' \in Seq(Item)
  BY <1>1 DEF TypeOK
<1>7. chan' \in [Channels -> Seq(Item)] /\ \A d \in Channels : Len(chan'[d]) <= Capacity[d]
  BY <1>1 DEF TypeOK
<1>8. /\ held' \in [Goroutines -> Seq(Item)]
      /\ \A h \in Goroutines : pc'[h] = "send" <=> held'[h] # <<>>
  BY <1>1, <1>3, <1>4 DEF TypeOK
<1>9. TypeOK'
  BY <1>1, <1>4, <1>6, <1>7, <1>8 DEF TypeOK, server
<1> QED BY <1>4, <1>5, <1>9

\* What a receive does to the queues.
LEMMA ReceiveEffect ==
    ASSUME TypeOK, ReturnInv, NEW g \in Readers, Receive(g)
    PROVE  Idle \/ Arrival \/ Motion \/ Derivation \/ Rejection \/ Loss
<1> DEFINE c == In(g)
           x == Head(chan[c])
           stops == cancelled /\ g # "forwarder"
           result == IF stops THEN <<>> ELSE Result(g, x)
           u == Tail(chan[c])
           rest == IF stops THEN "done" ELSE IF result = <<>> THEN "recv" ELSE "send"
<1>1. /\ g \in Goroutines /\ c \in Channels /\ chan[c] # <<>> /\ x \in Item
      /\ u \in Seq(Item) /\ held[g] = <<>> /\ pc[g] = "recv"
      /\ result \in Seq(Item)
      /\ chan' = [chan EXCEPT ![c] = u]
      /\ held' = [held EXCEPT ![g] = result]
      /\ pc' = [pc EXCEPT ![g] = rest]
      /\ emitted' = IF g = "emitter" /\ ~stops THEN Append(emitted, x) ELSE emitted
      /\ UNCHANGED <<cancelled, closed, produced, server>>
  BY Receiving
<1>2. /\ Chan(c) \in Holders /\ Q[Chan(c)] = chan[c] /\ Held(g) \in Holders
      /\ Q[Held(g)] = <<>> /\ Q[Emitted] = emitted
  BY <1>1, HolderNames
<1>3. cancelled' = cancelled /\ produced' = produced
  BY <1>1
<1>4. result = <<>> => held' = held
  BY <1>1 DEF TypeOK
<1>5. /\ ~stops => result = Result(g, x)
      /\ stops => result = <<>> /\ rest = "done"
      /\ stops => cancelled /\ g # "forwarder"
  OBVIOUS
<1>6. x = Head(Q[Chan(c)]) /\ u = Tail(Q[Chan(c)]) /\ Q[Chan(c)] # <<>>
  BY <1>1, <1>2
<1>7. c = In(g)
  OBVIOUS
<1> HIDE DEF c, x, stops, result, u, rest
<1>8. CASE stops
  <2>1. held' = held /\ emitted' = emitted
    BY <1>1, <1>4, <1>5, <1>8
  <2>2. Q' = Put(Q, Chan(c), u)
    BY <1>1, <1>2, <2>1, OneChanged
  <2>3. c = "signals" => pc'["emitter"] = "done"
    <3>1. SUFFICES ASSUME c = "signals" PROVE pc'["emitter"] = "done"
      OBVIOUS
    <3>2. g = "emitter"
      BY <1>7, <3>1, Ends DEF Readers, Goroutines
    <3> QED BY <1>1, <1>5, <1>8, <3>2 DEF TypeOK
  <2> QED BY <1>1, <1>3, <1>5, <1>6, <1>8, <2>2, <2>3 DEF Loss
<1>9. CASE ~stops /\ g = "emitter"
  <2>1. c = "signals" /\ result = <<>>
    BY <1>5, <1>7, <1>9, Ends, WorkersAssumption DEF Result
  <2>2. /\ chan' = [chan EXCEPT !["signals"] = u] /\ held' = held
        /\ emitted' = Append(emitted, x)
    BY <1>1, <1>4, <1>9, <2>1
  <2>3. Q' = [Q EXCEPT ![Chan("signals")] = u, ![Emitted] = Append(emitted, x)]
    BY <2>2, SignalEmitted
  <2>4. <<Chan("signals"), Emitted>> \in Steps
    BY DEF Steps
  <2> DEFINE m == <<Chan("signals"), Emitted>>
  <2>5. /\ Q[m[1]] # <<>>
        /\ Q' = [Q EXCEPT ![m[1]] = Tail(Q[m[1]]), ![m[2]] = Append(Q[m[2]], Head(Q[m[1]]))]
    BY <1>2, <1>6, <2>1, <2>3
  <2> HIDE DEF m
  <2> QED BY <1>3, <2>4, <2>5 DEF Motion, Shift, m
<1>10. CASE ~stops /\ g # "emitter"
  <2>1. emitted' = emitted
    BY <1>1, <1>10
  <2>2. Q' = [Q EXCEPT ![Chan(c)] = u, ![Held(g)] = result]
    <3>1. /\ c \in Channels /\ g \in Goroutines
          /\ chan' = [chan EXCEPT ![c] = u] /\ held' = [held EXCEPT ![g] = result]
      BY <1>1
    <3> DEFINE F == [Q EXCEPT ![Held(g)] = result, ![Chan(c)] = u]
    <3>2. F = [Q EXCEPT ![Held(g)] = result, ![Chan(c)] = u]
      OBVIOUS
    <3> HIDE DEF F
    <3>3. Q' = F
      BY <2>1, <3>1, <3>2, QueuesChanged
    <3>4. Chan(c) # Held(g) /\ Q \in [Holders -> Seq(Item)]
      BY HolderNames, QueueTypes
    <3> QED BY <1>2, <3>2, <3>3, <3>4
  <2>3. CASE g = "engine"
    <3>1. c = "enriched" /\ result = SignalsOf(x[1])
      BY <1>5, <1>7, <1>10, <2>3, Ends, WorkersAssumption DEF Result, SignalsOf
    <3> QED BY <1>2, <1>3, <1>6, <2>2, <2>3, <3>1 DEF Derivation, Put
  <2>4. CASE g = "normalizer" /\ x[1] \in Malformed
    <3>1. c = "raw" /\ result = <<>>
      BY <1>5, <1>7, <1>10, <2>4, Ends DEF Result
    <3>2. Q' = Put(Q, Chan(c), u)
      BY <1>1, <1>2, <1>4, <2>1, <3>1, OneChanged
    <3> QED BY <1>3, <1>6, <2>4, <3>1, <3>2 DEF Rejection
  <2>5. CASE g # "engine" /\ ~ (g = "normalizer" /\ x[1] \in Malformed)
    <3>1. result = <<x>>
      BY <1>5, <1>10, <2>5 DEF Result
    <3>2. <<x>> = Append(Q[Held(g)], x)
      BY <1>2
    <3> DEFINE m == <<Chan(c), Held(g)>>
    <3>3. m \in Steps
      BY <1>7, <1>10, <2>5 DEF Steps
    <3>4. /\ Q[m[1]] # <<>>
          /\ Q' = [Q EXCEPT ![m[1]] = Tail(Q[m[1]]), ![m[2]] = Append(Q[m[2]], Head(Q[m[1]]))]
      BY <1>6, <2>2, <3>1, <3>2
    <3> HIDE DEF m
    <3> QED BY <1>3, <3>3, <3>4 DEF Motion, Shift
  <2> QED BY <2>3, <2>4, <2>5
<1> QED BY <1>8, <1>9, <1>10

\* A goroutine that sends puts the first item it holds into its channel.
LEMMA SendStep ==
    ASSUME TypeOK, ReturnInv, NEW g \in {"adapter", "forwarder"} \cup Stages, Send(g)
    PROVE  TypeOK' /\ ReturnInv' /\ Effect
<1> DEFINE c == Out(g)
           x == Head(held[g])
           u == Append(chan[c], x)
           v == Tail(held[g])
           new == IF Len(held[g]) = 1 THEN "recv" ELSE "send"
<1>1. g \in Goroutines \ {"emitter"} /\ c \in Channels
  BY Ends, WorkersAssumption DEF Stages, Goroutines
<1>2. /\ pc[g] = "send" /\ Len(chan[c]) < Capacity[c]
      /\ chan' = [chan EXCEPT ![c] = u] /\ held' = [held EXCEPT ![g] = v]
      /\ pc' = [pc EXCEPT ![g] = new]
      /\ UNCHANGED <<cancelled, closed, produced, emitted, server>>
  BY <1>1 DEF Send, TypeOK
<1>3. /\ held[g] \in Seq(Item) /\ held[g] # <<>> /\ chan[c] \in Seq(Item)
      /\ Capacity[c] \in Nat
  BY <1>1, <1>2, ConfigAssumption DEF TypeOK
<1>4. x \in Item /\ v \in Seq(Item) /\ (new = "send" <=> v # <<>>) /\ new \in {"recv", "send"}
  <2> DEFINE s == held[g]
  <2>1. s \in Seq(Item) /\ s # <<>>
    BY <1>3
  <2> HIDE DEF s
  <2>2. Head(s) \in Item /\ Tail(s) \in Seq(Item)
    BY <2>1
  <2>3. Tail(s) = <<>> <=> Len(s) = 1
    <3> DEFINE t == Tail(s)
    <3>1. Len(s) \in Nat \ {0} /\ Len(t) = Len(s) - 1 /\ t \in Seq(Item)
      BY <2>1, Shortened
    <3> HIDE DEF t
    <3>2. t = <<>> <=> Len(t) = 0
      BY <3>1
    <3> QED BY <3>1, <3>2 DEF t
  <2> QED BY <2>2, <2>3 DEF s
<1>5. u \in Seq(Item) /\ Len(u) <= Capacity[c]
  <2> DEFINE s == chan[c]
  <2>1. s \in Seq(Item) /\ Len(s) < Capacity[c]
    BY <1>2, <1>3
  <2> HIDE DEF s, x, c
  <2>2. Append(s, x) \in Seq(Item) /\ Len(s) \in Nat /\ Len(Append(s, x)) = Len(s) + 1
    BY <1>4, <2>1
  <2> QED BY <1>3, <2>1, <2>2 DEF s
<1>6. c = Out(g)
  OBVIOUS
<1>7. Q' = [Q EXCEPT ![Held(g)] = v, ![Chan(c)] = u]
  <2>1. /\ c \in Channels /\ g \in Goroutines
        /\ chan' = [chan EXCEPT ![c] = u] /\ held' = [held EXCEPT ![g] = v]
    BY <1>1, <1>2
  <2>2. emitted' = emitted
    BY <1>2
  <2> DEFINE F == [Q EXCEPT ![Held(g)] = v, ![Chan(c)] = u]
  <2>3. F = [Q EXCEPT ![Held(g)] = v, ![Chan(c)] = u]
    OBVIOUS
  <2> HIDE DEF u, v, c, F
  <2>4. Q' = F
    BY <2>1, <2>2, <2>3, QueuesChanged
  <2> QED BY <2>4 DEF F
<1>8. Motion
  <2> DEFINE m == <<Held(g), Chan(c)>>
  <2>1. m \in Steps
    BY <1>1, <1>6 DEF Steps
  <2>2. Q[Held(g)] = held[g] /\ Q[Chan(c)] = chan[c]
    BY <1>1, HolderNames
  <2>3. /\ Q[m[1]] # <<>>
        /\ Q' = [Q EXCEPT ![m[1]] = Tail(Q[m[1]]), ![m[2]] = Append(Q[m[2]], Head(Q[m[1]]))]
    BY <1>3, <1>7, <2>2
  <2>4. UNCHANGED <<cancelled, produced>>
    BY <1>2
  <2> HIDE DEF m
  <2> QED BY <2>1, <2>3, <2>4 DEF Motion, Shift
<1> HIDE DEF c, x, u, v, new
<1>9. /\ ReturnInv' /\ pc' \in [Goroutines -> {"start", "recv", "send", "done"}]
      /\ pc'[g] = new /\ \A h \in Goroutines \ {g} : pc'[h] = pc[h]
      /\ g # "emitter" => pc'["emitter"] = pc["emitter"]
  <2>1. pc[g] # "done" /\ closed' = closed /\ g # "emitter" /\ g \in Goroutines
    BY <1>1, <1>2
  <2> QED BY <1>2, <1>4, <2>1, GoesOn
<1>10. Settled
  BY <1>1, <1>2, <1>9 DEF Settled
<1>11. chan' \in [Channels -> Seq(Item)] /\ \A d \in Channels : Len(chan'[d]) <= Capacity[d]
  BY <1>1, <1>2, <1>5 DEF TypeOK
<1>12. held' \in [Goroutines -> Seq(Item)]
  BY <1>1, <1>2, <1>4 DEF TypeOK
<1>13. \A h \in Goroutines : pc'[h] = "send" <=> held'[h] # <<>>
  BY <1>1, <1>2, <1>4, <1>9 DEF TypeOK
<1>14. TypeOK'
  BY <1>2, <1>9, <1>11, <1>12, <1>13 DEF TypeOK, server
<1> QED BY <1>8, <1>9, <1>10, <1>14 DEF Effect

\* A goroutine that sends gives up when the context is cancelled.
LEMMA AbandonSendStep ==
    ASSUME TypeOK, ReturnInv, NEW g \in Senders, AbandonSend(g)
    PROVE  TypeOK' /\ ReturnInv' /\ Effect
<1> DEFINE new == IF g = "adapter" THEN "recv" ELSE "done"
<1>1. g \in Goroutines \ {"emitter"} /\ Held(g) \in Holders
  BY HolderNames, WorkersAssumption DEF Senders, Stages, Goroutines
<1>2. /\ pc[g] = "send" /\ cancelled /\ chan' = chan /\ emitted' = emitted
      /\ held' = [held EXCEPT ![g] = <<>>] /\ pc' = [pc EXCEPT ![g] = new]
      /\ UNCHANGED <<cancelled, closed, produced, server>>
  BY DEF AbandonSend
<1>3. new \in {"recv", "send", "done"} /\ new # "send"
  OBVIOUS
<1> HIDE DEF new
<1>4. /\ ReturnInv' /\ pc' \in [Goroutines -> {"start", "recv", "send", "done"}]
      /\ pc'[g] = new /\ \A h \in Goroutines \ {g} : pc'[h] = pc[h]
      /\ g # "emitter" => pc'["emitter"] = pc["emitter"]
  <2>1. pc[g] # "done" /\ closed' = closed /\ g # "emitter" /\ g \in Goroutines
    BY <1>1, <1>2
  <2> QED BY <1>2, <1>3, <2>1, GoesOn
<1>5. Settled
  BY <1>1, <1>2, <1>4 DEF Settled
<1>6. /\ held' \in [Goroutines -> Seq(Item)]
      /\ \A h \in Goroutines : pc'[h] = "send" <=> held'[h] # <<>>
  BY <1>1, <1>2, <1>3, <1>4 DEF TypeOK
<1>7. TypeOK'
  BY <1>2, <1>4, <1>6 DEF TypeOK, server
<1>8. Q' = Put(Q, Held(g), <<>>)
  BY <1>1, <1>2, OneChanged
<1>9. Loss
  BY <1>1, <1>2, <1>8 DEF Loss
<1> QED BY <1>4, <1>5, <1>7, <1>9 DEF Effect

\* Every step keeps the types and who is done, and is one of the effects.
LEMMA NextEffect ==
    ASSUME TypeOK, ReturnInv, [Next]_vars
    PROVE  TypeOK' /\ ReturnInv' /\ Effect
<1>1. CASE LogArrives
  BY <1>1, LogArrivesStep
<1>2. CASE \E g \in Readers : Receive(g)
  BY <1>2, ReceiveTypes, ReceiveEffect DEF Effect
<1>3. CASE \E g \in Senders \cup {"forwarder"} : Send(g)
  BY <1>3, SendStep DEF Senders
<1>4. CASE \E g \in Senders : AbandonSend(g)
  BY <1>4, AbandonSendStep
<1>5. CASE \/ Cancel \/ AdapterReturns \/ ForwarderStarts
           \/ \E g \in Readers : RangeEnds(g)
           \/ \E c \in Channels : CloseChannel(c)
           \/ Subscribe \/ Disconnect \/ GracefulStop \/ ServeReturns \/ MainReturns
           \/ UNCHANGED vars
  BY <1>5, QuietStep
<1> QED BY <1>1, <1>2, <1>3, <1>4, <1>5 DEF Next
-----------------------------------------------------------------------------
(* What each effect does to the items. *)

\* An item is a pair of numbers, an event of a log among them.
LEMMA ItemTypes ==
    /\ \A x \in Item : x[1] \in 1..MaxLogs /\ x[1] \in Nat /\ x[2] \in Nat /\ x = <<x[1], x[2]>>
    /\ \A e \in 1..MaxLogs, k \in Nat : <<e, k>> \in Item
BY ConfigAssumption DEF Item

Seated(i) == \/ i = 1 /\ Line[i] = Chan("chain")
             \/ i = 2 /\ Line[i] = Held("normalizer")
             \/ i = 3 /\ Line[i] = Chan("raw")
             \/ i = 4 /\ Line[i] = Held("forwarder")
             \/ i = 5 /\ Line[i] = Chan("events")
             \/ i = 6 /\ Line[i] = Held("adapter")

\* Who stands where in the line.
LEMMA LineSeats == \A i \in Seats : Seated(i)
BY DEF Line, Seats, Seated

\* Where the steps of an item lead.
LEMMA StepEnds ==
    ASSUME NEW m \in Steps
    PROVE  /\ m[1] \in Holders /\ m[2] \in Holders /\ m[1] # m[2] /\ m[1] # Emitted
           /\ m[1] \in Late <=> m[2] \in Late
           /\ \/ \E k \in 1..5 : m = <<Line[k + 1], Line[k]>>
              \/ (m[1] = Line[1]) /\ \A i \in Seats : m[2] # Line[i]
              \/ \A i \in Seats : m[1] # Line[i] /\ m[2] # Line[i]
           /\ \/ m = <<Chan("signals"), Emitted>>
              \/ m = <<Held("engine"), Chan("signals")>>
              \/ m[1] \notin Late /\ m[2] \notin Late
<1>1. \A i \in Seats : Seated(i)
  BY LineSeats
<1>2. /\ Line[1] = Chan("chain") /\ Line[2] = Held("normalizer") /\ Line[3] = Chan("raw")
      /\ Line[4] = Held("forwarder") /\ Line[5] = Chan("events") /\ Line[6] = Held("adapter")
  BY DEF Line, Seats
<1>3. CASE m = <<Chan("events"), Held("forwarder")>>
  BY <1>2, <1>3, HolderNames DEF Late, Goroutines, Channels
<1>4. CASE m = <<Chan("raw"), Held("normalizer")>>
  BY <1>2, <1>4, HolderNames DEF Late, Goroutines, Channels
<1>5. CASE \E g \in Workers : m = <<Chan("chain"), Held(g)>>
  <2>1. PICK g \in Workers : m = <<Chan("chain"), Held(g)>>
    BY <1>5
  <2>2. g \notin {"adapter", "forwarder", "normalizer", "engine", "emitter"}
    BY WorkersAssumption
  <2>3. \A i \in Seats : m[2] # Line[i]
    BY <1>1, <2>1, <2>2, HolderNames DEF Seated
  <2> QED BY <1>2, <2>1, <2>2, <2>3, HolderNames DEF Late, Goroutines, Channels
<1>6. CASE m = <<Held("adapter"), Chan("events")>>
  BY <1>2, <1>6, HolderNames DEF Late, Goroutines, Channels
<1>7. CASE m = <<Held("forwarder"), Chan("raw")>>
  BY <1>2, <1>7, HolderNames DEF Late, Goroutines, Channels
<1>8. CASE m = <<Held("normalizer"), Chan("chain")>>
  BY <1>2, <1>8, HolderNames DEF Late, Goroutines, Channels
<1>9. CASE \E g \in Workers : m = <<Held(g), Chan("enriched")>>
  <2>1. PICK g \in Workers : m = <<Held(g), Chan("enriched")>>
    BY <1>9
  <2>2. g \notin {"adapter", "forwarder", "normalizer", "engine", "emitter"}
    BY WorkersAssumption
  <2>3. \A i \in Seats : m[1] # Line[i] /\ m[2] # Line[i]
    BY <1>1, <2>1, <2>2, HolderNames DEF Seated
  <2> QED BY <2>1, <2>2, <2>3, HolderNames DEF Late, Goroutines, Channels
<1>10. CASE m = <<Held("engine"), Chan("signals")>> \/ m = <<Chan("signals"), Emitted>>
  <2>1. \A i \in Seats : m[1] # Line[i] /\ m[2] # Line[i]
    BY <1>1, <1>10, HolderNames DEF Seated
  <2> QED BY <1>10, <2>1, HolderNames DEF Late, Goroutines, Channels
<1> QED
  BY <1>3, <1>4, <1>5, <1>6, <1>7, <1>8, <1>9, <1>10, Ends DEF Steps, Readers, Goroutines

\* No place of the line comes twice in it.
LEMMA LineNames ==
    /\ \A i \in Seats : Line[i] \in Holders \ Late
    /\ \A i, j \in Seats : Line[i] = Line[j] => i = j
<1>1. \A i \in Seats : Seated(i)
  BY LineSeats
<1>2. \A i \in Seats : Line[i] \in Holders \ Late
  BY <1>1, HolderNames DEF Seated, Late, Goroutines, Channels
<1>3. \A i, j \in Seats : Line[i] = Line[j] => i = j
  BY <1>1, HolderNames DEF Seated
<1> QED BY <1>2, <1>3

\* The parts of the invariant, said of the next state.
LEMMA NextForms ==
    /\ StageInv' <=> \A q \in Holders : \A x \in ToSet(Q'[q]) :
                         x[1] <= produced' /\ (q \in Late <=> x[2] # 0)
    /\ UniqueInv' <=> Arranged(Q', Holders, Others, Apart)
    /\ PresentInv' <=> (~cancelled' => \A s \in Signals : s[1] <= produced' =>
                           \E q \in Holders : \/ <<s[1], 0>> \in ToSet(Q'[q])
                                              \/ s \in ToSet(Q'[q]))
    /\ OrderInv' <=> Arranged(OnLine(Q'), Seats, Before, Less)
<1>1. /\ Holders' = Holders /\ Late' = Late /\ Others' = Others /\ Apart' = Apart
      /\ Signals' = Signals /\ Line' = Line /\ Before' = Before /\ Less' = Less
  BY DEF Holders, Channels, Goroutines, Late, Chan, Held, Emitted, Others, Apart, Item, Signals,
         Line, Before, Less
<1>2. StageInv' <=> \A q \in Holders : \A x \in ToSet(Q'[q]) :
                       x[1] <= produced' /\ (q \in Late <=> x[2] # 0)
  BY <1>1 DEF StageInv, ToSet
<1>3. UniqueInv' <=> Arranged(Q', Holders, Others, Apart)
  BY <1>1 DEF UniqueInv, Arranged, Ordered, Across, ToSet
<1>4. PresentInv' <=> (~cancelled' => \A s \in Signals : s[1] <= produced' =>
                         \E q \in Holders : \/ <<s[1], 0>> \in ToSet(Q'[q])
                                            \/ s \in ToSet(Q'[q]))
  BY <1>1 DEF PresentInv, Present, ToSet
<1>5. OrderInv' <=> Arranged(OnLine(Q'), Seats, Before, Less)
  BY <1>1 DEF OrderInv, L, OnLine, Arranged, Ordered, Across, ToSet
<1> QED BY <1>2, <1>3, <1>4, <1>5

\* The signals of an event that arrived and is well formed.
LEMMA SignalTypes ==
    ASSUME NEW s \in Signals
    PROVE  /\ s[1] \in (1..MaxLogs) \ Malformed /\ s[1] \in Nat
           /\ s[2] \in 1..SignalCount[s[1]] /\ SignalCount[s[1]] \in Nat /\ s = <<s[1], s[2]>>
BY ConfigAssumption DEF Signals

\* An item goes from one place to the next: it stays itself, and is in one place.
LEMMA MotionKeeps ==
    ASSUME TypeOK, StageInv, UniqueInv, PresentInv, Motion
    PROVE  StageInv' /\ UniqueInv' /\ PresentInv'
<1>1. PICK m \in Steps : Q[m[1]] # <<>> /\ Q' = Shift(Q, m[1], m[2])
  BY DEF Motion
<1>2. produced' = produced /\ cancelled' = cancelled
  BY DEF Motion
<1> DEFINE a == m[1]
           b == m[2]
           x == Head(Q[a])
           G == Q'
<1>3. /\ a \in Holders /\ b \in Holders /\ a # b /\ (a \in Late <=> b \in Late)
      /\ Q \in [Holders -> Seq(Item)] /\ Q[a] # <<>> /\ G = Shift(Q, a, b)
  BY <1>1, StepEnds, QueueTypes
<1>4. x = Head(Q[a]) /\ G = Q'
  OBVIOUS
<1> HIDE DEF a, b, x, G
<1>5. RightBefore(b, a, Holders, Others) /\ Symmetric(Apart, Item)
  BY <1>3 DEF Others, Apart, RightBefore, Symmetric
<1>6. /\ G \in [Holders -> Seq(Item)] /\ Arranged(G, Holders, Others, Apart)
      /\ With(Q[a], x, G[a]) /\ With(G[b], x, Q[b])
  <2>1. Arranged(Q, Holders, Others, Apart)
    BY DEF UniqueInv
  <2>2. /\ Q \in [Holders -> Seq(Item)] /\ Q[a] # <<>> /\ G = Shift(Q, a, b)
        /\ RightBefore(b, a, Holders, Others) /\ Symmetric(Apart, Item)
    BY <1>3, <1>5
  <2>3. G \in [Holders -> Seq(Item)] /\ Arranged(G, Holders, Others, Apart)
    BY <2>1, <2>2, Moved
  <2>4. With(Q[a], Head(Q[a]), G[a]) /\ With(G[b], Head(Q[a]), Q[b])
    BY <2>1, <2>2, Moved
  <2> QED BY <1>4, <2>3, <2>4
<1>7. \A q \in Holders \ {a, b} : ToSet(G[q]) = ToSet(Q[q])
  BY <1>3 DEF Shift
<1>8. UniqueInv'
  BY <1>4, <1>6, NextForms
<1>9. StageInv'
  <2> SUFFICES ASSUME NEW q \in Holders, NEW y \in ToSet(G[q])
               PROVE  y[1] <= produced /\ (q \in Late <=> y[2] # 0)
    BY <1>2, <1>4, NextForms
  <2>1. CASE y \in ToSet(Q[q])
    BY <2>1 DEF StageInv
  <2>2. CASE q = b /\ y = x
    <3>1. y \in ToSet(Q[a])
      BY <1>6, <2>2 DEF With
    <3> QED BY <1>3, <2>2, <3>1 DEF StageInv
  <2> QED BY <1>3, <1>6, <1>7, <2>1, <2>2 DEF With
<1>10. PresentInv'
  <2> SUFFICES ASSUME ~cancelled, NEW s \in Signals, s[1] <= produced
               PROVE  \E q \in Holders : <<s[1], 0>> \in ToSet(G[q]) \/ s \in ToSet(G[q])
    BY <1>2, <1>4, NextForms
  <2>1. PICK q \in Holders : <<s[1], 0>> \in ToSet(Q[q]) \/ s \in ToSet(Q[q])
    BY DEF PresentInv, Present
  <2>2. \A y : y \in ToSet(Q[q]) => y \in ToSet(G[q]) \/ y \in ToSet(G[b])
    BY <1>3, <1>6, <1>7 DEF With
  <2> QED BY <1>3, <2>1, <2>2
<1> QED BY <1>8, <1>9, <1>10

\* The adapter makes an event of a log no event was made of.
LEMMA ArrivalKeeps ==
    ASSUME TypeOK, StageInv, UniqueInv, PresentInv, Arrival
    PROVE  StageInv' /\ UniqueInv' /\ PresentInv'
<1> DEFINE x == <<produced + 1, 0>>
           t == <<x>>
           b == Held("adapter")
           G == Q'
<1>1. /\ Q[b] = <<>> /\ G = Put(Q, b, t) /\ produced' = produced + 1
      /\ produced' \in 1..MaxLogs /\ cancelled' = cancelled /\ produced \in Nat
  BY ConfigAssumption DEF Arrival, TypeOK
<1>2. b \in Holders \ Late /\ Q \in [Holders -> Seq(Item)] /\ G = Q'
  BY HolderNames, QueueTypes DEF Late, Goroutines
<1>3. x \in Item /\ x[1] = produced + 1 /\ x[2] = 0
  BY <1>1, ItemTypes
<1>4. /\ t \in Seq(Item) /\ t[1] = x /\ DOMAIN t = {1} /\ ToSet(t) = {x}
      /\ Ordered(t, Apart)
  <2>1. t \in Seq(Item) /\ t[1] = x /\ DOMAIN t = {1}
    BY <1>3
  <2> QED BY <2>1 DEF ToSet, Ordered
<1>5. x = <<produced + 1, 0>>
  OBVIOUS
<1> HIDE DEF x, t, b, G
<1>6. ASSUME NEW r \in Holders, NEW y \in ToSet(Q[r])
      PROVE  <<x, y>> \in Apart /\ <<y, x>> \in Apart
  <2>1. y \in Item
    BY <1>2, <1>6, ElementsIn
  <2>2. y[1] <= produced /\ y[1] \in Nat
    BY <1>6, <2>1, ItemTypes DEF StageInv
  <2>3. y[1] # x[1]
    BY <1>1, <1>3, <2>2
  <2> QED BY <1>3, <2>1, <2>3 DEF Apart
<1>7. Arranged(G, Holders, Others, Apart)
  <2>1. Arranged(Q, Holders, Others, Apart)
    BY DEF UniqueInv
  <2>2. \A r \in Holders : Across(Q[r], t, Apart) /\ Across(t, Q[r], Apart)
    BY <1>4, <1>6 DEF Across
  <2>3. Fits(t, b, Q, Holders, Others, Apart)
    BY <1>4, <2>2 DEF Fits, Others
  <2>4. Q \in [Holders -> Seq(Item)] /\ b \in Holders /\ t \in Seq(Item) /\ G = Put(Q, b, t)
    BY <1>1, <1>2, <1>4
  <2> QED BY <2>1, <2>3, <2>4, Filled
<1>8. UniqueInv'
  BY <1>2, <1>7, NextForms
<1>9. ToSet(G[b]) = {x} /\ \A q \in Holders \ {b} : G[q] = Q[q]
  BY <1>1, <1>2, <1>4 DEF Put
<1>10. StageInv'
  <2> SUFFICES ASSUME NEW q \in Holders, NEW y \in ToSet(G[q])
               PROVE  y[1] <= produced' /\ (q \in Late <=> y[2] # 0)
    BY <1>2, NextForms
  <2>1. CASE q = b
    BY <1>1, <1>2, <1>3, <1>9, <2>1
  <2>2. CASE q # b
    <3>1. y \in ToSet(Q[q]) /\ y \in Item
      BY <1>2, <1>9, <2>2, ElementsIn
    <3>2. y[1] <= produced /\ y[1] \in Nat /\ (q \in Late <=> y[2] # 0)
      BY <3>1, ItemTypes DEF StageInv
    <3> QED BY <1>1, <3>2
  <2> QED BY <2>1, <2>2
<1>11. PresentInv'
  <2> SUFFICES ASSUME ~cancelled, NEW s \in Signals, s[1] <= produced + 1
               PROVE  \E q \in Holders : <<s[1], 0>> \in ToSet(G[q]) \/ s \in ToSet(G[q])
    BY <1>1, <1>2, NextForms
  <2>1. CASE s[1] <= produced
    <3>1. PICK q \in Holders : <<s[1], 0>> \in ToSet(Q[q]) \/ s \in ToSet(Q[q])
      BY <2>1 DEF PresentInv, Present
    <3>2. q # b
      BY <1>1, <3>1 DEF ToSet
    <3> QED BY <1>9, <3>1, <3>2
  <2>2. CASE s[1] = produced + 1
    BY <1>2, <1>5, <1>9, <2>2
  <2>3. s[1] \in Nat
    BY SignalTypes
  <2> QED BY <1>1, <2>1, <2>2, <2>3
<1> QED BY <1>8, <1>10, <1>11

\* The signals of an event, in order, each with a number of its own.
LEMMA SignalsOfEvent ==
    ASSUME NEW e \in 1..MaxLogs, NEW t, t = SignalsOf(e)
    PROVE  /\ t \in Seq(Item) /\ Len(t) = SignalCount[e] /\ SignalCount[e] \in Nat
           /\ DOMAIN t = 1..SignalCount[e] /\ \A k \in DOMAIN t : t[k] = <<e, k>>
<1>1. SignalCount[e] \in Nat /\ \A k \in 1..SignalCount[e] : <<e, k>> \in Item
  BY ConfigAssumption DEF Item
<1>2. t = [k \in 1..SignalCount[e] |-> <<e, k>>]
  BY DEF SignalsOf
<1> QED BY <1>1, <1>2

\* The engine makes the signals of an event: they take the place of the event.
LEMMA DerivationKeeps ==
    ASSUME TypeOK, StageInv, UniqueInv, PresentInv, Derivation
    PROVE  StageInv' /\ UniqueInv' /\ PresentInv'
<1> DEFINE c == Chan("enriched")
           b == Held("engine")
           x == Head(Q[c])
           e == x[1]
           t == SignalsOf(e)
           F == Put(Q, c, Tail(Q[c]))
           G == Q'
<1>1. /\ Q[c] # <<>> /\ Q[b] = <<>> /\ F = Put(Q, c, Tail(Q[c])) /\ G = Put(F, b, t)
      /\ G = Q' /\ x = Head(Q[c]) /\ t = SignalsOf(e) /\ e = x[1]
      /\ produced' = produced /\ cancelled' = cancelled
  BY DEF Derivation
<1>2. /\ c \in Holders \ Late /\ b \in Late /\ b \in Holders /\ b # c
      /\ Q \in [Holders -> Seq(Item)]
  BY HolderNames, QueueTypes DEF Late, Goroutines, Channels
<1> HIDE DEF c, b, x, e, t, F, G
<1>3. Arranged(Q, Holders, Others, Apart)
  BY DEF UniqueInv
<1>4. /\ F \in [Holders -> Seq(Item)] /\ Arranged(F, Holders, Others, Apart)
      /\ x \in Item /\ With(Q[c], x, F[c])
  BY <1>1, <1>2, <1>3, Shrunk
<1>5. \A y \in ToSet(F[c]) : <<x, y>> \in Apart
  BY <1>1, <1>2, <1>3, Shrunk
<1>6. /\ \A q \in Holders \ {c} : F[q] = Q[q]
      /\ \A q \in Holders \ {b} : G[q] = F[q]
  BY <1>1, <1>2, <1>4 DEF Put
<1>7. x \in ToSet(Q[c]) /\ e \in 1..MaxLogs /\ e \in Nat /\ x[2] = 0 /\ e <= produced
  <2>1. x \in ToSet(Q[c])
    BY <1>4 DEF With
  <2> QED BY <1>1, <1>2, <1>4, <2>1, ItemTypes DEF StageInv
<1>8. ASSUME NEW q \in Holders, NEW y \in ToSet(F[q]) PROVE y \in Item /\ y[1] # e
  <2>1. y \in Item
    BY <1>4, <1>8, ElementsIn
  <2>2. <<x, y>> \in Apart
    <3>1. CASE q = c
      BY <1>5, <1>8, <3>1
    <3>2. CASE q # c
      BY <1>2, <1>3, <1>6, <1>7, <1>8, <3>2 DEF Arranged, Across, Others
    <3> QED BY <3>1, <3>2
  <2> QED BY <1>1, <1>7, <2>1, <2>2 DEF Apart
<1>9. /\ t \in Seq(Item) /\ DOMAIN t = 1..SignalCount[e] /\ SignalCount[e] \in Nat
      /\ \A k \in DOMAIN t : t[k] = <<e, k>>
  BY <1>1, <1>7, SignalsOfEvent
<1>10. \A z \in ToSet(t) : z \in Item /\ z[1] = e /\ z[2] # 0
  <2> SUFFICES ASSUME NEW k \in DOMAIN t PROVE t[k] \in Item /\ t[k][1] = e /\ t[k][2] # 0
    BY DEF ToSet
  <2>1. t[k] = <<e, k>> /\ k \in Nat /\ k # 0
    BY <1>9
  <2> QED BY <1>7, <2>1, ItemTypes
<1>11. Ordered(t, Apart)
  <2> SUFFICES ASSUME NEW i \in DOMAIN t, NEW j \in DOMAIN t, i < j
               PROVE  <<t[i], t[j]>> \in Apart
    BY DEF Ordered
  <2>1. /\ t[i] = <<e, i>> /\ t[j] = <<e, j>> /\ i \in Nat /\ j \in Nat
        /\ i # 0 /\ j # 0 /\ i # j
    BY <1>9
  <2>2. t[i] \in Item /\ t[j] \in Item
    BY <1>7, <2>1, ItemTypes
  <2> QED BY <2>1, <2>2 DEF Apart
<1>12. G \in [Holders -> Seq(Item)] /\ Arranged(G, Holders, Others, Apart)
  <2>1. \A r \in Holders : Across(F[r], t, Apart) /\ Across(t, F[r], Apart)
    BY <1>8, <1>10 DEF Across, Apart
  <2>2. Fits(t, b, F, Holders, Others, Apart)
    BY <1>11, <2>1 DEF Fits, Others
  <2>3. /\ F \in [Holders -> Seq(Item)] /\ Arranged(F, Holders, Others, Apart)
        /\ b \in Holders /\ t \in Seq(Item) /\ G = Put(F, b, t)
    BY <1>1, <1>2, <1>4, <1>9
  <2> QED BY <2>2, <2>3, Filled
<1>13. UniqueInv'
  BY <1>1, <1>12, NextForms
<1>14. G[b] = t
  BY <1>1, <1>2, <1>4 DEF Put
<1>15. StageInv'
  <2> SUFFICES ASSUME NEW q \in Holders, NEW y \in ToSet(G[q])
               PROVE  y[1] <= produced /\ (q \in Late <=> y[2] # 0)
    BY <1>1, NextForms
  <2>1. CASE q = b
    BY <1>2, <1>7, <1>10, <1>14, <2>1
  <2>2. CASE q # b
    <3>1. y \in ToSet(Q[q])
      BY <1>4, <1>6, <2>2 DEF With
    <3> QED BY <3>1 DEF StageInv
  <2> QED BY <2>1, <2>2
<1>16. PresentInv'
  <2> SUFFICES ASSUME ~cancelled, NEW s \in Signals, s[1] <= produced
               PROVE  \E q \in Holders : <<s[1], 0>> \in ToSet(G[q]) \/ s \in ToSet(G[q])
    BY <1>1, NextForms
  <2>1. PICK q \in Holders, y \in {<<s[1], 0>>, s} : y \in ToSet(Q[q])
    BY DEF PresentInv, Present
  <2>2. CASE y = x
    <3>1. /\ s[1] = e /\ s[2] \in 1..SignalCount[e] /\ s = <<e, s[2]>>
      BY <1>1, <1>7, <2>1, <2>2, SignalTypes
    <3>2. s \in ToSet(t)
      BY <1>9, <3>1 DEF ToSet
    <3> QED BY <1>2, <1>14, <3>2
  <2>3. CASE y # x
    <3>1. y \in ToSet(F[q])
      BY <1>4, <1>6, <2>1, <2>3 DEF With
    <3>2. q # b
      BY <1>1, <2>1 DEF ToSet
    <3> QED BY <1>6, <2>1, <3>1, <3>2
  <2> QED BY <2>2, <2>3
<1> QED BY <1>13, <1>15, <1>16

\* A malformed event leaves: no signal waits for it.
LEMMA RejectionKeeps ==
    ASSUME TypeOK, StageInv, UniqueInv, PresentInv, Rejection
    PROVE  StageInv' /\ UniqueInv' /\ PresentInv'
<1> DEFINE c == Chan("raw")
           x == Head(Q[c])
           G == Q'
<1>1. /\ Q[c] # <<>> /\ G = Put(Q, c, Tail(Q[c])) /\ G = Q' /\ x = Head(Q[c])
      /\ x[1] \in Malformed /\ produced' = produced /\ cancelled' = cancelled
  BY DEF Rejection
<1>2. c \in Holders /\ Q \in [Holders -> Seq(Item)]
  BY HolderNames, QueueTypes DEF Channels
<1> HIDE DEF c, x, G
<1>3. Arranged(Q, Holders, Others, Apart)
  BY DEF UniqueInv
<1>4. /\ G \in [Holders -> Seq(Item)] /\ Arranged(G, Holders, Others, Apart)
      /\ With(Q[c], x, G[c])
  BY <1>1, <1>2, <1>3, Shrunk
<1>5. \A q \in Holders \ {c} : G[q] = Q[q]
  BY <1>1, <1>2 DEF Put
<1>6. UniqueInv'
  BY <1>1, <1>4, NextForms
<1>7. StageInv'
  <2>1. \A q \in Holders : \A y \in ToSet(G[q]) : y \in ToSet(Q[q])
    BY <1>4, <1>5 DEF With
  <2> QED BY <1>1, <2>1, NextForms DEF StageInv
<1>8. PresentInv'
  <2> SUFFICES ASSUME ~cancelled, NEW s \in Signals, s[1] <= produced
               PROVE  \E q \in Holders : <<s[1], 0>> \in ToSet(G[q]) \/ s \in ToSet(G[q])
    BY <1>1, NextForms
  <2>1. PICK q \in Holders, y \in {<<s[1], 0>>, s} : y \in ToSet(Q[q])
    BY DEF PresentInv, Present
  <2>2. y # x
    BY <1>1, <2>1, SignalTypes
  <2>3. y \in ToSet(G[q])
    BY <1>4, <1>5, <2>1, <2>2 DEF With
  <2> QED BY <2>1, <2>3
<1> QED BY <1>6, <1>7, <1>8

\* What is left behind after the cancellation only makes the queues shorter.
LEMMA LossKeeps ==
    ASSUME TypeOK, StageInv, UniqueInv, PresentInv, Loss
    PROVE  StageInv' /\ UniqueInv' /\ PresentInv'
<1>1. cancelled' /\ produced' = produced
  BY DEF Loss
<1>2. PICK a \in Holders :
         \/ Q' = Put(Q, a, <<>>)
         \/ Q[a] # <<>> /\ Q' = Put(Q, a, Tail(Q[a]))
  BY HolderNames DEF Loss
<1> DEFINE G == Q'
<1>3. /\ \/ G = Put(Q, a, <<>>)
         \/ Q[a] # <<>> /\ G = Put(Q, a, Tail(Q[a]))
      /\ Q \in [Holders -> Seq(Item)] /\ G = Q'
  BY <1>2, QueueTypes
<1> HIDE DEF G
<1>4. Arranged(Q, Holders, Others, Apart)
  BY DEF UniqueInv
<1>5. Arranged(G, Holders, Others, Apart) /\ ToSet(G[a]) \subseteq ToSet(Q[a])
  <2>1. CASE G = Put(Q, a, <<>>)
    <3> DEFINE t == <<>>
    <3>1. t \in Seq(Item) /\ ToSet(t) = {} /\ DOMAIN t = {}
      BY DEF ToSet
    <3>2. G = Put(Q, a, t)
      BY <2>1
    <3> HIDE DEF t
    <3>3. Fits(t, a, Q, Holders, Others, Apart)
      BY <3>1 DEF Fits, Others, Ordered, Across
    <3>4. Arranged(G, Holders, Others, Apart)
      <4>1. Q \in [Holders -> Seq(Item)] /\ t \in Seq(Item)
        BY <1>3, <3>1
      <4> QED BY <1>4, <3>2, <3>3, <4>1, Filled
    <3>5. G[a] = t
      BY <1>3, <3>2 DEF Put
    <3> QED BY <3>1, <3>4, <3>5
  <2>2. CASE Q[a] # <<>> /\ G = Put(Q, a, Tail(Q[a]))
    <3>1. Arranged(G, Holders, Others, Apart) /\ With(Q[a], Head(Q[a]), G[a])
      BY <1>3, <1>4, <2>2, Shrunk
    <3> QED BY <3>1 DEF With
  <2> QED BY <1>3, <2>1, <2>2
<1>6. \A q \in Holders : ToSet(G[q]) \subseteq ToSet(Q[q])
  BY <1>3, <1>5 DEF Put
<1>7. StageInv'
  BY <1>1, <1>3, <1>6, NextForms DEF StageInv
<1> QED BY <1>1, <1>3, <1>5, <1>7, NextForms

\* A step that moves nothing.
LEMMA IdleKeeps ==
    ASSUME TypeOK, StageInv, UniqueInv, PresentInv, Idle
    PROVE  StageInv' /\ UniqueInv' /\ PresentInv'
<1>1. Q' = Q /\ produced' = produced /\ (cancelled => cancelled')
  BY DEF Idle
<1>2. StageInv'
  BY <1>1, NextForms DEF StageInv
<1>3. UniqueInv'
  BY <1>1, NextForms DEF UniqueInv
<1>4. PresentInv'
  BY <1>1, NextForms DEF PresentInv, Present
<1> QED BY <1>2, <1>3, <1>4
-----------------------------------------------------------------------------
(* The order of the line. *)

\* The line is made of sequences of items.
LEMMA LineTypes ==
    ASSUME TypeOK
    PROVE  L \in [Seats -> Seq(Item)] /\ \A i \in Seats : L[i] = Q[Line[i]]
BY QueueTypes, LineNames DEF L, OnLine

\* An item goes to the next place of the line, leaves it, or is elsewhere.
LEMMA MotionKeepsOrder ==
    ASSUME TypeOK, OrderInv, Motion
    PROVE  OrderInv'
<1>1. PICK m \in Steps : Q[m[1]] # <<>> /\ Q' = Shift(Q, m[1], m[2])
  BY DEF Motion
<1> DEFINE a == m[1]
           b == m[2]
           G == Q'
           K == OnLine(G)
<1>2. /\ a \in Holders /\ b \in Holders /\ a # b
      /\ Q \in [Holders -> Seq(Item)] /\ Q[a] # <<>> /\ G = Shift(Q, a, b)
  BY <1>1, StepEnds, QueueTypes
<1>3. G = Q' /\ K = OnLine(G)
  OBVIOUS
<1>4. \/ \E k \in 1..5 : a = Line[k + 1] /\ b = Line[k]
      \/ a = Line[1] /\ (\A i \in Seats : b # Line[i])
      \/ \A i \in Seats : a # Line[i] /\ b # Line[i]
  BY StepEnds
<1> HIDE DEF a, b, G, K
<1>5. /\ G[a] = Tail(Q[a]) /\ G[b] = Append(Q[b], Head(Q[a]))
      /\ \A q \in Holders \ {a, b} : G[q] = Q[q]
  BY <1>2 DEF Shift
<1>6. Arranged(L, Seats, Before, Less) /\ L \in [Seats -> Seq(Item)]
  BY LineTypes DEF OrderInv
<1>7. Arranged(K, Seats, Before, Less)
  <2>1. CASE \E k \in 1..5 : a = Line[k + 1] /\ b = Line[k]
    <3>1. PICK k \in 1..5 : a = Line[k + 1] /\ b = Line[k]
      BY <2>1
    <3>2. k \in Seats /\ k + 1 \in Seats /\ k + 1 # k
      BY DEF Seats
    <3>3. K = Shift(L, k + 1, k)
      <4>1. \A i \in Seats : K[i] = Shift(L, k + 1, k)[i]
        <5> SUFFICES ASSUME NEW i \in Seats PROVE K[i] = Shift(L, k + 1, k)[i]
          OBVIOUS
        <5>1. K[i] = G[Line[i]] /\ L[i] = Q[Line[i]] /\ Line[i] \in Holders
          BY <1>3, LineTypes, LineNames DEF OnLine
        <5>2. L[k] = Q[b] /\ L[k + 1] = Q[a]
          BY <3>1, <3>2, LineTypes
        <5>3. CASE i = k
          BY <1>5, <1>6, <3>1, <3>2, <5>1, <5>2, <5>3 DEF Shift
        <5>4. CASE i = k + 1
          BY <1>5, <1>6, <3>1, <3>2, <5>1, <5>2, <5>4 DEF Shift
        <5>5. CASE i # k /\ i # k + 1
          <6>1. Line[i] # a /\ Line[i] # b
            BY <3>1, <3>2, <5>5, LineNames
          <6> QED BY <1>5, <1>6, <3>2, <5>1, <5>5, <6>1 DEF Shift
        <5> QED BY <5>3, <5>4, <5>5
      <4>2. Shift(L, k + 1, k) = [i \in Seats |-> Shift(L, k + 1, k)[i]]
        BY <1>6, <3>2 DEF Shift
      <4>3. K = [i \in Seats |-> K[i]]
        BY <1>3 DEF OnLine
      <4> QED BY <4>1, <4>2, <4>3
    <3>4. RightBefore(k, k + 1, Seats, Before) /\ <<k + 1, k>> \notin Before
      BY <3>2 DEF RightBefore, Before, Seats
    <3>5. L[k + 1] # <<>>
      BY <1>2, <3>1, <3>2, LineTypes
    <3> DEFINE j == k + 1
    <3>6. /\ RightBefore(k, j, Seats, Before) /\ <<j, k>> \notin Before /\ L[j] # <<>>
          /\ K = Shift(L, j, k)
      BY <3>3, <3>4, <3>5
    <3> HIDE DEF j
    <3> QED BY <1>6, <3>6, Moved
  <2>2. CASE a = Line[1] /\ (\A i \in Seats : b # Line[i])
    <3>1. K = Put(L, 1, Tail(L[1]))
      <4>1. \A i \in Seats : K[i] = IF i = 1 THEN Tail(L[1]) ELSE L[i]
        BY <1>3, <1>5, <2>2, LineTypes, LineNames DEF Seats, OnLine
      <4> QED BY <1>3, <1>6, <4>1 DEF Put, OnLine
    <3>2. L[1] # <<>> /\ 1 \in Seats
      BY <1>2, <2>2, LineTypes DEF Seats
    <3> QED BY <1>6, <3>1, <3>2, Shrunk
  <2>3. CASE \A i \in Seats : a # Line[i] /\ b # Line[i]
    <3>1. \A i \in Seats : K[i] = L[i]
      BY <1>3, <1>5, <2>3, LineTypes, LineNames DEF OnLine
    <3>2. K = L
      BY <1>3, <1>6, <3>1 DEF OnLine
    <3> QED BY <1>6, <3>2
  <2> QED BY <1>4, <2>1, <2>2, <2>3
<1> QED BY <1>3, <1>7, NextForms

\* A queue of the line is replaced by one that fits, or another queue is.
LEMMA LinePut ==
    ASSUME TypeOK, NEW a \in Holders, NEW t, NEW F, F = Put(Q, a, t),
           NEW K, K = OnLine(F)
    PROVE  /\ \A i \in Seats : a = Line[i] => K = Put(L, i, t) /\ L[i] = Q[a]
           /\ a \in Late => K = L
<1>1. F[a] = t /\ \A q \in Holders \ {a} : F[q] = Q[q]
  BY QueueTypes DEF Put
<1>2. L \in [Seats -> Seq(Item)] /\ \A i \in Seats : L[i] = Q[Line[i]]
  BY LineTypes
<1>3. ASSUME NEW i \in Seats, a = Line[i] PROVE K = Put(L, i, t) /\ L[i] = Q[a]
  <2>1. \A j \in Seats : K[j] = IF j = i THEN t ELSE L[j]
    BY <1>1, <1>2, <1>3, LineNames DEF OnLine
  <2> QED BY <1>2, <1>3, <2>1 DEF Put, OnLine
<1>4. ASSUME a \in Late PROVE K = L
  <2>1. \A j \in Seats : K[j] = L[j]
    BY <1>1, <1>2, <1>4, LineNames DEF OnLine
  <2> QED BY <1>2, <2>1 DEF OnLine
<1> QED BY <1>3, <1>4

\* A queue that loses its first element, or all, leaves the line in order.
LEMMA ShorterKeepsOrder ==
    ASSUME TypeOK, OrderInv, NEW a \in Holders, NEW F,
           F = Put(Q, a, <<>>) \/ (Q[a] # <<>> /\ F = Put(Q, a, Tail(Q[a]))),
           NEW K, K = OnLine(F)
    PROVE  Arranged(K, Seats, Before, Less)
<1>1. Arranged(L, Seats, Before, Less) /\ L \in [Seats -> Seq(Item)]
  BY LineTypes DEF OrderInv
<1>2. CASE \E i \in Seats : a = Line[i]
  <2>1. PICK i \in Seats : a = Line[i]
    BY <1>2
  <2>2. L[i] = Q[a]
    BY <2>1, LineTypes
  <2>3. CASE F = Put(Q, a, <<>>)
    <3> DEFINE t == <<>>
    <3>1. t \in Seq(Item) /\ ToSet(t) = {} /\ DOMAIN t = {} /\ F = Put(Q, a, t)
      BY <2>3 DEF ToSet
    <3> HIDE DEF t
    <3>2. K = Put(L, i, t)
      BY <2>1, <3>1, LinePut
    <3>3. Fits(t, i, L, Seats, Before, Less)
      BY <3>1 DEF Fits, Ordered, Across, Before, Seats
    <3>4. t \in Seq(Item)
      BY <3>1
    <3> QED BY <1>1, <3>2, <3>3, <3>4, Filled
  <2>4. CASE Q[a] # <<>> /\ F = Put(Q, a, Tail(Q[a]))
    <3> DEFINE t == Tail(Q[a])
    <3>1. F = Put(Q, a, t)
      BY <2>4
    <3> HIDE DEF t
    <3>2. K = Put(L, i, t)
      BY <2>1, <3>1, LinePut
    <3>3. K = Put(L, i, Tail(L[i])) /\ L[i] # <<>>
      BY <2>2, <2>4, <3>2 DEF t
    <3> QED BY <1>1, <3>3, Shrunk
  <2> QED BY <2>3, <2>4
<1>3. CASE \A i \in Seats : a # Line[i]
  <2>1. K = L
    <3>1. \A j \in Seats : K[j] = L[j]
      BY <1>3, QueueTypes, LineTypes, LineNames DEF Put, OnLine
    <3> QED BY <1>1, <3>1 DEF OnLine
  <2> QED BY <1>1, <2>1
<1> QED BY <1>2, <1>3

\* Whatever the effect, the line stays in order.
LEMMA EffectKeepsOrder ==
    ASSUME TypeOK, StageInv, OrderInv, Effect
    PROVE  OrderInv'
<1>1. CASE Idle
  BY <1>1, NextForms DEF Idle, OrderInv, L, OnLine
<1>2. CASE Motion
  BY <1>2, MotionKeepsOrder
<1>3. CASE Arrival
  <2> DEFINE x == <<produced + 1, 0>>
             t == <<x>>
             a == Held("adapter")
             F == Q'
             K == OnLine(F)
  <2>1. /\ F = Put(Q, a, t) /\ F = Q' /\ K = OnLine(F)
        /\ produced + 1 \in 1..MaxLogs /\ produced \in Nat
    BY <1>3, ConfigAssumption DEF Arrival, TypeOK
  <2>2. x \in Item /\ x[1] = produced + 1
    BY <2>1, ItemTypes
  <2>3. a = Line[6] /\ a \in Holders
    BY HolderNames DEF Line, Goroutines
  <2>4. t \in Seq(Item) /\ t[1] = x /\ DOMAIN t = {1} /\ ToSet(t) = {x} /\ Ordered(t, Less)
    <3>1. t \in Seq(Item) /\ t[1] = x /\ DOMAIN t = {1}
      BY <2>2
    <3> QED BY <3>1 DEF ToSet, Ordered
  <2> HIDE DEF x, t, a, F, K
  <2>5. K = Put(L, 6, t)
    <3>1. 6 \in Seats
      BY DEF Seats
    <3>2. F = Put(Q, a, t) /\ K = OnLine(F)
      BY <2>1
    <3>3. \A i \in Seats : a = Line[i] => K = Put(L, i, t) /\ L[i] = Q[a]
      BY <2>3, <3>2, LinePut
    <3> QED BY <2>3, <3>1, <3>3
  <2>6. Arranged(L, Seats, Before, Less) /\ L \in [Seats -> Seq(Item)]
    BY LineTypes DEF OrderInv
  <2>7. \A i \in Seats : Across(L[i], t, Less)
    <3> SUFFICES ASSUME NEW i \in Seats, NEW y \in ToSet(Q[Line[i]]) PROVE <<y, x>> \in Less
      BY <2>4, LineTypes DEF Across
    <3>1. Line[i] \in Holders /\ Q[Line[i]] \in Seq(Item)
      BY LineNames, QueueTypes
    <3>2. y \in Item /\ y[1] \in Nat
      BY <3>1, ElementsIn, ItemTypes
    <3>3. y[1] <= produced
      BY <3>1 DEF StageInv
    <3> QED BY <2>1, <2>2, <3>2, <3>3 DEF Less
  <2>8. Fits(t, 6, L, Seats, Before, Less)
    BY <2>4, <2>7 DEF Fits, Before, Seats
  <2>9. Arranged(K, Seats, Before, Less)
    <3>1. 6 \in Seats
      BY DEF Seats
    <3> QED BY <2>4, <2>5, <2>6, <2>8, <3>1, Filled
  <2> QED BY <2>1, <2>9, NextForms
<1>4. CASE Derivation
  <2> DEFINE c == Chan("enriched")
             b == Held("engine")
             F == Put(Q, c, Tail(Q[c]))
             G == Q'
             K == OnLine(G)
  <2>1. c \in Holders /\ b \in Late /\ \A i \in Seats : c # Line[i] /\ b # Line[i]
    <3>1. c \in Holders /\ b \in Late
      BY HolderNames DEF Late, Channels
    <3>2. \A i \in Seats : b # Line[i]
      BY <3>1, LineNames
    <3>3. \A i \in Seats : Seated(i)
      BY LineSeats
    <3> QED BY <3>1, <3>2, <3>3, HolderNames DEF Seated
  <2>2. PICK t : G = Put(F, b, t)
    BY <1>4 DEF Derivation
  <2> HIDE DEF c, b
  <2>3. \A i \in Seats : G[Line[i]] = Q[Line[i]]
    BY <2>1, <2>2, QueueTypes, LineNames DEF Put
  <2> HIDE DEF F, G
  <2>4. K = L
    BY <2>3 DEF L, OnLine
  <2> QED BY <2>4, NextForms DEF OrderInv, L, OnLine, G
<1>5. CASE Rejection \/ Loss
  <2>1. PICK a \in Holders :
           Q' = Put(Q, a, <<>>) \/ (Q[a] # <<>> /\ Q' = Put(Q, a, Tail(Q[a])))
    BY <1>5, HolderNames DEF Rejection, Loss, Channels
  <2> DEFINE F == Q'
             K == OnLine(F)
  <2>2. F = Put(Q, a, <<>>) \/ (Q[a] # <<>> /\ F = Put(Q, a, Tail(Q[a])))
    BY <2>1
  <2>3. K = OnLine(F)
    OBVIOUS
  <2> HIDE DEF F, K
  <2>4. Arranged(K, Seats, Before, Less)
    BY <2>2, <2>3, ShorterKeepsOrder
  <2> QED BY <2>3, <2>4, NextForms DEF F
<1> QED BY <1>1, <1>2, <1>3, <1>4, <1>5 DEF Effect
-----------------------------------------------------------------------------
(* The signals of an event stay together. *)

\* The first element of a queue goes to the end of the one in front of it: the two,
\* one behind the other, are the same sequence.
LEMMA Regrouped ==
    ASSUME NEW S, NEW s \in Seq(S), NEW t \in Seq(S), t # <<>>
    PROVE  Append(s, Head(t)) \o Tail(t) = s \o t
<1> DEFINE x == Head(t)
           r == Tail(t)
           u == <<x>>
<1>1. x \in S /\ r \in Seq(S) /\ u \in Seq(S)
  BY HeadTailProperties
<1>2. t = u \o r
  <2>1. /\ Len(t) \in Nat \ {0} /\ Len(r) = Len(t) - 1 /\ DOMAIN t = 1..Len(t)
        /\ \A i \in 1..Len(r) : r[i] = t[i + 1]
    BY HeadTailProperties
  <2>2. u[1] = t[1] /\ Len(u) = 1
    OBVIOUS
  <2>3. /\ u \o r \in Seq(S) /\ Len(u \o r) = 1 + Len(r)
        /\ \A i \in 1..(1 + Len(r)) : (u \o r)[i] = IF i <= 1 THEN u[i] ELSE r[i - 1]
    BY <1>1, <2>2, ConcatProperties
  <2> DEFINE v == u \o r
             n == Len(t)
  <2>4. /\ v \in Seq(S) /\ Len(v) = n /\ Len(t) = n /\ n \in Nat \ {0} /\ t \in Seq(S)
        /\ \A i \in 1..n : v[i] = IF i <= 1 THEN u[i] ELSE r[i - 1]
        /\ \A i \in 1..(n - 1) : r[i] = t[i + 1]
    BY <2>1, <2>3
  <2> HIDE DEF u, r, v, n
  <2>5. \A i \in 1..n : v[i] = t[i]
    <3> SUFFICES ASSUME NEW i \in 1..n PROVE v[i] = t[i]
      OBVIOUS
    <3>1. CASE i = 1
      BY <2>2, <2>4, <3>1
    <3>2. CASE i # 1
      <4>1. i - 1 \in 1..(n - 1) /\ (i - 1) + 1 = i /\ ~ (i <= 1)
        BY <2>4, <3>2
      <4> QED BY <2>4, <4>1
    <3> QED BY <3>1, <3>2
  <2>6. v = t
    BY <2>4, <2>5
  <2> QED BY <2>6 DEF v
<1>3. Append(s, x) = s \o u
  BY <1>1, AppendIsConcat
<1> HIDE DEF x, r, u
<1>4. (s \o u) \o r = s \o (u \o r)
  BY <1>1, ConcatAssociative
<1> QED BY <1>2, <1>3, <1>4 DEF x, r

\* A beginning of such a sequence is one.
LEMMA ChainedPrefix ==
    ASSUME NEW s \in Seq(Item), NEW t \in Seq(Item), Chained(s \o t)
    PROVE  Chained(s)
<1> DEFINE u == s \o t
<1>1. /\ DOMAIN u = 1..(Len(s) + Len(t)) /\ Len(s) \in Nat /\ Len(t) \in Nat
      /\ DOMAIN s = 1..Len(s)
      /\ \A i \in DOMAIN u : u[i] = IF i <= Len(s) THEN s[i] ELSE t[i - Len(s)]
  BY Joined
<1>2. Chained(u)
  OBVIOUS
<1> HIDE DEF u
<1>3. \A i \in DOMAIN s : i \in DOMAIN u /\ u[i] = s[i]
  BY <1>1
<1> SUFFICES ASSUME NEW i \in DOMAIN s, s[i][2] > 1
             PROVE  i > 1 /\ s[i - 1] = <<s[i][1], s[i][2] - 1>>
  BY DEF Chained
<1>4. i > 1 /\ u[i - 1] = <<s[i][1], s[i][2] - 1>>
  BY <1>2, <1>3 DEF Chained
<1>5. i - 1 \in DOMAIN s
  BY <1>1, <1>4
<1> QED BY <1>3, <1>4, <1>5

\* The signals of one event go behind such a sequence.
LEMMA ChainedJoin ==
    ASSUME NEW s \in Seq(Item), Chained(s), NEW e \in 1..MaxLogs, NEW t, t = SignalsOf(e)
    PROVE  Chained(s \o t)
<1> DEFINE u == s \o t
           n == Len(s)
           k == SignalCount[e]
<1>1. /\ t \in Seq(Item) /\ Len(t) = k /\ k \in Nat /\ DOMAIN t = 1..k
      /\ \A i \in DOMAIN t : t[i] = <<e, i>>
  BY SignalsOfEvent
<1>2. /\ DOMAIN u = 1..(n + k) /\ n \in Nat /\ DOMAIN s = 1..n
      /\ \A i \in DOMAIN u : u[i] = IF i <= n THEN s[i] ELSE t[i - n]
  BY <1>1, Joined
<1> SUFFICES Chained(u)
  OBVIOUS
<1> HIDE DEF u, n, k
<1> SUFFICES ASSUME NEW i \in 1..(n + k), u[i][2] > 1
             PROVE  i > 1 /\ u[i - 1] = <<u[i][1], u[i][2] - 1>>
  BY <1>2 DEF Chained
<1>3. CASE i <= n
  <2>1. i \in DOMAIN s /\ u[i] = s[i]
    BY <1>2, <1>3
  <2>2. i > 1 /\ s[i - 1] = <<s[i][1], s[i][2] - 1>>
    BY <2>1 DEF Chained
  <2>3. u[i - 1] = s[i - 1]
    <3>1. i - 1 \in 1..(n + k) /\ i - 1 <= n
      BY <1>1, <1>2, <1>3, <2>2
    <3> QED BY <1>2, <3>1
  <2> QED BY <2>1, <2>2, <2>3
<1>4. CASE i > n
  <2> DEFINE j == i - n
  <2>1. j \in 1..k /\ j \in Int /\ i = n + j
    BY <1>1, <1>2, <1>4
  <2>2. u[i] = t[j]
    BY <1>2, <1>4
  <2> HIDE DEF j
  <2>3. u[i][1] = e /\ u[i][2] = j
    BY <1>1, <2>1, <2>2
  <2>4. j > 1
    BY <2>3
  <2>5. /\ j - 1 \in 1..k /\ i - 1 \in 1..(n + k) /\ ~ (i - 1 <= n) /\ (i - 1) - n = j - 1
        /\ i > 1
    BY <1>1, <1>2, <2>1, <2>4
  <2>6. u[i - 1] = t[j - 1]
    BY <1>2, <2>5
  <2>7. t[j - 1] = <<e, j - 1>>
    BY <1>1, <2>5
  <2> QED BY <2>3, <2>5, <2>6, <2>7
<1> QED BY <1>2, <1>3, <1>4

\* Until the emitter returns, no effect tears the signals of an event apart.
LEMMA EffectKeepsGroups ==
    ASSUME TypeOK, StageInv, GroupInv, Effect
    PROVE  GroupInv'
<1> DEFINE e0 == emitted
           s0 == chan["signals"]
           h0 == held["engine"]
           e1 == emitted'
           s1 == chan'["signals"]
           h1 == held'["engine"]
<1>1. /\ e0 = Q[Emitted] /\ s0 = Q[Chan("signals")] /\ h0 = Q[Held("engine")]
      /\ e1 = Q'[Emitted] /\ s1 = Q'[Chan("signals")] /\ h1 = Q'[Held("engine")]
      /\ Emitted \in Holders /\ Chan("signals") \in Holders /\ Held("engine") \in Holders
  BY HolderNames, HolderNamesNext DEF Channels, Goroutines
<1>2. /\ e0 \in Seq(Item) /\ s0 \in Seq(Item) /\ h0 \in Seq(Item)
      /\ Q \in [Holders -> Seq(Item)]
  BY <1>1, QueueTypes
<1>3. /\ GroupInv <=> Chained(e0) /\ (pc["emitter"] = "done" \/ Chained((e0 \o s0) \o h0))
      /\ GroupInv' <=> Chained(e1) /\ (pc'["emitter"] = "done" \/ Chained((e1 \o s1) \o h1))
  BY DEF GroupInv, Outflow, Chained
<1> HIDE DEF e0, s0, h0, e1, s1, h1
<1>4. CASE pc["emitter"] = "done"
  <2>1. pc'["emitter"] = "done" /\ e1 = e0
    BY <1>4 DEF Effect, Settled, e0, e1
  <2> QED BY <1>3, <2>1
<1>5. CASE pc["emitter"] # "done"
  <2>1. Chained(e0) /\ Chained((e0 \o s0) \o h0)
    BY <1>3, <1>5
  <2>2. CASE e1 = e0 /\ s1 = s0 /\ h1 = h0
    BY <1>3, <2>1, <2>2
  <2>3. CASE Motion
    <3>1. PICK m \in Steps : Q[m[1]] # <<>> /\ Q' = Shift(Q, m[1], m[2])
      BY <2>3 DEF Motion
    <3>2. CASE m = <<Chan("signals"), Emitted>>
      <4>1. m[1] = Chan("signals") /\ m[2] = Emitted
        BY <3>2
      <4>2. s0 # <<>> /\ s1 = Tail(s0) /\ e1 = Append(e0, Head(s0)) /\ h1 = h0
        BY <1>1, <1>2, <3>1, <4>1, HolderNames DEF Shift
      <4>3. e1 \o s1 = e0 \o s0
        BY <1>2, <4>2, Regrouped
      <4>4. Chained((e1 \o s1) \o h1)
        BY <2>1, <4>2, <4>3
      <4>5. e1 \in Seq(Item) /\ s1 \in Seq(Item) /\ h1 \in Seq(Item)
        <5>1. Head(s0) \in Item /\ Tail(s0) \in Seq(Item)
          BY <1>2, <4>2
        <5> QED BY <1>2, <4>2, <5>1
      <4>6. Chained(e1 \o s1)
        <5>1. e1 \o s1 \in Seq(Item)
          BY <4>5
        <5> QED BY <4>4, <4>5, <5>1, ChainedPrefix
      <4>7. Chained(e1)
        BY <4>5, <4>6, ChainedPrefix
      <4> QED BY <1>3, <4>4, <4>7
    <3>3. CASE m = <<Held("engine"), Chan("signals")>>
      <4>1. m[1] = Held("engine") /\ m[2] = Chan("signals")
        BY <3>3
      <4>2. h0 # <<>> /\ h1 = Tail(h0) /\ s1 = Append(s0, Head(h0)) /\ e1 = e0
        BY <1>1, <1>2, <3>1, <4>1, HolderNames DEF Shift
      <4>3. (e1 \o s1) \o h1 = (e0 \o s0) \o h0
        <5> DEFINE x == Head(h0)
                   u == <<x>>
                   w == e0 \o s0
        <5>1. x \in Item /\ u \in Seq(Item) /\ w \in Seq(Item)
          BY <1>2, <4>2
        <5>2. Append(s0, x) = s0 \o u /\ Append(w, x) = w \o u
          BY <1>2, <5>1, AppendIsConcat
        <5>3. Append(w, Head(h0)) \o Tail(h0) = w \o h0
          BY <1>2, <4>2, <5>1, Regrouped
        <5> HIDE DEF u
        <5>4. (e0 \o s0) \o u = e0 \o (s0 \o u)
          <6>1. e0 \in Seq(Item) /\ s0 \in Seq(Item) /\ u \in Seq(Item)
            BY <1>2, <5>1
          <6> QED BY ONLY <6>1, ConcatAssociative
        <5> QED BY <4>2, <5>2, <5>3, <5>4
      <4> QED BY <1>3, <2>1, <4>2, <4>3
    <3>4. CASE m[1] \notin Late /\ m[2] \notin Late
      <4>1. e1 = e0 /\ s1 = s0 /\ h1 = h0
        BY <1>1, <1>2, <3>1, <3>4 DEF Shift, Late
      <4> QED BY <2>2, <4>1
    <3> QED BY <3>2, <3>3, <3>4, StepEnds
  <2>4. CASE Derivation
    <3> DEFINE x == Head(Q[Chan("enriched")])
               t == SignalsOf(x[1])
    <3>1. h0 = <<>> /\ h1 = t /\ s1 = s0 /\ e1 = e0
      BY <1>1, <1>2, <2>4, HolderNames DEF Derivation, Put
    <3>2. x[1] \in 1..MaxLogs
      <4>1. Q[Chan("enriched")] \in Seq(Item) /\ Q[Chan("enriched")] # <<>>
        BY <1>2, <2>4, HolderNames DEF Channels, Derivation
      <4>2. x \in Item
        BY <4>1
      <4> QED BY <4>2, ItemTypes
    <3> DEFINE w == e0 \o s0
    <3>3. w \in Seq(Item) /\ w \o h0 = w
      BY <1>2, <3>1
    <3>4. Chained(w)
      BY <2>1, <3>3
    <3>5. t = SignalsOf(x[1])
      OBVIOUS
    <3> HIDE DEF t, x, w
    <3>6. Chained(w \o t)
      BY <3>2, <3>3, <3>4, <3>5, ChainedJoin
    <3> QED BY <1>3, <2>1, <3>1, <3>6 DEF w
  <2>5. CASE Loss
    <3>1. CASE Q' = Put(Q, Held("engine"), <<>>)
      <4>1. h1 = <<>> /\ s1 = s0 /\ e1 = e0
        BY <1>1, <1>2, <3>1, HolderNames DEF Put
      <4>2. e0 \o s0 \in Seq(Item) /\ (e0 \o s0) \o h1 = e0 \o s0
        BY <1>2, <4>1
      <4>3. Chained(e0 \o s0)
        BY <1>2, <2>1, <4>2, ChainedPrefix
      <4> QED BY <1>3, <2>1, <4>1, <4>2, <4>3
    <3>2. CASE /\ Q' = Put(Q, Chan("signals"), Tail(Q[Chan("signals")]))
               /\ pc'["emitter"] = "done"
      <4>1. e1 = e0 /\ pc'["emitter"] = "done"
        BY <1>1, <1>2, <3>2, HolderNames DEF Put
      <4> QED BY <1>3, <2>1, <4>1
    <3>3. CASE \E a \in Holders \ Late : \E t : Q' = Put(Q, a, t)
      <4>1. e1 = e0 /\ s1 = s0 /\ h1 = h0
        BY <1>1, <1>2, <3>3 DEF Put, Late
      <4> QED BY <2>2, <4>1
    <3>4. \A g \in Goroutines : g # "engine" => Held(g) \in Holders \ Late
      BY HolderNames DEF Late
    <3>5. \A c \in Channels : c # "signals" => Chan(c) \in Holders \ Late
      BY HolderNames DEF Late
    <3>6. CASE \E g \in Goroutines : Q' = Put(Q, Held(g), <<>>)
      BY <3>1, <3>3, <3>4, <3>6
    <3>7. CASE \E c \in Channels :
                  /\ Q' = Put(Q, Chan(c), Tail(Q[Chan(c)]))
                  /\ c = "signals" => pc'["emitter"] = "done"
      BY <3>2, <3>3, <3>5, <3>7
    <3> QED BY <2>5, <3>6, <3>7 DEF Loss
  <2>6. CASE Idle
    BY <1>1, <2>2, <2>6 DEF Idle
  <2>7. CASE Arrival
    <3>1. e1 = e0 /\ s1 = s0 /\ h1 = h0
      BY <1>1, <1>2, <2>7, HolderNames DEF Arrival, Put
    <3> QED BY <2>2, <3>1
  <2>8. CASE Rejection
    <3>1. e1 = e0 /\ s1 = s0 /\ h1 = h0
      BY <1>1, <1>2, <2>8, HolderNames DEF Rejection, Put
    <3> QED BY <2>2, <3>1
  <2> QED BY <2>3, <2>4, <2>5, <2>6, <2>7, <2>8 DEF Effect
<1> QED BY <1>4, <1>5
-----------------------------------------------------------------------------
(* The invariant. *)

\* The pipeline starts empty.
LEMMA InitInv ==
    ASSUME Init
    PROVE  IInv
<1>1. /\ cancelled = FALSE /\ held = [g \in Goroutines |-> <<>>] /\ chan = [c \in Channels |-> <<>>]
      /\ closed = {} /\ produced = 0 /\ emitted = <<>> /\ grpc = "serving" /\ subscribers = 0
      /\ returned = FALSE
  BY DEF Init
<1>2. PICK waits \in Wirings :
         pc = [g \in Goroutines |-> IF g = "forwarder" /\ waits THEN "start" ELSE "recv"]
  BY DEF Init
<1>3. TypeOK
  <2>1. pc \in [Goroutines -> {"start", "recv", "send", "done"}]
    BY <1>2
  <2>2. <<>> \in Seq(Item) /\ Len(<<>>) = 0
    OBVIOUS
  <2>3. held \in [Goroutines -> Seq(Item)] /\ chan \in [Channels -> Seq(Item)]
    BY <1>1, <2>2
  <2>4. \A c \in Channels : Len(chan[c]) <= Capacity[c]
    <3>1. \A c \in Channels : Capacity[c] \in Nat
      BY ConfigAssumption
    <3> QED BY <1>1, <2>2, <3>1
  <2>5. \A g \in Goroutines : pc[g] # "send" /\ held[g] = <<>>
    BY <1>1, <1>2
  <2>6. cancelled \in BOOLEAN /\ returned \in BOOLEAN
    <3>1. FALSE \in BOOLEAN /\ cancelled = FALSE /\ returned = FALSE
      BY <1>1
    <3> QED BY <3>1, Zenon
  <2>8. produced \in 0..MaxLogs /\ subscribers \in 0..MaxSubscribers
    <3>1. produced = 0 /\ subscribers = 0
      BY <1>1
    <3> QED BY <3>1, ConfigAssumption
  <2>9. closed \subseteq Channels /\ grpc \in {"serving", "draining", "stopped"}
    BY <1>1
  <2>7. emitted \in Seq(Item)
    BY <1>1, <2>2
  <2> QED BY <2>1, <2>3, <2>4, <2>5, <2>6, <2>7, <2>8, <2>9 DEF TypeOK
<1>4. \A q \in Holders : Q[q] = <<>>
  BY <1>1, HolderNames
<1>5. \A q \in Holders : DOMAIN Q[q] = {} /\ ToSet(Q[q]) = {}
  BY <1>4 DEF ToSet
<1>6. ReturnInv
  BY <1>1, <1>2 DEF ReturnInv, Goroutines
<1>7. StageInv
  BY <1>5 DEF StageInv
<1>8. UniqueInv
  BY <1>5 DEF UniqueInv, Arranged, Ordered, Across
<1>9. OrderInv
  BY <1>3, <1>5, LineTypes, LineNames DEF OrderInv, Arranged, Ordered, Across
<1>10. PresentInv
  <2>1. \A s \in Signals : s[1] # 0 /\ s[1] \in Nat
    BY SignalTypes
  <2> QED BY <1>1, <2>1 DEF PresentInv
<1>11. GroupInv
  <2>1. emitted = <<>> /\ chan["signals"] = <<>> /\ held["engine"] = <<>>
    BY <1>1 DEF Channels, Goroutines
  <2>2. Outflow = <<>>
    BY <2>1 DEF Outflow
  <2>3. DOMAIN <<>> = {}
    OBVIOUS
  <2>4. Chained(<<>>)
    BY <2>3 DEF Chained
  <2> QED BY <2>1, <2>2, <2>4 DEF GroupInv
<1> QED BY <1>3, <1>6, <1>7, <1>8, <1>9, <1>10, <1>11 DEF IInv

\* Every step of the pipeline keeps the invariant.
LEMMA NextInv ==
    ASSUME IInv, [Next]_vars
    PROVE  IInv'
<1>1. TypeOK /\ ReturnInv /\ StageInv /\ OrderInv /\ UniqueInv /\ PresentInv /\ GroupInv
  BY DEF IInv
<1>2. TypeOK' /\ ReturnInv' /\ Effect
  BY <1>1, NextEffect
<1>3. StageInv' /\ UniqueInv' /\ PresentInv'
  BY <1>1, <1>2, IdleKeeps, ArrivalKeeps, MotionKeeps, DerivationKeeps, RejectionKeeps, LossKeeps
     DEF Effect
<1>4. OrderInv'
  BY <1>1, <1>2, EffectKeepsOrder
<1>5. GroupInv'
  BY <1>1, <1>2, EffectKeepsGroups
<1> QED BY <1>2, <1>3, <1>4, <1>5 DEF IInv

\* Events and signals keep their places whatever the goroutines do, however many
\* workers there are and however small the buffers.
THEOREM Invariant == Spec => []IInv
<1>1. Init => IInv
  BY InitInv
<1>2. IInv /\ [Next]_vars => IInv'
  BY NextInv
<1> QED BY <1>1, <1>2, PTL DEF Spec

\* Every goroutine and channel keeps its shape, no channel exceeds its buffer, and
\* exactly the goroutines in the middle of a send hold something to send.
THEOREM TypeCorrect == Spec => []TypeOK
<1>1. IInv => TypeOK
  BY DEF IInv
<1> QED BY <1>1, Invariant, PTL
-----------------------------------------------------------------------------
(* What the invariant says of the pipeline. *)

\* A channel is closed by the defer, or by the goroutine behind the workers' WaitGroup,
\* only when everyone who sends on it has returned: no send can panic.
THEOREM SendsAreSafe == Spec => []NoSendOnClosed
<1>1. ASSUME TypeOK, ReturnInv PROVE NoSendOnClosed
  <2> SUFFICES ASSUME NEW g \in Goroutines, pc[g] = "send", Out(g) \in closed PROVE FALSE
    BY DEF NoSendOnClosed
  <2>1. g # "emitter"
    BY <1>1 DEF ReturnInv
  <2>2. g \in Writers(Out(g))
    BY <2>1 DEF Writers
  <2> QED BY <1>1, <2>2 DEF ReturnInv
<1>2. IInv => NoSendOnClosed
  BY <1>1 DEF IInv
<1> QED BY <1>2, Invariant, PTL

\* u holds, in order, what the first k holders of the line hold.
InFront(u, k) ==
    /\ u \in Seq(Item) /\ Ordered(u, Less)
    /\ \A x \in ToSet(u) : \E i \in 1..k : x \in ToSet(L[i])

\* The next holder of the line joins those in front of it.
LEMMA LineJoins ==
    ASSUME TypeOK, OrderInv, NEW k \in 1..5, NEW u, InFront(u, k), NEW t, t = L[k + 1]
    PROVE  InFront(u \o t, k + 1)
<1>1. k + 1 \in Seats /\ (\A i \in 1..k : i \in Seats /\ <<i, k + 1>> \in Before)
  BY DEF Seats, Before
<1>2. t \in Seq(Item) /\ Ordered(t, Less)
  BY <1>1, LineTypes DEF OrderInv, Arranged
<1>3. u \in Seq(Item) /\ Ordered(u, Less)
  BY DEF InFront
<1>4. Across(u, t, Less)
  <2> SUFFICES ASSUME NEW x \in ToSet(u), NEW y \in ToSet(t) PROVE <<x, y>> \in Less
    BY DEF Across
  <2>1. PICK i \in 1..k : x \in ToSet(L[i])
    BY DEF InFront
  <2>2. Across(L[i], L[k + 1], Less)
    BY <1>1 DEF OrderInv, Arranged
  <2> QED BY <2>1, <2>2 DEF Across
<1>5. u \o t \in Seq(Item) /\ Ordered(u \o t, Less) /\ Both(u \o t, u, t)
  <2> DEFINE v == u \o t
  <2>1. v = u \o t
    OBVIOUS
  <2> HIDE DEF v
  <2>2. v \in Seq(Item) /\ Ordered(v, Less) /\ Both(v, u, t)
    BY <1>2, <1>3, <1>4, <2>1, OrderedJoin
  <2> QED BY <2>2 DEF v
<1>6. \A x \in ToSet(u \o t) : \E i \in 1..(k + 1) : x \in ToSet(L[i])
  <2> SUFFICES ASSUME NEW x \in ToSet(u) \cup ToSet(t)
               PROVE  \E i \in 1..(k + 1) : x \in ToSet(L[i])
    BY <1>5 DEF Both
  <2>1. CASE x \in ToSet(u)
    <3>1. PICK i \in 1..k : x \in ToSet(L[i])
      BY <2>1 DEF InFront
    <3>2. i \in 1..(k + 1)
      OBVIOUS
    <3> QED BY <3>1, <3>2
  <2>2. CASE x \in ToSet(t)
    <3>1. k + 1 \in 1..(k + 1)
      OBVIOUS
    <3> QED BY <2>2, <3>1
  <2> QED BY <2>1, <2>2
<1> QED BY <1>5, <1>6 DEF InFront

\* The adapter, the forwarder and the normalizer are one goroutine each and their
\* channels are queues: the workers take the events in the order of the logs.
THEOREM EventsInOrder == Spec => []SourceOrder
<1>1. ASSUME TypeOK, OrderInv PROVE SourceOrder
  <2> DEFINE u2 == L[1] \o L[2]
             u3 == u2 \o L[3]
             u4 == u3 \o L[4]
             u5 == u4 \o L[5]
             u6 == u5 \o L[6]
  <2>1. /\ L[1] = chan["chain"] /\ L[2] = held["normalizer"] /\ L[3] = chan["raw"]
        /\ L[4] = held["forwarder"] /\ L[5] = chan["events"] /\ L[6] = held["adapter"]
    <3>1. /\ Line[1] = Chan("chain") /\ Line[2] = Held("normalizer") /\ Line[3] = Chan("raw")
          /\ Line[4] = Held("forwarder") /\ Line[5] = Chan("events")
          /\ Line[6] = Held("adapter")
      BY DEF Line
    <3> QED BY <1>1, <3>1, LineTypes, HolderNames DEF Seats, Channels, Goroutines
  <2>2. Upstream = u6
    BY <2>1 DEF Upstream
  <2>3. InFront(L[1], 1)
    <3>1. 1 \in Seats
      BY DEF Seats
    <3> QED BY <1>1, <3>1, LineTypes DEF InFront, OrderInv, Arranged
  <2>4. InFront(u2, 2)
    BY <1>1, <2>3, LineJoins
  <2> HIDE DEF u2
  <2>5. InFront(u3, 3)
    BY <1>1, <2>4, LineJoins
  <2> HIDE DEF u3
  <2>6. InFront(u4, 4)
    BY <1>1, <2>5, LineJoins
  <2> HIDE DEF u4
  <2>7. InFront(u5, 5)
    BY <1>1, <2>6, LineJoins
  <2> HIDE DEF u5
  <2>8. InFront(u6, 6)
    BY <1>1, <2>7, LineJoins
  <2> HIDE DEF u6
  <2>9. \A i, j \in DOMAIN u6 : i < j => u6[i][1] < u6[j][1]
    BY <2>8 DEF InFront, Ordered, Less
  <2> QED BY <2>2, <2>9 DEF SourceOrder
<1>2. IInv => SourceOrder
  BY <1>1 DEF IInv
<1> QED BY <1>2, Invariant, PTL

\* The engine is one goroutine that sends all signals of an event before it receives the
\* next: at the emitter nothing comes between them.
THEOREM SignalsInGroups == Spec => []SignalsTogether
<1>1. GroupInv => SignalsTogether
  BY DEF GroupInv, Chained, SignalsTogether
<1>2. IInv => SignalsTogether
  BY <1>1 DEF IInv
<1> QED BY <1>2, Invariant, PTL

\* The places of an item are where its holders have it.
LEMMA PlaceOf ==
    ASSUME NEW x, NEW p \in Places(x)
    PROVE  \E q \in Holders : \E i \in DOMAIN Q[q] : p = <<q, i>> /\ Q[q][i] = x
<1>1. \A q \in Holders : Items(q) = Q[q]
  BY DEF Q
<1>2. PICK q \in Holders : p \in {q} \X {i \in DOMAIN Items(q) : Items(q)[i] = x}
  BY DEF Places
<1> QED BY <1>1, <1>2

\* Each signal of a log that arrived is in one place at most, as itself or as its event,
\* and until the context is cancelled it is in one.
THEOREM NoneTwiceNoneLost == Spec => []ExactlyOnce
<1>1. ASSUME TypeOK, UniqueInv, PresentInv PROVE ExactlyOnce
  <2> SUFFICES ASSUME NEW s \in Signals, s[1] <= produced
               PROVE  /\ \A p, r \in Places(<<s[1], 0>>) \cup Places(s) : p = r
                      /\ ~cancelled => Places(<<s[1], 0>>) \cup Places(s) # {}
    BY DEF ExactlyOnce
  <2> DEFINE places == Places(<<s[1], 0>>) \cup Places(s)
  <2>1. \A p \in places : \E q \in Holders : \E i \in DOMAIN Q[q] :
           p = <<q, i>> /\ Q[q][i] \in {<<s[1], 0>>, s}
    BY PlaceOf
  <2>2. ASSUME NEW x \in {<<s[1], 0>>, s}, NEW y \in {<<s[1], 0>>, s}
        PROVE  <<x, y>> \notin Apart
    <3>1. s = <<s[1], s[2]>>
      BY SignalTypes
    <3>2. x[1] = s[1] /\ y[1] = s[1] /\ (x[2] = y[2] \/ x[2] = 0 \/ y[2] = 0)
      OBVIOUS
    <3> QED BY <3>2 DEF Apart
  <2>3. ASSUME NEW p \in places, NEW r \in places PROVE p = r
    <3> PICK q1 \in Holders : \E i \in DOMAIN Q[q1] :
           p = <<q1, i>> /\ Q[q1][i] \in {<<s[1], 0>>, s}
      BY <2>1
    <3>1. PICK i1 \in DOMAIN Q[q1] : p = <<q1, i1>> /\ Q[q1][i1] \in {<<s[1], 0>>, s}
      OBVIOUS
    <3> PICK q2 \in Holders : \E i \in DOMAIN Q[q2] :
           r = <<q2, i>> /\ Q[q2][i] \in {<<s[1], 0>>, s}
      BY <2>1
    <3>2. PICK i2 \in DOMAIN Q[q2] : r = <<q2, i2>> /\ Q[q2][i2] \in {<<s[1], 0>>, s}
      OBVIOUS
    <3>3. q1 = q2
      <4> SUFFICES ASSUME q1 # q2 PROVE FALSE
        OBVIOUS
      <4>1. <<q1, q2>> \in Others
        BY DEF Others
      <4>2. Across(Q[q1], Q[q2], Apart)
        BY <1>1, <4>1 DEF UniqueInv, Arranged
      <4>3. Q[q1][i1] \in ToSet(Q[q1]) /\ Q[q2][i2] \in ToSet(Q[q2])
        BY DEF ToSet
      <4> QED BY <2>2, <3>1, <3>2, <4>2, <4>3 DEF Across
    <3>4. i1 \in Nat /\ i2 \in Nat /\ i2 \in DOMAIN Q[q1]
      <4>1. Q[q1] \in Seq(Item) /\ Q[q2] \in Seq(Item)
        BY <1>1, QueueTypes
      <4>2. \A n \in DOMAIN Q[q1] : n \in Nat
        BY <4>1
      <4>3. \A n \in DOMAIN Q[q2] : n \in Nat
        BY <4>1
      <4> QED BY <3>3, <4>2, <4>3
    <3>5. Ordered(Q[q1], Apart)
      BY <1>1 DEF UniqueInv, Arranged
    <3>6. ~ (i1 < i2) /\ ~ (i2 < i1)
      BY <2>2, <3>1, <3>2, <3>3, <3>4, <3>5 DEF Ordered
    <3>7. i1 = i2
      BY <3>4, <3>6
    <3> QED BY <3>1, <3>2, <3>3, <3>7
  <2>4. ASSUME ~cancelled PROVE places # {}
    <3>1. PICK q \in Holders, x \in {<<s[1], 0>>, s} : x \in ToSet(Q[q])
      BY <1>1, <2>4 DEF PresentInv, Present
    <3>2. PICK i \in DOMAIN Q[q] : Q[q][i] = x
      BY <3>1 DEF ToSet
    <3>3. Items(q) = Q[q]
      BY DEF Q
    <3>4. <<q, i>> \in {q} \X {j \in DOMAIN Items(q) : Items(q)[j] = x}
      BY <3>2, <3>3
    <3>5. <<q, i>> \in Places(x)
      BY <3>4 DEF Places
    <3> QED BY <3>1, <3>5
  <2> QED BY <2>3, <2>4
<1>2. IInv => ExactlyOnce
  BY <1>1 DEF IInv
<1> QED BY <1>2, Invariant, PTL
-----------------------------------------------------------------------------
(* What waits for what: the forwarder for the adapter, a stage for its input, *)
(* and the end of main for all of them.                                       *)

\* How many items a channel and a goroutine hold.
Size == [c \in Channels |-> Len(chan[c])]
Load == [g \in Goroutines |-> Len(held[g])]

\* Until the forwarder starts there is nothing behind it, and nobody there moves.
QuietInv ==
    pc["forwarder"] = "start" =>
        /\ \A g \in Readers \ {"forwarder"} : pc[g] = "recv"
        /\ \A c \in Channels \ {"events"} : chan[c] = <<>> /\ c \notin closed
        /\ emitted = <<>>
        /\ ~cancelled => Size["events"] + Load["adapter"] = produced

\* In the wiring of main.go the forwarder starts when Start has returned.
WaitInv == FALSE \notin Wirings /\ pc["forwarder"] # "start" => pc["adapter"] = "done"

\* What the forwarder still has to get into rawEvents, and what is there.
Backlog == Size["events"] + Load["forwarder"] + Size["raw"]
\* The normalizer returns before the forwarder only with an item in hand.
Taken == IF pc["forwarder"] # "done" /\ pc["normalizer"] \in {"send", "done"} THEN 1 ELSE 0
RoomInv ==
    /\ Backlog + Load["adapter"] + Taken <= produced
    /\ FALSE \notin Wirings => Backlog + Taken <= Capacity["events"]

\* Before the cancellation a goroutine returns when its input is closed and empty.
EndInv ==
    ~cancelled => \A g \in Readers : pc[g] = "done" => In(g) \in closed /\ chan[In(g)] = <<>>

\* main returns behind its goroutines, the server behind its streams.
ShutInv ==
    /\ grpc # "serving" => cancelled
    /\ grpc = "stopped" => subscribers = 0
    /\ returned => StagesDone /\ grpc = "stopped"

\* Only the engine holds more than one item at a time.
SingleInv == \A g \in Goroutines \ {"engine"} : Load[g] <= 1

WaitingInv == QuietInv /\ WaitInv /\ RoomInv /\ EndInv /\ ShutInv /\ SingleInv

\* What the counts are before and after a step.
LEMMA SizeOf ==
    ASSUME NEW c \in Channels
    PROVE  /\ Size[c] = Len(chan[c]) /\ Size'[c] = Len(chan'[c])
           /\ chan'[c] = chan[c] => Size'[c] = Size[c]
BY DEF Size

\* The same of a goroutine.
LEMMA LoadOf ==
    ASSUME NEW g \in Goroutines
    PROVE  /\ Load[g] = Len(held[g]) /\ Load'[g] = Len(held'[g])
           /\ held'[g] = held[g] => Load'[g] = Load[g]
BY DEF Load

\* Nothing changes, nothing counts differently.
LEMMA Counts == (chan' = chan => Size' = Size) /\ (held' = held => Load' = Load)
BY DEF Size, Load

\* The lengths the invariant counts.
LEMMA Lengths ==
    ASSUME TypeOK
    PROVE  /\ \A c \in Channels : /\ chan[c] \in Seq(Item) /\ Size[c] \in Nat
                                  /\ chan[c] = <<>> <=> Size[c] = 0
           /\ \A g \in Goroutines : /\ held[g] \in Seq(Item) /\ Load[g] \in Nat
                                    /\ held[g] = <<>> <=> Load[g] = 0
                                    /\ pc[g] = "send" <=> Load[g] > 0
           /\ produced \in Nat /\ produced <= MaxLogs /\ MaxLogs \in Nat
           /\ \A c \in Channels : Capacity[c] \in Nat /\ Size[c] <= Capacity[c]
<1>1. \A s \in Seq(Item) : Len(s) \in Nat /\ (s = <<>> <=> Len(s) = 0)
  BY EmptySeq, LenProperties
<1>2. /\ \A c \in Channels : chan[c] \in Seq(Item)
      /\ \A g \in Goroutines : held[g] \in Seq(Item) /\ (pc[g] = "send" <=> held[g] # <<>>)
  BY DEF TypeOK
<1>3. /\ \A n \in Nat : n > 0 <=> n # 0
      /\ \A c \in Channels : Size[c] = Len(chan[c])
      /\ \A g \in Goroutines : Load[g] = Len(held[g])
  BY DEF Size, Load
<1>4. produced \in Nat /\ produced <= MaxLogs /\ MaxLogs \in Nat
  BY ConfigAssumption DEF TypeOK
<1>5. \A c \in Channels : Capacity[c] \in Nat /\ Len(chan[c]) <= Capacity[c]
  BY ConfigAssumption DEF TypeOK
<1> QED BY <1>1, <1>2, <1>3, <1>4, <1>5

\* The counts are natural numbers.
LEMMA CountTypes ==
    ASSUME TypeOK
    PROVE  /\ Size \in [Channels -> Nat] /\ Load \in [Goroutines -> Nat]
           /\ Size["events"] \in Nat /\ Size["raw"] \in Nat /\ Capacity["events"] \in Nat
           /\ Load["adapter"] \in Nat /\ Load["forwarder"] \in Nat
           /\ Backlog \in Nat /\ Taken \in {0, 1} /\ produced \in Nat
<1>1. Size \in [Channels -> Nat] /\ Load \in [Goroutines -> Nat]
  <2>1. (\A c \in Channels : Size[c] \in Nat) /\ \A g \in Goroutines : Load[g] \in Nat
    BY Lengths
  <2> QED BY <2>1 DEF Size, Load
<1>2. /\ "events" \in Channels /\ "raw" \in Channels
      /\ "adapter" \in Goroutines /\ "forwarder" \in Goroutines
  BY DEF Channels, Goroutines
<1>3. /\ Size["events"] \in Nat /\ Size["raw"] \in Nat /\ Capacity["events"] \in Nat
      /\ Load["adapter"] \in Nat /\ Load["forwarder"] \in Nat /\ produced \in Nat
  BY <1>2, Lengths
<1>4. Backlog \in Nat
  BY <1>3 DEF Backlog
<1>5. Taken \in {0, 1}
  BY DEF Taken
<1> QED BY <1>1, <1>3, <1>4, <1>5

\* A send makes its channel longer and what the sender holds shorter.
LEMMA SendLengths ==
    ASSUME TypeOK, NEW g \in Goroutines \ {"emitter"}, Send(g)
    PROVE  /\ pc[g] = "send" /\ Size[Out(g)] < Capacity[Out(g)] /\ Load[g] >= 1
           /\ Size'[Out(g)] = Size[Out(g)] + 1
           /\ \A c \in Channels \ {Out(g)} : chan'[c] = chan[c] /\ Size'[c] = Size[c]
           /\ Load'[g] = Load[g] - 1
           /\ \A h \in Goroutines \ {g} : Load'[h] = Load[h] /\ pc'[h] = pc[h]
           /\ pc'[g] = IF Load[g] = 1 THEN "recv" ELSE "send"
           /\ UNCHANGED <<cancelled, closed, produced, emitted, grpc, subscribers, returned>>
<1>1. Out(g) \in Channels
  BY Ends
<1>2. /\ pc[g] = "send" /\ Len(chan[Out(g)]) < Capacity[Out(g)]
      /\ chan' = [chan EXCEPT ![Out(g)] = Append(@, Head(held[g]))]
      /\ held' = [held EXCEPT ![g] = Tail(@)]
      /\ pc' = [pc EXCEPT ![g] = IF Len(held[g]) = 1 THEN "recv" ELSE "send"]
      /\ UNCHANGED <<cancelled, closed, produced, emitted, grpc, subscribers, returned>>
  BY DEF Send, server
<1>3. held[g] \in Seq(Item) /\ held[g] # <<>> /\ chan[Out(g)] \in Seq(Item) /\ Load[g] >= 1
  BY <1>1, <1>2, Lengths
<1>4. Len(Tail(held[g])) = Len(held[g]) - 1 /\ Head(held[g]) \in Item
  BY <1>3
<1>5. Len(Append(chan[Out(g)], Head(held[g]))) = Len(chan[Out(g)]) + 1
  BY <1>3, <1>4
<1>6. /\ chan'[Out(g)] = Append(chan[Out(g)], Head(held[g])) /\ held'[g] = Tail(held[g])
      /\ \A c \in Channels \ {Out(g)} : chan'[c] = chan[c]
      /\ \A h \in Goroutines \ {g} : held'[h] = held[h] /\ pc'[h] = pc[h]
      /\ pc'[g] = IF Len(held[g]) = 1 THEN "recv" ELSE "send"
  BY <1>1, <1>2 DEF TypeOK
<1>7. /\ Size[Out(g)] < Capacity[Out(g)] /\ Size'[Out(g)] = Size[Out(g)] + 1
      /\ \A c \in Channels \ {Out(g)} : Size'[c] = Size[c]
  <2>1. \A c \in Channels \ {Out(g)} : Size'[c] = Size[c]
    BY <1>6, SizeOf
  <2> QED BY <1>1, <1>2, <1>5, <1>6, <2>1, SizeOf
<1>8. /\ Load'[g] = Load[g] - 1 /\ pc'[g] = IF Load[g] = 1 THEN "recv" ELSE "send"
      /\ \A h \in Goroutines \ {g} : Load'[h] = Load[h]
  <2>1. \A h \in Goroutines \ {g} : Load'[h] = Load[h]
    BY <1>6, LoadOf
  <2>2. Load'[g] = Len(Tail(held[g])) /\ Load[g] = Len(held[g])
    BY <1>6, LoadOf
  <2> QED BY <1>4, <1>6, <2>1, <2>2
<1> QED BY <1>2, <1>3, <1>6, <1>7, <1>8

\* A receive makes the channel shorter.  Only the engine may hold more than one item then.
LEMMA ReceiveLengths ==
    ASSUME TypeOK, NEW g \in Readers, Receive(g)
    PROVE  /\ pc[g] = "recv" /\ Size[In(g)] >= 1 /\ Load[g] = 0
           /\ Size'[In(g)] = Size[In(g)] - 1
           /\ \A c \in Channels \ {In(g)} : chan'[c] = chan[c] /\ Size'[c] = Size[c]
           /\ \A h \in Goroutines \ {g} : Load'[h] = Load[h] /\ pc'[h] = pc[h]
           /\ g = "forwarder" => pc'[g] = "send" /\ Load'[g] = 1
           /\ g # "engine" => Load'[g] <= 1
           /\ cancelled /\ g # "forwarder" => pc'[g] = "done" /\ Load'[g] = 0
           /\ ~cancelled => pc'[g] \in {"recv", "send"}
           /\ pc'[g] # "start"
           /\ UNCHANGED <<cancelled, closed, produced, grpc, subscribers, returned>>
<1> DEFINE x == Head(chan[In(g)])
           stops == cancelled /\ g # "forwarder"
           result == IF stops THEN <<>> ELSE Result(g, x)
<1>1. In(g) \in Channels /\ g \in Goroutines /\ Len(<<>>) = 0
  BY Ends DEF Readers
<1>2. /\ pc[g] = "recv" /\ chan[In(g)] # <<>>
      /\ chan' = [chan EXCEPT ![In(g)] = Tail(@)]
      /\ held' = [held EXCEPT ![g] = result]
      /\ pc' = [pc EXCEPT ![g] = IF stops THEN "done"
                                 ELSE IF result = <<>> THEN "recv" ELSE "send"]
      /\ UNCHANGED <<cancelled, closed, produced, grpc, subscribers, returned>>
  BY DEF Receive, server
<1>3. chan[In(g)] \in Seq(Item) /\ Size[In(g)] >= 1 /\ Load[g] = 0
  BY <1>1, <1>2, Lengths
<1>4. Len(Tail(chan[In(g)])) = Len(chan[In(g)]) - 1
  BY <1>2, <1>3
<1>5. /\ g = "forwarder" => Result(g, x) = <<x>>
      /\ g # "engine" => Result(g, x) = <<>> \/ Result(g, x) = <<x>>
  BY WorkersAssumption DEF Result
<1>6. Len(<<x>>) = 1 /\ <<x>> # <<>>
  OBVIOUS
<1>7. /\ chan'[In(g)] = Tail(chan[In(g)]) /\ held'[g] = result
      /\ \A c \in Channels \ {In(g)} : chan'[c] = chan[c]
      /\ \A h \in Goroutines \ {g} : held'[h] = held[h] /\ pc'[h] = pc[h]
      /\ pc'[g] = IF stops THEN "done" ELSE IF result = <<>> THEN "recv" ELSE "send"
  BY <1>1, <1>2 DEF TypeOK
<1> HIDE DEF x
<1>8. g = "forwarder" => pc'[g] = "send" /\ Len(held'[g]) = 1
  <2> SUFFICES ASSUME g = "forwarder" PROVE pc'[g] = "send" /\ Len(held'[g]) = 1
    OBVIOUS
  <2>1. ~ stops /\ result = <<x>>
    BY <1>5
  <2> HIDE DEF result, stops
  <2> QED BY <1>6, <1>7, <2>1
<1>9. g # "engine" => Len(held'[g]) <= 1
  <2>1. g # "engine" => result = <<>> \/ result = <<x>>
    BY <1>5
  <2> HIDE DEF result, stops
  <2>2. held'[g] = result
    BY <1>7
  <2>3. CASE result = <<>>
    BY <1>1, <2>2, <2>3
  <2>4. CASE result = <<x>>
    BY <1>6, <2>2, <2>4
  <2> QED BY <2>1, <2>3, <2>4
<1>10. cancelled /\ g # "forwarder" => pc'[g] = "done" /\ Len(held'[g]) = 0
  <2>1. cancelled /\ g # "forwarder" => stops /\ result = <<>>
    OBVIOUS
  <2> HIDE DEF result, stops
  <2> QED BY <1>1, <1>7, <2>1
<1>11. (~cancelled => pc'[g] \in {"recv", "send"}) /\ pc'[g] # "start"
  <2>1. ~cancelled => ~ stops
    OBVIOUS
  <2> HIDE DEF result, stops
  <2> QED BY <1>7, <2>1
<1> HIDE DEF result, stops
<1>12. /\ Size'[In(g)] = Size[In(g)] - 1 /\ Load'[g] = Len(held'[g])
       /\ \A c \in Channels \ {In(g)} : Size'[c] = Size[c]
       /\ \A h \in Goroutines \ {g} : Load'[h] = Load[h]
  <2>1. \A c \in Channels \ {In(g)} : Size'[c] = Size[c]
    BY <1>7, SizeOf
  <2>2. \A h \in Goroutines \ {g} : Load'[h] = Load[h]
    BY <1>7, LoadOf
  <2>3. Size'[In(g)] = Len(Tail(chan[In(g)])) /\ Size[In(g)] = Len(chan[In(g)])
    BY <1>1, <1>7, SizeOf
  <2>4. Load'[g] = Len(held'[g])
    BY <1>1, LoadOf
  <2> QED BY <1>4, <2>1, <2>2, <2>3, <2>4
<1> QED BY <1>2, <1>3, <1>7, <1>8, <1>9, <1>10, <1>11, <1>12

\* A goroutine that gives up a send holds nothing.
LEMMA AbandonLengths ==
    ASSUME TypeOK, NEW g \in Goroutines, AbandonSend(g)
    PROVE  /\ pc[g] = "send" /\ cancelled /\ Load[g] >= 1 /\ Load'[g] = 0
           /\ \A h \in Goroutines \ {g} : Load'[h] = Load[h] /\ pc'[h] = pc[h]
           /\ pc'[g] = IF g = "adapter" THEN "recv" ELSE "done"
           /\ UNCHANGED <<cancelled, chan, Size, closed, produced, emitted, grpc, subscribers,
                          returned>>
<1>1. /\ pc[g] = "send" /\ cancelled
      /\ held' = [held EXCEPT ![g] = <<>>]
      /\ pc' = [pc EXCEPT ![g] = IF g = "adapter" THEN "recv" ELSE "done"]
      /\ UNCHANGED <<cancelled, chan, closed, produced, emitted, grpc, subscribers, returned>>
  BY DEF AbandonSend, server
<1>2. Load[g] >= 1 /\ Len(<<>>) = 0
  BY <1>1, Lengths
<1>3. /\ held'[g] = <<>> /\ \A h \in Goroutines \ {g} : held'[h] = held[h] /\ pc'[h] = pc[h]
      /\ pc'[g] = IF g = "adapter" THEN "recv" ELSE "done"
  BY <1>1 DEF TypeOK
<1>4. Load'[g] = 0 /\ (\A h \in Goroutines \ {g} : Load'[h] = Load[h]) /\ Size' = Size
  <2>1. \A h \in Goroutines \ {g} : Load'[h] = Load[h]
    BY <1>3, LoadOf
  <2>2. Load'[g] = Len(held'[g]) /\ Size' = Size
    BY <1>1, LoadOf, Counts
  <2> QED BY <1>2, <1>3, <2>1, <2>2
<1> QED BY <1>1, <1>2, <1>3, <1>4

\* A log becomes the event the adapter holds.
LEMMA ArrivalLengths ==
    ASSUME TypeOK, LogArrives
    PROVE  /\ pc["adapter"] = "recv" /\ Load["adapter"] = 0 /\ Load'["adapter"] = 1
           /\ produced < MaxLogs /\ produced' = produced + 1 /\ pc'["adapter"] = "send"
           /\ \A h \in Goroutines \ {"adapter"} : Load'[h] = Load[h] /\ pc'[h] = pc[h]
           /\ UNCHANGED <<cancelled, chan, Size, closed, emitted, grpc, subscribers, returned>>
<1>1. "adapter" \in Goroutines
  BY DEF Goroutines
<1>2. /\ pc["adapter"] = "recv" /\ produced < MaxLogs /\ produced' = produced + 1
      /\ held' = [held EXCEPT !["adapter"] = << <<produced + 1, 0>> >>]
      /\ pc' = [pc EXCEPT !["adapter"] = "send"]
      /\ UNCHANGED <<cancelled, chan, closed, emitted, grpc, subscribers, returned>>
  BY DEF LogArrives, server
<1>3. Load["adapter"] = 0
  BY <1>1, <1>2, Lengths
<1>4. Len(<< <<produced + 1, 0>> >>) = 1
  OBVIOUS
<1>5. /\ held'["adapter"] = << <<produced + 1, 0>> >> /\ pc'["adapter"] = "send"
      /\ \A h \in Goroutines \ {"adapter"} : held'[h] = held[h] /\ pc'[h] = pc[h]
  BY <1>1, <1>2 DEF TypeOK
<1>6. /\ Load'["adapter"] = 1 /\ Size' = Size
      /\ \A h \in Goroutines \ {"adapter"} : Load'[h] = Load[h]
  <2>1. \A h \in Goroutines \ {"adapter"} : Load'[h] = Load[h]
    BY <1>5, LoadOf
  <2>2. Load'["adapter"] = Len(held'["adapter"]) /\ Size' = Size
    BY <1>1, <1>2, LoadOf, Counts
  <2> QED BY <1>4, <1>5, <2>1, <2>2
<1> QED BY <1>2, <1>3, <1>5, <1>6

\* The steps in which one goroutine goes to another place and nothing else changes.
Goes(g) ==
    /\ \/ g = "adapter" /\ pc[g] = "recv" /\ pc'[g] = "done"
       \/ g = "forwarder" /\ pc[g] = "start" /\ pc["adapter"] = "done" /\ pc'[g] = "recv"
       \/ /\ g \in Readers /\ pc[g] = "recv" /\ pc'[g] = "done"
          /\ chan[In(g)] = <<>> /\ In(g) \in closed
    /\ \A h \in Goroutines \ {g} : pc'[h] = pc[h]
    /\ UNCHANGED <<cancelled, held, chan, Size, Load, closed, produced, emitted, grpc, subscribers,
                   returned>>

\* They are the adapter's return, the forwarder's start and the end of a range loop.
LEMMA GoesSteps ==
    ASSUME TypeOK,
           AdapterReturns \/ ForwarderStarts \/ \E g \in Readers : RangeEnds(g)
    PROVE  \E g \in Goroutines : Goes(g)
<1>1. "adapter" \in Goroutines /\ "forwarder" \in Goroutines /\ Readers \subseteq Goroutines
  BY DEF Goroutines, Readers
<1>2. DOMAIN pc = Goroutines
  BY DEF TypeOK
<1>3. CASE AdapterReturns
  BY <1>1, <1>2, <1>3, Counts DEF AdapterReturns, Goes, server
<1>4. CASE ForwarderStarts
  BY <1>1, <1>2, <1>4, Counts DEF ForwarderStarts, Goes, server
<1>5. CASE \E g \in Readers : RangeEnds(g)
  <2> PICK g \in Readers : RangeEnds(g)
    BY <1>5
  <2> QED BY <1>1, <1>2, Counts DEF RangeEnds, Goes, server
<1> QED BY <1>3, <1>4, <1>5

\* The steps of the rest of the system: the signal, the streams and main.
Aside ==
    /\ UNCHANGED <<pc, held, chan, Size, Load, closed, produced, emitted>>
    /\ cancelled => cancelled'

\* What a step can be.
LEMMA StepKinds ==
    ASSUME TypeOK, [Next]_vars
    PROVE  \/ LogArrives
           \/ \E g \in Goroutines : Goes(g)
           \/ \E g \in Readers : Receive(g)
           \/ \E g \in Goroutines \ {"emitter"} : Send(g)
           \/ \E g \in Goroutines \ {"emitter", "forwarder"} : AbandonSend(g)
           \/ \E c \in Channels : CloseChannel(c)
           \/ Aside
<1>1. /\ Senders \cup {"forwarder"} \subseteq Goroutines \ {"emitter"}
      /\ Senders \subseteq Goroutines \ {"emitter", "forwarder"}
  BY WorkersAssumption DEF Senders, Stages, Goroutines
<1>2. CASE \/ Cancel \/ Subscribe \/ Disconnect \/ GracefulStop \/ ServeReturns \/ MainReturns
           \/ UNCHANGED vars
  BY <1>2, Counts, Zenon
     DEF Cancel, Subscribe, Disconnect, GracefulStop, ServeReturns, MainReturns, vars, server, Aside
<1>3. CASE AdapterReturns \/ ForwarderStarts \/ \E g \in Readers : RangeEnds(g)
  BY <1>3, GoesSteps
<1> QED BY <1>1, <1>2, <1>3 DEF Next

\* The names of the goroutines.
LEMMA Names ==
    /\ {"adapter", "forwarder", "normalizer", "engine", "emitter"} \subseteq Goroutines
    /\ Goroutines = Readers \cup {"adapter"} /\ "adapter" \notin Readers
    /\ {"forwarder", "normalizer", "engine", "emitter"} \subseteq Readers
    /\ Workers \subseteq Readers
    /\ {"events", "raw", "chain", "enriched", "signals"} = Channels
    /\ \A g \in Workers : g \notin {"adapter", "forwarder", "normalizer", "engine", "emitter"}
    /\ \A g \in Goroutines : \/ g \in {"adapter", "forwarder", "normalizer", "engine", "emitter"}
                             \/ g \in Workers
BY WorkersAssumption DEF Goroutines, Readers, Channels

\* The room the forwarder needs does not grow.
LEMMA NoMoreRoom ==
    ASSUME NEW b \in Nat, NEW t \in Nat, NEW d \in Nat, NEW u \in Nat, d + u <= b + t,
           NEW c \in Nat, b + t <= c
    PROVE  d + u <= c
OBVIOUS

\* Nor does what is between the logs and the normalizer.
LEMMA NoMoreItems ==
    ASSUME NEW b \in Nat, NEW t \in Nat, NEW d \in Nat, NEW u \in Nat, d + u <= b + t,
           NEW a \in Nat, NEW e \in Nat, e <= a, NEW p \in Nat, b + a + t <= p
    PROVE  d + e + u <= p
OBVIOUS

\* A step that brings no new log keeps the room.
LEMMA RoomStays ==
    ASSUME TypeOK, WaitingInv, Backlog' \in Nat, Taken' \in {0, 1}, Load'["adapter"] \in Nat,
           Backlog' + Taken' <= Backlog + Taken, Load'["adapter"] <= Load["adapter"],
           produced' = produced
    PROVE  RoomInv'
<1>1. /\ Backlog \in Nat /\ Load["adapter"] \in Nat /\ Taken \in Nat /\ produced \in Nat
      /\ Capacity["events"] \in Nat /\ Taken' \in Nat
  BY CountTypes
<1>2. /\ Backlog + Load["adapter"] + Taken <= produced
      /\ FALSE \notin Wirings => Backlog + Taken <= Capacity["events"]
  BY DEF WaitingInv, RoomInv
<1>4. Backlog' + Load'["adapter"] + Taken' <= produced
  <2> DEFINE b == Backlog
             t == Taken
             d == Backlog'
             u == Taken'
             a == Load["adapter"]
             e == Load'["adapter"]
             p == produced
  <2>1. /\ b \in Nat /\ t \in Nat /\ d \in Nat /\ u \in Nat /\ d + u <= b + t
        /\ a \in Nat /\ e \in Nat /\ e <= a /\ p \in Nat /\ b + a + t <= p
    BY <1>1, <1>2
  <2> HIDE DEF b, t, d, u, a, e, p
  <2>2. d + e + u <= p
    BY ONLY <2>1, NoMoreItems
  <2> QED BY <2>2 DEF b, t, d, u, a, e, p
<1>5. ASSUME FALSE \notin Wirings PROVE Backlog' + Taken' <= Capacity["events"]
  <2>1. /\ Backlog \in Nat /\ Taken \in Nat /\ Backlog' \in Nat /\ Taken' \in Nat
        /\ Backlog' + Taken' <= Backlog + Taken
        /\ Backlog + Taken <= Capacity["events"] /\ Capacity["events"] \in Nat
    BY <1>1, <1>2, <1>5
  <2> QED BY ONLY <2>1, NoMoreRoom
<1> QED BY <1>4, <1>5 DEF RoomInv

\* A log arrives in the adapter, and nothing behind it changes.
LEMMA ArrivalWaits ==
    ASSUME TypeOK, WaitingInv, LogArrives
    PROVE  QuietInv' /\ WaitInv' /\ RoomInv' /\ EndInv' /\ SingleInv'
<1>1. /\ pc["adapter"] = "recv" /\ Load["adapter"] = 0 /\ Load'["adapter"] = 1
      /\ produced' = produced + 1
      /\ \A h \in Goroutines \ {"adapter"} : Load'[h] = Load[h] /\ pc'[h] = pc[h]
      /\ UNCHANGED <<cancelled, chan, Size, closed, emitted>>
  BY ArrivalLengths
<1>2. produced \in Nat /\ \A c \in Channels : Size[c] \in Nat
  BY Lengths
<1>3. QuietInv'
  BY <1>1, <1>2, Names DEF WaitingInv, QuietInv
<1>4. WaitInv'
  BY <1>1, Names DEF WaitingInv, WaitInv
<1>5. RoomInv'
  <2>1. Backlog' = Backlog /\ Taken' = Taken
    BY <1>1, Names DEF Backlog, Taken
  <2>2. /\ Backlog \in Nat /\ Taken \in {0, 1} /\ Load["adapter"] = 0 /\ Load'["adapter"] = 1
        /\ produced \in Nat /\ produced' = produced + 1
    BY <1>1, CountTypes
  <2>3. /\ Backlog + Load["adapter"] + Taken <= produced
        /\ FALSE \notin Wirings => Backlog + Taken <= Capacity["events"]
    BY DEF WaitingInv, RoomInv
  <2>4. Backlog + Load'["adapter"] + Taken <= produced'
    BY <2>2, <2>3
  <2> QED BY <2>1, <2>3, <2>4 DEF RoomInv
<1>6. EndInv'
  BY <1>1, Names DEF WaitingInv, EndInv
<1>7. SingleInv'
  BY <1>1, Names DEF WaitingInv, SingleInv
<1> QED BY <1>3, <1>4, <1>5, <1>6, <1>7

\* A goroutine starts or returns.
LEMMA GoesWaits ==
    ASSUME TypeOK, ReturnInv, WaitingInv, NEW g \in Goroutines, Goes(g)
    PROVE  QuietInv' /\ WaitInv' /\ RoomInv' /\ EndInv' /\ SingleInv'
<1>1. /\ \A h \in Goroutines \ {g} : pc'[h] = pc[h]
      /\ UNCHANGED <<cancelled, held, chan, Size, Load, closed, produced, emitted>>
  BY DEF Goes
<1>2. QuietInv'
  <2> SUFFICES ASSUME pc'["forwarder"] = "start"
               PROVE  /\ \A h \in Readers \ {"forwarder"} : pc'[h] = "recv"
                      /\ \A c \in Channels \ {"events"} : chan[c] = <<>> /\ c \notin closed
                      /\ emitted = <<>>
                      /\ ~cancelled => Size["events"] + Load["adapter"] = produced
    BY <1>1 DEF QuietInv
  <2>1. pc["forwarder"] = "start" /\ g # "forwarder"
    BY <1>1, Names DEF Goes
  <2>2. /\ \A h \in Readers \ {"forwarder"} : pc[h] = "recv"
        /\ \A c \in Channels \ {"events"} : chan[c] = <<>> /\ c \notin closed
        /\ emitted = <<>>
        /\ ~cancelled => Size["events"] + Load["adapter"] = produced
    BY <2>1 DEF WaitingInv, QuietInv
  <2>3. g = "adapter"
    <3> SUFFICES ASSUME g \in Readers PROVE FALSE
      BY Names
    <3>1. In(g) # "events"
      BY <2>1, Ends, Names
    <3> QED BY <2>1, <2>2, <3>1, Ends, Names DEF Goes
  <2> QED BY <1>1, <2>2, <2>3, Names
<1>3. WaitInv'
  BY <1>1, Names DEF WaitingInv, WaitInv, Goes
<1>4. RoomInv'
  <2>1. Backlog' = Backlog /\ Backlog \in Nat
    BY <1>1, CountTypes DEF Backlog
  <2>2. Taken' \in {0, Taken}
    <3>1. CASE g = "normalizer"
      <4>1. "raw" \in closed
        BY <3>1, Ends DEF Goes
      <4>2. "forwarder" \in Writers("raw")
        BY Names, Ends DEF Writers
      <4>3. pc'["forwarder"] = "done"
        BY <1>1, <3>1, <4>1, <4>2, Names DEF ReturnInv
      <4> QED BY <4>3 DEF Taken
    <3>2. CASE g = "forwarder" /\ pc[g] = "start"
      <4>1. pc["normalizer"] = "recv" /\ pc'["normalizer"] = "recv"
        BY <1>1, <3>2, Names DEF WaitingInv, QuietInv
      <4> QED BY <4>1 DEF Taken
    <3>3. CASE g = "forwarder" /\ pc[g] # "start"
      BY <3>3, Names DEF Taken, Goes
    <3>4. CASE g # "forwarder" /\ g # "normalizer"
      BY <1>1, <3>4, Names DEF Taken
    <3> QED BY <3>1, <3>2, <3>3, <3>4
  <2>3. Taken \in {0, 1} /\ Load["adapter"] \in Nat
    BY CountTypes
  <2>4. /\ Backlog' \in Nat /\ Taken' \in {0, 1} /\ Backlog' + Taken' <= Backlog + Taken
        /\ Load'["adapter"] \in Nat /\ Load'["adapter"] <= Load["adapter"]
    <3>1. /\ Backlog' = Backlog /\ Backlog \in Nat /\ Taken' \in {0, 1} /\ Taken' <= Taken
          /\ Load' = Load /\ Load["adapter"] \in Nat
      BY <1>1, <2>1, <2>2, <2>3
    <3>2. \A b, t, u \in Nat : u <= t => b + u <= b + t
      OBVIOUS
    <3>3. Taken' \in Nat /\ Taken \in Nat
      BY <2>3, <3>1
    <3>4. Backlog + Taken' <= Backlog + Taken
      BY ONLY <3>1, <3>2, <3>3
    <3>5. Load'["adapter"] <= Load["adapter"]
      BY <3>1
    <3> QED BY <3>1, <3>4, <3>5
  <2> QED BY <1>1, <2>4, RoomStays
<1>5. EndInv'
  <2> SUFFICES ASSUME ~cancelled, NEW h \in Readers, pc'[h] = "done"
               PROVE  In(h) \in closed /\ chan[In(h)] = <<>>
    BY <1>1 DEF EndInv
  <2>1. CASE h = g
    BY <2>1, Names DEF Goes
  <2>2. CASE h # g
    BY <1>1, <2>2, Names DEF WaitingInv, EndInv
  <2> QED BY <2>1, <2>2
<1>6. SingleInv'
  BY <1>1 DEF WaitingInv, SingleInv
<1> QED BY <1>2, <1>3, <1>4, <1>5, <1>6

\* A range loop takes an item.
LEMMA ReceiveWaits ==
    ASSUME TypeOK, ReturnInv, WaitingInv, NEW g \in Readers, Receive(g)
    PROVE  QuietInv' /\ WaitInv' /\ RoomInv' /\ EndInv' /\ SingleInv'
<1>1. /\ pc[g] = "recv" /\ Size[In(g)] >= 1 /\ Load[g] = 0
      /\ Size'[In(g)] = Size[In(g)] - 1
      /\ \A c \in Channels \ {In(g)} : chan'[c] = chan[c] /\ Size'[c] = Size[c]
      /\ \A h \in Goroutines \ {g} : Load'[h] = Load[h] /\ pc'[h] = pc[h]
      /\ g = "forwarder" => pc'[g] = "send" /\ Load'[g] = 1
      /\ g # "engine" => Load'[g] <= 1
      /\ ~cancelled => pc'[g] \in {"recv", "send"}
      /\ pc'[g] # "start"
      /\ UNCHANGED <<cancelled, closed, produced>>
  BY ReceiveLengths
<1>2. In(g) \in Channels /\ g \in Goroutines /\ g # "adapter"
  BY Ends, Names
<1>3. pc["forwarder"] # "start"
  <2> SUFFICES ASSUME pc["forwarder"] = "start" PROVE FALSE
    OBVIOUS
  <2>1. g # "forwarder" /\ In(g) # "events"
    BY <1>1, Ends, Names
  <2>2. chan[In(g)] = <<>>
    BY <1>2, <2>1 DEF WaitingInv, QuietInv
  <2> QED BY <1>1, <1>2, <2>2, Lengths
<1>4. pc'["forwarder"] # "start"
  BY <1>1, <1>3, Names
<1>5. QuietInv'
  BY <1>4 DEF QuietInv
<1>6. WaitInv'
  BY <1>1, <1>2, <1>3, Names DEF WaitingInv, WaitInv
<1>7. RoomInv'
  <2>1. /\ Size["events"] \in Nat /\ Load["forwarder"] \in Nat /\ Size["raw"] \in Nat
        /\ Load["adapter"] \in Nat /\ produced \in Nat /\ Capacity["events"] \in Nat
        /\ Load'["adapter"] = Load["adapter"] /\ Taken \in {0, 1} /\ Taken' \in {0, 1}
    BY <1>1, <1>2, CountTypes, Names DEF Taken
  <2>2. /\ Backlog + Load["adapter"] + Taken <= produced
        /\ FALSE \notin Wirings => Backlog + Taken <= Capacity["events"]
    BY DEF WaitingInv, RoomInv
  <2>3. Backlog' \in Nat /\ Backlog \in Nat /\ Backlog' + Taken' <= Backlog + Taken
    <3>1. CASE g = "forwarder"
      <4>1. /\ Size'["events"] = Size["events"] - 1 /\ Size'["raw"] = Size["raw"]
            /\ Size["events"] >= 1
            /\ Load'["forwarder"] = 1 /\ Load["forwarder"] = 0
        BY <1>1, <3>1, Ends, Names
      <4>2. Taken' = Taken
        BY <1>1, <3>1, Names DEF Taken
      <4> QED BY <2>1, <4>1, <4>2 DEF Backlog
    <3>2. CASE g = "normalizer"
      <4>1. /\ Size'["raw"] = Size["raw"] - 1 /\ Size'["events"] = Size["events"]
            /\ Load'["forwarder"] = Load["forwarder"] /\ Size["raw"] >= 1
        BY <1>1, <3>2, Ends, Names
      <4>2. Taken = 0
        BY <1>1, <3>2 DEF Taken
      <4> QED BY <2>1, <4>1, <4>2 DEF Backlog
    <3>3. CASE g \notin {"forwarder", "normalizer"}
      <4>1. In(g) # "events" /\ In(g) # "raw"
        BY <3>3, Ends, Names
      <4>2. /\ Size'["raw"] = Size["raw"] /\ Size'["events"] = Size["events"]
            /\ Load'["forwarder"] = Load["forwarder"]
            /\ pc'["forwarder"] = pc["forwarder"] /\ pc'["normalizer"] = pc["normalizer"]
        BY <1>1, <3>3, <4>1, Names
      <4> QED BY <2>1, <4>2 DEF Backlog, Taken
    <3> QED BY <3>1, <3>2, <3>3
  <2> QED BY <1>1, <2>1, <2>3, RoomStays
<1>8. EndInv'
  <2> SUFFICES ASSUME ~cancelled, NEW h \in Readers, pc'[h] = "done"
               PROVE  In(h) \in closed /\ chan'[In(h)] = <<>>
    BY <1>1 DEF EndInv
  <2>1. h # g /\ pc[h] = "done"
    BY <1>1, Names
  <2>2. In(h) \in closed /\ chan[In(h)] = <<>>
    BY <2>1 DEF WaitingInv, EndInv
  <2>3. In(h) # In(g) /\ In(h) \in Channels
    BY <1>1, <1>2, <2>2, Lengths, Ends
  <2> QED BY <1>1, <2>2, <2>3
<1>9. SingleInv'
  BY <1>1, Names DEF WaitingInv, SingleInv
<1> QED BY <1>5, <1>6, <1>7, <1>8, <1>9

\* An item goes into the next channel.
LEMMA SendWaits ==
    ASSUME TypeOK, ReturnInv, WaitingInv, NEW g \in Goroutines \ {"emitter"}, Send(g)
    PROVE  QuietInv' /\ WaitInv' /\ RoomInv' /\ EndInv' /\ SingleInv'
<1>1. /\ pc[g] = "send" /\ Size[Out(g)] < Capacity[Out(g)] /\ Load[g] >= 1
      /\ Size'[Out(g)] = Size[Out(g)] + 1
      /\ \A c \in Channels \ {Out(g)} : chan'[c] = chan[c] /\ Size'[c] = Size[c]
      /\ Load'[g] = Load[g] - 1
      /\ \A h \in Goroutines \ {g} : Load'[h] = Load[h] /\ pc'[h] = pc[h]
      /\ pc'[g] = IF Load[g] = 1 THEN "recv" ELSE "send"
      /\ UNCHANGED <<cancelled, closed, produced, emitted>>
  BY SendLengths
<1>2. Out(g) \in Channels
  BY Ends
<1>3. /\ pc'[g] \in {"recv", "send"}
      /\ \A h \in Goroutines : pc'[h] = "done" <=> pc[h] = "done"
  BY <1>1
<1>4. pc["forwarder"] = "start" => g = "adapter"
  BY <1>1, Names DEF WaitingInv, QuietInv
<1>5. QuietInv'
  <2> SUFFICES ASSUME pc'["forwarder"] = "start"
               PROVE  /\ \A h \in Readers \ {"forwarder"} : pc'[h] = "recv"
                      /\ \A c \in Channels \ {"events"} : chan'[c] = <<>> /\ c \notin closed
                      /\ emitted = <<>>
                      /\ ~cancelled => Size'["events"] + Load'["adapter"] = produced
    BY <1>1 DEF QuietInv
  <2>1. pc["forwarder"] = "start" /\ g = "adapter"
    BY <1>1, <1>3, <1>4, Names
  <2>2. /\ \A h \in Readers \ {"forwarder"} : pc[h] = "recv"
        /\ \A c \in Channels \ {"events"} : chan[c] = <<>> /\ c \notin closed
        /\ emitted = <<>>
        /\ ~cancelled => Size["events"] + Load["adapter"] = produced
    BY <2>1 DEF WaitingInv, QuietInv
  <2>3. Out(g) = "events" /\ Size["events"] \in Nat /\ Load["adapter"] \in Nat
    BY <2>1, Ends, Lengths, Names
  <2> QED BY <1>1, <2>1, <2>2, <2>3, Names
<1>6. WaitInv'
  BY <1>1, <1>3, <1>4, Names DEF WaitingInv, WaitInv
<1>7. RoomInv'
  <2>1. /\ Size["events"] \in Nat /\ Load["forwarder"] \in Nat /\ Size["raw"] \in Nat
        /\ Load["adapter"] \in Nat /\ produced \in Nat /\ Capacity["events"] \in Nat
        /\ Taken \in {0, 1} /\ Taken' \in {0, 1}
    BY <1>1, <1>2, CountTypes, Names DEF Taken
  <2>2. /\ Backlog + Load["adapter"] + Taken <= produced
        /\ FALSE \notin Wirings => Backlog + Taken <= Capacity["events"]
    BY DEF WaitingInv, RoomInv
  <2>3. Taken' <= Taken
    BY <1>1, <1>3, Names DEF Taken
  <2>4. CASE g = "adapter"
    <3>1. /\ Size'["events"] = Size["events"] + 1 /\ Size'["raw"] = Size["raw"]
          /\ Size["events"] < Capacity["events"]
          /\ Load'["forwarder"] = Load["forwarder"]
          /\ Load'["adapter"] = Load["adapter"] - 1
      BY <1>1, <2>4, Ends, Names
    <3>2. Backlog' = Backlog + 1 /\ Backlog \in Nat
      BY <2>1, <3>1 DEF Backlog
    <3>3. FALSE \notin Wirings => Backlog + Taken < Capacity["events"]
      <4> SUFFICES ASSUME FALSE \notin Wirings PROVE Backlog + Taken < Capacity["events"]
        OBVIOUS
      <4>1. pc["forwarder"] = "start"
        BY <1>1, <2>4 DEF WaitingInv, WaitInv
      <4>2. pc["normalizer"] = "recv" /\ chan["raw"] = <<>>
        BY <4>1, Names DEF WaitingInv, QuietInv
      <4>3. Size["raw"] = 0 /\ Load["forwarder"] = 0 /\ Taken = 0
        <5>1. ~ (Load["forwarder"] > 0)
          BY <4>1, Lengths, Names
        <5>2. Taken = 0
          BY <4>2 DEF Taken
        <5> QED BY <2>1, <4>2, <5>1, <5>2, Lengths, Names
      <4> QED BY <2>1, <3>1, <4>3 DEF Backlog
    <3>4. /\ Load["adapter"] - 1 \in Int /\ Load'["adapter"] = Load["adapter"] - 1
          /\ Taken \in Nat /\ Taken' \in Nat
      BY <2>1, <3>1
    <3>5. Backlog' + Load'["adapter"] + Taken' <= produced
      BY <2>1, <2>2, <2>3, <3>2, <3>4
    <3>6. FALSE \notin Wirings => Backlog' + Taken' <= Capacity["events"]
      BY <2>1, <2>3, <3>2, <3>3, <3>4
    <3> QED BY <1>1, <3>5, <3>6 DEF RoomInv
  <2>5. CASE g # "adapter"
    <3>1. Load'["adapter"] = Load["adapter"] /\ Out(g) # "events"
      BY <1>1, <2>5, Ends, Names
    <3>2. Size'["events"] = Size["events"]
      BY <1>1, <3>1, Names
    <3>3. Backlog' = Backlog
      <4>1. CASE g = "forwarder"
        <5>1. /\ Size'["raw"] = Size["raw"] + 1
              /\ Load'["forwarder"] = Load["forwarder"] - 1
          BY <1>1, <4>1, Ends
        <5> QED BY <2>1, <3>2, <5>1 DEF Backlog
      <4>2. CASE g # "forwarder"
        <5>1. Out(g) # "raw" /\ Load'["forwarder"] = Load["forwarder"]
          BY <1>1, <2>5, <4>2, Ends, Names
        <5>2. Size'["raw"] = Size["raw"]
          BY <1>1, <5>1, Names
        <5> QED BY <3>2, <5>1, <5>2 DEF Backlog
      <4> QED BY <4>1, <4>2
    <3>4. Backlog \in Nat
      BY <2>1 DEF Backlog
    <3>5. Backlog' \in Nat /\ Backlog' + Taken' <= Backlog + Taken
      <4>1. \A b, t, u \in Nat : u <= t => b + u <= b + t
        OBVIOUS
      <4>2. Taken \in Nat /\ Taken' \in Nat
        BY <2>1
      <4> QED BY <2>3, <3>3, <3>4, <4>1, <4>2
    <3> QED BY <1>1, <2>1, <3>1, <3>5, RoomStays
  <2> QED BY <2>4, <2>5
<1>8. EndInv'
  <2> SUFFICES ASSUME ~cancelled, NEW h \in Readers, pc'[h] = "done"
               PROVE  In(h) \in closed /\ chan'[In(h)] = <<>>
    BY <1>1 DEF EndInv
  <2>1. In(h) \in closed /\ chan[In(h)] = <<>>
    BY <1>3, Names DEF WaitingInv, EndInv
  <2>2. In(h) \in Channels /\ In(h) # Out(g)
    <3>1. g \in Writers(Out(g))
      BY DEF Writers
    <3>2. Out(g) \notin closed
      BY <1>1, <3>1 DEF ReturnInv
    <3> QED BY <2>1, <3>2, Ends
  <2> QED BY <1>1, <2>1, <2>2
<1>9. SingleInv'
  <2> SUFFICES ASSUME NEW h \in Goroutines \ {"engine"} PROVE Load'[h] <= 1
    BY DEF SingleInv
  <2>1. Load[h] <= 1 /\ Load[h] \in Nat
    BY Lengths, Names DEF WaitingInv, SingleInv
  <2> QED BY <1>1, <2>1, Names
<1> QED BY <1>5, <1>6, <1>7, <1>8, <1>9

\* A goroutine finds ctx done in the middle of a send.
LEMMA AbandonWaits ==
    ASSUME TypeOK, ReturnInv, WaitingInv, 
           NEW g \in Goroutines \ {"emitter", "forwarder"}, AbandonSend(g)
    PROVE  QuietInv' /\ WaitInv' /\ RoomInv' /\ EndInv' /\ SingleInv'
<1>1. /\ pc[g] = "send" /\ cancelled /\ Load[g] >= 1 /\ Load'[g] = 0
      /\ \A h \in Goroutines \ {g} : Load'[h] = Load[h] /\ pc'[h] = pc[h]
      /\ pc'[g] = IF g = "adapter" THEN "recv" ELSE "done"
      /\ UNCHANGED <<cancelled, chan, Size, closed, produced, emitted>>
  BY AbandonLengths
<1>2. pc["forwarder"] = "start" => g = "adapter"
  BY <1>1, Names DEF WaitingInv, QuietInv
<1>3. pc'["forwarder"] = pc["forwarder"] /\ Load'["forwarder"] = Load["forwarder"]
  BY <1>1, Names
<1>4. QuietInv'
  BY <1>1, <1>2, <1>3, Names DEF WaitingInv, QuietInv
<1>5. WaitInv'
  BY <1>1, <1>3, Names DEF WaitingInv, WaitInv
<1>6. RoomInv'
  <2>1. /\ Backlog \in Nat /\ Load["adapter"] \in Nat /\ produced \in Nat
        /\ Capacity["events"] \in Nat
    BY CountTypes
  <2>2. Backlog' = Backlog
    BY <1>1, <1>3 DEF Backlog
  <2>3. Taken' = Taken /\ Taken \in {0, 1}
    BY <1>1, <1>3, Names DEF Taken
  <2>4. Load'["adapter"] <= Load["adapter"] /\ Load'["adapter"] \in Nat
    BY <1>1, <2>1, Names
  <2>5. /\ Backlog + Load["adapter"] + Taken <= produced
        /\ FALSE \notin Wirings => Backlog + Taken <= Capacity["events"]
    BY DEF WaitingInv, RoomInv
  <2>6. Backlog + Load'["adapter"] + Taken <= produced
    BY <2>1, <2>3, <2>4, <2>5
  <2> QED BY <1>1, <2>2, <2>3, <2>5, <2>6 DEF RoomInv
<1>7. EndInv'
  BY <1>1 DEF EndInv
<1>8. SingleInv'
  BY <1>1, Names DEF WaitingInv, SingleInv
<1> QED BY <1>4, <1>5, <1>6, <1>7, <1>8

\* A channel is closed behind its writers.
LEMMA CloseWaits ==
    ASSUME TypeOK, ReturnInv, WaitingInv, NEW c \in Channels, CloseChannel(c)
    PROVE  QuietInv' /\ WaitInv' /\ RoomInv' /\ EndInv' /\ SingleInv'
<1>1. /\ \A g \in Writers(c) : pc[g] = "done"
      /\ closed' = closed \cup {c}
      /\ UNCHANGED <<cancelled, pc, held, chan, Size, Load, produced, emitted>>
  BY Counts DEF CloseChannel
<1>2. QuietInv'
  <2>1. pc["forwarder"] = "start" => c = "events"
    <3> SUFFICES ASSUME pc["forwarder"] = "start", c # "events" PROVE FALSE
      OBVIOUS
    <3>1. PICK h \in Readers \ {"emitter"} : Out(h) = c
      BY WorkersAssumption, Ends, Names
    <3>2. h \in Writers(c) /\ pc[h] # "done"
      BY <3>1, Names DEF Writers, WaitingInv, QuietInv
    <3> QED BY <1>1, <3>2
  <2> QED BY <1>1, <2>1 DEF WaitingInv, QuietInv
<1>3. WaitInv'
  BY <1>1 DEF WaitingInv, WaitInv
<1>4. RoomInv'
  <2>1. Backlog' = Backlog /\ Taken' = Taken
    BY <1>1 DEF Backlog, Taken
  <2> QED BY <1>1, <2>1 DEF WaitingInv, RoomInv
<1>5. EndInv' /\ SingleInv'
  BY <1>1 DEF WaitingInv, EndInv, SingleInv
<1> QED BY <1>2, <1>3, <1>4, <1>5

\* The signal, the streams and main do not touch what the others wait for.
LEMMA AsideWaits ==
    ASSUME WaitingInv, Aside
    PROVE  QuietInv' /\ WaitInv' /\ RoomInv' /\ EndInv' /\ SingleInv'
<1> USE DEF WaitingInv, Aside
<1>1. QuietInv' /\ WaitInv'
  BY DEF QuietInv, WaitInv
<1>2. RoomInv'
  BY DEF RoomInv, Backlog, Taken
<1>3. EndInv' /\ SingleInv'
  BY DEF EndInv, SingleInv
<1> QED BY <1>1, <1>2, <1>3

\* Who returned stays so, and what is closed stays closed.
LEMMA DoneStays ==
    ASSUME TypeOK, ReturnInv, [Next]_vars
    PROVE  /\ \A g \in Goroutines : pc[g] = "done" => pc'[g] = "done"
           /\ closed \subseteq closed'
<1>1. CASE LogArrives
  BY <1>1, ArrivalLengths, Names
<1>2. CASE \E g \in Goroutines : Goes(g)
  <2> PICK g \in Goroutines : Goes(g)
    BY <1>2
  <2> QED BY DEF Goes
<1>3. CASE \E g \in Readers : Receive(g)
  <2> PICK g \in Readers : Receive(g)
    BY <1>3
  <2> QED BY ReceiveLengths
<1>4. CASE \E g \in Goroutines \ {"emitter"} : Send(g)
  <2> PICK g \in Goroutines \ {"emitter"} : Send(g)
    BY <1>4
  <2> QED BY SendLengths
<1>5. CASE \E g \in Goroutines \ {"emitter", "forwarder"} : AbandonSend(g)
  <2> PICK g \in Goroutines \ {"emitter", "forwarder"} : AbandonSend(g)
    BY <1>5
  <2> QED BY AbandonLengths
<1>6. CASE \E c \in Channels : CloseChannel(c)
  BY <1>6 DEF CloseChannel
<1>7. CASE Aside
  BY <1>7 DEF Aside
<1> QED BY <1>1, <1>2, <1>3, <1>4, <1>5, <1>6, <1>7, StepKinds

\* The server stops behind the signal and its streams, main behind both.
LEMMA ShutKeeps ==
    ASSUME TypeOK, ReturnInv, ShutInv, [Next]_vars
    PROVE  ShutInv'
<1>1. StagesDone => StagesDone'
  BY DoneStays DEF StagesDone
<1>2. subscribers \in Nat
  BY ConfigAssumption DEF TypeOK
<1>3. CASE Subscribe
  BY <1>1, <1>2, <1>3 DEF ShutInv, Subscribe
<1>4. CASE Disconnect
  BY <1>1, <1>2, <1>4 DEF ShutInv, Disconnect
<1>5. CASE GracefulStop
  BY <1>1, <1>5 DEF ShutInv, GracefulStop
<1>6. CASE ServeReturns
  BY <1>1, <1>6 DEF ShutInv, ServeReturns
<1>7. CASE MainReturns
  BY <1>1, <1>7 DEF ShutInv, MainReturns
<1>8. ASSUME UNCHANGED server, cancelled => cancelled' PROVE ShutInv'
  BY <1>1, <1>8 DEF ShutInv, server
<1>9. CASE Cancel \/ LogArrives \/ AdapterReturns \/ ForwarderStarts \/ UNCHANGED vars
  <2>1. UNCHANGED server /\ (cancelled => cancelled')
    BY <1>9 DEF Cancel, LogArrives, AdapterReturns, ForwarderStarts, vars, server
  <2> QED BY <1>8, <2>1
<1>10. CASE \E g \in Readers : Receive(g) \/ RangeEnds(g)
  <2>1. UNCHANGED server /\ (cancelled => cancelled')
    BY <1>10 DEF Receive, RangeEnds
  <2> QED BY <1>8, <2>1
<1>11. CASE \/ \E g \in Senders \cup {"forwarder"} : Send(g)
            \/ \E g \in Senders : AbandonSend(g)
            \/ \E c \in Channels : CloseChannel(c)
  <2>1. UNCHANGED server /\ (cancelled => cancelled')
    BY <1>11 DEF Send, AbandonSend, CloseChannel
  <2> QED BY <1>8, <2>1
<1> QED BY <1>3, <1>4, <1>5, <1>6, <1>7, <1>9, <1>10, <1>11 DEF Next

\* At the start nobody waits in vain.
LEMMA InitWaits ==
    ASSUME Init
    PROVE  WaitingInv
<1>1. /\ cancelled = FALSE /\ held = [g \in Goroutines |-> <<>>] /\ chan = [c \in Channels |-> <<>>]
      /\ closed = {} /\ produced = 0 /\ emitted = <<>> /\ grpc = "serving" /\ subscribers = 0
      /\ returned = FALSE
  BY DEF Init
<1>2. PICK waits \in Wirings :
         pc = [g \in Goroutines |-> IF g = "forwarder" /\ waits THEN "start" ELSE "recv"]
  BY DEF Init
<1>3. Len(<<>>) = 0
  OBVIOUS
<1>4. (\A c \in Channels : Size[c] = 0) /\ \A g \in Goroutines : Load[g] = 0
  BY <1>1, <1>3 DEF Size, Load
<1>5. \A g \in Goroutines : pc[g] = IF g = "forwarder" /\ waits THEN "start" ELSE "recv"
  BY <1>2
<1>6. QuietInv
  BY <1>1, <1>4, <1>5, Names DEF QuietInv
<1>7. WaitInv
  <2>1. waits = TRUE \/ FALSE \in Wirings
    BY ConfigAssumption
  <2> QED BY <1>5, <2>1, Names DEF WaitInv
<1>8. RoomInv
  <2>1. Backlog = 0 /\ Taken = 0
    BY <1>4, <1>5, Names DEF Backlog, Taken
  <2>2. Capacity["events"] \in Nat
    BY ConfigAssumption, Names
  <2>3. Load["adapter"] = 0 /\ produced = 0
    BY <1>1, <1>4, Names
  <2>4. Backlog + Load["adapter"] + Taken <= produced /\ Backlog + Taken <= Capacity["events"]
    BY <2>1, <2>2, <2>3
  <2> QED BY <2>4 DEF RoomInv
<1>9. EndInv
  BY <1>5, Names DEF EndInv
<1>10. ShutInv
  BY <1>1, Zenon DEF ShutInv
<1>11. SingleInv
  BY <1>4, Names DEF SingleInv
<1> QED BY <1>6, <1>7, <1>8, <1>9, <1>10, <1>11 DEF WaitingInv

\* Every step keeps what the others wait for.
LEMMA NextWaits ==
    ASSUME IInv, WaitingInv, [Next]_vars
    PROVE  WaitingInv'
<1>1. TypeOK /\ ReturnInv
  BY DEF IInv
<1>2. ShutInv'
  BY <1>1, ShutKeeps DEF WaitingInv
<1>3. QuietInv' /\ WaitInv' /\ RoomInv' /\ EndInv' /\ SingleInv'
  BY <1>1, StepKinds, ArrivalWaits, GoesWaits, ReceiveWaits, SendWaits, AbandonWaits, CloseWaits,
     AsideWaits
<1> QED BY <1>2, <1>3 DEF WaitingInv

\* In every state the goroutines wait for what the wiring makes them wait for.
THEOREM Waiting == Spec => []WaitingInv
<1>1. Init => WaitingInv
  BY InitWaits
<1>2. IInv /\ WaitingInv /\ [Next]_vars => WaitingInv'
  BY NextWaits
<1> QED BY <1>1, <1>2, Invariant, PTL DEF Spec
-----------------------------------------------------------------------------
(* What the waiting costs, and what it never does. *)

\* What main.go shows while Start runs: nothing behind the adapter's buffer, and no
\* more logs taken than the buffer and the adapter itself hold.
HeldBack ==
    pc["adapter"] # "done" =>
        /\ emitted = <<>>
        /\ \A c \in Channels \ {"events"} : chan[c] = <<>> /\ c \notin closed
        /\ ~cancelled => produced <= Capacity["events"] + 1

\* In main.go the forwarder waits for Start to return, so while the adapter runs no signal
\* is emitted, and with its buffer full the adapter stops: the README's "each stage runs at
\* its own pace" fails for every buffer size and every number of workers.
THEOREM NothingWhileStartRuns == FALSE \notin Wirings => (Spec => []HeldBack)
<1> SUFFICES ASSUME FALSE \notin Wirings PROVE Spec => []HeldBack
  OBVIOUS
<1>1. ASSUME TypeOK, WaitingInv PROVE HeldBack
  <2> SUFFICES ASSUME pc["adapter"] # "done"
               PROVE  /\ emitted = <<>>
                      /\ \A c \in Channels \ {"events"} : chan[c] = <<>> /\ c \notin closed
                      /\ ~cancelled => produced <= Capacity["events"] + 1
    BY DEF HeldBack
  <2>1. pc["forwarder"] = "start"
    BY <1>1 DEF WaitingInv, WaitInv
  <2>2. /\ emitted = <<>>
        /\ \A c \in Channels \ {"events"} : chan[c] = <<>> /\ c \notin closed
        /\ ~cancelled => Size["events"] + Load["adapter"] = produced
    BY <1>1, <2>1 DEF WaitingInv, QuietInv
  <2>3. /\ Size["events"] \in Nat /\ Load["adapter"] \in Nat /\ Capacity["events"] \in Nat
        /\ Size["events"] <= Capacity["events"] /\ Load["adapter"] <= 1
    BY <1>1, Lengths, Names DEF WaitingInv, SingleInv
  <2>4. Size["events"] + Load["adapter"] <= Capacity["events"] + 1
    BY <2>3
  <2> QED BY <2>2, <2>4
<1>2. IInv /\ WaitingInv => HeldBack
  BY <1>1 DEF IInv
<1> QED BY <1>2, Invariant, Waiting, PTL

\* When main is past wg.Wait every goroutine has returned, every channel but rawEvents is
\* closed, the server has stopped, and no stream is open.
MainLast == returned => cancelled /\ StagesDone /\ grpc = "stopped" /\ subscribers = 0

\* main is the last to go, so one subscriber that stays keeps the process alive: with any
\* number of streams and workers main cannot return before the last client leaves.
THEOREM MainReturnsLast == Spec => []MainLast
<1>1. WaitingInv => MainLast
  BY DEF WaitingInv, ShutInv, MainLast
<1> QED BY <1>1, Waiting, PTL

\* If all goroutines have returned without a cancellation, each signal of each log that
\* arrived has been handed to the emitter.
AllEmitted ==
    ~cancelled /\ StagesDone =>
        \A s \in Signals : s[1] <= produced => s \in ToSet(emitted)

\* When Start gives up, its retries exhausted, the pipeline behind it leaves nothing in a
\* channel or in a goroutine's hands: a stage returns only with its input closed and empty.
THEOREM OrderlyEndEmitsAll == Spec => []AllEmitted
<1>1. ASSUME TypeOK, StageInv, PresentInv, WaitingInv PROVE AllEmitted
  <2> SUFFICES ASSUME ~cancelled, StagesDone, NEW s \in Signals, s[1] <= produced
               PROVE  s \in ToSet(emitted)
    BY DEF AllEmitted
  <2>1. PICK q \in Holders : Present(q, s)
    BY <1>1 DEF PresentInv
  <2>2. ToSet(<<>>) = {}
    BY DEF ToSet
  <2>3. \A g \in Goroutines : pc[g] = "done" /\ held[g] = <<>>
    BY <1>1 DEF StagesDone, TypeOK
  <2>4. \A c \in Channels : chan[c] = <<>>
    <3> SUFFICES ASSUME NEW c \in Channels PROVE chan[c] = <<>>
      OBVIOUS
    <3>1. PICK g \in Readers : In(g) = c
      BY WorkersAssumption, Ends, Names
    <3> QED BY <1>1, <2>3, <3>1, Names DEF WaitingInv, EndInv
  <2>5. q \in Holders \ {Emitted} => Q[q] = <<>>
    BY <2>3, <2>4, HolderNames
  <2>6. q = Emitted /\ Q[q] = emitted
    BY <2>1, <2>2, <2>5, HolderNames DEF Present
  <2>7. <<s[1], 0>> \notin ToSet(Q[q])
    BY <1>1, <2>6 DEF StageInv, Late
  <2> QED BY <2>1, <2>6, <2>7 DEF Present
<1>2. IInv /\ WaitingInv => AllEmitted
  BY <1>1 DEF IInv
<1> QED BY <1>2, Invariant, Waiting, PTL

\* Some goroutine of the pipeline can take a step, whatever logs arrive: the guards of
\* the steps Go's scheduler owes them.
CanStep ==
    \/ cancelled /\ pc["adapter"] = "recv"
    \/ pc["forwarder"] = "start" /\ pc["adapter"] = "done"
    \/ \E g \in Readers : pc[g] = "recv" /\ (chan[In(g)] # <<>> \/ In(g) \in closed)
    \/ \E g \in Senders \cup {"forwarder"} :
           pc[g] = "send" /\ (Len(chan[Out(g)]) < Capacity[Out(g)] \/ (g \in Senders /\ cancelled))
    \/ \E c \in Channels \ closed : \A g \in Writers(c) : pc[g] = "done"

\* What holds of a pipeline in which nobody can take a step.
LEMMA NoStep ==
    ASSUME TypeOK, ReturnInv, ~CanStep
    PROVE  /\ cancelled => pc["adapter"] # "recv"
           /\ pc["adapter"] = "done" => pc["forwarder"] # "start"
           /\ \A g \in Readers : pc[g] = "recv" => chan[In(g)] = <<>> /\ In(g) \notin closed
           /\ \A g \in Goroutines : pc[g] = "send" =>
                  /\ g # "emitter"
                  /\ Size[Out(g)] = Capacity[Out(g)] /\ chan[Out(g)] # <<>>
                  /\ cancelled => g = "forwarder"
           /\ \A c \in Channels : (\A g \in Writers(c) : pc[g] = "done") => c \in closed
           /\ \A g \in Goroutines : \/ pc[g] \in {"recv", "send", "done"}
                                    \/ g = "forwarder" /\ pc[g] = "start"
<1>1. Goroutines = Senders \cup {"forwarder", "emitter"} /\ "forwarder" \notin Senders
  BY WorkersAssumption DEF Senders, Stages, Goroutines
<1>2. \A g \in Goroutines : pc[g] = "send" =>
         /\ g # "emitter"
         /\ ~ (Len(chan[Out(g)]) < Capacity[Out(g)])
         /\ cancelled => g = "forwarder"
  BY <1>1, Zenon DEF CanStep, ReturnInv
<1>3. \A g \in Goroutines : pc[g] = "send" =>
         Size[Out(g)] = Capacity[Out(g)] /\ chan[Out(g)] # <<>>
  <2> SUFFICES ASSUME NEW g \in Goroutines, pc[g] = "send"
               PROVE  Size[Out(g)] = Capacity[Out(g)] /\ chan[Out(g)] # <<>>
    OBVIOUS
  <2>1. Out(g) \in Channels
    BY <1>2, Ends
  <2>2. /\ ~ (Size[Out(g)] < Capacity[Out(g)]) /\ Size[Out(g)] <= Capacity[Out(g)]
        /\ Size[Out(g)] \in Nat /\ Capacity[Out(g)] \in Nat
        /\ chan[Out(g)] = <<>> <=> Size[Out(g)] = 0
    BY <1>2, <2>1, Lengths, SizeOf
  <2>3. Capacity[Out(g)] # 0
    BY <2>1, ConfigAssumption
  <2> QED BY <2>2, <2>3
<1>4. /\ cancelled => pc["adapter"] # "recv"
      /\ pc["adapter"] = "done" => pc["forwarder"] # "start"
      /\ \A g \in Readers : pc[g] = "recv" => chan[In(g)] = <<>> /\ In(g) \notin closed
      /\ \A c \in Channels : (\A g \in Writers(c) : pc[g] = "done") => c \in closed
  BY Zenon DEF CanStep
<1>5. \A g \in Goroutines : \/ pc[g] \in {"recv", "send", "done"}
                            \/ g = "forwarder" /\ pc[g] = "start"
  BY DEF TypeOK, ReturnInv
<1> QED BY <1>2, <1>3, <1>4, <1>5

\* Such a pipeline has ended if the adapter has returned and nobody is sending: each
\* stage finds its input closed by the stage before it.
LEMMA Cascade ==
    ASSUME TypeOK, ReturnInv, ~CanStep, pc["adapter"] = "done",
           \A g \in Goroutines : pc[g] # "send"
    PROVE  StagesDone
<1>1. \A g \in Readers : In(g) \in closed => pc[g] = "done"
  BY NoStep, Names
<1>2. \A c \in Channels : (\A g \in Writers(c) : pc[g] = "done") => c \in closed
  BY NoStep
<1>3. /\ Writers("events") = {"adapter"} /\ Writers("raw") = {"forwarder"}
      /\ Writers("chain") = {"normalizer"} /\ Writers("enriched") = Workers
      /\ Writers("signals") = {"engine"}
  BY Names, Ends DEF Writers
<1>4. "events" \in closed
  BY <1>2, <1>3, Names
<1>5. pc["forwarder"] = "done" /\ "raw" \in closed
  BY <1>1, <1>2, <1>3, <1>4, Names, Ends
<1>6. pc["normalizer"] = "done" /\ "chain" \in closed
  BY <1>1, <1>2, <1>3, <1>5, Names, Ends
<1>7. (\A g \in Workers : pc[g] = "done") /\ "enriched" \in closed
  BY <1>1, <1>2, <1>3, <1>6, Names, Ends
<1>8. pc["engine"] = "done" /\ "signals" \in closed
  BY <1>1, <1>2, <1>3, <1>7, Names, Ends
<1>9. pc["emitter"] = "done"
  BY <1>1, <1>8, Names, Ends
<1>10. \A g \in Goroutines : pc[g] = "done"
  BY <1>5, <1>6, <1>7, <1>8, <1>9, Names
<1>11. Channels \subseteq closed
  BY <1>4, <1>5, <1>6, <1>7, <1>8, Names
<1> QED BY <1>10, <1>11 DEF StagesDone

\* rawEvents has room for what the forwarder may still have to send when nobody
\* receives any more: all but one item of the adapter's buffer, or of all logs.
ForwarderHasRoom ==
    IF FALSE \in Wirings THEN MaxLogs <= Capacity["raw"] + 1
    ELSE Capacity["events"] <= Capacity["raw"] + 1

\* With no room for a send the forwarder has more behind it than the buffers hold.
LEMMA NoRoomLeft ==
    ASSUME NEW e \in Nat, NEW f \in Nat, NEW r \in Nat, NEW a \in Nat, NEW p \in Nat,
           NEW m \in Nat, NEW k \in Nat, f >= 1
    PROVE  /\ e + f + r + a + 1 <= p /\ p <= m => ~ (m <= r + 1)
           /\ e + f + r + 1 <= k => ~ (k <= r + 1)
OBVIOUS

\* After the cancellation the goroutines never all wait: until they have returned one of
\* them can take a step.
NeverStuck == cancelled /\ ~StagesDone => CanStep

\* After the cancellation nobody waits for ever for a place in a channel or for an
\* input, the forwarder with its plain send included, if rawEvents has room for what the
\* forwarder may still hold.
THEOREM ShutdownNeverStuck == ForwarderHasRoom => (Spec => []NeverStuck)
<1> SUFFICES ASSUME ForwarderHasRoom PROVE Spec => []NeverStuck
  OBVIOUS
<1>1. ASSUME TypeOK, ReturnInv, WaitingInv, cancelled, ~CanStep PROVE StagesDone
  <2>1. pc["adapter"] = "done" /\ pc["forwarder"] # "start"
    BY <1>1, NoStep, Names
  <2>2. ~ (pc["forwarder"] = "send")
    <3> SUFFICES ASSUME pc["forwarder"] = "send" PROVE FALSE
      OBVIOUS
    <3>1. Size["raw"] = Capacity["raw"] /\ chan["raw"] # <<>>
      BY <1>1, NoStep, Names, Ends
    <3>2. pc["normalizer"] = "done"
      BY <1>1, <3>1, NoStep, Names, Ends
    <3>3. Taken = 1
      BY <3>2 DEF Taken
    <3>4. /\ Size["events"] \in Nat /\ Load["forwarder"] \in Nat /\ Size["raw"] \in Nat
          /\ Load["adapter"] \in Nat /\ produced \in Nat /\ Capacity["events"] \in Nat
          /\ produced <= MaxLogs /\ MaxLogs \in Nat /\ Load["forwarder"] >= 1
      BY <1>1, Lengths, Names
    <3>5. /\ Backlog + Load["adapter"] + 1 <= produced
          /\ FALSE \notin Wirings => Backlog + 1 <= Capacity["events"]
      BY <1>1, <3>3 DEF WaitingInv, RoomInv
    <3> DEFINE e == Size["events"]
               f == Load["forwarder"]
               r == Size["raw"]
               a == Load["adapter"]
               k == Capacity["events"]
    <3>6. /\ e + f + r + a + 1 <= produced
          /\ FALSE \notin Wirings => e + f + r + 1 <= k
          /\ IF FALSE \in Wirings THEN MaxLogs <= r + 1 ELSE k <= r + 1
      BY <3>1, <3>5 DEF Backlog, ForwarderHasRoom
    <3>7. /\ e \in Nat /\ f \in Nat /\ r \in Nat /\ a \in Nat /\ k \in Nat /\ f >= 1
          /\ produced \in Nat /\ MaxLogs \in Nat /\ produced <= MaxLogs
      BY <3>4
    <3> HIDE DEF e, f, r, a, k
    <3>8. /\ e + f + r + a + 1 <= produced /\ produced <= MaxLogs => ~ (MaxLogs <= r + 1)
          /\ e + f + r + 1 <= k => ~ (k <= r + 1)
      BY ONLY <3>7, NoRoomLeft
    <3> QED BY <3>6, <3>7, <3>8
  <2>3. \A g \in Goroutines : pc[g] # "send"
    BY <1>1, <2>2, NoStep
  <2> QED BY <1>1, <2>1, <2>3, Cascade
<1>2. IInv /\ WaitingInv => NeverStuck
  BY <1>1 DEF IInv, NeverStuck
<1> QED BY <1>2, Invariant, Waiting, PTL

\* Nor do they all wait when the adapter has ended without a cancellation.
Drains == pc["adapter"] = "done" /\ ~cancelled /\ ~StagesDone => CanStep

\* Once the adapter has ended the stages drain what it queued, with buffers of any size:
\* until all have returned or ctx is cancelled somebody can take a step.
THEOREM DrainNeverStuck == Spec => []Drains
<1>1. ASSUME TypeOK, ReturnInv, WaitingInv, ~cancelled, pc["adapter"] = "done", ~CanStep
      PROVE  StagesDone
  <2>1. pc["forwarder"] # "start"
    BY <1>1, NoStep
  <2>2. \A g \in Readers : pc[g] # "send" => chan[In(g)] = <<>>
    <3> SUFFICES ASSUME NEW g \in Readers, pc[g] # "send" PROVE chan[In(g)] = <<>>
      OBVIOUS
    <3>1. pc[g] = "recv" \/ pc[g] = "done"
      BY <1>1, <2>1, NoStep, Names
    <3>2. CASE pc[g] = "recv"
      BY <1>1, <3>2, NoStep
    <3>3. CASE pc[g] = "done"
      BY <1>1, <3>3 DEF WaitingInv, EndInv
    <3> QED BY <3>1, <3>2, <3>3
  <2>3. \A g \in Goroutines : pc[g] = "send" => g # "emitter" /\ chan[Out(g)] # <<>>
    BY <1>1, NoStep
  <2>4. pc["engine"] # "send"
    BY <2>2, <2>3, Names, Ends
  <2>5. \A g \in Workers : pc[g] # "send"
    BY <2>2, <2>3, <2>4, Names, Ends
  <2>6. pc["normalizer"] # "send"
    BY <2>2, <2>3, <2>5, WorkersAssumption, Names, Ends
  <2>7. pc["forwarder"] # "send"
    BY <2>2, <2>3, <2>6, Names, Ends
  <2>8. \A g \in Goroutines : pc[g] # "send"
    BY <1>1, <2>3, <2>4, <2>5, <2>6, <2>7, Names
  <2> QED BY <1>1, <2>8, Cascade
<1>2. IInv /\ WaitingInv => Drains
  BY <1>1 DEF IInv, Drains
<1> QED BY <1>2, Invariant, Waiting, PTL
-----------------------------------------------------------------------------
(* After the cancellation the work of the pipeline only becomes less. *)

\* The workers in the middle of a send, the goroutines that have not returned, and the
\* channels that are open.
Sending == {w \in Workers : pc[w] = "send"}
NotDone == {g \in Goroutines : pc[g] # "done"}
Open == Channels \ closed

\* Each step an item has still to go weighs one, and so does each return and each close.
Todo ==
    6 * (MaxLogs - produced) + 5 * Load["adapter"] + 4 * Size["events"]
    + 3 * Load["forwarder"] + 2 * Size["raw"] + 2 * Load["normalizer"] + Size["chain"]
    + 2 * Cardinality(Sending) + Size["enriched"] + 2 * Load["engine"] + Size["signals"]
    + Cardinality(NotDone) + Cardinality(Open) + (IF pc["forwarder"] = "start" THEN 1 ELSE 0)

\* A set of five is finite.
LEMMA FiveFinite ==
    ASSUME NEW a, NEW b, NEW c, NEW d, NEW e
    PROVE  IsFiniteSet({a, b, c, d, e})
<1>1. \A x \in {a, b, c, d, e} : IsFiniteSet({x})
  BY FS_Singleton
<1>2. IsFiniteSet({a} \cup {b}) /\ IsFiniteSet({c} \cup {d})
  BY <1>1, FS_Union
<1>3. IsFiniteSet(({a} \cup {b}) \cup ({c} \cup {d}))
  BY <1>2, FS_Union
<1>4. IsFiniteSet((({a} \cup {b}) \cup ({c} \cup {d})) \cup {e})
  BY <1>1, <1>3, FS_Union
<1>5. (({a} \cup {b}) \cup ({c} \cup {d})) \cup {e} = {a, b, c, d, e}
  OBVIOUS
<1> QED BY <1>4, <1>5

\* The three sets are finite.
LEMMA FiniteTodo ==
    ASSUME IsFiniteSet(Workers)
    PROVE  /\ IsFiniteSet(Sending) /\ Cardinality(Sending) \in Nat
           /\ IsFiniteSet(NotDone) /\ Cardinality(NotDone) \in Nat
           /\ IsFiniteSet(Open) /\ Cardinality(Open) \in Nat
<1>1. IsFiniteSet({"events", "raw", "chain", "enriched", "signals"})
  BY FiveFinite
<1>2. IsFiniteSet({"adapter", "forwarder", "normalizer", "engine", "emitter"})
  BY FiveFinite
<1>3. IsFiniteSet(Goroutines) /\ IsFiniteSet(Channels)
  BY <1>1, <1>2, FS_Union DEF Goroutines, Channels
<1>4. Sending \subseteq Workers /\ NotDone \subseteq Goroutines /\ Open \subseteq Channels
  BY DEF Sending, NotDone, Open
<1>5. IsFiniteSet(Sending) /\ IsFiniteSet(NotDone) /\ IsFiniteSet(Open)
  BY <1>3, <1>4, FS_Subset
<1> QED BY <1>5, FS_CardinalityType

\* What becomes of them when one goroutine goes on.
LEMMA OneGoesOn ==
    ASSUME IsFiniteSet(Workers), NEW g \in Goroutines, pc[g] # "done",
           \A h \in Goroutines \ {g} : pc'[h] = pc[h]
    PROVE  /\ Cardinality(NotDone') =
                  IF pc'[g] = "done" THEN Cardinality(NotDone) - 1 ELSE Cardinality(NotDone)
           /\ g \notin Workers \/ (pc[g] # "send" /\ pc'[g] # "send")
                  => Cardinality(Sending') = Cardinality(Sending)
           /\ g \in Workers /\ pc[g] = "send" /\ pc'[g] # "send"
                  => Cardinality(Sending') = Cardinality(Sending) - 1
<1>1. NotDone' = IF pc'[g] = "done" THEN NotDone \ {g} ELSE NotDone
  BY DEF NotDone
<1>2. g \in NotDone
  BY DEF NotDone
<1>3. Cardinality(NotDone \ {g}) = Cardinality(NotDone) - 1
  BY <1>2, FiniteTodo, FS_RemoveElement
<1>4. Workers \subseteq Goroutines
  BY DEF Goroutines
<1>5. g \notin Workers \/ (pc[g] # "send" /\ pc'[g] # "send") => Sending' = Sending
  BY <1>4 DEF Sending
<1>6. ASSUME g \in Workers, pc[g] = "send", pc'[g] # "send"
      PROVE  Cardinality(Sending') = Cardinality(Sending) - 1
  <2>1. Sending' = Sending \ {g} /\ g \in Sending
    BY <1>4, <1>6 DEF Sending
  <2> QED BY <2>1, FiniteTodo, FS_RemoveElement
<1> QED BY <1>1, <1>3, <1>5, <1>6

\* After the cancellation every step of a goroutine, and every close, leaves less to do:
\* an item goes one step on, or nothing grows and somebody returns or gives up.
LEMMA LessToDo ==
    ASSUME IsFiniteSet(Workers), TypeOK, ReturnInv, SingleInv, cancelled, [Next]_vars,
           <<pc, held, chan, closed, produced>>' # <<pc, held, chan, closed, produced>>
    PROVE  Todo' < Todo
<1> DEFINE logs == MaxLogs - produced
           logs1 == MaxLogs - produced'
           a == Load["adapter"]
           a1 == Load'["adapter"]
           e == Size["events"]
           e1 == Size'["events"]
           f == Load["forwarder"]
           f1 == Load'["forwarder"]
           r == Size["raw"]
           r1 == Size'["raw"]
           n == Load["normalizer"]
           n1 == Load'["normalizer"]
           u == Size["chain"]
           u1 == Size'["chain"]
           w == Cardinality(Sending)
           w1 == Cardinality(Sending')
           d == Size["enriched"]
           d1 == Size'["enriched"]
           k == Load["engine"]
           k1 == Load'["engine"]
           s == Size["signals"]
           s1 == Size'["signals"]
           z == Cardinality(NotDone)
           z1 == Cardinality(NotDone')
           o == Cardinality(Open)
           o1 == Cardinality(Open')
           x == IF pc["forwarder"] = "start" THEN 1 ELSE 0
           x1 == IF pc'["forwarder"] = "start" THEN 1 ELSE 0
           sizesSame == e1 = e /\ r1 = r /\ u1 = u /\ d1 = d /\ s1 = s
           nothingGrows ==
               /\ logs1 = logs /\ e1 \in Int /\ r1 \in Int /\ u1 \in Int /\ d1 \in Int /\ s1 \in Int
               /\ a1 \in Int /\ f1 \in Int /\ n1 \in Int /\ k1 \in Int /\ w1 \in Int /\ z1 \in Int
               /\ o1 \in Int /\ x1 \in Int
               /\ e1 <= e /\ r1 <= r /\ u1 <= u /\ d1 <= d /\ s1 <= s /\ a1 <= a /\ f1 <= f
               /\ n1 <= n /\ k1 <= k /\ w1 <= w /\ z1 <= z /\ o1 <= o /\ x1 <= x
<1>1. /\ logs \in Nat /\ a \in Nat /\ e \in Nat /\ f \in Nat /\ r \in Nat /\ n \in Nat
      /\ u \in Nat /\ w \in Nat /\ d \in Nat /\ k \in Nat /\ s \in Nat /\ z \in Nat
      /\ o \in Nat /\ x \in Nat
  <2>1. produced \in Nat /\ MaxLogs \in Nat /\ produced <= MaxLogs
    BY Lengths
  <2> QED BY <2>1, FiniteTodo, Lengths, Names
<1>2. /\ Todo = 6 * logs + 5 * a + 4 * e + 3 * f + 2 * r + 2 * n + u + 2 * w + d + 2 * k + s
                + z + o + x
      /\ Todo' = 6 * logs1 + 5 * a1 + 4 * e1 + 3 * f1 + 2 * r1 + 2 * n1 + u1 + 2 * w1 + d1
                 + 2 * k1 + s1 + z1 + o1 + x1
  BY DEF Todo
<1>3. Size' = Size => sizesSame
  OBVIOUS
<1>4. /\ closed' = closed => o1 = o
      /\ pc' = pc => w1 = w /\ z1 = z /\ x1 = x
      /\ produced' = produced => logs1 = logs
      /\ pc'["forwarder"] = pc["forwarder"] => x1 = x
  BY DEF Sending, NotDone, Open
<1> HIDE DEF logs, logs1, w, w1, z, z1, o, o1, x, x1
<1>5. nothingGrows /\ (z1 < z \/ o1 < o \/ x1 < x \/ a1 < a) => Todo' < Todo
  <2> HIDE DEF a, a1, e, e1, f, f1, r, r1, n, n1, u, u1, d, d1, k, k1, s, s1
  <2> QED BY ONLY <1>1, <1>2 DEF nothingGrows
<1>6. CASE LogArrives
  <2>1. /\ Size' = Size /\ produced' = produced + 1 /\ a = 0 /\ a1 = 1
        /\ \A h \in Goroutines \ {"adapter"} : Load'[h] = Load[h] /\ pc'[h] = pc[h]
        /\ pc["adapter"] = "recv" /\ pc'["adapter"] = "send" /\ closed' = closed
    BY <1>6, ArrivalLengths
  <2>2. logs1 = logs - 1
    BY <2>1, Lengths DEF logs, logs1
  <2>3. w1 = w /\ z1 = z
    BY <2>1, OneGoesOn, Names DEF w, w1, z, z1
  <2>4. f1 = f /\ n1 = n /\ k1 = k /\ sizesSame /\ o1 = o /\ x1 = x
    BY <1>3, <1>4, <2>1, Names
  <2> HIDE DEF a, a1, e, e1, f, f1, r, r1, n, n1, u, u1, d, d1, k, k1, s, s1
  <2>5. a = 0 /\ a1 = 1
    BY <2>1
  <2> QED BY ONLY <1>1, <1>2, <2>2, <2>3, <2>4, <2>5 DEF sizesSame
<1>7. ASSUME \A c \in Channels : Size'[c] \in Int /\ Size'[c] <= Size[c],
             \A h \in Goroutines : Load'[h] \in Int /\ Load'[h] <= Load[h],
             w1 \in Int, w1 <= w, z1 \in Int, z1 <= z, o1 \in Int, o1 <= o, x1 \in Int, x1 <= x,
             produced' = produced
      PROVE  nothingGrows
  BY <1>4, <1>7, Names
<1>8. /\ \A c \in Channels : Size'[c] = Size[c] => Size'[c] \in Int /\ Size'[c] <= Size[c]
      /\ \A h \in Goroutines : Load'[h] = Load[h] => Load'[h] \in Int /\ Load'[h] <= Load[h]
      /\ w \in Int /\ w <= w /\ z \in Int /\ z <= z /\ o \in Int /\ o <= o /\ x \in Int /\ x <= x
      /\ z - 1 \in Int /\ z - 1 <= z /\ z - 1 < z /\ w - 1 \in Int /\ w - 1 <= w
  BY <1>1, Lengths
<1>9. CASE \E h \in Goroutines : Goes(h)
  <2> PICK h \in Goroutines : Goes(h)
    BY <1>9
  <2>1. /\ \A i \in Goroutines \ {h} : pc'[i] = pc[i]
        /\ Size' = Size /\ Load' = Load /\ closed' = closed /\ produced' = produced
        /\ pc[h] \in {"start", "recv"} /\ pc'[h] \in {"recv", "done"}
        /\ pc[h] = "start" => h = "forwarder" /\ pc'[h] = "recv"
        /\ pc[h] = "recv" => pc'[h] = "done"
    BY DEF Goes
  <2>2. w1 = w /\ (pc[h] = "recv" => z1 = z - 1) /\ (pc[h] = "start" => z1 = z)
    BY <2>1, OneGoesOn DEF w, w1, z, z1
  <2>3. (pc[h] = "recv" => x1 = x) /\ (pc[h] = "start" => x1 = 0 /\ x = 1)
    BY <2>1, Names DEF x, x1
  <2>4. o1 = o
    BY <1>4, <2>1
  <2>5. nothingGrows
    BY <1>7, <1>8, <2>1, <2>2, <2>3, <2>4
  <2>6. z1 < z \/ x1 < x
    BY <1>8, <2>1, <2>2, <2>3
  <2> HIDE DEF nothingGrows
  <2> QED BY <1>5, <2>5, <2>6
<1>10. CASE \E c \in Channels : CloseChannel(c)
  <2> PICK c \in Channels : CloseChannel(c)
    BY <1>10
  <2>1. /\ c \in Open /\ Open' = Open \ {c}
        /\ UNCHANGED <<pc, held, chan, produced>> /\ Size' = Size /\ Load' = Load
    BY Counts DEF CloseChannel, Open
  <2>2. o1 = o - 1
    BY <2>1, FiniteTodo, FS_RemoveElement DEF o, o1
  <2>3. w1 = w /\ z1 = z /\ x1 = x
    BY <1>4, <2>1
  <2>4. o1 \in Int /\ o1 <= o /\ o1 < o
    BY <1>1, <2>2
  <2>5. nothingGrows
    BY <1>7, <1>8, <2>1, <2>3, <2>4
  <2> HIDE DEF nothingGrows
  <2> QED BY <1>5, <2>4, <2>5
<1>11. CASE \E h \in Goroutines \ {"emitter", "forwarder"} : AbandonSend(h)
  <2> PICK h \in Goroutines \ {"emitter", "forwarder"} : AbandonSend(h)
    BY <1>11
  <2>1. /\ pc[h] = "send" /\ Load[h] >= 1 /\ Load'[h] = 0
        /\ \A i \in Goroutines \ {h} : Load'[i] = Load[i] /\ pc'[i] = pc[i]
        /\ pc'[h] = IF h = "adapter" THEN "recv" ELSE "done"
        /\ Size' = Size /\ closed' = closed /\ produced' = produced
    BY AbandonLengths
  <2>2. w1 \in {w, w - 1} /\ z1 = IF h = "adapter" THEN z ELSE z - 1
    BY <2>1, OneGoesOn DEF w, w1, z, z1
  <2>3. o1 = o /\ x1 = x
    BY <1>4, <2>1, Names
  <2>4. Load[h] \in Nat /\ Load'[h] \in Int /\ Load'[h] <= Load[h] /\ Load'[h] < Load[h]
    BY <2>1, Lengths
  <2>5. \A i \in Goroutines : Load'[i] \in Int /\ Load'[i] <= Load[i]
    BY <1>8, <2>1, <2>4
  <2>6. w1 \in Int /\ w1 <= w /\ z1 \in Int /\ z1 <= z
    BY <1>8, <2>2
  <2>7. nothingGrows
    BY <1>7, <1>8, <2>1, <2>3, <2>5, <2>6
  <2>8. z1 < z \/ a1 < a
    BY <1>8, <2>2, <2>4
  <2> HIDE DEF nothingGrows
  <2> QED BY <1>5, <2>7, <2>8
<1>12. CASE \E h \in Readers : Receive(h)
  <2> PICK h \in Readers : Receive(h)
    BY <1>12
  <2>1. /\ pc[h] = "recv" /\ Size[In(h)] >= 1 /\ Load[h] = 0
        /\ Size'[In(h)] = Size[In(h)] - 1
        /\ \A c \in Channels \ {In(h)} : Size'[c] = Size[c]
        /\ \A i \in Goroutines \ {h} : Load'[i] = Load[i] /\ pc'[i] = pc[i]
        /\ h = "forwarder" => pc'[h] = "send" /\ Load'[h] = 1
        /\ h # "forwarder" => pc'[h] = "done" /\ Load'[h] = 0
        /\ closed' = closed /\ produced' = produced
    <3>1. /\ pc[h] = "recv" /\ Size[In(h)] >= 1 /\ Load[h] = 0
          /\ Size'[In(h)] = Size[In(h)] - 1
          /\ \A c \in Channels \ {In(h)} : Size'[c] = Size[c]
          /\ \A i \in Goroutines \ {h} : Load'[i] = Load[i] /\ pc'[i] = pc[i]
          /\ h = "forwarder" => pc'[h] = "send" /\ Load'[h] = 1
          /\ cancelled /\ h # "forwarder" => pc'[h] = "done" /\ Load'[h] = 0
          /\ closed' = closed /\ produced' = produced
      BY ONLY TypeOK, Receive(h), ReceiveLengths
    <3> QED BY ONLY cancelled, <3>1
  <2>2. In(h) \in Channels /\ h \in Goroutines
    BY Ends, Names
  <2>3. w1 = w /\ z1 = IF h = "forwarder" THEN z ELSE z - 1
    BY <2>1, <2>2, OneGoesOn, Names DEF w, w1, z, z1
  <2>4. o1 = o /\ x1 = x
    <3>1. o1 = o
      BY <1>4, <2>1
    <3>2. x1 = x
      BY <2>1, Names DEF x, x1
    <3> QED BY <3>1, <3>2
  <2>5. CASE h = "forwarder"
    <3>1. e1 = e - 1 /\ f = 0 /\ f1 = 1
      BY <2>1, <2>5, Ends
    <3>2. /\ a1 = a /\ n1 = n /\ k1 = k /\ r1 = r /\ u1 = u /\ d1 = d /\ s1 = s
          /\ w1 = w /\ z1 = z /\ o1 = o /\ x1 = x /\ logs1 = logs
      BY <1>4, <2>1, <2>3, <2>4, <2>5, Ends, Names
    <3> HIDE DEF a, a1, e, e1, f, f1, r, r1, n, n1, u, u1, d, d1, k, k1, s, s1
    <3> QED BY ONLY <1>1, <1>2, <3>1, <3>2
  <2>6. CASE h # "forwarder"
    <3>1. \A i \in Goroutines : Load'[i] = Load[i]
      BY <2>1, <2>6
    <3>2. \A c \in Channels : Size'[c] \in Int /\ Size'[c] <= Size[c]
      <4>1. Size[In(h)] \in Nat
        BY <2>2, Lengths
      <4>2. Size'[In(h)] \in Int /\ Size'[In(h)] <= Size[In(h)]
        BY <2>1, <4>1
      <4> QED BY <1>8, <2>1, <4>2
    <3>3. nothingGrows
      BY <1>7, <1>8, <2>1, <2>3, <2>4, <2>6, <3>1, <3>2
    <3>4. z1 < z
      BY <1>8, <2>3, <2>6
    <3> HIDE DEF nothingGrows
    <3> QED BY <1>5, <3>3, <3>4
  <2> QED BY <2>5, <2>6
<1>13. CASE \E h \in Goroutines \ {"emitter"} : Send(h)
  <2> PICK h \in Goroutines \ {"emitter"} : Send(h)
    BY <1>13
  <2>1. /\ pc[h] = "send" /\ Load[h] >= 1
        /\ Size'[Out(h)] = Size[Out(h)] + 1
        /\ \A c \in Channels \ {Out(h)} : Size'[c] = Size[c]
        /\ Load'[h] = Load[h] - 1
        /\ \A i \in Goroutines \ {h} : Load'[i] = Load[i] /\ pc'[i] = pc[i]
        /\ pc'[h] = IF Load[h] = 1 THEN "recv" ELSE "send"
        /\ closed' = closed /\ produced' = produced
    BY SendLengths
  <2>2. z1 = z /\ o1 = o /\ x1 = x /\ logs1 = logs
    <3>1. z1 = z
      BY <2>1, OneGoesOn DEF z, z1
    <3>2. o1 = o /\ logs1 = logs
      BY <1>4, <2>1
    <3>3. x1 = x
      BY <2>1, Names DEF x, x1
    <3> QED BY <3>1, <3>2, <3>3
  <2>3. h \notin Workers => w1 = w
    BY <2>1, OneGoesOn DEF w, w1
  <2>4. CASE h = "adapter"
    <3>1. /\ a1 = a - 1 /\ e1 = e + 1 /\ w1 = w /\ f1 = f /\ n1 = n /\ k1 = k
          /\ r1 = r /\ u1 = u /\ d1 = d /\ s1 = s
      BY <2>1, <2>3, <2>4, Ends, Names
    <3> HIDE DEF a, a1, e, e1, f, f1, r, r1, n, n1, u, u1, d, d1, k, k1, s, s1
    <3> QED BY ONLY <1>1, <1>2, <2>2, <3>1
  <2>5. CASE h = "forwarder"
    <3>1. /\ f1 = f - 1 /\ r1 = r + 1 /\ w1 = w /\ a1 = a /\ n1 = n /\ k1 = k
          /\ e1 = e /\ u1 = u /\ d1 = d /\ s1 = s
      BY <2>1, <2>3, <2>5, Ends, Names
    <3> HIDE DEF a, a1, e, e1, f, f1, r, r1, n, n1, u, u1, d, d1, k, k1, s, s1
    <3> QED BY ONLY <1>1, <1>2, <2>2, <3>1
  <2>6. CASE h = "normalizer"
    <3>1. /\ n1 = n - 1 /\ u1 = u + 1 /\ w1 = w /\ a1 = a /\ f1 = f /\ k1 = k
          /\ e1 = e /\ r1 = r /\ d1 = d /\ s1 = s
      BY <2>1, <2>3, <2>6, Ends, Names
    <3> HIDE DEF a, a1, e, e1, f, f1, r, r1, n, n1, u, u1, d, d1, k, k1, s, s1
    <3> QED BY ONLY <1>1, <1>2, <2>2, <3>1
  <2>7. CASE h \in Workers
    <3>1. Load[h] = 1
      <4>1. Load[h] <= 1 /\ Load[h] \in Nat
        BY <2>7, Lengths, Names DEF SingleInv
      <4> QED BY <2>1, <4>1
    <3>2. w1 = w - 1
      BY <2>1, <2>7, <3>1, OneGoesOn DEF w, w1
    <3>3. /\ d1 = d + 1 /\ n1 = n /\ a1 = a /\ f1 = f /\ k1 = k
          /\ e1 = e /\ r1 = r /\ u1 = u /\ s1 = s
      BY <2>1, <2>7, Ends, Names
    <3> HIDE DEF a, a1, e, e1, f, f1, r, r1, n, n1, u, u1, d, d1, k, k1, s, s1
    <3> QED BY ONLY <1>1, <1>2, <2>2, <3>2, <3>3
  <2>8. CASE h = "engine"
    <3>1. /\ k1 = k - 1 /\ s1 = s + 1 /\ w1 = w /\ a1 = a /\ f1 = f /\ n1 = n
          /\ e1 = e /\ r1 = r /\ u1 = u /\ d1 = d
      BY <2>1, <2>3, <2>8, Ends, Names
    <3> HIDE DEF a, a1, e, e1, f, f1, r, r1, n, n1, u, u1, d, d1, k, k1, s, s1
    <3> QED BY ONLY <1>1, <1>2, <2>2, <3>1
  <2> QED BY <2>4, <2>5, <2>6, <2>7, <2>8, Names
<1>14. ~Aside
  BY DEF Aside
<1> QED BY <1>6, <1>9, <1>10, <1>11, <1>12, <1>13, <1>14, StepKinds

\* After the cancellation every step of the pipeline leaves less to do.
Wanes == [][/\ cancelled
            /\ <<pc, held, chan, closed, produced>>' # <<pc, held, chan, closed, produced>>
            => Todo' < Todo]_vars

\* What is left to do is a natural number, and after the cancellation every step of the
\* pipeline lowers it: with ShutdownNeverStuck, the pipeline returns if Go runs the
\* goroutines that can run, whatever the clients and the server do.
THEOREM ShutdownWanes == IsFiniteSet(Workers) => (Spec => [](Todo \in Nat) /\ Wanes)
<1> SUFFICES ASSUME IsFiniteSet(Workers) PROVE Spec => [](Todo \in Nat) /\ Wanes
  OBVIOUS
<1>1. TypeOK => Todo \in Nat
  <2> SUFFICES ASSUME TypeOK PROVE Todo \in Nat
    OBVIOUS
  <2> DEFINE logs == MaxLogs - produced
             a == Load["adapter"]
             e == Size["events"]
             f == Load["forwarder"]
             r == Size["raw"]
             n == Load["normalizer"]
             u == Size["chain"]
             w == Cardinality(Sending)
             d == Size["enriched"]
             k == Load["engine"]
             s == Size["signals"]
             z == Cardinality(NotDone)
             o == Cardinality(Open)
             x == IF pc["forwarder"] = "start" THEN 1 ELSE 0
  <2>1. produced \in Nat /\ MaxLogs \in Nat /\ produced <= MaxLogs
    BY Lengths
  <2>2. /\ logs \in Nat /\ a \in Nat /\ e \in Nat /\ f \in Nat /\ r \in Nat /\ n \in Nat
        /\ u \in Nat /\ w \in Nat /\ d \in Nat /\ k \in Nat /\ s \in Nat /\ z \in Nat
        /\ o \in Nat /\ x \in Nat
    BY <2>1, FiniteTodo, Lengths, Names
  <2>3. Todo = 6 * logs + 5 * a + 4 * e + 3 * f + 2 * r + 2 * n + u + 2 * w + d + 2 * k + s
               + z + o + x
    BY DEF Todo
  <2> HIDE DEF logs, a, e, f, r, n, u, w, d, k, s, z, o, x
  <2> QED BY ONLY <2>2, <2>3
<1>2. IInv /\ WaitingInv /\ [Next]_vars =>
          [/\ cancelled
           /\ <<pc, held, chan, closed, produced>>' # <<pc, held, chan, closed, produced>>
           => Todo' < Todo]_vars
  BY LessToDo DEF IInv, WaitingInv
<1> QED BY <1>1, <1>2, TypeCorrect, Invariant, Waiting, PTL DEF Spec, Wanes
=============================================================================
