---------------------------- MODULE EmitterProofs ----------------------------
(***************************************************************************)
(* Machine-checked proofs about Emitter, for every set of subscribers, of   *)
(* filters and of signals and every buffer size: what a subscriber is sent  *)
(* is what SignalStream promises, the counters agree with what the buffers  *)
(* took and missed, and only a backlog makes a subscriber miss a signal.    *)
(***************************************************************************)
EXTENDS Emitter, SequenceLemmas, SequenceTheorems, FiniteSetTheorems, TLAPS

\* What DeleteFunc leaves of the listeners when it drops one of them.
LEMMA Removed ==
    ASSUME NEW S, NEW s \in Seq(S), IsInjective(s), NEW i \in DOMAIN s,
           NEW t, t = RemoveAt(s, i)
    PROVE  /\ t \in Seq(S) /\ IsInjective(t) /\ Len(t) = Len(s) - 1
           /\ ToSet(t) = ToSet(s) \ {s[i]}
<1> DEFINE u == SubSeq(s, 1, i - 1)
           v == SubSeq(s, i + 1, Len(s))
<1>1. Len(s) \in Nat /\ DOMAIN s = 1..Len(s) /\ i \in 1..Len(s)
  OBVIOUS
<1>2. u \in Seq(S) /\ Len(u) = i - 1 /\ \A j \in 1..(i - 1) : u[j] = s[j]
  BY <1>1
<1>3. v \in Seq(S) /\ Len(v) = Len(s) - i /\ \A j \in 1..(Len(s) - i) : v[j] = s[j + i]
  BY <1>1
<1>4. t = u \o v
  BY DEF RemoveAt
<1> HIDE DEF u, v
<1>5. /\ t \in Seq(S) /\ Len(t) = Len(u) + Len(v) /\ DOMAIN t = 1..(Len(u) + Len(v))
      /\ \A j \in DOMAIN t : t[j] = IF j <= Len(u) THEN u[j] ELSE v[j - Len(u)]
  BY <1>2, <1>3, <1>4, Joined
<1>6. Len(t) = Len(s) - 1 /\ DOMAIN t = 1..(Len(s) - 1)
  BY <1>1, <1>2, <1>3, <1>5
<1>7. \A j \in DOMAIN t : t[j] = IF j < i THEN s[j] ELSE s[j + 1]
  <2> SUFFICES ASSUME NEW j \in 1..(Len(s) - 1) PROVE t[j] = IF j < i THEN s[j] ELSE s[j + 1]
    BY <1>6
  <2>1. CASE j < i
    <3>1. j \in DOMAIN t /\ j <= Len(u) /\ j \in 1..(i - 1)
      BY <1>1, <1>2, <1>6, <2>1
    <3>2. t[j] = u[j] /\ u[j] = s[j]
      BY <1>2, <1>5, <3>1
    <3> QED BY <2>1, <3>2
  <2>2. CASE j >= i
    <3>1. j - (i - 1) \in 1..(Len(s) - i) /\ (j - (i - 1)) + i = j + 1
      BY <1>1, <2>2
    <3>2. t[j] = v[j - Len(u)]
      <4>1. j \in DOMAIN t /\ ~ (j <= Len(u))
        BY <1>1, <1>2, <1>6, <2>2
      <4> QED BY <1>5, <4>1
    <3>3. t[j] = s[j + 1]
      BY <1>2, <1>3, <3>1, <3>2
    <3> QED BY <1>1, <2>2, <3>3
  <2>3. j < i \/ j >= i
    BY <1>1
  <2> QED BY <2>1, <2>2, <2>3
<1>8. IsInjective(t)
  <2> SUFFICES ASSUME NEW a \in DOMAIN t, NEW b \in DOMAIN t, t[a] = t[b] PROVE a = b
    BY DEF IsInjective
  <2>1. \A a1, b1 \in 1..Len(s) : s[a1] = s[b1] => a1 = b1
    BY <1>1 DEF IsInjective
  <2> QED BY <1>1, <1>6, <1>7, <2>1
<1>9. ToSet(t) = ToSet(s) \ {s[i]}
  <2>1. \A j \in DOMAIN t : t[j] \in ToSet(s) /\ t[j] # s[i]
    <3> SUFFICES ASSUME NEW j \in 1..(Len(s) - 1) PROVE t[j] \in ToSet(s) /\ t[j] # s[i]
      BY <1>6
    <3>1. PICK k \in 1..Len(s) : k # i /\ t[j] = s[k]
      BY <1>1, <1>6, <1>7
    <3> QED BY <1>1, <3>1 DEF IsInjective, ToSet
  <2>2. \A k \in DOMAIN s : k # i => \E j \in DOMAIN t : t[j] = s[k]
    <3> SUFFICES ASSUME NEW k \in 1..Len(s), k # i PROVE \E j \in DOMAIN t : t[j] = s[k]
      BY <1>1
    <3>1. CASE k < i
      BY <1>1, <1>6, <1>7, <3>1
    <3>2. CASE k > i
      <4>1. k - 1 \in DOMAIN t /\ ~ (k - 1 < i) /\ (k - 1) + 1 = k
        BY <1>1, <1>6, <3>2
      <4> QED BY <1>7, <4>1
    <3> QED BY <1>1, <3>1, <3>2
  <2> QED BY <2>1, <2>2 DEF ToSet
<1> QED BY <1>5, <1>6, <1>8, <1>9

\* A sequence keeps its elements when the set they are drawn from grows.
LEMMA Widened ==
    ASSUME NEW m \in Nat, NEW n \in Nat, m <= n, NEW s \in Seq(1..m)
    PROVE  s \in Seq(1..n)
<1>1. 1..m \subseteq 1..n
  OBVIOUS
<1> QED BY <1>1
-----------------------------------------------------------------------------
\* What a subscription is, from the registration of its listener on: before it
\* there is no filter and no signal, and Emit is never at work while it is added.
SubscriptionInv ==
    \A s \in Subscribers :
        /\ stream[s] = "none" => /\ filter[s] = None /\ sent[s] = <<>>
                                 /\ sending[s] = <<>> /\ ch[s] = <<>>
        /\ stream[s] # "none" => filter[s] \in Filters
        /\ visit > 0 => since[s] < Len(log)

\* What a channel took is what it was offered, each signal once and in order.
OrderInv ==
    \A s \in Subscribers :
        /\ ToSet(Accepted(s)) \subseteq Offered(s)
        /\ \A i, j \in DOMAIN Accepted(s) : i < j => Accepted(s)[i] < Accepted(s)[j]

CountInv == IsFiniteSet(Taken) /\ IsFiniteSet(Missed) /\ CountersAgree

IInv == TypeOK /\ SubscriptionInv /\ OrderInv /\ CountInv /\ FirstSignalsTaken

\* Initially nobody subscribes and nothing is counted.
LEMMA InitInv == Init => IInv
<1> SUFFICES ASSUME Init PROVE IInv
  OBVIOUS
<1>1. \A s \in Subscribers : Accepted(s) = <<>> /\ Offered(s) = {}
  BY DEF Init, Accepted, Offered
<1>2. Taken = {} /\ Missed = {}
  BY <1>1 DEF Taken, Missed
<1>3. CountInv
  BY <1>2, FS_EmptySet DEF CountInv, CountersAgree, Init
<1>4. OrderInv
  BY <1>1 DEF OrderInv, ToSet
<1>5. FirstSignalsTaken
  BY <1>1 DEF FirstSignalsTaken
<1>6. SubscriptionInv
  BY DEF SubscriptionInv, Init
<1>7. TypeOK
  BY ConfigAssumption DEF TypeOK, Init, IsInjective, ToSet
<1> QED BY <1>3, <1>4, <1>5, <1>6, <1>7 DEF IInv
-----------------------------------------------------------------------------
(* What a step does to the books of a subscriber: nothing, or Emit offers it *)
(* the last signal of the log, which its channel takes or misses.            *)

\* Nothing is offered to s, and its channel takes nothing.
Kept(s) == Accepted(s)' = Accepted(s) /\ Offered(s)' = Offered(s)

\* The last signal of the log is offered to t for the first time.
OfferedNow(t) ==
    /\ Len(log) \in Nat /\ Offered(t)' = Offered(t) \cup {Len(log)}
    /\ Offered(t) \subseteq 1..Len(log) /\ \A n \in Offered(t) : n < Len(log)

Took(t) ==
    /\ OfferedNow(t)
    /\ Accepted(t)' = Append(Accepted(t), Len(log))
    /\ emitted' = emitted + 1 /\ dropped' = dropped

\* Its buffer is full.
Lost(t) ==
    /\ OfferedNow(t)
    /\ Accepted(t)' = Accepted(t) /\ Len(Accepted(t)) >= BufferSize
    /\ emitted' = emitted /\ dropped' = dropped + 1

Books ==
    \/ (\A s \in Subscribers : Kept(s)) /\ emitted' = emitted /\ dropped' = dropped
    \/ \E t \in Subscribers : /\ Took(t) \/ Lost(t)
                              /\ \A s \in Subscribers \ {t} : Kept(s)

\* The types the proofs about one step begin with.
LEMMA Types ==
    ASSUME TypeOK, NEW s \in Subscribers
    PROVE  /\ Len(log) \in Nat /\ log \in Seq(SignalKinds)
           /\ ch[s] \in Seq(Nat) /\ sending[s] \in Seq(Nat) /\ sent[s] \in Seq(Nat)
           /\ Len(sending[s]) <= 1 /\ Len(ch[s]) <= BufferSize
           /\ sending[s] # <<>> => sending[s] = <<sending[s][1]>> /\ sending[s][1] \in Nat
           /\ sent[s] \o sending[s] \in Seq(Nat) /\ Accepted(s) \in Seq(Nat)
           /\ Len(Accepted(s)) >= Len(ch[s]) /\ Len(ch[s]) \in Nat
           /\ since[s] \in Nat /\ until[s] \in Nat
           /\ since[s] <= Len(log) /\ until[s] <= Len(log)
           /\ visit \in Nat /\ Len(listeners) \in Nat /\ emitted \in Nat /\ dropped \in Nat
<1>1. Len(log) \in Nat /\ log \in Seq(SignalKinds)
  BY DEF TypeOK
<1>2. 1..Len(log) \subseteq Nat
  BY <1>1
<1>3. ch[s] \in Seq(Nat) /\ sending[s] \in Seq(Nat) /\ sent[s] \in Seq(Nat)
  BY <1>2 DEF TypeOK
<1>4. Len(sending[s]) <= 1
  BY DEF TypeOK
<1>10. Len(ch[s]) <= BufferSize
  BY DEF TypeOK
<1>5. ASSUME sending[s] # <<>> PROVE sending[s] = <<sending[s][1]>> /\ sending[s][1] \in Nat
  <2>1. Len(sending[s]) \in Nat \ {0}
    BY <1>3, <1>5
  <2>2. \A n \in Nat \ {0} : n <= 1 => n = 1
    OBVIOUS
  <2>3. Len(sending[s]) = 1
    BY <1>4, <2>1, <2>2, Zenon
  <2> QED BY <1>3, <2>3
<1>6. sent[s] \o sending[s] \in Seq(Nat) /\ Accepted(s) \in Seq(Nat)
  BY <1>3 DEF Accepted
<1>7. Len(Accepted(s)) >= Len(ch[s]) /\ Len(ch[s]) \in Nat
  <2>1. Len(Accepted(s)) = Len(sent[s] \o sending[s]) + Len(ch[s])
    BY <1>3, <1>6 DEF Accepted
  <2>2. Len(sent[s] \o sending[s]) \in Nat /\ Len(ch[s]) \in Nat
    <3>1. \A q \in Seq(Nat) : Len(q) \in Nat
      OBVIOUS
    <3> QED BY <1>3, <1>6, <3>1, Zenon
  <2>3. \A m, n \in Nat : m + n >= n
    OBVIOUS
  <2> QED BY <2>1, <2>2, <2>3
<1>8. /\ since[s] \in Nat /\ until[s] \in Nat
      /\ since[s] <= Len(log) /\ until[s] <= Len(log)
  BY <1>1 DEF TypeOK
<1>9. visit \in Nat /\ Len(listeners) \in Nat /\ emitted \in Nat /\ dropped \in Nat
  BY DEF TypeOK
<1> QED BY <1>1, <1>3, <1>4, <1>5, <1>6, <1>7, <1>8, <1>9, <1>10
-----------------------------------------------------------------------------
(* The actions, one by one. *)

\* A step that leaves a subscriber's subscription and channel, and how far Emit
\* has come with it, leaves its books.
LEMMA Untouched ==
    ASSUME NEW s \in Subscribers,
           Accepted(s)' = Accepted(s), stream'[s] = stream[s], filter'[s] = filter[s],
           since'[s] = since[s], OfferedUpTo(s)' = OfferedUpTo(s),
           \A n \in (since[s] + 1)..OfferedUpTo(s) : log'[n] = log[n]
    PROVE  Kept(s)
BY DEF Kept, Offered

\* Nothing is pending while Emit is not at work.
LEMMA Idle ==
    ASSUME NEW s \in Subscribers, visit = 0
    PROVE  OfferedUpTo(s) = IF stream[s] = "closed" THEN until[s] ELSE Len(log)
BY DEF OfferedUpTo, Pending

\* Publishing a signal makes it pending for every listener, and offers it to none.
LEMMA PublishStep ==
    ASSUME TypeOK, SubscriptionInv, Publish
    PROVE  TypeOK' /\ SubscriptionInv' /\ Books
<1>1. PICK sig \in SignalKinds : log' = Append(log, sig)
  BY DEF Publish
<1>2. /\ visit = 0 /\ visit' = 1 /\ Len(log) < MaxSignals
      /\ UNCHANGED <<listeners, stream, filter, since, until, gone, ch, sending, emitted,
                     dropped, sent>>
  BY DEF Publish, subscription
<1>3. /\ log \in Seq(SignalKinds) /\ Len(log) \in Nat /\ log' \in Seq(SignalKinds)
      /\ Len(log') = Len(log) + 1 /\ \A n \in 1..Len(log) : log'[n] = log[n]
  BY <1>1 DEF TypeOK
<1>4. ASSUME NEW s \in Subscribers PROVE Kept(s)
  <2>1. OfferedUpTo(s) = IF stream[s] = "closed" THEN until[s] ELSE Len(log)
    BY <1>2, Idle
  <2>2. until[s] \in 0..Len(log) /\ since[s] \in 0..Len(log)
    BY DEF TypeOK
  <2>3. OfferedUpTo(s)' = IF stream[s] = "closed" THEN until[s]
                          ELSE IF Pending(s)' THEN Len(log) ELSE Len(log) + 1
    BY <1>2, <1>3 DEF OfferedUpTo
  <2>4. ASSUME stream[s] \in {"open", "leaving"} PROVE Pending(s)'
    <3>1. PICK i \in DOMAIN listeners : listeners[i] = s
      BY <2>4 DEF TypeOK, ToSet
    <3>2. i >= 1
      BY DEF TypeOK
    <3> QED BY <1>2, <3>1, <3>2 DEF Pending
  <2>5. Accepted(s)' = Accepted(s)
    BY <1>2 DEF Accepted
  <2>6. CASE stream[s] = "none"
    BY <1>2, <2>5, <2>6 DEF Kept, Offered
  <2>7. CASE stream[s] # "none"
    <3>1. OfferedUpTo(s)' = OfferedUpTo(s)
      BY <2>1, <2>3, <2>4, <2>7 DEF TypeOK
    <3>2. \A n \in (since[s] + 1)..OfferedUpTo(s) : log'[n] = log[n]
      BY <1>3, <2>1, <2>2
    <3> QED BY <1>2, <2>5, <3>1, <3>2, Untouched
  <2> QED BY <2>6, <2>7
<1>5. Books
  BY <1>2, <1>4 DEF Books
<1>6. SubscriptionInv'
  <2>1. \A s \in Subscribers : since[s] < Len(log)'
    BY <1>3 DEF TypeOK
  <2> QED BY <1>2, <2>1 DEF SubscriptionInv
<1>7. TypeOK'
  <2>1. 1..Len(log) \subseteq 1..Len(log') /\ 0..Len(log) \subseteq 0..Len(log')
    BY <1>3
  <2>2. Len(log') <= MaxSignals
    BY <1>2, <1>3, ConfigAssumption
  <2>3. visit' \in 0..(Len(listeners') + 1)
    BY <1>2 DEF TypeOK
  <2>4. ASSUME NEW s \in Subscribers
        PROVE  /\ ch'[s] \in Seq(1..Len(log')) /\ sending'[s] \in Seq(1..Len(log'))
               /\ sent'[s] \in Seq(1..Len(log'))
               /\ since'[s] \in 0..Len(log') /\ until'[s] \in 0..Len(log')
    <3>1. \A q \in Seq(1..Len(log)) : q \in Seq(1..Len(log'))
      <4>1. Len(log) \in Nat /\ Len(log') \in Nat /\ Len(log) <= Len(log')
        BY <1>3
      <4> QED BY <4>1, Widened
    <3>2. /\ ch[s] \in Seq(1..Len(log)) /\ sending[s] \in Seq(1..Len(log))
          /\ sent[s] \in Seq(1..Len(log))
          /\ since[s] \in 0..Len(log) /\ until[s] \in 0..Len(log)
      BY DEF TypeOK
    <3> QED BY <1>2, <2>1, <3>1, <3>2, Zenon
  <2> QED BY <1>2, <1>3, <2>2, <2>3, <2>4 DEF TypeOK
<1> QED BY <1>5, <1>6, <1>7
\* The end of an Emit: it has been to every listener.
LEMMA EmitReturnsStep ==
    ASSUME TypeOK, SubscriptionInv, EmitReturns
    PROVE  TypeOK' /\ SubscriptionInv' /\ Books
<1>1. /\ visit > Len(listeners) /\ visit' = 0
      /\ UNCHANGED <<listeners, stream, filter, since, until, gone, ch, sending, emitted,
                     dropped, log, sent>>
  BY DEF EmitReturns, subscription
<1>2. ASSUME NEW s \in Subscribers PROVE Kept(s)
  <2>1. ~ Pending(s) /\ ~ Pending(s)'
    BY <1>1 DEF Pending, TypeOK
  <2>2. OfferedUpTo(s)' = OfferedUpTo(s) /\ Accepted(s)' = Accepted(s)
    BY <1>1, <2>1 DEF OfferedUpTo, Accepted
  <2> QED BY <1>1, <2>2, Untouched
<1>3. Books
  BY <1>1, <1>2 DEF Books
<1>4. SubscriptionInv'
  BY <1>1 DEF SubscriptionInv
<1>5. TypeOK'
  BY <1>1 DEF TypeOK
<1> QED BY <1>3, <1>4, <1>5

\* What the steps of a stream do to its books while it stays a listener: nothing.
LEMMA StreamKeepsBooks ==
    ASSUME TypeOK,
           \A s \in Subscribers : Accepted(s)' = Accepted(s),
           \A s \in Subscribers : stream'[s] = "closed" <=> stream[s] = "closed",
           \A s \in Subscribers : stream'[s] = "none" <=> stream[s] = "none",
           UNCHANGED <<listeners, filter, since, until, visit, log, emitted, dropped>>
    PROVE  Books
<1>1. ASSUME NEW s \in Subscribers PROVE Kept(s)
  <2>1. OfferedUpTo(s)' = OfferedUpTo(s)
    BY DEF OfferedUpTo, Pending
  <2> QED BY <2>1 DEF Kept, Offered
<1> QED BY <1>1 DEF Books

\* A signal that moves from the head of the channel to stream.Send stays in its place.
LEMMA HeadMoved ==
    ASSUME NEW S, NEW a \in Seq(S), NEW c \in Seq(S), c # <<>>
    PROVE  (a \o <<Head(c)>>) \o Tail(c) = (a \o <<>>) \o c
<1> DEFINE u == (a \o <<Head(c)>>) \o Tail(c)
           v == (a \o <<>>) \o c
<1>1. Head(c) \in S /\ Tail(c) \in Seq(S) /\ Len(Tail(c)) = Len(c) - 1
      /\ Len(c) \in Nat \ {0} /\ \A i \in 1..(Len(c) - 1) : Tail(c)[i] = c[i + 1]
  OBVIOUS
<1>2. a \o <<>> = a /\ a \o <<>> \in Seq(S)
  BY ConcatEmptySeq
<1>3. <<Head(c)>> \in Seq(S) /\ Len(<<Head(c)>>) = 1 /\ a \o <<Head(c)>> \in Seq(S)
  BY <1>1
<1>4. c = <<Head(c)>> \o Tail(c)
  BY <1>1, <1>3
<1>5. u = a \o (<<Head(c)>> \o Tail(c))
  BY <1>1, <1>3, ConcatAssociative
<1> QED BY <1>2, <1>4, <1>5

\* The channel hands its oldest signal to stream.Send.
LEMMA DequeueStep ==
    ASSUME TypeOK, SubscriptionInv, NEW s \in Subscribers, Dequeue(s)
    PROVE  TypeOK' /\ SubscriptionInv' /\ Books
<1> DEFINE P == 1..Len(log)
<1>1. /\ stream[s] = "open" /\ sending[s] = <<>> /\ ch[s] # <<>>
      /\ sending' = [sending EXCEPT ![s] = <<Head(ch[s])>>]
      /\ ch' = [ch EXCEPT ![s] = Tail(@)]
      /\ UNCHANGED <<listeners, stream, filter, since, until, gone, visit, emitted, dropped,
                     log, sent>>
  BY DEF Dequeue, subscription
<1>2. /\ ch \in [Subscribers -> Seq(P)] /\ sending \in [Subscribers -> Seq(P)]
      /\ sent \in [Subscribers -> Seq(P)]
      /\ \A x \in Subscribers : Len(ch[x]) <= BufferSize /\ Len(sending[x]) <= 1
  BY DEF TypeOK
<1> HIDE DEF P
<1>3. /\ Head(ch[s]) \in P /\ Tail(ch[s]) \in Seq(P)
      /\ Len(ch[s]) \in Nat /\ Len(Tail(ch[s])) = Len(ch[s]) - 1
  BY <1>1, <1>2, HeadTailProperties, LenProperties
<1>4. Len(Tail(ch[s])) <= BufferSize
  <2>1. Len(ch[s]) <= BufferSize /\ BufferSize \in Nat
    BY <1>2, ConfigAssumption
  <2> QED BY <1>3, <2>1
<1>5. <<Head(ch[s])>> \in Seq(P) /\ Len(<<Head(ch[s])>>) <= 1
  BY <1>3
<1>6. ch' \in [Subscribers -> Seq(P)] /\ sending' \in [Subscribers -> Seq(P)]
  BY <1>1, <1>2, <1>3, <1>5
<1>7. \A x \in Subscribers : Len(ch'[x]) <= BufferSize /\ Len(sending'[x]) <= 1
  BY <1>1, <1>2, <1>4, <1>5
<1>8. TypeOK'
  <2>1. P' = P
    BY <1>1 DEF P
  <2>2. /\ ch' \in [Subscribers -> Seq(1..Len(log'))]
        /\ sending' \in [Subscribers -> Seq(1..Len(log'))]
    BY <1>1, <1>6 DEF P
  <2> QED BY <1>1, <1>7, <2>2 DEF TypeOK
<1>9. ASSUME NEW x \in Subscribers PROVE Accepted(x)' = Accepted(x)
  <2>1. CASE x = s
    <3>1. (sent[s] \o <<Head(ch[s])>>) \o Tail(ch[s]) = (sent[s] \o <<>>) \o ch[s]
      <4>1. sent[s] \in Seq(P) /\ ch[s] \in Seq(P) /\ ch[s] # <<>>
        BY <1>1, <1>2
      <4> QED BY <4>1, HeadMoved
    <3> QED BY <1>1, <1>2, <2>1, <3>1 DEF Accepted
  <2>2. CASE x # s
    BY <1>1, <1>2, <2>2 DEF Accepted
  <2> QED BY <2>1, <2>2
<1>10. Books
  BY <1>1, <1>9, StreamKeepsBooks
<1>11. SubscriptionInv'
  BY <1>1, <1>2 DEF SubscriptionInv
<1> QED BY <1>8, <1>10, <1>11

\* stream.Send lets the signal out.
LEMMA SendSucceedsStep ==
    ASSUME TypeOK, SubscriptionInv, NEW s \in Subscribers, SendSucceeds(s)
    PROVE  TypeOK' /\ SubscriptionInv' /\ Books
<1> DEFINE P == 1..Len(log)
<1>1. /\ stream[s] = "open"
      /\ sent' = [sent EXCEPT ![s] = @ \o sending[s]]
      /\ sending' = [sending EXCEPT ![s] = <<>>]
      /\ UNCHANGED <<listeners, stream, filter, since, until, gone, visit, emitted, dropped,
                     log, ch>>
  BY DEF SendSucceeds, subscription
<1>2. /\ sending \in [Subscribers -> Seq(P)] /\ sent \in [Subscribers -> Seq(P)]
      /\ \A x \in Subscribers : Len(sending[x]) <= 1
  BY DEF TypeOK
<1> HIDE DEF P
<1>3. sent[s] \o sending[s] \in Seq(P) /\ (sent[s] \o sending[s]) \o <<>> = sent[s] \o sending[s]
  BY <1>2, ConcatProperties, ConcatEmptySeq
<1>4. sent' \in [Subscribers -> Seq(P)] /\ sending' \in [Subscribers -> Seq(P)]
  BY <1>1, <1>2, <1>3
<1>5. \A x \in Subscribers : Len(sending'[x]) <= 1
  BY <1>1, <1>2
<1>6. TypeOK'
  <2>1. /\ sent' \in [Subscribers -> Seq(1..Len(log'))]
        /\ sending' \in [Subscribers -> Seq(1..Len(log'))]
    BY <1>1, <1>4 DEF P
  <2> QED BY <1>1, <1>5, <2>1 DEF TypeOK
<1>7. ASSUME NEW x \in Subscribers PROVE Accepted(x)' = Accepted(x)
  BY <1>1, <1>2, <1>3 DEF Accepted
<1>8. Books
  BY <1>1, <1>7, StreamKeepsBooks
<1>9. SubscriptionInv'
  BY <1>1, <1>2 DEF SubscriptionInv
<1> QED BY <1>6, <1>8, <1>9

\* The client leaves, or the handler returns: the stream stays a listener.
LEMMA LeaveStep ==
    ASSUME TypeOK, SubscriptionInv, NEW s \in Subscribers, ClientLeaves(s) \/ Leave(s)
    PROVE  TypeOK' /\ SubscriptionInv' /\ Books
<1>1. /\ stream[s] = "open" /\ gone' \in SUBSET Subscribers
      /\ stream' = stream \/ stream' = [stream EXCEPT ![s] = "leaving"]
      /\ UNCHANGED <<listeners, filter, since, until, visit, emitted, dropped, log, ch,
                     sending, sent>>
  BY DEF ClientLeaves, Leave, subscription, TypeOK
<1>2. stream \in [Subscribers -> {"none", "open", "leaving", "closed"}]
  BY DEF TypeOK
<1>3. /\ stream' \in [Subscribers -> {"none", "open", "leaving", "closed"}]
      /\ \A x \in Subscribers :
            /\ stream'[x] = "closed" <=> stream[x] = "closed"
            /\ stream'[x] = "none" <=> stream[x] = "none"
            /\ stream'[x] \in {"open", "leaving"} <=> stream[x] \in {"open", "leaving"}
  BY <1>1, <1>2
<1>4. TypeOK'
  BY <1>1, <1>3 DEF TypeOK
<1>5. \A x \in Subscribers : Accepted(x)' = Accepted(x)
  BY <1>1 DEF Accepted
<1>6. Books
  BY <1>1, <1>3, <1>5, StreamKeepsBooks
<1>7. SubscriptionInv'
  BY <1>1, <1>3 DEF SubscriptionInv
<1> QED BY <1>4, <1>6, <1>7
\* A handler registers its listener: nothing has been offered to it.
LEMMA SubscribeStep ==
    ASSUME TypeOK, SubscriptionInv, NEW s \in Subscribers, Subscribe(s)
    PROVE  TypeOK' /\ SubscriptionInv' /\ Books
<1>1. PICK f \in Filters : filter' = [filter EXCEPT ![s] = f]
  BY DEF Subscribe
<1>2. /\ visit = 0 /\ stream[s] = "none"
      /\ stream' = [stream EXCEPT ![s] = "open"]
      /\ listeners' = Append(listeners, s)
      /\ since' = [since EXCEPT ![s] = Len(log)]
      /\ UNCHANGED <<gone, ch, sending, visit, emitted, dropped, log, sent, until>>
  BY DEF Subscribe
<1>3. /\ stream \in [Subscribers -> {"none", "open", "leaving", "closed"}]
      /\ filter \in [Subscribers -> Filters \cup {None}]
      /\ since \in [Subscribers -> 0..Len(log)] /\ Len(log) \in 0..Len(log)
      /\ s \notin ToSet(listeners)
  <2>1. Len(log) \in Nat
    BY DEF TypeOK
  <2>2. Len(log) \in 0..Len(log)
    BY <2>1
  <2>3. s \notin ToSet(listeners)
    BY <1>2 DEF TypeOK
  <2> QED BY <2>2, <2>3 DEF TypeOK
<1>4. /\ listeners' \in Seq(Subscribers) /\ IsInjective(listeners')
      /\ ToSet(listeners') = ToSet(listeners) \cup {s}
  <2>1. listeners \in Seq(Subscribers) /\ IsInjective(listeners)
    BY DEF TypeOK
  <2>2. listeners' = Append(listeners, s)
    BY <1>2
  <2>3. /\ listeners' \in Seq(Subscribers) /\ Len(listeners) \in Nat
        /\ DOMAIN listeners' = DOMAIN listeners \cup {Len(listeners) + 1}
        /\ Len(listeners) + 1 \notin DOMAIN listeners /\ listeners'[Len(listeners) + 1] = s
        /\ \A i \in DOMAIN listeners : listeners'[i] = listeners[i]
    BY <2>1, <2>2, Appended
  <2>4. IsInjective(listeners')
    BY <1>3, <2>1, <2>3 DEF IsInjective, ToSet
  <2>5. ToSet(listeners') = ToSet(listeners) \cup {s}
    BY <2>3 DEF ToSet
  <2> QED BY <2>3, <2>4, <2>5
<1>5. TypeOK'
  <2>1. /\ stream' \in [Subscribers -> {"none", "open", "leaving", "closed"}]
        /\ filter' \in [Subscribers -> Filters \cup {None}]
        /\ since' \in [Subscribers -> 0..Len(log')]
    BY <1>1, <1>2, <1>3
  <2>2. \A x \in Subscribers : x \in ToSet(listeners') <=> stream'[x] \in {"open", "leaving"}
    BY <1>2, <1>3, <1>4 DEF TypeOK
  <2>3. visit' \in 0..(Len(listeners') + 1)
    <3>1. Len(listeners') \in Nat
      BY <1>4
    <3> QED BY <1>2, <3>1
  <2> QED BY <1>2, <1>4, <2>1, <2>2, <2>3 DEF TypeOK
<1>6. ASSUME NEW x \in Subscribers PROVE Kept(x)
  <2>1. Accepted(x)' = Accepted(x) /\ visit' = 0
    BY <1>2 DEF Accepted
  <2>2. CASE x = s
    <3>1. Offered(x) = {}
      BY <1>2, <2>2 DEF Offered
    <3>2. OfferedUpTo(x)' = Len(log) /\ since'[x] = Len(log)
      BY <1>2, <1>3, <2>1, <2>2 DEF OfferedUpTo, Pending
    <3>3. Offered(x)' = {}
      <4>1. Len(log) \in Nat
        BY DEF TypeOK
      <4> QED BY <3>2, <4>1 DEF Offered
    <3> QED BY <2>1, <3>1, <3>3 DEF Kept
  <2>3. CASE x # s
    <3>1. stream'[x] = stream[x] /\ filter'[x] = filter[x] /\ since'[x] = since[x]
      BY <1>1, <1>2, <1>3, <2>3
    <3>2. OfferedUpTo(x)' = OfferedUpTo(x)
      BY <1>2, <3>1 DEF OfferedUpTo, Pending
    <3> QED BY <1>2, <2>1, <3>1, <3>2, Untouched
  <2> QED BY <2>2, <2>3
<1>7. Books
  BY <1>2, <1>6 DEF Books
<1>8. SubscriptionInv'
  BY <1>1, <1>2, <1>3 DEF SubscriptionInv
<1> QED BY <1>5, <1>7, <1>8

\* A handler removes its listener: it keeps what it was offered.
LEMMA UnsubscribeStep ==
    ASSUME TypeOK, SubscriptionInv, NEW s \in Subscribers, Unsubscribe(s)
    PROVE  TypeOK' /\ SubscriptionInv' /\ Books
<1>1. PICK i \in DOMAIN listeners : listeners[i] = s /\ listeners' = RemoveAt(listeners, i)
  BY DEF Unsubscribe
<1>2. /\ visit = 0 /\ stream[s] = "leaving"
      /\ stream' = [stream EXCEPT ![s] = "closed"]
      /\ until' = [until EXCEPT ![s] = Len(log)]
      /\ UNCHANGED <<filter, gone, ch, sending, visit, emitted, dropped, log, sent, since>>
  BY DEF Unsubscribe
<1>3. /\ stream \in [Subscribers -> {"none", "open", "leaving", "closed"}]
      /\ until \in [Subscribers -> 0..Len(log)] /\ Len(log) \in 0..Len(log)
  <2>1. Len(log) \in Nat
    BY DEF TypeOK
  <2>2. Len(log) \in 0..Len(log)
    BY <2>1
  <2> QED BY <2>2 DEF TypeOK
<1>4. /\ listeners' \in Seq(Subscribers) /\ IsInjective(listeners')
      /\ ToSet(listeners') = ToSet(listeners) \ {s}
  <2>1. listeners \in Seq(Subscribers) /\ IsInjective(listeners)
    BY DEF TypeOK
  <2> QED BY <1>1, <2>1, Removed
<1>5. TypeOK'
  <2>1. /\ stream' \in [Subscribers -> {"none", "open", "leaving", "closed"}]
        /\ until' \in [Subscribers -> 0..Len(log')]
    BY <1>2, <1>3
  <2>2. \A x \in Subscribers : x \in ToSet(listeners') <=> stream'[x] \in {"open", "leaving"}
    BY <1>2, <1>3, <1>4 DEF TypeOK
  <2>3. visit' \in 0..(Len(listeners') + 1)
    <3>1. Len(listeners') \in Nat
      BY <1>4
    <3> QED BY <1>2, <3>1
  <2> QED BY <1>2, <1>4, <2>1, <2>2, <2>3 DEF TypeOK
<1>6. ASSUME NEW x \in Subscribers PROVE Kept(x)
  <2>1. Accepted(x)' = Accepted(x) /\ visit' = 0
    BY <1>2 DEF Accepted
  <2>2. OfferedUpTo(x)' = OfferedUpTo(x)
    BY <1>2, <1>3 DEF OfferedUpTo, Pending
  <2>3. stream'[x] = "none" <=> stream[x] = "none"
    BY <1>2, <1>3
  <2> QED BY <1>2, <2>1, <2>2, <2>3 DEF Kept, Offered
<1>7. Books
  BY <1>2, <1>6 DEF Books
<1>8. SubscriptionInv'
  BY <1>2, <1>3 DEF SubscriptionInv
<1> QED BY <1>5, <1>7, <1>8
\* Emit comes to a listener: the others keep their books, and this one keeps its
\* own, or is offered the last signal and takes or misses it.
LEMMA VisitStep ==
    ASSUME TypeOK, SubscriptionInv, OrderInv, Visit
    PROVE  TypeOK' /\ SubscriptionInv' /\ Books
<1> DEFINE N == Len(log)
           P == 1..N
<1>1. /\ visit \in DOMAIN listeners /\ visit' = visit + 1
      /\ UNCHANGED <<listeners, stream, filter, since, until, gone, sending, log, sent>>
  BY DEF Visit, subscription
<1>2. /\ listeners \in Seq(Subscribers) /\ visit \in 1..Len(listeners)
      /\ Len(listeners) \in Nat /\ DOMAIN listeners = 1..Len(listeners)
  <2>1. listeners \in Seq(Subscribers)
    BY DEF TypeOK
  <2> QED BY <1>1, <2>1
<1>3. PICK t \in Subscribers : t = listeners[visit]
  BY <1>2
<1>4. IF matchesFilter(filter[t], log[N]) THEN Offer(t) ELSE UNCHANGED <<ch, emitted, dropped>>
  BY <1>3 DEF Visit
<1>5. /\ stream[t] \in {"open", "leaving"} /\ N \in Nat /\ since[t] \in Nat /\ since[t] < N
      /\ N \in P
  <2>1. stream[t] \in {"open", "leaving"}
    BY <1>1, <1>3 DEF TypeOK, ToSet
  <2>2. N \in Nat /\ since[t] \in Nat
    BY Types
  <2>3. visit > 0
    BY <1>2
  <2>4. since[t] < N
    BY <2>3 DEF SubscriptionInv
  <2> QED BY <2>1, <2>2, <2>4
<1>6. Pending(t) /\ ~ Pending(t)'
  <2>1. visit > 0 /\ visit >= visit
    BY <1>2
  <2>2. Pending(t)
    BY <1>1, <1>3, <2>1 DEF Pending
  <2>3. ASSUME NEW i \in DOMAIN listeners, i >= visit + 1, listeners[i] = t PROVE FALSE
    <3>1. i = visit
      BY <1>1, <1>3, <2>3 DEF TypeOK, IsInjective
    <3> QED BY <1>2, <2>3, <3>1
  <2> QED BY <1>1, <2>2, <2>3 DEF Pending
<1>7. OfferedUpTo(t) = N - 1 /\ OfferedUpTo(t)' = N
  BY <1>1, <1>5, <1>6 DEF OfferedUpTo
<1>8. ASSUME NEW s \in Subscribers, s # t PROVE Offered(s)' = Offered(s)
  <2>1. Pending(s)' <=> Pending(s)
    <3>1. ASSUME NEW i \in DOMAIN listeners, listeners[i] = s
          PROVE  i >= visit <=> i >= visit + 1
      BY <1>2, <1>3, <1>8, <3>1
    <3>2. visit > 0 /\ visit + 1 > 0
      BY <1>2
    <3> QED BY <1>1, <3>1, <3>2 DEF Pending
  <2> QED BY <1>1, <2>1 DEF Offered, OfferedUpTo
<1>9. Offered(t) \subseteq P /\ \A n \in Offered(t) : n < N
  BY <1>5, <1>7 DEF Offered
<1>10. Offered(t)' = IF matchesFilter(filter[t], log[N]) THEN Offered(t) \cup {N} ELSE Offered(t)
  <2>1. \A n : n \in (since[t] + 1)..N <=> n \in (since[t] + 1)..(N - 1) \/ n = N
    BY <1>5
  <2>2. Offered(t) = {n \in (since[t] + 1)..(N - 1) : matchesFilter(filter[t], log[n])}
    BY <1>5, <1>7 DEF Offered
  <2>3. Offered(t)' = {n \in (since[t] + 1)..N : matchesFilter(filter[t], log[n])}
    BY <1>1, <1>5, <1>7 DEF Offered
  <2> HIDE DEF N
  <2> QED BY <2>1, <2>2, <2>3
<1>11. /\ ch \in [Subscribers -> Seq(P)] /\ sending \in [Subscribers -> Seq(P)]
       /\ sent \in [Subscribers -> Seq(P)] /\ emitted \in Nat /\ dropped \in Nat
       /\ \A x \in Subscribers : Len(ch[x]) <= BufferSize
  BY DEF TypeOK
<1>12. visit' \in 0..(Len(listeners') + 1)
  BY <1>1, <1>2
<1>13. ASSUME ch' = ch, emitted' \in Nat, dropped' \in Nat
       PROVE  TypeOK' /\ SubscriptionInv' /\ \A s \in Subscribers : Accepted(s)' = Accepted(s)
  <2>1. TypeOK'
    BY <1>1, <1>12, <1>13 DEF TypeOK
  <2>2. SubscriptionInv'
    <3>1. visit > 0
      BY <1>2
    <3> QED BY <1>1, <1>13, <3>1 DEF SubscriptionInv
  <2>3. \A s \in Subscribers : Accepted(s)' = Accepted(s)
    BY <1>1, <1>13 DEF Accepted
  <2> QED BY <2>1, <2>2, <2>3
<1>14. CASE ~ matchesFilter(filter[t], log[N])
  <2>1. ch' = ch /\ emitted' = emitted /\ dropped' = dropped
    BY <1>4, <1>14
  <2>2. \A s \in Subscribers : Kept(s)
    BY <1>8, <1>10, <1>11, <1>13, <1>14, <2>1 DEF Kept
  <2> QED BY <1>11, <1>13, <2>1, <2>2 DEF Books
<1>15. CASE matchesFilter(filter[t], log[N]) /\ ~ (Len(ch[t]) < BufferSize)
  <2>1. ch' = ch /\ emitted' = emitted /\ dropped' = dropped + 1
    BY <1>4, <1>15 DEF Offer, Drop
  <2>2. dropped' \in Nat
    BY <1>11, <2>1
  <2>3. \A s \in Subscribers \ {t} : Kept(s)
    BY <1>8, <1>11, <1>13, <2>1, <2>2 DEF Kept
  <2>4. Len(Accepted(t)) >= BufferSize
    <3>1. Len(Accepted(t)) \in Nat
      BY Types
    <3>2. Len(Accepted(t)) >= Len(ch[t]) /\ Len(ch[t]) \in Nat /\ BufferSize \in Nat
      BY Types, ConfigAssumption
    <3> QED BY <1>15, <3>1, <3>2
  <2>5. OfferedNow(t)
    BY <1>5, <1>9, <1>10, <1>15 DEF OfferedNow
  <2>6. Lost(t)
    BY <1>11, <1>13, <2>1, <2>2, <2>4, <2>5 DEF Lost
  <2> QED BY <1>11, <1>13, <2>1, <2>2, <2>3, <2>6 DEF Books
<1>16. CASE matchesFilter(filter[t], log[N]) /\ Len(ch[t]) < BufferSize
  <2>1. ch' = [ch EXCEPT ![t] = Append(@, N)] /\ emitted' = emitted + 1 /\ dropped' = dropped
    BY <1>4, <1>16 DEF Offer, Enqueue
  <2>2. emitted' \in Nat
    BY <1>11, <2>1
  <2>3. /\ Append(ch[t], N) \in Seq(P) /\ Len(Append(ch[t], N)) = Len(ch[t]) + 1
        /\ Len(ch[t]) \in Nat /\ BufferSize \in Nat
    <3> HIDE DEF P, N
    <3> QED BY <1>5, <1>11, ConfigAssumption
  <2>4. Len(Append(ch[t], N)) <= BufferSize
    BY <1>16, <2>3
  <2>5. ch' \in [Subscribers -> Seq(P)]
    <3> HIDE DEF P, N
    <3> QED BY <1>11, <2>1, <2>3
  <2>6. \A x \in Subscribers : Len(ch'[x]) <= BufferSize
    BY <1>11, <2>1, <2>4
  <2>7. TypeOK'
    BY <1>1, <1>11, <1>12, <2>1, <2>2, <2>5, <2>6 DEF TypeOK
  <2>8. SubscriptionInv'
    <3>1. visit > 0
      BY <1>2
    <3> QED BY <1>1, <1>5, <1>11, <2>1, <3>1 DEF SubscriptionInv
  <2>9. \A s \in Subscribers \ {t} : Kept(s)
    BY <1>1, <1>8, <1>11, <2>1 DEF Kept, Accepted
  <2>10. Accepted(t)' = Append(Accepted(t), N)
    <3> DEFINE b == sent[t] \o sending[t]
    <3>1. b \in Seq(Nat) /\ ch[t] \in Seq(Nat) /\ N \in Nat
      BY Types
    <3>2. \A u, v \in Seq(Nat) : u \o Append(v, N) = Append(u \o v, N)
      BY <3>1
    <3>3. Accepted(t)' = b \o Append(ch[t], N)
      BY <1>1, <1>11, <2>1 DEF Accepted
    <3> QED BY <3>1, <3>2, <3>3, Zenon DEF Accepted
  <2>11. OfferedNow(t)
    BY <1>5, <1>9, <1>10, <1>16 DEF OfferedNow
  <2>12. Took(t)
    BY <2>1, <2>10, <2>11 DEF Took
  <2> QED BY <2>7, <2>8, <2>9, <2>12 DEF Books
<1> QED BY <1>14, <1>15, <1>16
\* Every step leaves the books of every subscriber, or offers one of them a signal.
LEMMA NextBooks ==
    ASSUME TypeOK, SubscriptionInv, OrderInv, [Next]_vars
    PROVE  TypeOK' /\ SubscriptionInv' /\ Books
<1>1. CASE Publish
  BY <1>1, PublishStep
<1>2. CASE Visit
  BY <1>2, VisitStep
<1>3. CASE EmitReturns
  BY <1>3, EmitReturnsStep
<1>4. ASSUME NEW s \in Subscribers, Subscribe(s)
      PROVE  TypeOK' /\ SubscriptionInv' /\ Books
  BY <1>4, SubscribeStep
<1>5. ASSUME NEW s \in Subscribers, Dequeue(s)
      PROVE  TypeOK' /\ SubscriptionInv' /\ Books
  BY <1>5, DequeueStep
<1>6. ASSUME NEW s \in Subscribers, SendSucceeds(s)
      PROVE  TypeOK' /\ SubscriptionInv' /\ Books
  BY <1>6, SendSucceedsStep
<1>7. ASSUME NEW s \in Subscribers, ClientLeaves(s) \/ Leave(s)
      PROVE  TypeOK' /\ SubscriptionInv' /\ Books
  BY <1>7, LeaveStep
<1>8. ASSUME NEW s \in Subscribers, Unsubscribe(s)
      PROVE  TypeOK' /\ SubscriptionInv' /\ Books
  BY <1>8, UnsubscribeStep
<1>9. CASE UNCHANGED vars
  <2>1. UNCHANGED <<listeners, stream, filter, gone, ch, sending, visit, emitted, dropped, log,
                    sent, since, until>>
    BY <1>9 DEF vars
  <2>2. TypeOK'
    BY <2>1 DEF TypeOK
  <2>3. SubscriptionInv'
    BY <2>1 DEF SubscriptionInv
  <2>4. \A s \in Subscribers : Accepted(s)' = Accepted(s)
    BY <2>1 DEF Accepted
  <2>5. Books
    BY <2>1, <2>4, StreamKeepsBooks
  <2> QED BY <2>2, <2>3, <2>5
<1> QED BY <1>1, <1>2, <1>3, <1>4, <1>5, <1>6, <1>7, <1>8, <1>9 DEF Next, Emit
-----------------------------------------------------------------------------
(* What the books say. *)

\* A signal that is offered is later than all that were.
LEMMA BooksInOrder ==
    ASSUME TypeOK, OrderInv, Books
    PROVE  OrderInv'
<1> DEFINE InOrder(a, o) == /\ ToSet(a) \subseteq o
                            /\ \A i, j \in DOMAIN a : i < j => a[i] < a[j]
<1>1. SUFFICES ASSUME NEW s \in Subscribers PROVE InOrder(Accepted(s)', Offered(s)')
  BY DEF OrderInv
<1>2. InOrder(Accepted(s), Offered(s))
  BY DEF OrderInv
<1>3. CASE Kept(s)
  BY <1>2, <1>3 DEF Kept
<1>4. CASE Lost(s)
  BY <1>2, <1>4 DEF Lost, OfferedNow
<1>5. CASE Took(s)
  <2> DEFINE A == Accepted(s)
             B == Accepted(s)'
             N == Len(log)
  <2>1. A \in Seq(Nat) /\ N \in Nat
    BY Types
  <2>2. B = Append(A, N)
    BY <1>5 DEF Took
  <2>3. ToSet(A) \subseteq Offered(s) /\ \A i, j \in DOMAIN A : i < j => A[i] < A[j]
    BY <1>2
  <2>4. Offered(s)' = Offered(s) \cup {N} /\ \A n \in Offered(s) : n < N
    BY <1>5 DEF Took, OfferedNow
  <2> HIDE DEF A, B, N
  <2>5. /\ B \in Seq(Nat) /\ Len(A) \in Nat /\ DOMAIN B = DOMAIN A \cup {Len(A) + 1}
        /\ B[Len(A) + 1] = N
        /\ \A i \in DOMAIN A : i \in Nat /\ i < Len(A) + 1 /\ B[i] = A[i]
    BY <2>1, <2>2, Appended
  <2>6. \A i \in DOMAIN A : A[i] < N
    BY <2>3, <2>4 DEF ToSet
  <2>7. ToSet(B) \subseteq Offered(s)'
    BY <2>3, <2>4, <2>5 DEF ToSet
  <2>8. ASSUME NEW i \in DOMAIN B, NEW j \in DOMAIN B, i < j PROVE B[i] < B[j]
    <3>1. i \in DOMAIN A
      BY <2>5, <2>8
    <3> QED BY <2>3, <2>5, <2>6, <2>8, <3>1
  <2> QED BY <2>7, <2>8 DEF A, B, N
<1> QED BY <1>3, <1>4, <1>5 DEF Books

\* A set of pairs grows by the one pair that is added to one of its parts.
LEMMA PairAdded ==
    ASSUME NEW S, NEW F, NEW G, NEW t \in S, NEW x, G[t] = F[t] \cup {x},
           \A s \in S \ {t} : G[s] = F[s]
    PROVE  UNION {{s} \X G[s] : s \in S}
               = (UNION {{s} \X F[s] : s \in S}) \cup {<<t, x>>}
<1> DEFINE U == UNION {{s} \X F[s] : s \in S}
           V == UNION {{s} \X G[s] : s \in S}
<1>1. ASSUME NEW p \in V PROVE p \in U \cup {<<t, x>>}
  <2>1. PICK s \in S : p \in {s} \X G[s]
    OBVIOUS
  <2>2. PICK y \in G[s] : p = <<s, y>>
    BY <2>1
  <2>3. y \in F[s] \/ (s = t /\ y = x)
    OBVIOUS
  <2>4. y \in F[s] => p \in {s} \X F[s]
    BY <2>2
  <2> QED BY <2>2, <2>3, <2>4
<1>2. ASSUME NEW p \in U PROVE p \in V
  <2>1. PICK s \in S : p \in {s} \X F[s]
    OBVIOUS
  <2>2. F[s] \subseteq G[s]
    OBVIOUS
  <2>3. p \in {s} \X G[s]
    BY <2>1, <2>2
  <2> QED BY <2>3
<1>3. <<t, x>> \in V
  <2>1. <<t, x>> \in {t} \X G[t]
    OBVIOUS
  <2> QED BY <2>1
<1> QED BY <1>1, <1>2, <1>3

\* A pair is in a set of pairs when its second half is in the part of its first half.
LEMMA PairIn ==
    ASSUME NEW S, NEW F, NEW t \in S, NEW x
    PROVE  <<t, x>> \in UNION {{s} \X F[s] : s \in S} => x \in F[t]
<1> SUFFICES ASSUME NEW s \in S, <<t, x>> \in {s} \X F[s] PROVE x \in F[t]
  OBVIOUS
<1> QED OBVIOUS

\* The counters follow the books.
LEMMA BooksCounted ==
    ASSUME TypeOK, OrderInv, CountInv, Books
    PROVE  CountInv'
<1> DEFINE F == [s \in Subscribers |-> DOMAIN Accepted(s)]
           G == [s \in Subscribers |-> DOMAIN Accepted(s)']
           L == [s \in Subscribers |-> Offered(s) \ ToSet(Accepted(s))]
           M == [s \in Subscribers |-> Offered(s)' \ ToSet(Accepted(s)')]
           Pairs(f) == UNION {{s} \X f[s] : s \in Subscribers}
<1>1. emitted = Cardinality(Taken) /\ dropped = Cardinality(Missed)
  BY DEF CountInv, CountersAgree
<1>2. IsFiniteSet(Taken) /\ IsFiniteSet(Missed)
  BY DEF CountInv
<1>3. Taken = Pairs(F) /\ Taken' = Pairs(G) /\ Missed = Pairs(L) /\ Missed' = Pairs(M)
  <2>1. Taken = Pairs(F) /\ Taken' = Pairs(G)
    BY DEF Taken
  <2>2. Missed = Pairs(L) /\ Missed' = Pairs(M)
    BY DEF Missed
  <2> QED BY <2>1, <2>2
<1>4. ASSUME NEW s \in Subscribers, Kept(s) PROVE G[s] = F[s] /\ M[s] = L[s]
  BY <1>4 DEF Kept
<1>5. CASE (\A s \in Subscribers : Kept(s)) /\ emitted' = emitted /\ dropped' = dropped
  <2>1. G = F /\ M = L
    BY <1>4, <1>5
  <2>2. Taken' = Taken /\ Missed' = Missed
    BY <1>3, <2>1
  <2> QED BY <1>1, <1>2, <1>5, <2>2 DEF CountInv, CountersAgree
<1>6. ASSUME NEW t \in Subscribers, Took(t), \A s \in Subscribers \ {t} : Kept(s)
      PROVE  CountInv'
  <2> DEFINE k == Len(Accepted(t)) + 1
             N == Len(log)
  <2>1. Accepted(t) \in Seq(Nat) /\ N \in Nat /\ Accepted(t)' = Append(Accepted(t), N)
    BY <1>6, Types DEF Took
  <2>2. /\ DOMAIN Accepted(t)' = DOMAIN Accepted(t) \cup {k} /\ k \notin DOMAIN Accepted(t)
        /\ ToSet(Accepted(t)') = ToSet(Accepted(t)) \cup {N}
    <3> DEFINE A == Accepted(t)
               B == Accepted(t)'
    <3> HIDE DEF A, B, N
    <3>1. A \in Seq(Nat) /\ N \in Nat /\ B = Append(A, N)
      BY <2>1 DEF A, B
    <3>2. /\ DOMAIN B = DOMAIN A \cup {Len(A) + 1} /\ Len(A) + 1 \notin DOMAIN A
          /\ B[Len(A) + 1] = N /\ \A i \in DOMAIN A : B[i] = A[i]
      BY <3>1, Appended
    <3>3. ToSet(B) = ToSet(A) \cup {N}
      BY <3>2 DEF ToSet
    <3> QED BY <3>2, <3>3 DEF A, B
  <2>3. Offered(t)' = Offered(t) \cup {N} /\ N \notin Offered(t)
    BY <1>6, <2>1 DEF Took, OfferedNow
  <2>4. G[t] = F[t] \cup {k} /\ k \notin F[t]
    BY <2>2
  <2>5. M[t] = L[t]
    BY <2>2, <2>3
  <2>6. \A s \in Subscribers \ {t} : G[s] = F[s] /\ M[s] = L[s]
    BY <1>4, <1>6
  <2>7. M = L
    BY <2>5, <2>6
  <2> HIDE DEF F, G, L, M, k, N
  <2>8. Taken' = Taken \cup {<<t, k>>}
    BY <1>3, <2>4, <2>6, PairAdded
  <2>9. <<t, k>> \notin Taken
    BY <1>3, <2>4, PairIn
  <2>10. IsFiniteSet(Taken') /\ Cardinality(Taken') = Cardinality(Taken) + 1
    BY <1>2, <2>8, <2>9, FS_AddElement
  <2>11. Missed' = Missed
    BY <1>3, <2>7
  <2> QED BY <1>1, <1>2, <1>6, <2>10, <2>11 DEF CountInv, CountersAgree, Took
<1>7. ASSUME NEW t \in Subscribers, Lost(t), \A s \in Subscribers \ {t} : Kept(s)
      PROVE  CountInv'
  <2> DEFINE N == Len(log)
  <2>1. /\ Offered(t)' = Offered(t) \cup {N} /\ N \notin Offered(t)
        /\ Accepted(t)' = Accepted(t)
    <3>1. N \in Nat
      BY Types
    <3> QED BY <1>7, <3>1 DEF Lost, OfferedNow
  <2>2. ToSet(Accepted(t)) \subseteq Offered(t)
    BY DEF OrderInv
  <2>3. M[t] = L[t] \cup {N} /\ N \notin L[t]
    BY <2>1, <2>2
  <2>4. G[t] = F[t]
    BY <2>1
  <2>5. \A s \in Subscribers \ {t} : G[s] = F[s] /\ M[s] = L[s]
    BY <1>4, <1>7
  <2>6. G = F
    BY <2>4, <2>5
  <2> HIDE DEF F, G, L, M, N
  <2>7. Missed' = Missed \cup {<<t, N>>}
    BY <1>3, <2>3, <2>5, PairAdded
  <2>8. <<t, N>> \notin Missed
    BY <1>3, <2>3, PairIn
  <2>9. IsFiniteSet(Missed') /\ Cardinality(Missed') = Cardinality(Missed) + 1
    BY <1>2, <2>7, <2>8, FS_AddElement
  <2>10. Taken' = Taken
    BY <1>3, <2>6
  <2> QED BY <1>1, <1>2, <1>7, <2>9, <2>10 DEF CountInv, CountersAgree, Lost
<1> QED BY <1>5, <1>6, <1>7 DEF Books
\* A subscriber misses a signal only after BufferSize others that it was offered:
\* those its full buffer holds.
LEMMA BooksFirst ==
    ASSUME TypeOK, OrderInv, FirstSignalsTaken, Books
    PROVE  FirstSignalsTaken'
<1> DEFINE UpTo(o, n) == {m \in o : m <= n}
           First(a, o) == \A n \in o : Cardinality(UpTo(o, n)) <= BufferSize => n \in ToSet(a)
<1>1. SUFFICES ASSUME NEW s \in Subscribers PROVE First(Accepted(s)', Offered(s)')
  BY DEF FirstSignalsTaken
<1>2. First(Accepted(s), Offered(s))
  BY DEF FirstSignalsTaken
<1>3. CASE Kept(s)
  BY <1>2, <1>3 DEF Kept
<1>4. CASE Took(s) \/ Lost(s)
  <2> DEFINE N == Len(log)
             O == Offered(s)
             A == Accepted(s)
             B == Accepted(s)'
  <2>1. N \in Nat /\ A \in Seq(Nat) /\ Len(A) \in Nat /\ DOMAIN A = 1..Len(A)
    BY Types
  <2>2. /\ Offered(s)' = O \cup {N} /\ O \subseteq 1..N /\ \A n \in O : n < N
        /\ B = Append(A, N) \/ (B = A /\ Len(A) >= BufferSize)
    BY <1>4 DEF Took, Lost, OfferedNow
  <2>3. ToSet(A) \subseteq O /\ \A i, j \in DOMAIN A : i < j => A[i] < A[j]
    BY DEF OrderInv
  <2> HIDE DEF N, O, A, B
  <2>4. ToSet(A) \subseteq ToSet(B) /\ (B = Append(A, N) => N \in ToSet(B))
    <3>1. CASE B = Append(A, N)
      <4>1. /\ DOMAIN B = DOMAIN A \cup {Len(A) + 1} /\ B[Len(A) + 1] = N
            /\ \A i \in DOMAIN A : B[i] = A[i]
        BY <2>1, <3>1, Appended
      <4> QED BY <4>1 DEF ToSet
    <3> QED BY <2>2, <3>1
  <2>5. ASSUME NEW n \in O, Cardinality(UpTo(O \cup {N}, n)) <= BufferSize
        PROVE  n \in ToSet(B)
    <3>1. UpTo(O \cup {N}, n) = UpTo(O, n)
      BY <2>1, <2>2
    <3>2. n \in ToSet(A)
      BY <1>2, <2>5, <3>1 DEF O, A
    <3> QED BY <2>4, <3>2
  <2>6. ASSUME B = A, Len(A) >= BufferSize
        PROVE  ~ (Cardinality(UpTo(O \cup {N}, N)) <= BufferSize)
    <3>1. IsFiniteSet(O)
      <4>1. IsFiniteSet(1..N)
        BY <2>1, FS_Interval
      <4> QED BY <2>2, <4>1, FS_Subset
    <3>2. A \in Injection(1..Len(A), O)
      <4>1. \A i \in 1..Len(A) : A[i] \in O
        BY <2>1, <2>3 DEF ToSet
      <4>2. A \in [1..Len(A) -> O]
        BY <2>1, <4>1
      <4>3. \A i, j \in 1..Len(A) : A[i] = A[j] => i = j
        <5>1. \A i \in 1..Len(A) : A[i] \in Nat
          BY <2>1
        <5> SUFFICES ASSUME NEW i \in 1..Len(A), NEW j \in 1..Len(A), A[i] = A[j], i # j
                     PROVE  FALSE
          OBVIOUS
        <5>2. i < j \/ j < i
          BY <2>1
        <5>3. A[i] < A[j] \/ A[j] < A[i]
          BY <2>1, <2>3, <5>2
        <5> QED BY <5>1, <5>3
      <4> QED BY <4>2, <4>3 DEF Injection, IsInjective
    <3>3. Cardinality(1..Len(A)) <= Cardinality(O)
      BY <3>1, <3>2, FS_Injection
    <3>4. Cardinality(1..Len(A)) = Len(A)
      BY <2>1, FS_Interval
    <3>5. UpTo(O \cup {N}, N) = O \cup {N} /\ N \notin O
      <4>1. \A m \in O : m \in Nat /\ m < N
        BY <2>1, <2>2
      <4>2. \A m \in O \cup {N} : m <= N
        BY <2>1, <4>1
      <4> QED BY <2>1, <4>1, <4>2
    <3>6. Cardinality(O \cup {N}) = Cardinality(O) + 1 /\ Cardinality(O) \in Nat
      BY <3>1, <3>5, FS_AddElement, FS_CardinalityType
    <3>7. BufferSize \in Nat
      BY ConfigAssumption
    <3> HIDE DEF UpTo
    <3>8. ~ (Cardinality(O) + 1 <= BufferSize)
      BY <2>1, <2>6, <3>3, <3>4, <3>6, <3>7
    <3> QED BY <3>5, <3>6, <3>8
  <2>7. First(B, O \cup {N})
    <3> SUFFICES ASSUME NEW n \in O \cup {N}, Cardinality(UpTo(O \cup {N}, n)) <= BufferSize
                 PROVE  n \in ToSet(B)
      OBVIOUS
    <3> HIDE DEF UpTo
    <3> QED BY <2>2, <2>4, <2>5, <2>6
  <2> QED BY <2>2, <2>7 DEF B, O
<1> QED BY <1>3, <1>4 DEF Books
-----------------------------------------------------------------------------
\* Every step keeps the invariant.
LEMMA NextInv == IInv /\ [Next]_vars => IInv'
<1> SUFFICES ASSUME IInv, [Next]_vars PROVE IInv'
  OBVIOUS
<1>1. TypeOK /\ SubscriptionInv /\ OrderInv /\ CountInv /\ FirstSignalsTaken
  BY DEF IInv
<1>2. TypeOK' /\ SubscriptionInv' /\ Books
  BY <1>1, NextBooks
<1>3. OrderInv' /\ CountInv' /\ FirstSignalsTaken'
  BY <1>1, <1>2, BooksInOrder, BooksCounted, BooksFirst
<1> QED BY <1>2, <1>3 DEF IInv

\* The inductive invariant of the emitter.
THEOREM Invariant == Spec => []IInv
BY InitInv, NextInv, PTL DEF Spec

\* The emitter's state keeps its shape, and no buffer outgrows its size.
THEOREM TypeCorrect == Spec => []TypeOK
BY Invariant, PTL DEF IInv

\* emitted and dropped count what the channels took and missed, each signal of
\* each subscriber once.
THEOREM Counted == Spec => []CountersAgree
<1>1. IInv => CountersAgree
  BY DEF IInv, CountInv
<1> QED BY <1>1, Invariant, PTL

\* Only a backlog makes Emit drop a signal.
THEOREM FirstTaken == Spec => []FirstSignalsTaken
<1>1. IInv => FirstSignalsTaken
  BY DEF IInv
<1> QED BY <1>1, Invariant, PTL
-----------------------------------------------------------------------------
\* What stream.Send lets out is the next signal SignalStream may deliver.
LEMMA SendDelivers ==
    ASSUME IInv, NEW s \in Subscribers, SendSucceeds(s)
    PROVE  \E n \in DOMAIN log : Stream!Deliver(s, n)
<1> DEFINE n == sending[s][1]
           a == sent[s]
<1>1. TypeOK /\ SubscriptionInv /\ OrderInv
  BY DEF IInv
<1>2. /\ stream[s] = "open" /\ sending[s] # <<>>
      /\ sent' = [sent EXCEPT ![s] = @ \o sending[s]]
      /\ UNCHANGED <<log, filter, since>>
  BY DEF SendSucceeds, subscription
<1>3. /\ sending[s] = <<n>> /\ n \in Nat /\ a \in Seq(Nat) /\ ch[s] \in Seq(Nat)
      /\ sending[s] \in Seq(Nat) /\ a \o sending[s] \in Seq(Nat) /\ since[s] \in Nat
      /\ Len(log) \in Nat
  BY <1>1, <1>2, Types
<1>4. /\ Len(a) \in Nat /\ DOMAIN a = 1..Len(a)
      /\ Len(a) + 1 \in DOMAIN Accepted(s) /\ Accepted(s)[Len(a) + 1] = n
      /\ \A i \in DOMAIN a : i \in DOMAIN Accepted(s) /\ Accepted(s)[i] = a[i]
  <2> DEFINE b == a \o sending[s]
             c == b \o ch[s]
  <2>1. Accepted(s) = c
    BY DEF Accepted
  <2>2. b = Append(a, n)
    <3> HIDE DEF a, n, b
    <3>1. b = a \o <<n>>
      BY <1>3 DEF b
    <3> QED BY <1>3, <3>1
  <2>3. b \in Seq(Nat) /\ ch[s] \in Seq(Nat) /\ a \in Seq(Nat) /\ n \in Nat
    BY <1>3
  <2> HIDE DEF a, n, b, c
  <2>4. /\ Len(a) \in Nat /\ DOMAIN a = 1..Len(a) /\ Len(b) = Len(a) + 1 /\ b[Len(a) + 1] = n
        /\ DOMAIN b = 1..(Len(a) + 1) /\ \A i \in DOMAIN a : b[i] = a[i]
    BY <2>2, <2>3
  <2>5. /\ DOMAIN c = 1..(Len(b) + Len(ch[s])) /\ Len(ch[s]) \in Nat
        /\ \A i \in DOMAIN c : c[i] = IF i <= Len(b) THEN b[i] ELSE ch[s][i - Len(b)]
    BY <2>3, Joined DEF c
  <2>6. \A i \in 1..(Len(a) + 1) : i \in DOMAIN c /\ c[i] = b[i]
    <3> SUFFICES ASSUME NEW i \in 1..(Len(a) + 1) PROVE i \in DOMAIN c /\ c[i] = b[i]
      OBVIOUS
    <3>1. Len(a) \in Nat /\ Len(b) = Len(a) + 1 /\ Len(ch[s]) \in Nat
      BY <2>4, <2>5
    <3> DEFINE k == Len(a)
               l == Len(ch[s])
               m == Len(b)
    <3>2. i \in 1..(m + l) /\ i <= m
      <4>1. k \in Nat /\ l \in Nat /\ m = k + 1 /\ i \in 1..(k + 1)
        BY <3>1
      <4> HIDE DEF k, l, m
      <4> QED BY <4>1
    <3>3. i \in DOMAIN c /\ i <= Len(b)
      BY <2>5, <3>2
    <3> QED BY <2>5, <3>3
  <2> QED BY <2>1, <2>4, <2>6
<1>5. n \in Offered(s)
  BY <1>1, <1>4 DEF OrderInv, ToSet
<1>6. n > since[s] /\ matchesFilter(filter[s], log[n]) /\ n <= OfferedUpTo(s)
  BY <1>3, <1>5 DEF Offered
<1>7. n \in DOMAIN log
  <2>1. OfferedUpTo(s) <= Len(log)
    BY <1>2, <1>3 DEF OfferedUpTo
  <2>2. DOMAIN log = 1..Len(log)
    BY <1>1 DEF TypeOK
  <2>3. OfferedUpTo(s) \in Int
    BY <1>2, <1>3 DEF OfferedUpTo
  <2> QED BY <1>3, <1>6, <2>1, <2>2, <2>3
<1>8. filter[s] # None
  BY <1>1, <1>2, ConfigAssumption DEF SubscriptionInv
<1>9. a # <<>> => n > a[Len(a)]
  <2> SUFFICES ASSUME a # <<>> PROVE n > a[Len(a)]
    OBVIOUS
  <2>1. Len(a) \in DOMAIN a /\ Len(a) < Len(a) + 1
    BY <1>3, <1>4
  <2>2. Accepted(s)[Len(a)] < Accepted(s)[Len(a) + 1]
    BY <1>1, <1>4, <2>1 DEF OrderInv
  <2>3. a[Len(a)] \in Nat
    BY <1>3, <2>1
  <2> QED BY <1>3, <1>4, <2>1, <2>2, <2>3
<1>10. sent' = [sent EXCEPT ![s] = Append(@, n)]
  <2>1. a \o <<n>> = Append(a, n)
    BY <1>3
  <2> QED BY <1>2, <1>3, <2>1
<1>11. Stream!Deliver(s, n)
  <2>1. Stream!matchesFilter(filter[s], log[n])
    BY <1>6 DEF Stream!matchesFilter, matchesFilter, Stream!Lists, Lists
  <2>2. UNCHANGED <<log, filter, since>>
    BY <1>2
  <2> HIDE DEF n
  <2> QED BY <1>6, <1>8, <1>9, <1>10, <2>1, <2>2 DEF Stream!Deliver
<1> QED BY <1>7, <1>11

\* What a subscriber is sent is a behaviour of SignalStream: signals that match its
\* filter, published after it subscribed, in the order of the log, none twice.
THEOREM Refinement == Spec => ImplementsStream
<1>1. Init => Stream!Init
  BY DEF Init, Stream!Init
<1>2. ASSUME IInv, [Next]_vars PROVE [Stream!Next]_(Stream!vars)
  <2>1. CASE Publish
    <3>1. Stream!Publish
      BY <2>1 DEF Publish, subscription, Stream!Publish
    <3> QED BY <3>1 DEF Stream!Next
  <2>2. CASE Emit
    <3>1. UNCHANGED <<log, filter, since, sent>>
      BY <2>2 DEF Emit, Visit, EmitReturns, subscription
    <3> QED BY <3>1 DEF Stream!vars
  <2>3. ASSUME NEW s \in Subscribers, Subscribe(s) PROVE Stream!Next
    <3>1. filter[s] = None
      BY <1>2, <2>3 DEF Subscribe, IInv, SubscriptionInv
    <3>2. Stream!Subscribe(s)
      BY <2>3, <3>1 DEF Subscribe, Stream!Subscribe
    <3> QED BY <3>2 DEF Stream!Next
  <2>4. ASSUME NEW s \in Subscribers, SendSucceeds(s) PROVE Stream!Next
    BY <1>2, <2>4, SendDelivers DEF Stream!Next
  <2>5. ASSUME NEW s \in Subscribers,
               Dequeue(s) \/ ClientLeaves(s) \/ Leave(s) \/ Unsubscribe(s)
        PROVE  UNCHANGED Stream!vars
    BY <2>5 DEF Dequeue, ClientLeaves, Leave, Unsubscribe, subscription, Stream!vars
  <2>6. CASE UNCHANGED vars
    BY <2>6 DEF vars, Stream!vars
  <2> QED BY <1>2, <2>1, <2>2, <2>3, <2>4, <2>5, <2>6 DEF Next
<1> QED BY <1>1, <1>2, Invariant, PTL DEF Spec, ImplementsStream, Stream!Spec
=============================================================================
