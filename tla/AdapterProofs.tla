---------------------------- MODULE AdapterProofs ----------------------------
(***************************************************************************)
(* Machine-checked proofs about Adapter, for every backoff configuration,  *)
(* cache size, event buffer and bound: which logs become events, in which  *)
(* order and with which timestamp, what the block cache holds, how often   *)
(* the adapter reconnects, and what the status tracker is told.            *)
(***************************************************************************)
EXTENDS Adapter, SequenceLemmas, TLAPS

InHand == pc \in {"header", "send"}

\* l has left for the reader of Events(), or is the log in hand.
Out(l) ==
    \/ \E i \in DOMAIN taken : taken[i].log = l
    \/ \E i \in DOMAIN events : events[i].log = l
Acc(l) == Out(l) \/ (InHand /\ cur = l)

LogRecord == [block : Nat, decodable : BOOLEAN, sub : Nat]

ShapeInv ==
    /\ emitted \in Seq(LogRecord)
    /\ logs \in Seq(Nat) /\ sub \in Nat /\ cur \in Nat /\ ts \in Nat
    /\ taken \in Seq([log : Nat, ts : Nat]) /\ events \in Seq([log : Nat, ts : Nat])
    /\ \A l : Acc(l) \/ l \in unstamped => l \in DOMAIN emitted
    /\ \A i \in DOMAIN logs : logs[i] \in DOMAIN emitted

\* Taken, buffered, in hand, waiting: in the order of emission.
OrderInv ==
    /\ \A i, j \in DOMAIN taken : i < j => taken[i].log < taken[j].log
    /\ \A i, j \in DOMAIN events : i < j => events[i].log < events[j].log
    /\ \A i \in DOMAIN taken, j \in DOMAIN events : taken[i].log < events[j].log
    /\ InHand => \A l : Out(l) => l < cur
    /\ \A i \in DOMAIN logs : \A l : Acc(l) \/ l \in unstamped => l < logs[i]
    /\ \A i, j \in DOMAIN logs : i < j => logs[i] < logs[j]

\* The channel of logs is that of the live subscription.
SubInv ==
    /\ \A l \in DOMAIN emitted : emitted[l].sub <= sub
    /\ logs # <<>> => Subscribed
    /\ \A i \in DOMAIN logs : emitted[logs[i]].sub = sub

\* NothingSkipped, said with Acc.
SkipInv ==
    ~ cancelled => \A l \in Decodable :
        \/ Acc(l)
        \/ IF Subscribed /\ emitted[l].sub = sub
           THEN \E i \in DOMAIN logs : logs[i] = l
           ELSE \A m : Acc(m) /\ emitted[m].sub = emitted[l].sub => m < l

Stamp(l) == IF l \in unstamped THEN 0 ELSE TimeOf(BlockOf(l))

StampInv ==
    /\ \A i \in DOMAIN taken : taken[i].ts = Stamp(taken[i].log)
    /\ \A i \in DOMAIN events : events[i].ts = Stamp(events[i].log)
    /\ pc = "send" => ts = Stamp(cur)
    /\ pc = "header" => cur \notin unstamped

CacheInv ==
    /\ latest \in Nat /\ DOMAIN entries \subseteq Nat
    /\ \A b \in DOMAIN entries : entries[b] = TimeOf(b)
    /\ CacheWindow

IInv == ShapeInv /\ OrderInv /\ SubInv /\ SkipInv /\ StampInv /\ CacheInv

\* Nothing is subscribed, cached or handed out when Start is called.
LEMMA InitInv == Init => IInv
<1> SUFFICES ASSUME Init PROVE IInv
  OBVIOUS
<1> USE DEF Init, InHand, Out, Acc
<1>1. ShapeInv
  BY DEF ShapeInv
<1>2. OrderInv /\ SubInv
  BY DEF OrderInv, SubInv
<1>3. SkipInv
  BY DEF SkipInv, Decodable
<1>4. StampInv
  BY DEF StampInv
<1>5. CacheInv
  BY ConfigAssumption DEF CacheInv, CacheWindow
<1> QED BY <1>1, <1>2, <1>3, <1>4, <1>5 DEF IInv
-----------------------------------------------------------------------------
data == <<sub, emitted, logs, cur, ts, cache, events, taken, unstamped>>

\* Outside the reading loop nothing that the invariant speaks of changes.
LEMMA ControlStep ==
    ASSUME IInv, UNCHANGED data, cancelled => cancelled',
           pc' = pc \/ (~ Subscribed /\ ~ Subscribed')
    PROVE  IInv'
<1> USE DEF IInv, data, cache
<1>1. InHand' = InHand /\ Subscribed' = Subscribed
  BY DEF InHand, Subscribed
<1>2. /\ pc' = "send" <=> pc = "send"
      /\ pc' = "header" <=> pc = "header"
  BY DEF Subscribed
<1>3. \A l : Out(l)' = Out(l) /\ Acc(l)' = Acc(l)
  BY <1>1 DEF Out, Acc
<1>4. ShapeInv'
  BY <1>3 DEF ShapeInv
<1>5. OrderInv'
  BY <1>1, <1>3 DEF OrderInv
<1>6. SubInv'
  BY <1>1 DEF SubInv
<1>7. SkipInv'
  BY <1>1, <1>3 DEF SkipInv, Decodable
<1>8. StampInv'
  BY <1>2 DEF StampInv, Stamp, BlockOf, TimeOf
<1>9. CacheInv'
  BY DEF CacheInv, CacheWindow, TimeOf
<1> QED BY <1>4, <1>5, <1>6, <1>7, <1>8, <1>9

\* A subscription ends: what its channel held is lost, and later than all that left.
LEMMA LeaveStep ==
    ASSUME IInv, pc = "reading", ~ Subscribed', logs' = <<>>, cancelled' = cancelled,
           UNCHANGED <<sub, emitted, cur, ts, cache, events, taken, unstamped>>
    PROVE  IInv'
<1> USE DEF IInv, cache
<1>1. ~ InHand /\ ~ InHand' /\ Subscribed
  BY DEF InHand, Subscribed
<1>2. \A l : Out(l)' = Out(l) /\ Acc(l)' = Acc(l)
  BY <1>1 DEF Out, Acc
<1>3. ShapeInv'
  BY <1>2 DEF ShapeInv
<1>4. OrderInv'
  BY <1>1, <1>2 DEF OrderInv
<1>5. SubInv'
  BY DEF SubInv
<1>6. SkipInv'
  <2> SUFFICES ASSUME ~ cancelled, NEW l \in Decodable, ~ Acc(l),
                      NEW m, Acc(m), emitted[m].sub = emitted[l].sub
               PROVE  m < l
    BY <1>2 DEF SkipInv, Decodable
  <2>1. CASE emitted[l].sub = sub
    <3>1. PICK i \in DOMAIN logs : logs[i] = l
      BY <1>1, <2>1 DEF SkipInv
    <3> QED BY <3>1 DEF OrderInv
  <2>2. CASE emitted[l].sub # sub
    BY <2>2 DEF SkipInv
  <2> QED BY <2>1, <2>2
<1>7. StampInv'
  BY <1>1 DEF StampInv, Stamp, BlockOf, TimeOf, InHand
<1>8. CacheInv'
  BY DEF CacheInv, CacheWindow, TimeOf
<1> QED BY <1>3, <1>4, <1>5, <1>6, <1>7, <1>8

\* An emitted log is a number, with a block and a subscription.
LEMMA LogTypes ==
    ASSUME ShapeInv, NEW l \in DOMAIN emitted
    PROVE  l \in Nat /\ emitted[l].block \in Nat /\ emitted[l].sub \in Nat
<1>1. emitted[l] \in LogRecord /\ l \in Nat
  BY DEF ShapeInv
<1> QED BY <1>1 DEF LogRecord

\* A new subscription starts with no log of its own.
LEMMA SubscribeStep == ASSUME IInv, Subscribe PROVE IInv'
<1>1. /\ sub' = sub + 1 /\ logs' = <<>> /\ pc = "connecting" /\ pc' = "reading"
      /\ UNCHANGED <<cancelled, emitted, cur, ts, entries, latest, events, taken, unstamped>>
  BY DEF SetConnected, Subscribe, cache, output
<1>2. ~ InHand /\ ~ InHand' /\ ~ Subscribed /\ Subscribed'
  BY <1>1 DEF InHand, Subscribed
<1>3. \A l : Out(l)' = Out(l) /\ Acc(l)' = Acc(l)
  BY <1>1, <1>2 DEF Out, Acc
<1>4. ShapeInv'
  BY <1>1, <1>3 DEF IInv, ShapeInv
<1>5. OrderInv'
  BY <1>1, <1>2, <1>3 DEF IInv, OrderInv
<1>6. \A l \in DOMAIN emitted : emitted[l].sub < sub'
  <2> SUFFICES ASSUME NEW l \in DOMAIN emitted PROVE emitted[l].sub < sub'
    OBVIOUS
  <2>1. emitted[l].sub \in Nat
    BY LogTypes DEF IInv
  <2>2. emitted[l].sub <= sub /\ sub \in Nat
    BY DEF IInv, ShapeInv, SubInv
  <2> QED BY <1>1, <2>1, <2>2
<1>7. sub' \in Nat /\ \A l \in DOMAIN emitted : emitted[l].sub \in Nat
  BY <1>1, LogTypes DEF IInv, ShapeInv
<1>8. SubInv'
  BY <1>1, <1>2, <1>6, <1>7 DEF SubInv
<1>9. SkipInv'
  BY <1>1, <1>2, <1>3, <1>6, <1>7 DEF IInv, SkipInv, Decodable
<1>10. StampInv'
  BY <1>1 DEF IInv, StampInv, Stamp, BlockOf, TimeOf
<1>11. CacheInv'
  BY <1>1 DEF IInv, CacheInv, CacheWindow, TimeOf
<1> QED BY <1>4, <1>5, <1>8, <1>9, <1>10, <1>11 DEF IInv

\* A log is emitted: it is later than all others.
LEMMA EmitStep == ASSUME IInv, Emit PROVE IInv'
<1> DEFINE n == Len(emitted) + 1
<1>1. PICK b \in 0..MaxBlock :
          emitted' = Append(emitted, [block |-> b, decodable |-> b > 0, sub |-> sub])
  BY DEF Emit
<1>2. /\ logs' = Append(logs, n) /\ Subscribed
      /\ UNCHANGED <<cancelled, pc, sub, cur, ts, entries, latest, events, taken, unstamped>>
  BY DEF Emit, cache, output
<1>3. [block |-> b, decodable |-> b > 0, sub |-> sub]
          \in LogRecord
  BY ConfigAssumption DEF IInv, ShapeInv, LogRecord
<1>4. /\ emitted' \in Seq(LogRecord)
      /\ n \in Nat /\ DOMAIN emitted' = DOMAIN emitted \cup {n} /\ n \notin DOMAIN emitted
      /\ \A l \in DOMAIN emitted : l \in Nat /\ emitted'[l] = emitted[l] /\ l < n
      /\ emitted'[n].sub = sub
  BY <1>1, <1>3, Appended DEF IInv, ShapeInv
<1>5. logs \in Seq(Nat)
  BY DEF IInv, ShapeInv
<1> HIDE DEF n
<1>6. /\ logs' \in Seq(Nat) /\ Len(logs) \in Nat
      /\ DOMAIN logs' = DOMAIN logs \cup {Len(logs) + 1}
      /\ \A i \in DOMAIN logs : i \in Nat /\ i < Len(logs) + 1 /\ logs'[i] = logs[i]
      /\ logs'[Len(logs) + 1] = n
  BY <1>2, <1>4, <1>5, Appended
<1>7. InHand' = InHand /\ Subscribed' = Subscribed
  BY <1>2 DEF InHand, Subscribed
<1>8. \A l : Out(l)' = Out(l) /\ Acc(l)' = Acc(l)
  BY <1>2, <1>7 DEF Out, Acc
<1>9. ShapeInv'
  BY <1>2, <1>4, <1>6, <1>8 DEF IInv, ShapeInv
<1>10. OrderInv'
  <2>1. \A l : Acc(l) \/ l \in unstamped => l < n
    BY <1>4 DEF IInv, ShapeInv
  <2>2. \A i \in DOMAIN logs : logs[i] < n
    BY <1>4 DEF IInv, ShapeInv
  <2>3. \A i \in DOMAIN logs' : \A l : Acc(l) \/ l \in unstamped => l < logs'[i]
    BY <1>6, <2>1 DEF IInv, OrderInv
  <2>4. \A i, j \in DOMAIN logs' : i < j => logs'[i] < logs'[j]
    BY <1>6, <2>2 DEF IInv, OrderInv
  <2> QED BY <1>2, <1>7, <1>8, <2>3, <2>4 DEF IInv, OrderInv
<1>11. SubInv'
  <2>1. \A l \in DOMAIN emitted' : emitted'[l].sub <= sub
    BY <1>4, LogTypes DEF IInv, SubInv, ShapeInv
  <2>2. \A i \in DOMAIN logs' : emitted'[logs'[i]].sub = sub
    BY <1>4, <1>6 DEF IInv, SubInv, ShapeInv
  <2> QED BY <1>2, <1>7, <2>1, <2>2 DEF SubInv
<1>12. SkipInv'
  <2> SUFFICES ASSUME ~ cancelled, NEW l \in DOMAIN emitted', emitted'[l].decodable, ~ Acc(l)
               PROVE  IF Subscribed /\ emitted'[l].sub = sub
                      THEN \E i \in DOMAIN logs' : logs'[i] = l
                      ELSE \A m : Acc(m) /\ emitted'[m].sub = emitted'[l].sub => m < l
    BY <1>2, <1>7, <1>8 DEF SkipInv, Decodable
  <2>1. CASE l = n
    BY <1>2, <1>4, <1>6, <2>1
  <2>2. CASE l \in DOMAIN emitted
    <3>1. /\ l \in Decodable /\ emitted'[l] = emitted[l]
          /\ \A m : Acc(m) => emitted'[m] = emitted[m]
      BY <1>4, <2>2 DEF Decodable, IInv, ShapeInv
    <3>2. IF Subscribed /\ emitted[l].sub = sub
          THEN \E i \in DOMAIN logs : logs[i] = l
          ELSE \A m : Acc(m) /\ emitted[m].sub = emitted[l].sub => m < l
      BY <3>1 DEF IInv, SkipInv
    <3> QED BY <1>6, <3>1, <3>2
  <2> QED BY <1>4, <2>1, <2>2
<1>13. \A l : Acc(l) \/ l \in unstamped => Stamp(l)' = Stamp(l)
  BY <1>2, <1>4 DEF Stamp, BlockOf, TimeOf, IInv, ShapeInv
<1>14. StampInv'
  BY <1>2, <1>13 DEF IInv, StampInv, Acc, Out, InHand
<1>15. CacheInv'
  BY <1>2 DEF IInv, CacheInv, CacheWindow, TimeOf
<1> QED BY <1>9, <1>10, <1>11, <1>12, <1>14, <1>15 DEF IInv

\* The reader takes the oldest event.
LEMMA TakeStep == ASSUME IInv, Take PROVE IInv'
<1> DEFINE S == [log : Nat, ts : Nat]
<1>1. /\ taken \in Seq(S) /\ events \in Seq(S) /\ events # <<>>
      /\ taken' = Append(taken, Head(events)) /\ events' = Tail(events)
      /\ UNCHANGED <<cancelled, pc, sub, emitted, logs, cur, ts, entries, latest, unstamped>>
  BY DEF Take, cache, IInv, ShapeInv
<1> HIDE DEF S
<1>2. /\ events' \in Seq(S) /\ 1 \in DOMAIN events /\ Head(events) = events[1]
      /\ events[1] \in S
      /\ \A i \in DOMAIN events' : i \in Nat /\ i >= 1 /\ i + 1 \in DOMAIN events
                                   /\ events'[i] = events[i + 1]
      /\ \A i \in DOMAIN events : i = 1 \/ \E j \in DOMAIN events' : events'[j] = events[i]
  BY <1>1, Shortened
<1>3. /\ taken' \in Seq(S) /\ Len(taken) \in Nat
      /\ DOMAIN taken' = DOMAIN taken \cup {Len(taken) + 1}
      /\ taken'[Len(taken) + 1] = events[1]
      /\ \A i \in DOMAIN taken : i \in Nat /\ i < Len(taken) + 1 /\ taken'[i] = taken[i]
  BY <1>1, <1>2, Appended
<1>4. \A l : Out(l)' = Out(l)
  BY <1>2, <1>3 DEF Out
<1>5. InHand' = InHand /\ Subscribed' = Subscribed
  BY <1>1 DEF InHand, Subscribed
<1>6. \A l : Acc(l)' = Acc(l)
  BY <1>1, <1>4, <1>5 DEF Acc
<1>7. ShapeInv'
  BY <1>1, <1>2, <1>3, <1>6 DEF IInv, ShapeInv, S
<1>8. OrderInv'
  <2>1. \A i, j \in DOMAIN taken' : i < j => taken'[i].log < taken'[j].log
    BY <1>2, <1>3 DEF IInv, OrderInv
  <2>2. \A i, j \in DOMAIN events' : i < j => events'[i].log < events'[j].log
    <3> SUFFICES ASSUME NEW i \in DOMAIN events', NEW j \in DOMAIN events', i < j
                 PROVE  events'[i].log < events'[j].log
      OBVIOUS
    <3>1. i + 1 \in DOMAIN events /\ j + 1 \in DOMAIN events /\ i + 1 < j + 1
      BY <1>2
    <3>2. events[i + 1].log < events[j + 1].log
      BY <3>1 DEF IInv, OrderInv
    <3> QED BY <1>2, <3>2
  <2>3. \A i \in DOMAIN taken', j \in DOMAIN events' : taken'[i].log < events'[j].log
    <3>1. \A j \in DOMAIN events' : j + 1 > 1
      BY <1>2
    <3> QED BY <1>2, <1>3, <3>1 DEF IInv, OrderInv
  <2> QED BY <1>1, <1>4, <1>5, <1>6, <2>1, <2>2, <2>3 DEF IInv, OrderInv
<1>9. SubInv' /\ SkipInv'
  BY <1>1, <1>5, <1>6 DEF IInv, SubInv, SkipInv, Decodable
<1>10. \A l : Stamp(l)' = Stamp(l)
  BY <1>1 DEF Stamp, BlockOf, TimeOf
<1>11. StampInv'
  BY <1>1, <1>2, <1>3, <1>10 DEF IInv, StampInv
<1>12. CacheInv'
  BY <1>1 DEF IInv, CacheInv, CacheWindow, TimeOf
<1> QED BY <1>7, <1>8, <1>9, <1>11, <1>12 DEF IInv

\* What the head of the channel is, and what the channel is without it.
LEMMA HeadOfLogs ==
    ASSUME IInv, pc = "reading", logs # <<>>, logs' = Tail(logs)
    PROVE  /\ logs' \in Seq(Nat) /\ Head(logs) \in DOMAIN emitted /\ emitted[Head(logs)].sub = sub
           /\ \A l : Acc(l) \/ l \in unstamped => l < Head(logs)
           /\ \A i \in DOMAIN logs' : /\ logs'[i] \in DOMAIN emitted
                                      /\ emitted[logs'[i]].sub = sub
                                      /\ Head(logs) < logs'[i]
                                      /\ \A l : Acc(l) \/ l \in unstamped => l < logs'[i]
           /\ \A i, j \in DOMAIN logs' : i < j => logs'[i] < logs'[j]
           /\ \A i \in DOMAIN logs :
                  logs[i] = Head(logs) \/ \E j \in DOMAIN logs' : logs'[j] = logs[i]
<1>1. logs \in Seq(Nat)
  BY DEF IInv, ShapeInv
<1>2. /\ logs' \in Seq(Nat) /\ 1 \in DOMAIN logs /\ Head(logs) = logs[1]
      /\ \A i \in DOMAIN logs' : i \in Nat /\ i >= 1 /\ i + 1 \in DOMAIN logs
                                 /\ logs'[i] = logs[i + 1]
      /\ \A i \in DOMAIN logs : i = 1 \/ \E j \in DOMAIN logs' : logs'[j] = logs[i]
  BY <1>1, Shortened
<1>3. /\ \A i \in DOMAIN logs : logs[i] \in DOMAIN emitted /\ emitted[logs[i]].sub = sub
      /\ \A i \in DOMAIN logs : \A l : Acc(l) \/ l \in unstamped => l < logs[i]
      /\ \A i, j \in DOMAIN logs : i < j => logs[i] < logs[j]
  BY DEF IInv, ShapeInv, OrderInv, SubInv
<1>4. \A i \in DOMAIN logs' : Head(logs) < logs'[i]
  <2> SUFFICES ASSUME NEW i \in DOMAIN logs' PROVE logs[1] < logs[i + 1]
    BY <1>2
  <2>1. i + 1 \in DOMAIN logs /\ 1 < i + 1
    BY <1>2
  <2> QED BY <1>2, <1>3, <2>1
<1>5. \A i, j \in DOMAIN logs' : i < j => logs'[i] < logs'[j]
  <2> SUFFICES ASSUME NEW i \in DOMAIN logs', NEW j \in DOMAIN logs', i < j
               PROVE  logs[i + 1] < logs[j + 1]
    BY <1>2
  <2>1. i + 1 \in DOMAIN logs /\ j + 1 \in DOMAIN logs /\ i + 1 < j + 1
    BY <1>2
  <2> QED BY <1>3, <2>1
<1>6. \A i \in DOMAIN logs' : /\ logs'[i] \in DOMAIN emitted /\ emitted[logs'[i]].sub = sub
                            /\ \A l : Acc(l) \/ l \in unstamped => l < logs'[i]
  BY <1>2, <1>3
<1>7. /\ Head(logs) \in DOMAIN emitted /\ emitted[Head(logs)].sub = sub
      /\ \A l : Acc(l) \/ l \in unstamped => l < Head(logs)
  BY <1>2, <1>3
<1>8. \A i \in DOMAIN logs : logs[i] = Head(logs) \/ \E j \in DOMAIN logs' : logs'[j] = logs[i]
  BY <1>2
<1>9. logs' \in Seq(Nat)
  BY <1>2
<1> QED BY <1>4, <1>5, <1>6, <1>7, <1>8, <1>9

\* A log the decoder rejects leaves the channel and is not missed.
LEMMA SkipUndecodableStep == ASSUME IInv, SkipUndecodable PROVE IInv'
<1>1. /\ pc = "reading" /\ logs # <<>> /\ logs' = Tail(logs) /\ ~ emitted[Head(logs)].decodable
      /\ UNCHANGED <<cancelled, pc, sub, emitted, cur, ts, entries, latest, events, taken,
                     unstamped>>
  BY DEF SkipUndecodable, cache, output
<1>2. /\ logs' \in Seq(Nat)
      /\ \A i \in DOMAIN logs' : /\ logs'[i] \in DOMAIN emitted
                                 /\ emitted[logs'[i]].sub = sub
                                 /\ \A l : Acc(l) \/ l \in unstamped => l < logs'[i]
      /\ \A i, j \in DOMAIN logs' : i < j => logs'[i] < logs'[j]
      /\ \A i \in DOMAIN logs : logs[i] = Head(logs) \/ \E j \in DOMAIN logs' : logs'[j] = logs[i]
  BY <1>1, HeadOfLogs
<1>3. ~ InHand /\ ~ InHand' /\ Subscribed /\ Subscribed'
  BY <1>1 DEF InHand, Subscribed
<1>4. \A l : Out(l)' = Out(l) /\ Acc(l)' = Acc(l)
  BY <1>1, <1>3 DEF Out, Acc
<1>5. ShapeInv'
  BY <1>1, <1>2, <1>4 DEF IInv, ShapeInv
<1>6. OrderInv'
  BY <1>1, <1>2, <1>3, <1>4 DEF IInv, OrderInv
<1>7. SubInv'
  BY <1>1, <1>2, <1>3 DEF IInv, SubInv
<1>8. SkipInv'
  <2> SUFFICES ASSUME ~ cancelled, NEW l \in Decodable, ~ Acc(l)
               PROVE  IF emitted[l].sub = sub
                      THEN \E i \in DOMAIN logs' : logs'[i] = l
                      ELSE \A m : Acc(m) /\ emitted[m].sub = emitted[l].sub => m < l
    BY <1>1, <1>3, <1>4 DEF SkipInv, Decodable
  <2>1. IF emitted[l].sub = sub
        THEN \E i \in DOMAIN logs : logs[i] = l
        ELSE \A m : Acc(m) /\ emitted[m].sub = emitted[l].sub => m < l
    BY <1>3 DEF IInv, SkipInv
  <2>2. l # Head(logs)
    BY <1>1 DEF Decodable
  <2> QED BY <1>2, <2>1, <2>2
<1>9. StampInv'
  BY <1>1 DEF IInv, StampInv, Stamp, BlockOf, TimeOf
<1>10. CacheInv'
  BY <1>1 DEF IInv, CacheInv, CacheWindow, TimeOf
<1> QED BY <1>5, <1>6, <1>7, <1>8, <1>9, <1>10 DEF IInv

\* The head of the channel becomes the log in hand, with its stamp if it has one.
LEMMA HandStep ==
    ASSUME IInv, pc = "reading", logs # <<>>, logs' = Tail(logs), cur' = Head(logs),
           InHand', ts' \in Nat, pc' = "send" => ts' = TimeOf(BlockOf(Head(logs))),
           UNCHANGED <<cancelled, sub, emitted, entries, latest, events, taken, unstamped>>
    PROVE  IInv'
<1>1. /\ logs' \in Seq(Nat) /\ Head(logs) \in DOMAIN emitted /\ emitted[Head(logs)].sub = sub
      /\ \A l : Acc(l) \/ l \in unstamped => l < Head(logs)
      /\ \A i \in DOMAIN logs' : /\ logs'[i] \in DOMAIN emitted
                                 /\ emitted[logs'[i]].sub = sub
                                 /\ Head(logs) < logs'[i]
                                 /\ \A l : Acc(l) \/ l \in unstamped => l < logs'[i]
      /\ \A i, j \in DOMAIN logs' : i < j => logs'[i] < logs'[j]
      /\ \A i \in DOMAIN logs : logs[i] = Head(logs) \/ \E j \in DOMAIN logs' : logs'[j] = logs[i]
  BY HeadOfLogs
<1>2. ~ InHand /\ Subscribed /\ Subscribed'
  BY DEF InHand, Subscribed
<1>3. \A l : Out(l)' = Out(l) /\ (Acc(l) <=> Out(l)) /\ (Acc(l)' <=> Acc(l) \/ l = Head(logs))
  BY <1>2 DEF Out, Acc
<1>4. Head(logs) \in Nat /\ \A l : l \in unstamped => l \in Nat /\ l # Head(logs)
  <2>1. \A l \in DOMAIN emitted : l \in Nat
    BY LogTypes DEF IInv
  <2>2. \A l : l \in unstamped => l \in Nat /\ l < Head(logs)
    BY <1>1, <2>1 DEF IInv, ShapeInv
  <2>3. Head(logs) \in Nat
    BY <1>1, <2>1
  <2> QED BY <2>2, <2>3
<1>5. ShapeInv'
  BY <1>1, <1>3, <1>4 DEF IInv, ShapeInv
<1>6. OrderInv'
  BY <1>1, <1>3 DEF IInv, OrderInv
<1>7. SubInv'
  BY <1>1, <1>2 DEF IInv, SubInv
<1>8. SkipInv'
  <2> SUFFICES ASSUME ~ cancelled, NEW l \in Decodable, ~ Acc(l), l # Head(logs)
               PROVE  IF emitted[l].sub = sub
                      THEN \E i \in DOMAIN logs' : logs'[i] = l
                      ELSE \A m : Acc(m)' /\ emitted[m].sub = emitted[l].sub => m < l
    BY <1>2, <1>3 DEF SkipInv, Decodable
  <2>1. IF emitted[l].sub = sub
        THEN \E i \in DOMAIN logs : logs[i] = l
        ELSE \A m : Acc(m) /\ emitted[m].sub = emitted[l].sub => m < l
    BY <1>2 DEF IInv, SkipInv
  <2> QED BY <1>1, <1>3, <2>1
<1>9. \A l : Stamp(l)' = Stamp(l)
  BY DEF Stamp, BlockOf, TimeOf
<1>10. Head(logs) \notin unstamped
  BY <1>4
<1>11. Stamp(Head(logs)) = TimeOf(BlockOf(Head(logs)))
  BY <1>10 DEF Stamp
<1>12. StampInv'
  BY <1>9, <1>10, <1>11 DEF IInv, StampInv
<1>13. CacheInv'
  BY DEF IInv, CacheInv, CacheWindow, TimeOf
<1> QED BY <1>5, <1>6, <1>7, <1>8, <1>12, <1>13 DEF IInv

\* The timestamp comes from the cache, which holds the block's own.
LEMMA CacheHitStep == ASSUME IInv, CacheHit PROVE IInv'
<1>1. /\ pc = "reading" /\ logs # <<>> /\ logs' = Tail(logs) /\ cur' = Head(logs)
      /\ BlockOf(Head(logs)) \in DOMAIN entries /\ pc' = "send"
      /\ ts' = entries[BlockOf(cur')]
      /\ UNCHANGED <<cancelled, sub, emitted, entries, latest, events, taken, unstamped>>
  BY DEF UpdateBlock, CacheHit, Stamped, cache, output
<1>2. ts' = entries[BlockOf(Head(logs))]
  BY <1>1 DEF BlockOf
<1>3. ts' = TimeOf(BlockOf(Head(logs))) /\ ts' \in Nat
  BY <1>1, <1>2 DEF IInv, CacheInv, TimeOf
<1>4. InHand'
  BY <1>1 DEF InHand
<1> QED BY <1>1, <1>3, <1>4, HandStep

\* Without a cached timestamp the header is asked for, and the log stays in hand.
LEMMA CacheMissStep == ASSUME IInv, CacheMiss PROVE IInv'
<1>1. /\ pc = "reading" /\ logs # <<>> /\ logs' = Tail(logs) /\ cur' = Head(logs)
      /\ pc' = "header" /\ ts' = ts
      /\ UNCHANGED <<cancelled, sub, emitted, entries, latest, events, taken, unstamped>>
  BY DEF CacheMiss, cache, output
<1>2. InHand' /\ ts' \in Nat
  BY <1>1 DEF InHand, IInv, ShapeInv
<1> QED BY <1>1, <1>2, HandStep

\* The log in hand is one of the emitted ones, later than all that left.
LEMMA LogInHand ==
    ASSUME IInv, InHand
    PROVE  /\ cur \in DOMAIN emitted /\ cur \in Nat /\ BlockOf(cur) \in Nat
           /\ \A l : Out(l) => l \in Nat /\ l < cur
           /\ \A i \in DOMAIN logs : cur < logs[i]
<1>1. Acc(cur)
  BY DEF Acc
<1>2. cur \in DOMAIN emitted
  BY <1>1 DEF IInv, ShapeInv
<1>3. cur \in Nat /\ BlockOf(cur) \in Nat
  BY <1>2, LogTypes DEF IInv, BlockOf
<1>4. \A l : Out(l) => l < cur
  BY DEF IInv, OrderInv
<1>5. \A l : Out(l) => l \in DOMAIN emitted
  BY DEF IInv, ShapeInv, Acc
<1>6. \A l : Out(l) => l \in Nat
  BY <1>5, LogTypes DEF IInv
<1>7. \A i \in DOMAIN logs : cur < logs[i]
  BY <1>1 DEF IInv, OrderInv
<1> QED BY <1>2, <1>3, <1>4, <1>6, <1>7

\* What BlockCache.Set keeps is the window below the newest block.
LEMMA SetWindow ==
    ASSUME IInv, NEW b \in Nat, Set(b, TimeOf(b))
    PROVE  CacheInv'
<1> DEFINE known == [c \in DOMAIN entries \cup {b} |-> IF c = b THEN TimeOf(b) ELSE entries[c]]
<1>1. /\ latest \in Nat /\ DOMAIN entries \subseteq Nat
      /\ \A c \in DOMAIN entries : entries[c] = TimeOf(c)
      /\ latest > 0 => latest \in DOMAIN entries
      /\ \A c \in DOMAIN entries : c <= latest
  BY DEF IInv, CacheInv, CacheWindow
<1>2. /\ latest' = IF b > latest THEN b ELSE latest
      /\ entries' = IF latest' > CacheSize
                    THEN [c \in {c \in DOMAIN known : c >= latest' - CacheSize} |-> known[c]]
                    ELSE known
  BY DEF Set
<1>3. CacheSize \in Nat \ {0}
  BY ConfigAssumption
<1>4. latest' \in Nat /\ b <= latest' /\ latest <= latest'
  BY <1>1, <1>2
<1>5. DOMAIN entries' = {c \in DOMAIN entries \cup {b} :
                         latest' > CacheSize => c >= latest' - CacheSize}
  BY <1>2
<1>6. \A c \in DOMAIN entries' : c \in Nat /\ c <= latest' /\ c >= latest' - CacheSize
  BY <1>1, <1>3, <1>4, <1>5
<1>7. \A c \in DOMAIN entries' : entries'[c] = TimeOf(c)
  BY <1>1, <1>2, <1>5
<1>8. latest' > 0 => latest' \in DOMAIN entries'
  <2>1. latest' = b \/ latest' = latest
    BY <1>2
  <2>2. latest' > 0 => latest' \in DOMAIN entries \cup {b}
    BY <1>1, <2>1
  <2>3. \A n \in Nat, k \in Nat : n >= n - k
    OBVIOUS
  <2>4. latest' >= latest' - CacheSize
    BY <1>3, <1>4, <2>3
  <2> QED BY <1>5, <2>2, <2>4
<1>9. DOMAIN entries' \subseteq Nat /\ DOMAIN entries' \subseteq (latest' - CacheSize)..latest'
  BY <1>3, <1>4, <1>6
<1> QED BY <1>4, <1>7, <1>8, <1>9 DEF CacheInv, CacheWindow, TimeOf

\* The log in hand gets its header: only the cache and the stamp change.
LEMMA HeaderArrivesStep == ASSUME IInv, HeaderArrives PROVE IInv'
<1>1. /\ pc = "header" /\ pc' = "send" /\ ts' = TimeOf(BlockOf(cur))
      /\ Set(BlockOf(cur), TimeOf(BlockOf(cur)))
      /\ UNCHANGED <<cancelled, sub, emitted, logs, cur, events, taken, unstamped>>
  BY DEF UpdateBlock, HeaderArrives, Stamped, output
<1>2. InHand /\ InHand' /\ Subscribed /\ Subscribed'
  BY <1>1 DEF InHand, Subscribed
<1>3. \A l : Out(l)' = Out(l) /\ Acc(l)' = Acc(l)
  BY <1>1, <1>2 DEF Out, Acc
<1>4. BlockOf(cur) \in Nat
  BY <1>2, LogInHand
<1>5. ts' \in Nat
  BY <1>1, <1>4 DEF TimeOf
<1>6. ShapeInv'
  BY <1>1, <1>3, <1>5 DEF IInv, ShapeInv
<1>7. OrderInv'
  BY <1>1, <1>2, <1>3 DEF IInv, OrderInv
<1>8. SubInv' /\ SkipInv'
  BY <1>1, <1>2, <1>3 DEF IInv, SubInv, SkipInv, Decodable
<1>9. \A l : Stamp(l)' = Stamp(l)
  BY <1>1 DEF Stamp, BlockOf, TimeOf
<1>10. ts' = Stamp(cur)
  BY <1>1 DEF IInv, StampInv, Stamp
<1>11. StampInv'
  BY <1>1, <1>9, <1>10 DEF IInv, StampInv
<1>12. CacheInv'
  BY <1>1, <1>4, SetWindow
<1> QED BY <1>6, <1>7, <1>8, <1>11, <1>12 DEF IInv

\* The header is not to be had: no event that left before loses its stamp.
LEMMA HeaderFailsStep == ASSUME IInv, HeaderFails PROVE IInv'
<1>1. /\ pc = "header" /\ pc' = "send" /\ ts' = 0 /\ unstamped' = unstamped \cup {cur}
      /\ UNCHANGED <<cancelled, sub, emitted, logs, cur, entries, latest, events, taken>>
  BY DEF UpdateBlock, HeaderFails, Stamped, cache, output
<1>2. InHand /\ InHand' /\ Subscribed /\ Subscribed'
  BY <1>1 DEF InHand, Subscribed
<1>3. \A l : Out(l)' = Out(l) /\ Acc(l)' = Acc(l)
  BY <1>1, <1>2 DEF Out, Acc
<1>4. /\ cur \in DOMAIN emitted /\ cur \in Nat
      /\ \A l : Out(l) => l \in Nat /\ l < cur
      /\ \A i \in DOMAIN logs : cur < logs[i]
  BY <1>2, LogInHand
<1>5. ShapeInv'
  BY <1>1, <1>3, <1>4 DEF IInv, ShapeInv
<1>6. OrderInv'
  BY <1>1, <1>2, <1>3, <1>4 DEF IInv, OrderInv
<1>7. SubInv' /\ SkipInv'
  BY <1>1, <1>2, <1>3 DEF IInv, SubInv, SkipInv, Decodable
<1>8. \A l : Out(l) => Stamp(l)' = Stamp(l)
  <2> SUFFICES ASSUME NEW l, Out(l) PROVE Stamp(l)' = Stamp(l)
    OBVIOUS
  <2>1. l # cur
    BY <1>4
  <2> QED BY <1>1, <2>1 DEF Stamp, BlockOf, TimeOf
<1>9. Stamp(cur)' = 0
  BY <1>1 DEF Stamp
<1>10. StampInv'
  BY <1>1, <1>8, <1>9 DEF IInv, StampInv, Out
<1>11. CacheInv'
  BY <1>1 DEF IInv, CacheInv, CacheWindow, TimeOf
<1> QED BY <1>5, <1>6, <1>7, <1>10, <1>11 DEF IInv

\* The event of the log in hand joins the channel behind all others.
LEMMA SendStep == ASSUME IInv, Send PROVE IInv'
<1> DEFINE S == [log : Nat, ts : Nat]
           e == [log |-> cur, ts |-> ts]
<1>1. /\ pc = "send" /\ pc' = "reading" /\ events' = Append(events, e)
      /\ UNCHANGED <<cancelled, sub, emitted, logs, cur, ts, entries, latest, taken, unstamped>>
  BY DEF Send, cache
<1>2. events \in Seq(S) /\ e \in S /\ e.log = cur /\ e.ts = ts
  BY DEF IInv, ShapeInv
<1> HIDE DEF S, e
<1>3. /\ events' \in Seq(S) /\ Len(events) \in Nat
      /\ DOMAIN events' = DOMAIN events \cup {Len(events) + 1}
      /\ events'[Len(events) + 1] = e
      /\ \A i \in DOMAIN events : i \in Nat /\ i < Len(events) + 1 /\ events'[i] = events[i]
  BY <1>1, <1>2, Appended
<1>4. InHand /\ ~ InHand' /\ Subscribed /\ Subscribed'
  BY <1>1 DEF InHand, Subscribed
<1>5. /\ cur \in DOMAIN emitted /\ cur \in Nat
      /\ \A l : Out(l) => l \in Nat /\ l < cur
  BY <1>4, LogInHand
<1>6. \A l : Out(l)' <=> Out(l) \/ l = cur
  BY <1>1, <1>2, <1>3 DEF Out
<1>7. \A l : Acc(l)' <=> Acc(l)
  BY <1>4, <1>6 DEF Acc
<1>8. ShapeInv'
  BY <1>1, <1>3, <1>7 DEF IInv, ShapeInv, S
<1>9. OrderInv'
  <2>1. \A i \in DOMAIN events : Out(events[i].log)
    BY DEF Out
  <2>2. \A i \in DOMAIN taken : Out(taken[i].log)
    BY DEF Out
  <2>3. \A i, j \in DOMAIN events' : i < j => events'[i].log < events'[j].log
    BY <1>2, <1>3, <1>5, <2>1 DEF IInv, OrderInv
  <2>4. \A i \in DOMAIN taken, j \in DOMAIN events' : taken[i].log < events'[j].log
    BY <1>2, <1>3, <1>5, <2>2 DEF IInv, OrderInv
  <2> QED BY <1>1, <1>4, <1>7, <2>3, <2>4 DEF IInv, OrderInv
<1>10. SubInv' /\ SkipInv'
  BY <1>1, <1>4, <1>7 DEF IInv, SubInv, SkipInv, Decodable
<1>11. \A l : Stamp(l)' = Stamp(l)
  BY <1>1 DEF Stamp, BlockOf, TimeOf
<1>12. StampInv'
  BY <1>1, <1>2, <1>3, <1>11 DEF IInv, StampInv
<1>13. CacheInv'
  BY <1>1 DEF IInv, CacheInv, CacheWindow, TimeOf
<1> QED BY <1>8, <1>9, <1>10, <1>12, <1>13 DEF IInv

\* A cancelled adapter may lose the log in hand.
LEMMA AbandonSendStep == ASSUME IInv, AbandonSend PROVE IInv'
<1>1. /\ pc = "send" /\ pc' = "reading" /\ cancelled
      /\ UNCHANGED <<cancelled, sub, emitted, logs, cur, ts, entries, latest, events, taken,
                     unstamped>>
  BY DEF AbandonSend, cache, output
<1>2. ~ InHand' /\ Subscribed /\ Subscribed'
  BY <1>1 DEF InHand, Subscribed
<1>3. \A l : Out(l)' = Out(l) /\ (Acc(l)' => Acc(l))
  BY <1>1, <1>2 DEF Out, Acc
<1>4. ShapeInv'
  BY <1>1, <1>3 DEF IInv, ShapeInv
<1>5. OrderInv'
  BY <1>1, <1>2, <1>3 DEF IInv, OrderInv
<1>6. SubInv' /\ SkipInv'
  BY <1>1, <1>2 DEF IInv, SubInv, SkipInv
<1>7. StampInv'
  BY <1>1 DEF IInv, StampInv, Stamp, BlockOf, TimeOf
<1>8. CacheInv'
  BY <1>1 DEF IInv, CacheInv, CacheWindow, TimeOf
<1> QED BY <1>4, <1>5, <1>6, <1>7, <1>8 DEF IInv
-----------------------------------------------------------------------------
\* No step of Start, the node, the reader or the cancellation breaks the invariant.
LEMMA NextInv == IInv /\ [Next]_vars => IInv'
<1> SUFFICES ASSUME IInv, [Next]_vars PROVE IInv'
  OBVIOUS
<1>1. CASE UNCHANGED vars
  BY <1>1, ControlStep DEF vars, data, cache, output
<1>2. CASE Cancel
  <2>1. UNCHANGED data /\ pc' = pc /\ (cancelled => cancelled')
    BY <1>2 DEF Cancel, data, cache, output
  <2> QED BY <2>1, ControlStep
<1>3. CASE Exhausted \/ Connect \/ Failed \/ BackoffElapses \/ BackoffCancelled
  <2>1. /\ UNCHANGED data /\ cancelled' = cancelled
        /\ pc \in {"top", "failed", "backoff"}
        /\ pc' \in {"top", "connecting", "backoff", "ending"}
    BY <1>3 DEF Exhausted, Connect, Failed, BackoffElapses, BackoffCancelled, Leave, data,
                cache, output
  <2>2. ~ Subscribed /\ ~ Subscribed'
    BY <2>1 DEF Subscribed
  <2> QED BY <2>1, <2>2, ControlStep
<1>4. CASE SubscribeFails \/ Disconnect \/ CloseEvents
  <2>1. /\ UNCHANGED data /\ cancelled' = cancelled
        /\ pc \in {"connecting", "ending", "closing"}
        /\ pc' \in {"failed", "closing", "returned"}
    BY <1>4 DEF SetConnected, SubscribeFails, Disconnect, CloseEvents, data, cache, output
  <2>2. ~ Subscribed /\ ~ Subscribed'
    BY <2>1 DEF Subscribed
  <2> QED BY <2>1, <2>2, ControlStep
<1>5. CASE SubscriptionLost \/ SubscriptionEnds \/ ReadingCancelled
  <2>1. /\ pc = "reading" /\ pc' \in {"failed", "ending"}
        /\ logs' = <<>> /\ cancelled' = cancelled
        /\ UNCHANGED <<sub, emitted, cur, ts, cache, events, taken, unstamped>>
    BY <1>5 DEF SubscriptionLost, SubscriptionEnds, ReadingCancelled, Leave, output
  <2>2. ~ Subscribed'
    BY <2>1 DEF Subscribed
  <2> QED BY <2>1, <2>2, LeaveStep
<1>6. CASE Subscribe
  BY <1>6, SubscribeStep
<1>7. CASE Emit
  BY <1>7, EmitStep
<1>8. CASE Take
  BY <1>8, TakeStep
<1>9. CASE ProcessLog
  BY <1>9, SkipUndecodableStep, CacheHitStep, CacheMissStep, HeaderArrivesStep,
     HeaderFailsStep, SendStep, AbandonSendStep DEF ProcessLog
<1> QED BY <1>1, <1>2, <1>3, <1>4, <1>5, <1>6, <1>7, <1>8, <1>9 DEF Next

\* In every reachable state the logs that became events, the log in hand and the
\* channel of the subscription are in the order of emission, and the cache is a window.
THEOREM Invariant == Spec => []IInv
BY InitInv, NextInv, PTL DEF Spec
-----------------------------------------------------------------------------
\* BlockCache.Set, whatever order the blocks come in: the cache holds the newest block
\* it was given and none older than CacheSize blocks before it.
THEOREM Window == Spec => []CacheWindow
<1>1. IInv => CacheWindow
  BY DEF IInv, CacheInv
<1> QED BY Invariant, <1>1, PTL

\* What was handed to the reader, the one taken and the one waiting alike.
LEMMA HandedElements ==
    ASSUME IInv
    PROVE  /\ Handed \in Seq([log : Nat, ts : Nat])
           /\ \A i \in DOMAIN Handed : \/ i \in DOMAIN taken /\ Handed[i] = taken[i]
                                       \/ /\ i - Len(taken) \in DOMAIN events
                                          /\ Handed[i] = events[i - Len(taken)]
                                          /\ i > Len(taken)
           /\ \A i \in DOMAIN taken : i \in DOMAIN Handed /\ Handed[i] = taken[i]
           /\ \A i \in DOMAIN events : /\ i + Len(taken) \in DOMAIN Handed
                                       /\ Handed[i + Len(taken)] = events[i]
<1> DEFINE S == [log : Nat, ts : Nat]
<1>1. taken \in Seq(S) /\ events \in Seq(S)
  BY DEF IInv, ShapeInv
<1> HIDE DEF S
<1>2. /\ Len(taken) \in Nat /\ DOMAIN taken = 1..Len(taken)
      /\ Len(events) \in Nat /\ DOMAIN events = 1..Len(events)
      /\ Handed \in Seq(S) /\ DOMAIN Handed = 1..(Len(taken) + Len(events))
  BY <1>1 DEF Handed
<1>3. \A i \in DOMAIN Handed : Handed[i] = IF i <= Len(taken) THEN taken[i]
                                             ELSE events[i - Len(taken)]
  BY <1>1, <1>2 DEF Handed
<1>4. \A i \in DOMAIN Handed : \/ i \in DOMAIN taken /\ Handed[i] = taken[i]
                               \/ /\ i - Len(taken) \in DOMAIN events
                                  /\ Handed[i] = events[i - Len(taken)]
                                  /\ i > Len(taken)
  BY <1>2, <1>3
<1>5. \A i \in DOMAIN taken : i \in DOMAIN Handed /\ Handed[i] = taken[i]
  BY <1>2, <1>3
<1>6. \A i \in DOMAIN events : /\ i + Len(taken) \in DOMAIN Handed
                               /\ Handed[i + Len(taken)] = events[i]
  BY <1>2, <1>3
<1> QED BY <1>2, <1>4, <1>5, <1>6 DEF S

\* processLog stamps an event with the time of its own block, from the cache or not,
\* and with none exactly when its own header could not be fetched.
THEOREM Stamps == Spec => []EventStamped
<1>1. IInv => EventStamped
  <2> SUFFICES ASSUME IInv PROVE EventStamped
    OBVIOUS
  <2>1. \A i \in DOMAIN Handed : Handed[i].ts = Stamp(Handed[i].log)
    BY HandedElements DEF IInv, StampInv
  <2>2. \A b \in DOMAIN entries : entries[b] = TimeOf(b)
    BY DEF IInv, CacheInv
  <2> QED BY <2>1, <2>2 DEF EventStamped, Stamp
<1> QED BY Invariant, <1>1, PTL

\* Accepted says of a sequence what Out and Acc say of its elements.
LEMMA AcceptedElements ==
    ASSUME IInv
    PROVE  /\ \A l : l \in AcceptedLogs <=> Acc(l)
           /\ \A i, j \in DOMAIN Accepted : i < j => Accepted[i] < Accepted[j]
<1> DEFINE h == [i \in DOMAIN Handed |-> Handed[i].log]
           c == IF pc \in {"header", "send"} THEN <<cur>> ELSE <<>>
<1>1. Handed \in Seq([log : Nat, ts : Nat]) /\ cur \in Nat
  BY HandedElements DEF IInv, ShapeInv
<1>2. /\ Len(Handed) \in Nat /\ DOMAIN Handed = 1..Len(Handed)
      /\ \A i \in DOMAIN Handed : Handed[i].log \in Nat
  <2>1. \A S : \A s \in Seq(S) : /\ Len(s) \in Nat /\ DOMAIN s = 1..Len(s)
                                 /\ \A i \in DOMAIN s : s[i] \in S
    OBVIOUS
  <2>2. \A r \in [log : Nat, ts : Nat] : r.log \in Nat
    OBVIOUS
  <2> QED BY <1>1, <2>1, <2>2
<1>3. h \in Seq(Nat) /\ Len(h) = Len(Handed)
  BY <1>2
<1>4. c \in Seq(Nat) /\ Len(c) = IF InHand THEN 1 ELSE 0
  BY <1>1 DEF InHand
<1>5. InHand => c[1] = cur
  BY DEF InHand
<1>6. /\ DOMAIN Accepted = 1..(Len(Handed) + Len(c))
      /\ \A i \in DOMAIN Accepted :
             Accepted[i] = IF i <= Len(Handed) THEN h[i] ELSE c[i - Len(Handed)]
  <2>1. Accepted = h \o c
    BY DEF Accepted
  <2> HIDE DEF h, c
  <2>2. /\ DOMAIN Accepted = 1..(Len(h) + Len(c))
        /\ \A i \in DOMAIN Accepted :
               Accepted[i] = IF i <= Len(h) THEN h[i] ELSE c[i - Len(h)]
    <3>1. h \in Seq(Nat) /\ c \in Seq(Nat)
      BY <1>3, <1>4
    <3> QED BY ONLY <3>1, <2>1, Joined
  <2> QED BY <1>3, <2>2
<1>7. \A i \in DOMAIN Accepted :
          \/ i \in DOMAIN Handed /\ Accepted[i] = Handed[i].log
          \/ InHand /\ i = Len(Handed) + 1 /\ Accepted[i] = cur
  <2> HIDE DEF c
  <2> QED BY <1>2, <1>4, <1>5, <1>6
<1>8. \A i \in DOMAIN Handed : i \in DOMAIN Accepted /\ Accepted[i] = Handed[i].log
  <2> HIDE DEF c
  <2> QED BY <1>2, <1>4, <1>6
<1>9. InHand => Len(Handed) + 1 \in DOMAIN Accepted /\ Accepted[Len(Handed) + 1] = cur
  <2> HIDE DEF c, h
  <2> QED BY <1>2, <1>4, <1>5, <1>6
<1> HIDE DEF h, c
<1>10. \A l : Out(l) <=> \E i \in DOMAIN Handed : Handed[i].log = l
  BY HandedElements DEF Out
<1>11. \A l : l \in AcceptedLogs <=> Acc(l)
  BY <1>7, <1>8, <1>9, <1>10 DEF AcceptedLogs, Acc
<1>12. \A i, j \in DOMAIN Handed : i < j => Handed[i].log < Handed[j].log
  <2> SUFFICES ASSUME NEW i \in DOMAIN Handed, NEW j \in DOMAIN Handed, i < j
               PROVE  Handed[i].log < Handed[j].log
    OBVIOUS
  <2>1. i \in Nat /\ j \in Nat
    BY <1>2
  <2>2. Len(taken) \in Nat /\ DOMAIN taken = 1..Len(taken)
    BY DEF IInv, ShapeInv
  <2>3. CASE j \in DOMAIN taken /\ Handed[j] = taken[j]
    <3>1. i \in DOMAIN taken
      BY <1>2, <2>1, <2>2, <2>3
    <3> QED BY <2>3, <3>1, HandedElements DEF IInv, OrderInv
  <2>4. CASE /\ j - Len(taken) \in DOMAIN events /\ Handed[j] = events[j - Len(taken)]
    <3>1. CASE i \in DOMAIN taken /\ Handed[i] = taken[i]
      BY <2>4, <3>1 DEF IInv, OrderInv
    <3>2. CASE i - Len(taken) \in DOMAIN events /\ Handed[i] = events[i - Len(taken)]
      <4>1. i - Len(taken) < j - Len(taken)
        BY <2>1, <2>2
      <4> QED BY <2>4, <3>2, <4>1 DEF IInv, OrderInv
    <3> QED BY <3>1, <3>2, HandedElements
  <2> QED BY <2>3, <2>4, HandedElements
<1>13. \A i, j \in DOMAIN Accepted : i < j => Accepted[i] < Accepted[j]
  <2> SUFFICES ASSUME NEW i \in DOMAIN Accepted, NEW j \in DOMAIN Accepted, i < j
               PROVE  Accepted[i] < Accepted[j]
    OBVIOUS
  <2>1. CASE j \in DOMAIN Handed
    <3>1. i \in DOMAIN Handed
      BY <1>2, <1>7, <2>1
    <3> QED BY <1>8, <1>12, <2>1, <3>1
  <2>2. CASE InHand /\ j = Len(Handed) + 1 /\ Accepted[j] = cur
    <3>1. i \in DOMAIN Handed
      BY <1>2, <1>7, <2>2
    <3>2. Out(Handed[i].log)
      BY <1>10, <3>1
    <3>3. Handed[i].log < cur
      BY <2>2, <3>2 DEF IInv, OrderInv
    <3> QED BY <1>8, <2>2, <3>1, <3>3
  <2> QED BY <1>7, <2>1, <2>2
<1> QED BY <1>11, <1>13

\* Over all the connections WithReconnect makes, processLog hands out logs in the order
\* of emission, none twice, and before a cancellation loses only those a broken
\* subscription still had in its channel.
THEOREM Skips == Spec => []NothingSkipped
<1>1. IInv => NothingSkipped
  <2> SUFFICES ASSUME IInv PROVE NothingSkipped
    OBVIOUS
  <2>1. \A i, j \in DOMAIN Accepted : i < j => Accepted[i] < Accepted[j]
    BY AcceptedElements
  <2>2. ASSUME ~ cancelled, NEW l \in Decodable, l \notin AcceptedLogs
        PROVE  IF Subscribed /\ emitted[l].sub = sub
               THEN \E i \in DOMAIN logs : logs[i] = l
               ELSE \A m \in AcceptedLogs : emitted[m].sub = emitted[l].sub => m < l
    BY <2>2, AcceptedElements DEF IInv, SkipInv
  <2> QED BY <2>1, <2>2 DEF NothingSkipped
<1> QED BY Invariant, <1>1, PTL
-----------------------------------------------------------------------------
(* Types, the attempts of WithReconnect, and what the status tracker is told. *)

Retries == IF cfg.retries < 0 THEN 0 ELSE cfg.retries
Ended == pc \in {"ending", "closing", "returned"}

ControlInv ==
    /\ cfg \in Backoffs /\ cancelled \in BOOLEAN /\ pc \in Place
    /\ connected \in BOOLEAN /\ closed \in BOOLEAN
    /\ result \in {"running", "nil", "cancelled", "exhausted"}
    /\ attempt \in Nat /\ losses \in Nat /\ backoff \in Int
    /\ waits \in Seq(Int) /\ Len(waits) = attempt
    /\ Len(events) <= EventBuffer

\* A connection may follow only an attempt that is left, and every loss but the last
\* one is followed by the next attempt.
CountInv ==
    /\ attempt > 0 => attempt < cfg.retries
    /\ Subscribed \/ pc \in {"connecting", "failed"} => attempt < cfg.retries
    /\ Subscribed \/ pc \in {"top", "connecting", "failed"} => losses = attempt
    /\ pc = "backoff" => losses = attempt + 1 /\ losses < cfg.retries
    /\ pc \in {"top", "connecting", "backoff"} => sub <= losses
    /\ Subscribed \/ pc = "failed" => sub <= losses + 1
    /\ Ended => losses <= Retries /\ sub <= Retries
    /\ result = "exhausted" => Ended /\ losses = Retries

\* The next wait follows from the last one.
WaitInv ==
    /\ backoff = IF waits = <<>> THEN cfg.initial
                 ELSE Smaller(2 * waits[Len(waits)], cfg.max)
    /\ waits # <<>> => waits[1] = cfg.initial
    /\ \A i \in DOMAIN waits :
           i > 1 => waits[i] = Smaller(2 * waits[i - 1], cfg.max)

TrackInv ==
    /\ Subscribed => connected
    /\ pc \in {"closing", "returned"} => ~ connected
    /\ closed => pc = "returned"
    /\ ~ cancelled =>
           lastBlock = IF pc = "send" THEN BlockOf(cur)
                       ELSE IF events # <<>> THEN BlockOf(events[Len(events)].log)
                       ELSE IF taken # <<>> THEN BlockOf(taken[Len(taken)].log)
                       ELSE 0

\* Only decoded logs are fetched for, and those have a block.
BlockInv ==
    /\ emitted \in Seq([block : 0..MaxBlock, decodable : BOOLEAN, sub : Nat])
    /\ \A l \in DOMAIN emitted : emitted[l].decodable => emitted[l].block > 0
    /\ InHand => emitted[cur].decodable
    /\ cur \in 0..Len(emitted)
    /\ entries \in [DOMAIN entries -> Nat] /\ DOMAIN entries \subseteq 1..MaxBlock
    /\ latest \in 0..MaxBlock /\ lastBlock \in 0..MaxBlock

Bookkeeping == ControlInv /\ CountInv /\ WaitInv /\ TrackInv /\ BlockInv

\* Start has made no attempt yet, and the tracker knows of none.
LEMMA InitBookkeeping == Init => Bookkeeping
<1> SUFFICES ASSUME Init PROVE Bookkeeping
  OBVIOUS
<1> USE ConfigAssumption DEF Init
<1>1. ControlInv
  <2>1. cfg \in [initial : Int, max : Int, retries : Int] /\ waits \in Seq(Int)
    OBVIOUS
  <2>2. backoff \in Int /\ Len(waits) = attempt /\ Len(events) <= EventBuffer
    BY <2>1
  <2>3. cancelled \in BOOLEAN /\ connected \in BOOLEAN /\ closed \in BOOLEAN
    OBVIOUS
  <2>4. cfg \in Backoffs /\ pc \in Place /\ result = "running"
    BY DEF Place
  <2>5. attempt \in Nat /\ losses \in Nat
    OBVIOUS
  <2> QED BY ONLY <2>1, <2>2, <2>3, <2>4, <2>5 DEF ControlInv
<1>2. CountInv
  BY DEF CountInv, Subscribed, Ended
<1>3. WaitInv
  BY DEF WaitInv
<1>4. TrackInv
  BY DEF TrackInv, Subscribed
<1>5. BlockInv
  BY DEF BlockInv, InHand
<1> QED BY <1>1, <1>2, <1>3, <1>4, <1>5 DEF Bookkeeping

\* The channel of events grows only where it has room.
LEMMA EventsBound == ASSUME IInv, ControlInv, Next PROVE Len(events') <= EventBuffer
<1>1. /\ events \in Seq([log : Nat, ts : Nat]) /\ Len(events) \in Nat
      /\ Len(events) <= EventBuffer /\ EventBuffer \in Nat
  BY ConfigAssumption DEF IInv, ShapeInv, ControlInv
<1>2. CASE Take
  <2>1. events' = Tail(events) /\ events # <<>>
    BY <1>2 DEF Take
  <2>2. Len(events') = Len(events) - 1
    BY <1>1, <2>1, Shortened
  <2> QED BY <1>1, <2>2
<1>3. CASE Send
  <2>1. events' = Append(events, [log |-> cur, ts |-> ts]) /\ Len(events) < EventBuffer
    BY <1>3 DEF Send
  <2>2. Len(events') = Len(events) + 1
    BY <1>1, <2>1
  <2> QED BY <1>1, <2>1, <2>2
<1>4. CASE events' = events
  BY <1>1, <1>4
<1>5. CASE \/ Cancel \/ Emit \/ Exhausted \/ Connect \/ Failed \/ BackoffElapses
           \/ BackoffCancelled \/ Subscribe \/ SubscribeFails \/ SubscriptionLost
           \/ SubscriptionEnds \/ ReadingCancelled
  BY <1>4, <1>5 DEF SetConnected, Cancel, Emit, Exhausted, Connect, Failed, BackoffElapses,
     BackoffCancelled,
     Subscribe, SubscribeFails, SubscriptionLost, SubscriptionEnds, ReadingCancelled, output
<1>6. CASE \/ SkipUndecodable \/ CacheHit \/ CacheMiss \/ HeaderArrives \/ HeaderFails
           \/ AbandonSend \/ Disconnect \/ CloseEvents
  BY <1>4, <1>6 DEF SetConnected, SkipUndecodable, CacheHit, CacheMiss, HeaderArrives, HeaderFails,
     AbandonSend, Disconnect, CloseEvents, output
<1> QED BY <1>2, <1>3, <1>5, <1>6 DEF Next, ProcessLog

\* Every step leaves the variables of control in their types, and a wait is one attempt.
LEMMA ControlKept == ASSUME IInv, Bookkeeping, Next PROVE ControlInv'
<1>1. /\ ControlInv /\ attempt \in Nat /\ losses \in Nat /\ Len(events') <= EventBuffer
      /\ cfg \in [initial : Int, max : Int, retries : Int] /\ cfg.initial \in Int /\ cfg.max \in Int
  BY EventsBound, ConfigAssumption DEF Bookkeeping, ControlInv
<1>2. CASE Cancel \/ Emit \/ Take
  BY <1>1, <1>2 DEF ControlInv, Cancel, Emit, Take, reconnect, status, output
<1>3. CASE Exhausted \/ Connect \/ Failed \/ BackoffCancelled
  BY <1>1, <1>3 DEF ControlInv, Place, Exhausted, Connect, Failed, BackoffCancelled, Leave,
     reconnect, status, output
<1>4. CASE BackoffElapses
  <2>1. /\ waits' = Append(waits, backoff) /\ backoff' = Smaller(2 * backoff, cfg.max)
        /\ attempt' = attempt + 1 /\ pc' = "top"
        /\ UNCHANGED <<cfg, cancelled, losses, connected, closed, events, result>>
    BY <1>4 DEF BackoffElapses, status, output
  <2>2. waits' \in Seq(Int) /\ Len(waits') = attempt'
    BY <1>1, <2>1 DEF ControlInv
  <2>3. backoff' \in Int
    BY <1>1, <2>1 DEF ControlInv, Smaller
  <2> QED BY <1>1, <2>1, <2>2, <2>3 DEF ControlInv, Place
<1>5. CASE \/ Subscribe \/ SubscribeFails \/ SubscriptionLost \/ SubscriptionEnds
           \/ ReadingCancelled
  <2> USE DEF SetConnected, Subscribe, SubscribeFails, SubscriptionLost, SubscriptionEnds,
              ReadingCancelled, Leave, reconnect, status, output
  <2>1. pc' \in Place /\ losses' \in Nat
    BY <1>1, <1>5 DEF Place
  <2>2. result' \in {result, "nil", "cancelled"}
    BY <1>5
  <2>3. connected' = connected \/ connected' = TRUE
    BY <1>5
  <2>4. UNCHANGED <<cfg, cancelled, closed, attempt, backoff, waits>>
    BY <1>5
  <2> QED BY ONLY <1>1, <2>1, <2>2, <2>3, <2>4 DEF ControlInv
<1>6. CASE SkipUndecodable \/ CacheHit \/ CacheMiss \/ HeaderArrives \/ HeaderFails
  BY <1>1, <1>6 DEF UpdateBlock, ControlInv, Place, SkipUndecodable, CacheHit, CacheMiss,
     HeaderArrives, HeaderFails, Stamped, reconnect, status, output
<1>7. CASE Send \/ AbandonSend \/ Disconnect \/ CloseEvents
  <2>1. /\ pc' \in Place /\ connected' \in BOOLEAN /\ closed' \in BOOLEAN
        /\ UNCHANGED <<cfg, cancelled, result, attempt, losses, backoff, waits>>
    BY <1>1, <1>7 DEF SetConnected, ControlInv, Place, Send, AbandonSend, Disconnect, CloseEvents,
       reconnect, status, output
  <2> QED BY <1>1, <2>1 DEF ControlInv
<1> QED BY <1>2, <1>3, <1>4, <1>5, <1>6, <1>7 DEF Next, ProcessLog

\* Each attempt is used up by at most one connection and one loss.
LEMMA CountKept == ASSUME IInv, Bookkeeping, Next PROVE CountInv'
<1>1. /\ CountInv /\ attempt \in Nat /\ losses \in Nat /\ sub \in Nat /\ cfg.retries \in Int
      /\ pc \in Place
  BY ConfigAssumption DEF Bookkeeping, ControlInv, IInv, ShapeInv
<1> USE DEF CountInv, Subscribed, Ended, Retries, reconnect
<1>2. CASE Cancel \/ Emit \/ Take
  BY <1>1, <1>2 DEF Cancel, Emit, Take
<1>3. CASE Exhausted
  BY <1>1, <1>3 DEF Exhausted, Leave
<1>4. CASE Connect
  BY <1>1, <1>4 DEF Connect, Leave
<1>5. CASE Failed
  BY <1>1, <1>5 DEF Failed, Leave
<1>6. CASE BackoffElapses \/ BackoffCancelled
  BY <1>1, <1>6 DEF BackoffElapses, BackoffCancelled, Leave
<1>7. CASE Subscribe \/ SubscribeFails \/ SubscriptionLost
  BY <1>1, <1>7 DEF SetConnected, Subscribe, SubscribeFails, SubscriptionLost
<1>8. CASE SubscriptionEnds \/ ReadingCancelled
  BY <1>1, <1>8 DEF SubscriptionEnds, ReadingCancelled, Leave
<1>9. CASE SkipUndecodable \/ CacheHit \/ CacheMiss \/ HeaderArrives \/ HeaderFails
  BY <1>1, <1>9 DEF UpdateBlock, SkipUndecodable, CacheHit, CacheMiss, HeaderArrives, HeaderFails,
     Stamped
<1>10. CASE Send \/ AbandonSend \/ Disconnect \/ CloseEvents
  BY <1>1, <1>10 DEF SetConnected, Send, AbandonSend, Disconnect, CloseEvents
<1> QED BY <1>2, <1>3, <1>4, <1>5, <1>6, <1>7, <1>8, <1>9, <1>10 DEF Next, ProcessLog

\* Only a wait that elapses changes the waits and the next one.
LEMMA WaitKept == ASSUME IInv, Bookkeeping, Next PROVE WaitInv'
<1>1. WaitInv /\ waits \in Seq(Int) /\ backoff \in Int
  BY DEF Bookkeeping, ControlInv
<1>2. CASE UNCHANGED <<cfg, backoff, waits>>
  BY <1>1, <1>2 DEF WaitInv
<1>3. CASE BackoffElapses
  <2>1. /\ waits' = Append(waits, backoff) /\ backoff' = Smaller(2 * backoff, cfg.max)
        /\ cfg' = cfg
    BY <1>3 DEF BackoffElapses
  <2>2. /\ waits' \in Seq(Int) /\ Len(waits) \in Nat /\ Len(waits') = Len(waits) + 1
        /\ DOMAIN waits' = DOMAIN waits \cup {Len(waits) + 1}
        /\ waits'[Len(waits) + 1] = backoff
        /\ \A i \in DOMAIN waits : i \in Nat /\ i < Len(waits) + 1 /\ waits'[i] = waits[i]
    BY <1>1, <2>1, Appended
  <2>3. DOMAIN waits = 1..Len(waits) /\ (waits = <<>> <=> Len(waits) = 0) /\ waits' # <<>>
    BY <1>1, <2>1, <2>2
  <2>4. backoff' = Smaller(2 * waits'[Len(waits')], cfg.max)
    BY <2>1, <2>2
  <2>5. waits'[1] = cfg.initial
    <3>1. CASE waits = <<>>
      BY <1>1, <2>2, <2>3, <3>1 DEF WaitInv
    <3>2. CASE waits # <<>>
      <4>1. 1 \in DOMAIN waits
        BY <2>2, <2>3, <3>2
      <4> QED BY <1>1, <2>2, <3>2, <4>1 DEF WaitInv
    <3> QED BY <3>1, <3>2
  <2>6. ASSUME NEW i \in DOMAIN waits', i > 1
        PROVE  waits'[i] = Smaller(2 * waits'[i - 1], cfg.max)
    <3>1. i - 1 \in DOMAIN waits /\ waits # <<>>
      BY <2>2, <2>3, <2>6
    <3>2. CASE i \in DOMAIN waits
      BY <1>1, <2>2, <2>6, <3>1, <3>2 DEF WaitInv
    <3>3. CASE i = Len(waits) + 1
      <4>1. i - 1 = Len(waits)
        BY <2>2, <3>3
      <4> QED BY <1>1, <2>2, <3>1, <3>3, <4>1 DEF WaitInv
    <3> QED BY <2>2, <2>6, <3>2, <3>3
  <2> QED BY <2>1, <2>3, <2>4, <2>5, <2>6 DEF WaitInv
<1>4. CASE \/ Cancel \/ Emit \/ Take \/ Exhausted \/ Connect \/ Failed \/ BackoffCancelled
           \/ Subscribe \/ SubscribeFails \/ SubscriptionLost \/ SubscriptionEnds
           \/ ReadingCancelled
  BY <1>2, <1>4 DEF SetConnected, Cancel, Emit, Take, Exhausted, Connect, Failed, BackoffCancelled,
     Subscribe, SubscribeFails, SubscriptionLost, SubscriptionEnds, ReadingCancelled, reconnect
<1>5. CASE ProcessLog \/ Disconnect \/ CloseEvents
  BY <1>2, <1>5 DEF SetConnected, ProcessLog, SkipUndecodable, CacheHit, CacheMiss, HeaderArrives,
     HeaderFails, Send, AbandonSend, Disconnect, CloseEvents, reconnect
<1> QED BY <1>3, <1>4, <1>5 DEF Next

\* A log that was emitted keeps its block and its record.
LEMMA EmittedKept ==
    ASSUME IInv, Next, NEW l \in DOMAIN emitted
    PROVE  l \in DOMAIN emitted' /\ emitted'[l] = emitted[l]
<1>1. CASE Emit
  <2>1. PICK b \in 0..MaxBlock :
            emitted' = Append(emitted, [block |-> b, decodable |-> b > 0, sub |-> sub])
    BY <1>1 DEF Emit
  <2>2. [block |-> b, decodable |-> b > 0, sub |-> sub] \in LogRecord
    BY ConfigAssumption DEF IInv, ShapeInv, LogRecord
  <2>3. emitted \in Seq(LogRecord)
    BY DEF IInv, ShapeInv
  <2> QED BY <2>1, <2>2, <2>3, Appended
<1>2. CASE \/ Cancel \/ Take \/ Exhausted \/ Connect \/ Failed \/ BackoffElapses
           \/ BackoffCancelled \/ Subscribe \/ SubscribeFails \/ SubscriptionLost
           \/ SubscriptionEnds \/ ReadingCancelled
  BY <1>2 DEF SetConnected, Cancel, Take, Exhausted, Connect, Failed, BackoffElapses,
     BackoffCancelled,
     Subscribe, SubscribeFails, SubscriptionLost, SubscriptionEnds, ReadingCancelled
<1>3. CASE ProcessLog \/ Disconnect \/ CloseEvents
  BY <1>3 DEF SetConnected, ProcessLog, SkipUndecodable, CacheHit, CacheMiss, HeaderArrives,
     HeaderFails, Send, AbandonSend, Disconnect, CloseEvents
<1> QED BY <1>1, <1>2, <1>3 DEF Next

\* The block of the last event handed out: what lastBlock is while none is in hand.
LastHanded ==
    IF events # <<>> THEN BlockOf(events[Len(events)].log)
    ELSE IF taken # <<>> THEN BlockOf(taken[Len(taken)].log)
    ELSE 0

\* Emission changes no block of an event, and the reader's turn no last event.
LEMMA LastHandedKept ==
    ASSUME IInv, Next, ~ Send
    PROVE  LastHanded' = LastHanded
<1> DEFINE S == [log : Nat, ts : Nat]
<1>1. taken \in Seq(S) /\ events \in Seq(S)
  BY DEF IInv, ShapeInv
<1>2. /\ \A i \in DOMAIN events : events[i].log \in DOMAIN emitted
      /\ \A i \in DOMAIN taken : taken[i].log \in DOMAIN emitted
  BY DEF IInv, ShapeInv, Acc, Out
<1> HIDE DEF S
<1>3. /\ Len(events) \in Nat /\ DOMAIN events = 1..Len(events)
      /\ Len(taken) \in Nat /\ DOMAIN taken = 1..Len(taken)
      /\ (events # <<>> => Len(events) \in DOMAIN events)
      /\ (taken # <<>> => Len(taken) \in DOMAIN taken)
  BY <1>1
<1>4. \A l \in DOMAIN emitted : BlockOf(l)' = BlockOf(l)
  BY EmittedKept DEF BlockOf
<1>5. CASE UNCHANGED <<events, taken>>
  BY <1>2, <1>3, <1>4, <1>5 DEF LastHanded, BlockOf
<1>6. CASE Take
  <2>1. /\ events # <<>> /\ taken' = Append(taken, Head(events)) /\ events' = Tail(events)
        /\ emitted' = emitted
    BY <1>6 DEF Take
  <2>2. /\ events' \in Seq(S) /\ Head(events) = events[1] /\ events[1] \in S
        /\ \A i \in DOMAIN events' : events'[i] = events[i + 1]
        /\ Len(events') = Len(events) - 1
    BY <1>1, <2>1, Shortened
  <2>3. taken' \in Seq(S) /\ Len(taken') = Len(taken) + 1 /\ taken'[Len(taken')] = events[1]
    BY <1>1, <2>1, <2>2, Appended
  <2>4. /\ taken' # <<>> /\ (events' = <<>> <=> Len(events) = 1)
        /\ (events' # <<>> => Len(events') \in DOMAIN events')
    BY <1>3, <2>1, <2>2, <2>3
  <2>5. CASE events' = <<>>
    BY <2>1, <2>3, <2>4, <2>5 DEF LastHanded, BlockOf
  <2>6. CASE events' # <<>>
    <3>1. events'[Len(events')] = events[Len(events)]
      BY <1>3, <2>2, <2>4, <2>6
    <3> QED BY <2>1, <2>6, <3>1 DEF LastHanded, BlockOf
  <2> QED BY <2>5, <2>6
<1>7. CASE \/ Cancel \/ Emit \/ Exhausted \/ Connect \/ Failed \/ BackoffElapses
           \/ BackoffCancelled \/ Subscribe \/ SubscribeFails \/ SubscriptionLost
           \/ SubscriptionEnds \/ ReadingCancelled
  BY <1>5, <1>7 DEF SetConnected, Cancel, Emit, Exhausted, Connect, Failed, BackoffElapses,
     BackoffCancelled,
     Subscribe, SubscribeFails, SubscriptionLost, SubscriptionEnds, ReadingCancelled, output
<1>8. CASE \/ SkipUndecodable \/ CacheHit \/ CacheMiss \/ HeaderArrives \/ HeaderFails
           \/ AbandonSend \/ Disconnect \/ CloseEvents
  BY <1>5, <1>8 DEF SetConnected, SkipUndecodable, CacheHit, CacheMiss, HeaderArrives, HeaderFails,
     AbandonSend, Disconnect, CloseEvents, output
<1> QED BY <1>6, <1>7, <1>8 DEF Next, ProcessLog

\* The tracker learns of a block when its event is ready to be sent, and an event is
\* given up only after a cancellation.
LEMMA TrackKept == ASSUME IInv, Bookkeeping, Next PROVE TrackInv'
<1>1. /\ Subscribed => connected
      /\ pc \in {"closing", "returned"} => ~ connected
      /\ closed => pc = "returned"
      /\ ~ cancelled => lastBlock = IF pc = "send" THEN BlockOf(cur) ELSE LastHanded
  BY DEF Bookkeeping, TrackInv, LastHanded
<1>2. \A l \in DOMAIN emitted : BlockOf(l)' = emitted[l].block
  BY EmittedKept DEF BlockOf
<1>3. InHand => cur \in DOMAIN emitted
  BY DEF IInv, ShapeInv, Acc
<1>4. SUFFICES /\ Subscribed' => connected'
               /\ pc' \in {"closing", "returned"} => ~ connected'
               /\ closed' => pc' = "returned"
               /\ ~ cancelled' => lastBlock' = IF pc' = "send" THEN BlockOf(cur)'
                                               ELSE LastHanded'
  BY DEF TrackInv, LastHanded
<1>5. CASE Cancel \/ Emit \/ Take
  <2>1. /\ UNCHANGED <<pc, connected, lastBlock, closed, cur>> /\ (cancelled => cancelled')
    BY <1>5 DEF Cancel, Emit, Take, status, output
  <2>2. ~ Send
    BY <1>5, <1>1 DEF Send, Cancel, Emit, Take
  <2>3. LastHanded' = LastHanded
    BY <2>2, LastHandedKept
  <2>4. pc = "send" => BlockOf(cur)' = BlockOf(cur)
    BY <1>2, <1>3, <2>1 DEF InHand, BlockOf
  <2> QED BY <1>1, <2>1, <2>3, <2>4 DEF Subscribed
<1>6. CASE Send
  <2>1. /\ pc = "send" /\ pc' = "reading" /\ events' = Append(events, [log |-> cur, ts |-> ts])
        /\ UNCHANGED <<cancelled, emitted, connected, lastBlock, closed>>
    BY <1>6 DEF Send, status
  <2>2. events \in Seq([log : Nat, ts : Nat]) /\ [log |-> cur, ts |-> ts] \in [log : Nat, ts : Nat]
    BY DEF IInv, ShapeInv
  <2>3. events' # <<>> /\ events'[Len(events')] = [log |-> cur, ts |-> ts]
    BY <2>1, <2>2, Appended
  <2>4. LastHanded' = BlockOf(cur)
    BY <2>1, <2>3 DEF LastHanded, BlockOf
  <2> QED BY <1>1, <2>1, <2>4 DEF Subscribed
<1>7. CASE CacheHit \/ HeaderArrives \/ HeaderFails
  <2>1. /\ pc' = "send" /\ Subscribed
        /\ lastBlock' = BlockOf(cur') /\ UNCHANGED <<cancelled, emitted, connected, closed>>
    BY <1>7 DEF UpdateBlock, CacheHit, HeaderArrives, HeaderFails, Stamped, output, Subscribed
  <2> QED BY <1>1, <2>1 DEF Subscribed, BlockOf
<1>8. ASSUME ~ Send, pc' # "send", lastBlock' = lastBlock, cancelled' = cancelled,
             pc = "send" => cancelled
      PROVE  ~ cancelled' => lastBlock' = IF pc' = "send" THEN BlockOf(cur)' ELSE LastHanded'
  BY <1>1, <1>8, LastHandedKept
<1>9. CASE \/ Exhausted \/ Connect \/ Failed \/ BackoffElapses \/ BackoffCancelled
           \/ SubscribeFails \/ SubscriptionLost \/ SubscriptionEnds \/ ReadingCancelled
           \/ Disconnect \/ CloseEvents
  <2> USE DEF SetConnected, Exhausted, Connect, Failed, BackoffElapses, BackoffCancelled,
              SubscribeFails,
              SubscriptionLost, SubscriptionEnds, ReadingCancelled, Disconnect, CloseEvents, Leave
  <2>1. /\ pc # "send" /\ pc' # "send" /\ lastBlock' = lastBlock /\ cancelled' = cancelled
        /\ ~ Subscribed'
    BY <1>9 DEF status, Subscribed
  <2>2. /\ pc' \in {"closing", "returned"} => ~ connected'
        /\ closed' => pc' = "returned"
    BY <1>1, <1>9 DEF status, output
  <2>3. ~ Send
    BY <2>1 DEF Send
  <2> HIDE DEF SetConnected, Exhausted, Connect, Failed, BackoffElapses, BackoffCancelled,
               SubscribeFails,
               SubscriptionLost, SubscriptionEnds, ReadingCancelled, Disconnect, CloseEvents, Leave
  <2> QED BY <1>8, <2>1, <2>2, <2>3
<1>10. CASE Subscribe \/ SkipUndecodable \/ CacheMiss \/ AbandonSend
  <2>1. /\ pc' \in {"reading", "header"} /\ UNCHANGED <<cancelled, closed, lastBlock>>
        /\ pc = "send" => cancelled
        /\ connected' = TRUE \/ (Subscribed /\ connected' = connected)
        /\ pc \in {"connecting", "reading", "send"}
    BY <1>10 DEF SetConnected, Subscribe, SkipUndecodable, CacheMiss, AbandonSend, status, output,
       Subscribed
  <2>2. ~ Send
    BY <1>10 DEF SetConnected, Send, Subscribe, SkipUndecodable, CacheMiss, AbandonSend, output
  <2> QED BY <1>1, <1>8, <2>1, <2>2 DEF Subscribed
<1> QED BY <1>5, <1>6, <1>7, <1>9, <1>10 DEF Next, ProcessLog

\* Headers are fetched for decoded logs, whose blocks are above 0.
LEMMA BlockKept == ASSUME IInv, IInv', Bookkeeping, Next PROVE BlockInv'
<1> DEFINE R == [block : 0..MaxBlock, decodable : BOOLEAN, sub : Nat]
<1>1. /\ emitted \in Seq(R) /\ cur \in 0..Len(emitted) /\ Len(emitted) \in Nat
      /\ \A l \in DOMAIN emitted : emitted[l].decodable => emitted[l].block > 0
      /\ InHand => emitted[cur].decodable
      /\ entries \in [DOMAIN entries -> Nat] /\ DOMAIN entries \subseteq 1..MaxBlock
      /\ latest \in 0..MaxBlock /\ lastBlock \in 0..MaxBlock /\ MaxBlock \in Nat
  BY ConfigAssumption DEF Bookkeeping, BlockInv
<1>2. \A l \in DOMAIN emitted :
          /\ l \in 1..Len(emitted) /\ BlockOf(l) \in 0..MaxBlock
          /\ emitted[l].decodable => BlockOf(l) \in 1..MaxBlock
  <2> SUFFICES ASSUME NEW l \in DOMAIN emitted
               PROVE  /\ l \in 1..Len(emitted) /\ BlockOf(l) \in 0..MaxBlock
                      /\ emitted[l].decodable => BlockOf(l) \in 1..MaxBlock
    OBVIOUS
  <2>1. emitted[l] \in R /\ l \in 1..Len(emitted)
    <3> HIDE DEF R
    <3> QED BY <1>1
  <2>2. BlockOf(l) \in 0..MaxBlock
    BY <2>1 DEF BlockOf
  <2>3. emitted[l].decodable => BlockOf(l) > 0
    BY <1>1 DEF BlockOf
  <2> QED BY <1>1, <2>1, <2>2, <2>3
<1>3. InHand => cur \in DOMAIN emitted /\ BlockOf(cur) \in 1..MaxBlock
  <2>1. InHand => cur \in DOMAIN emitted
    BY DEF IInv, ShapeInv, Acc
  <2>2. InHand => emitted[cur].decodable
    BY <1>1
  <2> QED BY <1>2, <2>1, <2>2
<1> HIDE DEF R
<1>4. ASSUME UNCHANGED <<emitted, cur, entries, latest, lastBlock>>, InHand' => InHand
      PROVE  BlockInv'
  BY <1>1, <1>4 DEF BlockInv, R
<1>5. CASE Emit
  <2>1. PICK b \in 0..MaxBlock :
            emitted' = Append(emitted, [block |-> b, decodable |-> b > 0, sub |-> sub])
    BY <1>5 DEF Emit
  <2>2. UNCHANGED <<pc, cur, entries, latest, lastBlock>>
    BY <1>5 DEF Emit, cache, status
  <2>3. sub \in Nat
    BY DEF IInv, ShapeInv
  <2> USE DEF R
  <2> DEFINE r == [block |-> b, decodable |-> b > 0, sub |-> sub]
  <2>4. r \in R /\ (r.decodable => r.block > 0)
    <3>1. r \in R
      BY <2>3
    <3>2. r.decodable => r.block > 0
      BY Zenon
    <3> QED BY <3>1, <3>2
  <2>9. emitted' = Append(emitted, r)
    BY <2>1
  <2> HIDE DEF R, r
  <2>5. /\ emitted' \in Seq(R) /\ Len(emitted') = Len(emitted) + 1
        /\ DOMAIN emitted' = DOMAIN emitted \cup {Len(emitted) + 1}
        /\ emitted'[Len(emitted) + 1] = r
        /\ \A l \in DOMAIN emitted : emitted'[l] = emitted[l]
    BY <1>1, <2>4, <2>9, Appended
  <2>6. \A l \in DOMAIN emitted' : emitted'[l].decodable => emitted'[l].block > 0
    BY <1>1, <2>4, <2>5
  <2>7. InHand' => emitted'[cur].decodable
    BY <1>1, <1>3, <2>2, <2>5 DEF InHand
  <2>8. cur' \in 0..Len(emitted')
    BY <1>1, <2>2, <2>5
  <2> QED BY <1>1, <2>2, <2>5, <2>6, <2>7, <2>8 DEF BlockInv, R
<1>6. CASE SkipUndecodable \/ Send \/ AbandonSend
  BY <1>4, <1>6 DEF SkipUndecodable, Send, AbandonSend, cache, status, InHand
<1>7. CASE CacheHit \/ CacheMiss
  <2>1. /\ pc = "reading" /\ logs # <<>> /\ cur' = Head(logs) /\ logs' = Tail(logs)
        /\ emitted[cur'].decodable /\ UNCHANGED <<emitted, entries, latest>>
        /\ lastBlock' = BlockOf(cur') \/ lastBlock' = lastBlock
    BY <1>7 DEF UpdateBlock, CacheHit, CacheMiss, Stamped, cache, status
  <2>2. cur' \in DOMAIN emitted
    BY <2>1, HeadOfLogs
  <2>3. cur' \in 0..Len(emitted) /\ BlockOf(cur') \in 0..MaxBlock
    BY <1>1, <1>2, <2>2
  <2> QED BY <1>1, <2>1, <2>3 DEF BlockInv, R
<1>8. CASE HeaderFails
  <2>1. /\ lastBlock' = BlockOf(cur) /\ InHand /\ UNCHANGED <<emitted, cur, entries, latest>>
    BY <1>8 DEF UpdateBlock, HeaderFails, Stamped, cache, InHand
  <2>2. BlockOf(cur) \in 0..MaxBlock
    BY <1>1, <1>3, <2>1
  <2> QED BY <1>1, <2>1, <2>2 DEF BlockInv, R
<1>9. CASE HeaderArrives
  <2>1. /\ Set(BlockOf(cur), TimeOf(BlockOf(cur))) /\ lastBlock' = BlockOf(cur) /\ InHand
        /\ UNCHANGED <<emitted, cur>>
    BY <1>9 DEF UpdateBlock, HeaderArrives, Stamped, InHand
  <2>2. BlockOf(cur) \in 1..MaxBlock
    BY <1>3, <2>1
  <2>3. latest' \in 0..MaxBlock
    BY <1>1, <2>1, <2>2 DEF Set
  <2>4. DOMAIN entries' \subseteq 1..MaxBlock
    BY <1>1, <2>1, <2>2 DEF Set
  <2>5. entries' = [c \in DOMAIN entries' |-> entries'[c]]
    BY <2>1 DEF Set
  <2>6. \A c \in DOMAIN entries' : entries'[c] \in Nat
    BY <2>4 DEF IInv, CacheInv, TimeOf
  <2>7. entries' \in [DOMAIN entries' -> Nat]
    BY <2>5, <2>6
  <2> QED BY <1>1, <2>1, <2>2, <2>3, <2>4, <2>7 DEF BlockInv, R
<1>10. CASE \/ Cancel \/ Take \/ Exhausted \/ Connect \/ Failed \/ BackoffElapses
            \/ BackoffCancelled \/ Subscribe \/ SubscribeFails \/ SubscriptionLost
            \/ SubscriptionEnds \/ ReadingCancelled \/ Disconnect \/ CloseEvents
  BY <1>4, <1>10 DEF SetConnected, Cancel, Take, Exhausted, Connect, Failed, BackoffElapses,
     BackoffCancelled,
     Subscribe, SubscribeFails, SubscriptionLost, SubscriptionEnds, ReadingCancelled, Disconnect,
     CloseEvents, Leave, InHand, cache, status
<1> QED BY <1>5, <1>6, <1>7, <1>8, <1>9, <1>10 DEF Next, ProcessLog

\* No step of Start, the node, the reader or the cancellation breaks the bookkeeping.
LEMMA NextBookkeeping == IInv /\ IInv' /\ Bookkeeping /\ [Next]_vars => Bookkeeping'
<1> SUFFICES ASSUME IInv, IInv', Bookkeeping, [Next]_vars PROVE Bookkeeping'
  OBVIOUS
<1>1. CASE Next
  BY <1>1, ControlKept, CountKept, WaitKept, TrackKept, BlockKept DEF Bookkeeping
<1>2. CASE UNCHANGED vars
  <2> USE <1>2 DEF vars, reconnect, cache, status, output, Bookkeeping, Subscribed, Ended, InHand
  <2>1. ControlInv' /\ CountInv'
    BY DEF ControlInv, CountInv, Retries
  <2>2. WaitInv' /\ TrackInv'
    BY DEF WaitInv, TrackInv, BlockOf
  <2>3. BlockInv'
    BY DEF BlockInv
  <2> QED BY <2>1, <2>2, <2>3
<1> QED BY <1>1, <1>2

\* In every reachable state the attempts, waits and losses of WithReconnect agree with
\* each other, and the tracker with the connection and the events.
THEOREM Books == Spec => []Bookkeeping
<1>1. Init => IInv /\ Bookkeeping
  BY InitInv, InitBookkeeping
<1>2. (IInv /\ Bookkeeping) /\ [Next]_vars => (IInv /\ Bookkeeping)'
  BY NextInv, NextBookkeeping
<1> QED BY <1>1, <1>2, PTL DEF Spec

\* WithReconnect never makes more connections, or suffers more losses, than max_retries
\* allows in the whole life of the adapter, and gives up exactly then; its waits double up
\* to the cap across every connection that succeeds.
THEOREM RetriesCounted == Spec => []RetryDiscipline
<1>1. IInv /\ Bookkeeping => RetryDiscipline
  <2> SUFFICES ASSUME IInv, Bookkeeping PROVE RetryDiscipline
    OBVIOUS
  <2>1. /\ attempt \in Nat /\ losses \in Nat /\ sub \in Nat
        /\ waits \in Seq(Int) /\ Len(waits) = attempt
        /\ pc \in Place /\ cfg \in [initial : Int, max : Int, retries : Int]
    BY ConfigAssumption DEF Bookkeeping, ControlInv, IInv, ShapeInv
  <2>2. cfg.retries \in Int /\ (waits # <<>> => attempt > 0) /\ CountInv
    BY <2>1 DEF Bookkeeping
  <2>3. losses <= Retries /\ sub <= Retries
    BY <2>1, <2>2 DEF CountInv, Retries, Ended, Subscribed, Place
  <2>4. result = "exhausted" => losses = Retries
    BY <2>2 DEF CountInv
  <2>5. waits # <<>> => Len(waits) < Retries
    BY <2>1, <2>2 DEF CountInv, Retries
  <2>6. /\ waits # <<>> => waits[1] = cfg.initial
        /\ \A i \in DOMAIN waits :
               i > 1 => waits[i] = Smaller(2 * waits[i - 1], cfg.max)
    BY DEF Bookkeeping, WaitInv
  <2> QED BY <2>3, <2>4, <2>5, <2>6 DEF RetryDiscipline, Retries
<1> QED BY Invariant, Books, <1>1, PTL

\* Every step of Start keeps the adapter's state in its types, the event channel within
\* its capacity and the attempts within their limit.
THEOREM TypeCorrect == Spec => []TypeOK
<1>1. IInv /\ Bookkeeping => TypeOK
  <2> SUFFICES ASSUME IInv, Bookkeeping PROVE TypeOK
    OBVIOUS
  <2> DEFINE E == [log : 1..Len(emitted), ts : Nat]
             A == [log : Nat, ts : Nat]
  <2>1. /\ logs \in Seq(Nat) /\ taken \in Seq(A) /\ events \in Seq(A)
        /\ sub \in Nat /\ ts \in Nat
    BY DEF IInv, ShapeInv
  <2>2. /\ \A i \in DOMAIN logs : logs[i] \in DOMAIN emitted
        /\ \A i \in DOMAIN taken : taken[i].log \in DOMAIN emitted
        /\ \A i \in DOMAIN events : events[i].log \in DOMAIN emitted
        /\ \A l \in unstamped : l \in DOMAIN emitted
    BY DEF IInv, ShapeInv, Acc, Out
  <2>3. DOMAIN emitted = 1..Len(emitted)
    BY DEF Bookkeeping, BlockInv
  <2>4. logs \in Seq(1..Len(emitted))
    <3>1. \A i \in DOMAIN logs : logs[i] \in 1..Len(emitted)
      BY <2>2, <2>3
    <3> QED BY <2>1, <3>1, Narrowed
  <2>5. \A r \in A : r.log \in 1..Len(emitted) => r \in E
    OBVIOUS
  <2> HIDE DEF A, E
  <2>6. taken \in Seq(E)
    <3>1. \A i \in DOMAIN taken : taken[i] \in E
      BY <2>1, <2>2, <2>3, <2>5
    <3> QED BY <2>1, <3>1, Narrowed
  <2>7. events \in Seq(E)
    <3>1. \A i \in DOMAIN events : events[i] \in E
      BY <2>1, <2>2, <2>3, <2>5
    <3> QED BY <2>1, <3>1, Narrowed
  <2>8. unstamped \subseteq 1..Len(emitted)
    BY <2>2, <2>3
  <2>9. attempt > 0 => attempt <= cfg.retries
    <3>1. attempt \in Nat /\ cfg \in [initial : Int, max : Int, retries : Int]
      BY ConfigAssumption DEF Bookkeeping, ControlInv
    <3> QED BY <3>1 DEF Bookkeeping, CountInv
  <2> QED BY <2>1, <2>4, <2>6, <2>7, <2>8, <2>9
          DEF TypeOK, Bookkeeping, ControlInv, BlockInv, E
<1> QED BY Invariant, Books, <1>1, PTL

\* The tracker never denies a live subscription, claims none once Start has returned, and
\* until a cancellation its last block is that of the last event processLog produced.
THEOREM TrackerHonest == Spec => []TrackerAgrees
<1>1. IInv /\ Bookkeeping => TrackerAgrees
  <2> SUFFICES ASSUME IInv, Bookkeeping PROVE TrackerAgrees
    OBVIOUS
  <2> DEFINE h == [i \in DOMAIN Handed |-> Handed[i].log]
             c == IF pc = "send" THEN <<cur>> ELSE <<>>
             A == [log : Nat, ts : Nat]
  <2>1. taken \in Seq(A) /\ events \in Seq(A) /\ cur \in Nat
    BY DEF IInv, ShapeInv
  <2>2. \A r \in A : r.log \in Nat
    OBVIOUS
  <2>3. /\ Len(taken) \in Nat /\ (taken = <<>> <=> Len(taken) = 0)
        /\ Len(events) \in Nat /\ (events = <<>> <=> Len(events) = 0)
        /\ DOMAIN taken = 1..Len(taken) /\ DOMAIN events = 1..Len(events)
    <3> HIDE DEF A
    <3> QED BY <2>1
  <2>4. /\ Handed \in Seq(A) /\ Len(Handed) = Len(taken) + Len(events)
        /\ DOMAIN Handed = 1..Len(Handed)
        /\ \A i \in DOMAIN Handed : Handed[i] = IF i <= Len(taken) THEN taken[i]
                                               ELSE events[i - Len(taken)]
    <3> HIDE DEF A
    <3>1. Handed = taken \o events
      BY DEF Handed
    <3> QED BY <2>1, <2>3, <3>1, Joined
  <2>5. h \in Seq(Nat) /\ Len(h) = Len(Handed) /\ \A i \in DOMAIN Handed : h[i] = Handed[i].log
    <3>1. \A i \in DOMAIN Handed : Handed[i].log \in Nat
      <4> HIDE DEF A
      <4> QED BY <2>2, <2>4
    <3>2. Len(Handed) \in Nat
      BY <2>3, <2>4
    <3> QED BY <2>4, <3>1, <3>2
  <2>6. c \in Seq(Nat) /\ Len(c) = (IF pc = "send" THEN 1 ELSE 0) /\ (pc = "send" => c[1] = cur)
    BY <2>1
  <2> DEFINE p == h \o c
  <2>7. h \in Seq(Nat) /\ c \in Seq(Nat) /\ p = h \o c
    BY <2>5, <2>6
  <2> HIDE DEF h, c, A, p
  <2>8. /\ p \in Seq(Nat) /\ Len(p) = Len(h) + Len(c)
        /\ \A i \in 1..(Len(h) + Len(c)) :
               p[i] = IF i <= Len(h) THEN h[i] ELSE c[i - Len(h)]
    <3>1. /\ p \in Seq(Nat) /\ Len(p) = Len(h) + Len(c)
          /\ DOMAIN p = 1..(Len(h) + Len(c))
          /\ \A i \in DOMAIN p : p[i] = IF i <= Len(h) THEN h[i] ELSE c[i - Len(h)]
      BY ONLY <2>7, Joined
    <3> QED BY <3>1
  <2>9. ASSUME pc # "send", Len(Handed) \in DOMAIN Handed
        PROVE  p # <<>> /\ p[Len(p)] = Handed[Len(Handed)].log
    <3>1. /\ Len(c) = 0 /\ Len(h) = Len(Handed) /\ Len(Handed) \in Nat \ {0}
          /\ h[Len(Handed)] = Handed[Len(Handed)].log
      BY <2>3, <2>4, <2>5, <2>6, <2>9
    <3>2. Len(p) = Len(h) /\ p[Len(h)] = h[Len(h)]
      BY <2>8, <3>1
    <3> QED BY <3>1, <3>2
  <2>10. ~ cancelled => lastBlock = IF p = <<>> THEN 0 ELSE BlockOf(p[Len(p)])
    <3> SUFFICES ASSUME ~ cancelled
                 PROVE  lastBlock = IF p = <<>> THEN 0 ELSE BlockOf(p[Len(p)])
      OBVIOUS
    <3>1. lastBlock = IF pc = "send" THEN BlockOf(cur) ELSE LastHanded
      BY DEF Bookkeeping, TrackInv, LastHanded
    <3>2. CASE pc = "send"
      <4>1. p[Len(p)] = cur /\ p # <<>>
        BY <2>3, <2>4, <2>5, <2>6, <2>8, <3>2
      <4> QED BY <3>1, <3>2, <4>1
    <3>3. CASE pc # "send" /\ events # <<>>
      <4>1. Handed[Len(Handed)] = events[Len(events)] /\ Len(Handed) \in DOMAIN Handed
        BY <2>3, <2>4, <3>3
      <4>2. p[Len(p)] = events[Len(events)].log /\ p # <<>>
        BY <2>9, <3>3, <4>1
      <4> QED BY <3>1, <3>3, <4>2 DEF LastHanded
    <3>4. CASE pc # "send" /\ events = <<>> /\ taken # <<>>
      <4>1. Handed[Len(Handed)] = taken[Len(taken)] /\ Len(Handed) \in DOMAIN Handed
        BY <2>3, <2>4, <3>4
      <4>2. p[Len(p)] = taken[Len(taken)].log /\ p # <<>>
        BY <2>9, <3>4, <4>1
      <4> QED BY <3>1, <3>4, <4>2 DEF LastHanded
    <3>5. CASE pc # "send" /\ events = <<>> /\ taken = <<>>
      <4>1. p = <<>>
        BY <2>3, <2>4, <2>5, <2>6, <2>8, <3>5
      <4> QED BY <3>1, <3>5, <4>1 DEF LastHanded
    <3> QED BY <3>2, <3>3, <3>4, <3>5
  <2>11. /\ Subscribed => connected
         /\ closed => ~ connected
    BY DEF Bookkeeping, TrackInv
  <2> QED BY <2>10, <2>11 DEF TrackerAgrees, h, c, p
<1> QED BY Invariant, Books, <1>1, PTL
=============================================================================
