---------------------------- MODULE PollerProofs ----------------------------
(***************************************************************************)
(* Machine-checked proofs about Poller, for every chain, buffer and bound: *)
(* the cursor is exact, and the adapter is handed the logs LogCursor       *)
(* promises, without a gap and without a repetition.                       *)
(***************************************************************************)
EXTENDS Poller, SequenceLemmas, WellFoundedInduction, TLAPS

\* The matching logs of a chain are numbered upwards, over any range of blocks.
LEMMA LastLogGrows ==
    ASSUME NEW a \in 0..MaxBlock, NEW b \in 0..MaxBlock, a <= b
    PROVE  LastLog[a] \in Nat /\ LastLog[b] \in Nat /\ LastLog[a] <= LastLog[b]
<1> DEFINE R == {p \in Nat \X Nat : p[1] < p[2]}
           T == {c \in a..MaxBlock : ~ (LastLog[a] <= LastLog[c])}
<1>1. IsWellFoundedOn(R, Nat)
  BY NatLessThanWellFounded, Zenon DEF OpToRel
<1>2. \A c \in 0..MaxBlock : LastLog[c] \in Nat
  BY ChainAssumption
<1>3. CASE T = {}
  <2>1. b \notin T
    <3> HIDE DEF T
    <3> QED BY <1>3
  <2>2. MaxBlock \in Nat
    BY ChainAssumption
  <2>3. b \in a..MaxBlock
    BY <2>2
  <2> QED BY <1>2, <2>1, <2>3
<1>4. CASE T # {}
  <2>1. T \subseteq Nat
    BY ChainAssumption
  <2>2. PICK x \in T : \A y \in T : ~ (<<y, x>> \in R)
    <3> HIDE DEF R, T
    <3> QED BY <1>1, <1>4, <2>1, WFMin
  <2>3. x \in a..MaxBlock /\ ~ (LastLog[a] <= LastLog[x])
    OBVIOUS
  <2>4. x # a
    BY <1>2, <2>3
  <2>5. x - 1 \in a..MaxBlock /\ x \in 1..MaxBlock
    BY <2>3, <2>4, ChainAssumption
  <2>6. x - 1 \notin T
    <3>1. <<x - 1, x>> \in R
      BY <2>5, ChainAssumption
    <3> HIDE DEF R, T
    <3> QED BY <2>2, <3>1
  <2>7. LastLog[a] <= LastLog[x - 1]
    BY <2>5, <2>6
  <2>8. LastLog[x - 1] <= LastLog[x]
    BY <2>5, ChainAssumption
  <2>9. x \in 0..MaxBlock /\ x - 1 \in 0..MaxBlock
    BY <2>5, ChainAssumption
  <2> QED BY <1>2, <2>3, <2>7, <2>8, <2>9
<1> QED BY <1>3, <1>4
-----------------------------------------------------------------------------
\* The number of the last log before the subscription.
Base == LastLog[start]

\* A channel or buffer holds the logs after number n, one by one.
Consecutive(s, n) == \A i \in DOMAIN s : s[i] = n + i

\* The next log goes behind the others.
LEMMA NextAppended ==
    ASSUME NEW n \in Nat, NEW s \in Seq(Nat), Consecutive(s, n),
           NEW t, t = Append(s, n + Len(s) + 1)
    PROVE  t \in Seq(Nat) /\ Consecutive(t, n) /\ Len(t) = Len(s) + 1
<1>1. Len(s) \in Nat /\ n + Len(s) + 1 \in Nat /\ n + (Len(s) + 1) = n + Len(s) + 1
  OBVIOUS
<1>2. /\ t \in Seq(Nat) /\ Len(t) = Len(s) + 1 /\ DOMAIN t = DOMAIN s \cup {Len(s) + 1}
      /\ t[Len(s) + 1] = n + Len(s) + 1 /\ \A i \in DOMAIN s : t[i] = s[i]
  BY <1>1, Appended
<1>3. \A i \in DOMAIN t : t[i] = n + i
  BY <1>1, <1>2 DEF Consecutive
<1> QED BY <1>2, <1>3 DEF Consecutive

\* The first log leaves, and the others follow it.
LEMMA FirstTaken ==
    ASSUME NEW n \in Nat, NEW s \in Seq(Nat), Consecutive(s, n), s # <<>>, NEW t, t = Tail(s)
    PROVE  /\ Head(s) = n + 1 /\ Len(s) \in Nat \ {0}
           /\ t \in Seq(Nat) /\ Consecutive(t, n + 1) /\ Len(t) = Len(s) - 1
<1>1. /\ t \in Seq(Nat) /\ Len(s) \in Nat \ {0} /\ Len(t) = Len(s) - 1
      /\ 1 \in DOMAIN s /\ Head(s) = s[1]
      /\ \A i \in DOMAIN t : i \in Nat /\ i >= 1 /\ i + 1 \in DOMAIN s /\ t[i] = s[i + 1]
  BY Shortened
<1>2. Head(s) = n + 1
  BY <1>1 DEF Consecutive
<1>3. \A i \in DOMAIN t : t[i] = n + 1 + i
  BY <1>1 DEF Consecutive
<1> QED BY <1>1, <1>2, <1>3 DEF Consecutive

\* Two runs of logs that follow each other are one.
LEMMA Follow ==
    ASSUME NEW n \in Nat, NEW s \in Seq(Nat), NEW t \in Seq(Nat),
           Consecutive(s, n), Consecutive(t, n + Len(s))
    PROVE  /\ s \o t \in Seq(Nat) /\ Len(s \o t) = Len(s) + Len(t) /\ Consecutive(s \o t, n)
           /\ s \o t = [i \in 1..(Len(s) + Len(t)) |-> n + i]
<1> DEFINE u == s \o t
<1>1. u = s \o t
  OBVIOUS
<1> HIDE DEF u
<1>2. Len(s) \in Nat /\ Len(t) \in Nat /\ DOMAIN s = 1..Len(s) /\ DOMAIN t = 1..Len(t)
  OBVIOUS
<1>3. /\ u \in Seq(Nat) /\ Len(u) = Len(s) + Len(t) /\ DOMAIN u = 1..(Len(s) + Len(t))
      /\ \A i \in DOMAIN u : u[i] = IF i <= Len(s) THEN s[i] ELSE t[i - Len(s)]
  BY <1>1, Joined
<1>4. \A i \in DOMAIN u : u[i] = n + i
  <2> SUFFICES ASSUME NEW i \in DOMAIN u PROVE u[i] = n + i
    OBVIOUS
  <2>1. i \in Nat /\ i >= 1 /\ i <= Len(s) + Len(t)
    BY <1>2, <1>3
  <2>2. CASE i <= Len(s)
    BY <1>2, <1>3, <2>1, <2>2 DEF Consecutive
  <2>3. CASE i > Len(s)
    <3>1. i - Len(s) \in DOMAIN t
      BY <1>2, <2>1, <2>3
    <3>2. t[i - Len(s)] = n + Len(s) + (i - Len(s))
      BY <3>1 DEF Consecutive
    <3>3. u[i] = t[i - Len(s)]
      BY <1>2, <1>3, <2>1, <2>3
    <3> QED BY <1>2, <2>1, <3>2, <3>3
  <2> QED BY <1>2, <2>1, <2>2, <2>3
<1>5. u = [i \in 1..(Len(s) + Len(t)) |-> n + i]
  <2>1. u = [i \in DOMAIN u |-> u[i]]
    BY <1>3
  <2> QED BY <1>3, <1>4, <2>1
<1> QED BY <1>1, <1>3, <1>4, <1>5 DEF Consecutive

\* Where the hand-over stands, relative to the cursor and to the chain.
FlowInv ==
    IF start = None
    THEN pc = "none" /\ delivered = <<>> /\ logs = <<>>
    ELSE LET n == Base + Len(delivered)
             m == n + Len(logs)
         IN /\ pc # "none" /\ start <= lastBlock
            /\ Consecutive(delivered, Base) /\ Consecutive(logs, n)
            /\ m <= LastLog[head]
            /\ pc \in {"wait", "filter"} => m = LastLog[lastBlock]
            /\ pc \in {"filter", "send"} => lastBlock < current
            /\ pc = "send" => /\ Consecutive(results, m)
                              /\ m + Len(results) = LastLog[current]

IInv == TypeOK /\ FlowInv

\* A subscription hands out nothing before Subscribe returns.
LEMMA InitInv == Init => IInv
<1> SUFFICES ASSUME Init PROVE IInv
  OBVIOUS
<1>1. TypeOK
  <2>1. MaxBlock \in Nat /\ BufferSize \in Nat
    BY ChainAssumption, ConfigAssumption
  <2>2. head \in Block /\ lastBlock \in 0..head /\ current \in 0..head
    BY <2>1 DEF Init, Block
  <2>3. logs \in Seq(Nat) /\ results \in Seq(Nat) /\ delivered \in Seq(Nat) /\ Len(logs) = 0
    BY DEF Init
  <2>4. start \in Block \cup {None} /\ cancelled \in BOOLEAN
    BY DEF Init
  <2> QED BY <2>1, <2>2, <2>3, <2>4 DEF Init, TypeOK
<1>2. FlowInv
  BY DEF Init, FlowInv
<1> QED BY <1>1, <1>2 DEF IInv

\* Blocks are naturals, and so are the numbers of the logs up to them.
LEMMA BlockTypes ==
    ASSUME TypeOK
    PROVE  /\ head \in 0..MaxBlock /\ lastBlock \in 0..MaxBlock /\ current \in 0..MaxBlock
           /\ start # None => start \in 0..MaxBlock /\ Base \in Nat
           /\ LastLog[head] \in Nat /\ LastLog[lastBlock] \in Nat /\ LastLog[current] \in Nat
           /\ LastLog[lastBlock] <= LastLog[head] /\ LastLog[current] <= LastLog[head]
           /\ Len(delivered) \in Nat /\ Len(logs) \in Nat /\ Len(results) \in Nat
<1>1. /\ head \in 0..MaxBlock /\ lastBlock \in 0..MaxBlock /\ current \in 0..MaxBlock
      /\ lastBlock <= head /\ current <= head
      /\ Len(delivered) \in Nat /\ Len(logs) \in Nat /\ Len(results) \in Nat
  BY ChainAssumption DEF TypeOK, Block
<1>2. start # None => start \in 0..MaxBlock /\ Base \in Nat
  BY ChainAssumption DEF TypeOK, Block, Base
<1>3. /\ LastLog[head] \in Nat /\ LastLog[lastBlock] \in Nat /\ LastLog[current] \in Nat
      /\ LastLog[lastBlock] <= LastLog[head] /\ LastLog[current] <= LastLog[head]
  BY <1>1, LastLogGrows
<1> QED BY <1>1, <1>2, <1>3

\* The steps that move no log: the chain grows, calls fail, the context is cancelled.
LEMMA QuietStep ==
    ASSUME IInv, Mine \/ Cancel \/ Poll \/ FetchFails \/ Stop \/ AdapterReturns
    PROVE  IInv'
<1>1. TypeOK'
  <2> USE ChainAssumption DEF IInv, TypeOK, Block, poller
  <2>1. CASE Mine
    BY <2>1 DEF Mine
  <2>2. CASE Poll
    BY <2>2 DEF Poll, Headers
  <2>3. CASE Cancel \/ FetchFails \/ Stop \/ AdapterReturns
    BY <2>3 DEF Cancel, FetchFails, Stop, AdapterReturns
  <2> QED BY <2>1, <2>2, <2>3
<1>2. LastLog[head'] \in Nat /\ LastLog[head] <= LastLog[head']
  <2>1. head' \in 0..MaxBlock /\ head \in 0..MaxBlock /\ head <= head'
    BY <1>1 DEF IInv, TypeOK, Mine, Cancel, Poll, FetchFails, Stop, AdapterReturns, poller, Block
  <2> QED BY <2>1, LastLogGrows
<1>3. /\ UNCHANGED <<start, lastBlock, results, logs, delivered>>
      /\ \/ pc' = pc /\ current' = current
         \/ pc = "wait" /\ pc' = "filter" /\ lastBlock < current'
         \/ pc = "filter" /\ pc' = "wait" /\ current' = current
         \/ pc \in {"wait", "send"} /\ pc' = "done" /\ current' = current
  BY DEF Mine, Cancel, Poll, FetchFails, Stop, AdapterReturns, poller
<1>4. FlowInv'
  <2>1. CASE start = None
    BY <1>3, <2>1 DEF IInv, FlowInv
  <2>2. CASE start # None
    BY <1>2, <1>3, <2>2, BlockTypes DEF IInv, FlowInv, Base, Consecutive
  <2> QED BY <2>1, <2>2
<1> QED BY <1>1, <1>4 DEF IInv

\* The cursor starts at the block the node answers with.
LEMMA SubscribeStep == ASSUME IInv, Subscribe PROVE IInv'
<1>1. /\ pc = "none" /\ pc' = "wait" /\ start' = lastBlock' /\ lastBlock' \in 0..head
      /\ UNCHANGED <<head, cancelled, current, results, logs, adapter, delivered>>
  BY DEF Subscribe, Headers
<1>2. start = None /\ delivered = <<>> /\ logs = <<>>
  BY <1>1 DEF IInv, FlowInv
<1>3. TypeOK'
  BY <1>1, ChainAssumption DEF IInv, TypeOK, Block
<1>4. LastLog[lastBlock'] \in Nat /\ LastLog[lastBlock'] <= LastLog[head]
  <2>1. head \in 0..MaxBlock /\ lastBlock' \in 0..MaxBlock /\ lastBlock' <= head
    BY <1>1, ChainAssumption DEF IInv, TypeOK, Block
  <2> QED BY <2>1, LastLogGrows
<1>5. start' # None /\ start' <= lastBlock'
  BY <1>1, <1>3, ConfigAssumption, ChainAssumption DEF TypeOK, Block
<1>6. FlowInv'
  BY <1>1, <1>2, <1>4, <1>5 DEF FlowInv, Base, Consecutive
<1> QED BY <1>3, <1>6 DEF IInv

\* What FilterLogs returns for the range behind the cursor are the logs that follow.
LEMMA FetchStep == ASSUME IInv, Fetch PROVE IInv'
<1>1. /\ pc = "filter" /\ pc' = "send"
      /\ results' = FilterLogs(lastBlock + 1, current)
      /\ UNCHANGED <<head, cancelled, start, lastBlock, current, logs, adapter, delivered>>
  BY DEF Fetch
<1>2. start # None /\ lastBlock < current
  BY <1>1 DEF IInv, FlowInv
<1>3. /\ LastLog[lastBlock] \in Nat /\ LastLog[current] \in Nat
      /\ LastLog[lastBlock] <= LastLog[current] /\ lastBlock \in Nat
  <2>1. lastBlock \in 0..MaxBlock /\ current \in 0..MaxBlock /\ lastBlock <= current
    BY <1>2, BlockTypes DEF IInv
  <2> QED BY <2>1, LastLogGrows, ChainAssumption
<1>4. results' = [i \in 1..(LastLog[current] - LastLog[lastBlock]) |-> LastLog[lastBlock] + i]
  <2> DEFINE from == lastBlock + 1
  <2>1. from - 1 = lastBlock
    BY <1>3
  <2> HIDE DEF from
  <2>2. FilterLogs(from, current)
            = [i \in 1..(LastLog[current] - LastLog[from - 1]) |-> LastLog[from - 1] + i]
    BY Zenon DEF FilterLogs
  <2>3. results' = FilterLogs(from, current)
    BY <1>1 DEF from
  <2> QED BY <2>1, <2>2, <2>3
<1>5. /\ results' \in Seq(Nat) /\ Len(results') = LastLog[current] - LastLog[lastBlock]
      /\ Consecutive(results', LastLog[lastBlock])
  BY <1>3, <1>4 DEF Consecutive
<1>6. TypeOK'
  BY <1>1, <1>5 DEF IInv, TypeOK
<1>7. FlowInv'
  BY <1>1, <1>2, <1>3, <1>5, BlockTypes DEF IInv, FlowInv, Base
<1> QED BY <1>6, <1>7 DEF IInv

\* A log of the range goes into the channel, behind the others.
LEMMA SendStep == ASSUME IInv, Send PROVE IInv'
<1>1. /\ pc = "send" /\ results # <<>> /\ Len(logs) < BufferSize
      /\ logs' = Append(logs, Head(results)) /\ results' = Tail(results)
      /\ UNCHANGED <<head, cancelled, pc, start, lastBlock, current, adapter, delivered>>
  BY DEF Send
<1>2. results \in Seq(Nat) /\ logs \in Seq(Nat)
  BY DEF IInv, TypeOK
<1>3. start # None
  BY <1>1 DEF IInv, FlowInv
<1> DEFINE n == Base + Len(delivered)
           m == n + Len(logs)
<1>4. /\ n \in Nat /\ m \in Nat /\ m = n + Len(logs) /\ n = Base + Len(delivered)
      /\ Len(logs) \in Nat /\ LastLog[current] \in Nat /\ LastLog[current] <= LastLog[head]
      /\ LastLog[head] \in Nat
  BY <1>3, BlockTypes DEF IInv
<1>5. /\ Consecutive(delivered, Base) /\ Consecutive(logs, n) /\ Consecutive(results, m)
      /\ m + Len(results) = LastLog[current] /\ lastBlock < current /\ start <= lastBlock
  BY <1>1, <1>3 DEF IInv, FlowInv
<1> HIDE DEF n, m
<1>6. /\ Head(results) = m + 1 /\ Len(results) \in Nat \ {0} /\ results' \in Seq(Nat)
      /\ Consecutive(results', m + 1) /\ Len(results') = Len(results) - 1
  BY <1>1, <1>2, <1>4, <1>5, FirstTaken
<1>7. /\ logs' \in Seq(Nat) /\ Consecutive(logs', n) /\ Len(logs') = Len(logs) + 1
  <2>1. logs' = Append(logs, n + Len(logs) + 1)
    BY <1>1, <1>4, <1>6
  <2> QED BY <1>2, <1>4, <1>5, <2>1, NextAppended
<1>8. TypeOK'
  BY <1>1, <1>4, <1>6, <1>7, ConfigAssumption DEF IInv, TypeOK
<1>9. /\ n + Len(logs') = m + 1 /\ m + 1 + Len(results') = LastLog[current]
      /\ m + 1 <= LastLog[head]
  <2>1. n + Len(logs') = m + 1
    BY <1>4, <1>7
  <2>2. m + 1 + Len(results') = LastLog[current]
    BY <1>4, <1>5, <1>6
  <2>3. m + 1 <= LastLog[current]
    BY <1>4, <1>5, <1>6
  <2>4. m + 1 <= LastLog[head]
    BY <1>4, <2>3
  <2> QED BY <2>1, <2>2, <2>4
<1>10. n = Base' + Len(delivered')
  BY <1>1, <1>4 DEF Base
<1>11. FlowInv'
  BY <1>1, <1>3, <1>5, <1>6, <1>7, <1>9, <1>10 DEF FlowInv, Base
<1> QED BY <1>8, <1>11 DEF IInv

\* The range is handed over completely when the cursor moves behind it.
LEMMA MoveCursorStep == ASSUME IInv, MoveCursor PROVE IInv'
<1>1. /\ pc = "send" /\ pc' = "wait" /\ results = <<>> /\ lastBlock' = current
      /\ UNCHANGED <<head, cancelled, start, current, results, logs, adapter, delivered>>
  BY DEF MoveCursor
<1>2. TypeOK'
  BY <1>1 DEF IInv, TypeOK
<1>3. start # None /\ start \in 0..MaxBlock
  BY <1>1, BlockTypes DEF IInv, FlowInv
<1>4. FlowInv'
  BY <1>1, <1>3, BlockTypes DEF IInv, FlowInv, Base
<1> QED BY <1>2, <1>4 DEF IInv

\* The adapter receives the oldest log of the channel.
LEMMA ReceiveStep ==
    ASSUME IInv, Receive
    PROVE  /\ IInv'
           /\ start # None /\ delivered' = Append(delivered, Base + Len(delivered) + 1)
           /\ Base + Len(delivered) + 1 <= LastLog[head]
<1>1. /\ adapter = "reading" /\ logs # <<>>
      /\ delivered' = Append(delivered, Head(logs)) /\ logs' = Tail(logs)
      /\ UNCHANGED <<head, cancelled, pc, start, lastBlock, current, results, adapter>>
  BY DEF Receive, poller
<1>2. delivered \in Seq(Nat) /\ logs \in Seq(Nat)
  BY DEF IInv, TypeOK
<1>3. start # None
  BY <1>1 DEF IInv, FlowInv
<1> DEFINE n == Base + Len(delivered)
<1>4. /\ n \in Nat /\ Base \in Nat /\ n = Base + Len(delivered) /\ Len(delivered) \in Nat
      /\ Len(logs) \in Nat /\ LastLog[head] \in Nat
  BY <1>3, BlockTypes DEF IInv
<1>5. /\ Consecutive(delivered, Base) /\ Consecutive(logs, n) /\ n + Len(logs) <= LastLog[head]
      /\ start <= lastBlock /\ pc # "none"
      /\ pc \in {"wait", "filter"} => n + Len(logs) = LastLog[lastBlock]
      /\ pc \in {"filter", "send"} => lastBlock < current
      /\ pc = "send" => /\ Consecutive(results, n + Len(logs))
                        /\ n + Len(logs) + Len(results) = LastLog[current]
  BY <1>3 DEF IInv, FlowInv
<1> HIDE DEF n
<1>6. /\ Head(logs) = n + 1 /\ Len(logs) \in Nat \ {0} /\ logs' \in Seq(Nat)
      /\ Consecutive(logs', n + 1) /\ Len(logs') = Len(logs) - 1
  BY <1>1, <1>2, <1>4, <1>5, FirstTaken
<1>7. /\ delivered' = Append(delivered, Base + Len(delivered) + 1)
      /\ delivered' \in Seq(Nat) /\ Consecutive(delivered', Base)
      /\ Len(delivered') = Len(delivered) + 1
  <2>1. delivered' = Append(delivered, Base + Len(delivered) + 1)
    BY <1>1, <1>4, <1>6
  <2> QED BY <1>2, <1>4, <1>5, <2>1, NextAppended
<1>8. TypeOK'
  BY <1>1, <1>4, <1>6, <1>7, ConfigAssumption DEF IInv, TypeOK
<1>9. Base' + Len(delivered') = n + 1 /\ n + 1 + Len(logs') = n + Len(logs)
  BY <1>1, <1>4, <1>6, <1>7 DEF Base
<1>10. FlowInv'
  BY <1>1, <1>3, <1>5, <1>6, <1>7, <1>9 DEF FlowInv, Base
<1>11. Base + Len(delivered) + 1 <= LastLog[head]
  BY <1>4, <1>5, <1>6
<1> QED BY <1>3, <1>7, <1>8, <1>10, <1>11 DEF IInv

\* No step of the chain, the poller or the adapter breaks the invariant.
LEMMA NextInv == IInv /\ [Next]_vars => IInv'
<1> SUFFICES ASSUME IInv, [Next]_vars PROVE IInv'
  OBVIOUS
<1>1. CASE UNCHANGED vars
  BY <1>1 DEF vars, poller, IInv, TypeOK, FlowInv, Base, Consecutive, Block
<1> QED BY <1>1, QuietStep, SubscribeStep, FetchStep, SendStep, MoveCursorStep, ReceiveStep
        DEF Next

\* In every reachable state the logs delivered, in the channel and still to be sent
\* follow each other, from the block of the subscription to the end of the range.
THEOREM Invariant == Spec => []IInv
BY InitInv, NextInv, PTL DEF Spec

\* The subscription keeps its shape, its channel its capacity, and the cursor stays
\* below the newest block.
THEOREM TypeCorrect == Spec => []TypeOK
<1>1. IInv => TypeOK
  BY DEF IInv
<1> QED BY Invariant, <1>1, PTL
-----------------------------------------------------------------------------
\* Between two ranges the adapter has been handed exactly the logs up to the cursor.
THEOREM Exact == Spec => []CursorExact
<1>1. ASSUME IInv, start # None
      PROVE  LET upto(b) == [i \in 1..(LastLog[b] - LastLog[start]) |-> LastLog[start] + i]
             IN /\ pc \in {"wait", "filter"} => Handed = upto(lastBlock)
                /\ pc = "send" => Handed \o results = upto(current)
  <2>1. delivered \in Seq(Nat) /\ logs \in Seq(Nat) /\ results \in Seq(Nat)
    BY <1>1 DEF IInv, TypeOK
  <2>2. /\ Len(delivered) \in Nat /\ Len(logs) \in Nat /\ Len(results) \in Nat /\ Base \in Nat
        /\ LastLog[lastBlock] \in Nat /\ LastLog[current] \in Nat
    BY <1>1, BlockTypes DEF IInv
  <2>3. /\ Consecutive(delivered, Base) /\ Consecutive(logs, Base + Len(delivered))
        /\ pc \in {"wait", "filter"} => Base + Len(delivered) + Len(logs) = LastLog[lastBlock]
        /\ pc = "send" => /\ Consecutive(results, Base + Len(delivered) + Len(logs))
                          /\ Base + Len(delivered) + Len(logs) + Len(results) = LastLog[current]
    BY <1>1 DEF IInv, FlowInv
  <2> DEFINE n == Len(delivered) + Len(logs)
  <2>4. /\ Handed \in Seq(Nat) /\ Len(Handed) = n /\ Consecutive(Handed, Base)
        /\ Handed = [i \in 1..n |-> Base + i]
    BY <2>1, <2>2, <2>3, Follow DEF Handed
  <2>5. pc \in {"wait", "filter"} => LastLog[lastBlock] - Base = n
    BY <2>2, <2>3
  <2>6. ASSUME pc = "send"
        PROVE  Handed \o results = [i \in 1..(LastLog[current] - Base) |-> Base + i]
    <3>1. LastLog[current] - Base = Len(Handed) + Len(results)
      BY <2>2, <2>3, <2>4, <2>6
    <3>2. Consecutive(results, Base + Len(Handed))
      <4>1. Base + Len(delivered) + Len(logs) = Base + Len(Handed)
        BY <2>2, <2>4
      <4> QED BY <2>3, <2>6, <4>1
    <3>3. Handed \o results = [i \in 1..(Len(Handed) + Len(results)) |-> Base + i]
      BY <2>1, <2>2, <2>4, <3>2, Follow
    <3> QED BY <3>1, <3>3
  <2>7. pc \in {"wait", "filter"} =>
            Handed = [i \in 1..(LastLog[lastBlock] - Base) |-> Base + i]
    BY <2>4, <2>5
  <2> QED BY <2>6, <2>7 DEF Base
<1>2. IInv => CursorExact
  BY <1>1 DEF CursorExact
<1> QED BY Invariant, <1>2, PTL

\* The polling subscription implements LogCursor: what it delivers next is always the
\* log after the last one, and no log of a block the chain does not have.
THEOREM Refinement == Spec => ImplementsCursor
<1>1. Init => Cursor!Init
  BY DEF Init, Cursor!Init
<1>2. IInv /\ [Next]_vars => [Cursor!Next]_Cursor!vars
  <2> SUFFICES ASSUME IInv, [Next]_vars PROVE [Cursor!Next]_Cursor!vars
    OBVIOUS
  <2>1. CASE Mine \/ Cancel
    BY <2>1 DEF Mine, Cancel, poller, Cursor!Next, Cursor!Mine, Cursor!Cancel
  <2>2. CASE Subscribe
    <3>1. start = None
      BY <2>2 DEF Subscribe, IInv, FlowInv
    <3> QED BY <2>2, <3>1 DEF Subscribe, Headers, Cursor!Next, Cursor!Open
  <2>3. CASE Receive
    <3>1. Cursor!Deliver
      BY <2>3, ReceiveStep DEF Receive, poller, Base, Cursor!Deliver
    <3> QED BY <3>1 DEF Cursor!Next
  <2>4. CASE \/ Poll \/ Fetch \/ FetchFails \/ Send \/ MoveCursor \/ Stop
             \/ AdapterReturns \/ UNCHANGED vars
    BY <2>4 DEF Poll, Fetch, FetchFails, Send, MoveCursor, Stop, AdapterReturns, vars, poller,
                Cursor!vars
  <2> QED BY <2>1, <2>2, <2>3, <2>4 DEF Next
<1> QED BY Invariant, <1>1, <1>2, PTL DEF Spec, ImplementsCursor, Cursor!Safety
=============================================================================
