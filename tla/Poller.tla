------------------------------- MODULE Poller -------------------------------
(***************************************************************************)
(* The polling strategy of src/internal/adapter/evm/polling.go: one        *)
(* subscription, whose goroutine asks the node for its newest block on     *)
(* each tick, fetches the range behind its cursor lastBlock, hands the     *)
(* logs to the adapter through a buffered channel and then moves the       *)
(* cursor.  Every call to the node may fail, and the node may answer with  *)
(* a block that is not the newest.  Matching logs are numbered as in       *)
(* LogCursor.                                                              *)
(***************************************************************************)
EXTENDS Integers, Sequences

CONSTANTS LastLog, None,
          BufferSize,  \* tuning.log_channel_buffer
          MaxBlock     \* bound: the chain's newest block

ASSUME ChainAssumption ==
    /\ MaxBlock \in Nat
    /\ LastLog \in [0..MaxBlock -> Nat]
    /\ \A b \in 1..MaxBlock : LastLog[b - 1] <= LastLog[b]

ASSUME ConfigAssumption == BufferSize \in Nat \ {0} /\ None \notin 0..MaxBlock

VARIABLES head,       \* the newest block of the chain
          cancelled,  \* the context is done
          pc,         \* the goroutine: "none", "wait", "filter", "send", "done"
          start,      \* history: lastBlock when Subscribe returned, or None
          lastBlock,  \* the cursor
          current,    \* currentBlock
          results,    \* what FilterLogs returned and the loop has not sent
          logs,       \* the channel
          adapter,    \* the loop of Adapter.Start: "reading", "returned"
          delivered   \* history: the logs the adapter received

vars == <<head, cancelled, pc, start, lastBlock, current, results, logs, adapter, delivered>>
poller == <<pc, start, lastBlock, current, results>>
-----------------------------------------------------------------------------
Init ==
    /\ head \in 0..MaxBlock
    /\ cancelled = FALSE
    /\ pc = "none" /\ adapter = "reading"
    /\ start = None /\ lastBlock = 0 /\ current = 0
    /\ results = <<>> /\ logs = <<>> /\ delivered = <<>>

Mine ==
    /\ head < MaxBlock
    /\ head' = head + 1
    /\ UNCHANGED <<cancelled, poller, logs, adapter, delivered>>

Cancel ==
    /\ ~ cancelled
    /\ cancelled' = TRUE
    /\ UNCHANGED <<head, poller, logs, adapter, delivered>>

\* A node answers HeaderByNumber: it may lag behind the chain.
Headers == 0..head

\* Subscribe; when its HeaderByNumber fails there is no subscription yet.
Subscribe ==
    /\ pc = "none" /\ ~ cancelled
    /\ lastBlock' \in Headers
    /\ start' = lastBlock'
    /\ pc' = "wait"
    /\ UNCHANGED <<head, cancelled, current, results, logs, adapter, delivered>>

PollAboveNext ==
    /\ pc = "wait" /\ ~ cancelled
    /\ current' \in {h \in Headers : h > lastBlock + 1}
    /\ pc' = "filter"
    /\ UNCHANGED <<head, cancelled, start, lastBlock, results, logs, adapter, delivered>>

\* A tick on which HeaderByNumber fails, or answers with a block that is not
\* above the cursor, changes nothing.
Poll ==
    /\ pc = "wait" /\ ~ cancelled
    /\ current' \in {h \in Headers : h > lastBlock}
    /\ pc' = "filter"
    /\ UNCHANGED <<head, cancelled, start, lastBlock, results, logs, adapter, delivered>>

\* The matching logs of the blocks from..to, in order.
FilterFromCursor(from, to) ==
    [i \in 1..(LastLog[to] - LastLog[from]) |-> LastLog[from] + i]
FilterLogs(from, to) ==
    [i \in 1..(LastLog[to] - LastLog[from - 1]) |-> LastLog[from - 1] + i]

Fetch ==
    /\ pc = "filter" /\ ~ cancelled
    /\ results' = FilterLogs(lastBlock + 1, current)
    /\ pc' = "send"
    /\ UNCHANGED <<head, cancelled, start, lastBlock, current, logs, adapter, delivered>>

FetchFailsAndMoves ==
    /\ pc = "filter"
    /\ pc' = "wait" /\ lastBlock' = current
    /\ UNCHANGED <<head, cancelled, start, current, results, logs, adapter, delivered>>
\* FilterLogs fails: the range is fetched again, to a newer block, by a later tick.
FetchFails ==
    /\ pc = "filter"
    /\ pc' = "wait"
    /\ UNCHANGED <<head, cancelled, start, lastBlock, current, results, logs, adapter, delivered>>

SendUnbounded ==
    /\ pc = "send" /\ results # <<>>
    /\ logs' = Append(logs, Head(results))
    /\ results' = Tail(results)
    /\ UNCHANGED <<head, cancelled, pc, start, lastBlock, current, adapter, delivered>>
Send ==
    /\ pc = "send" /\ results # <<>> /\ Len(logs) < BufferSize
    /\ logs' = Append(logs, Head(results))
    /\ results' = Tail(results)
    /\ UNCHANGED <<head, cancelled, pc, start, lastBlock, current, adapter, delivered>>

\* The range is handed over: only now does the cursor move.
MoveCursor ==
    /\ pc = "send" /\ results = <<>>
    /\ lastBlock' = current /\ pc' = "wait"
    /\ UNCHANGED <<head, cancelled, start, current, results, logs, adapter, delivered>>

StopsWhenIdle ==
    /\ cancelled /\ pc = "wait"
    /\ pc' = "done"
    /\ UNCHANGED <<head, cancelled, start, lastBlock, current, results, logs, adapter, delivered>>
\* case <-pollCtx.Done(), in the loop and in the send; logs is closed.
Stop ==
    /\ cancelled /\ (pc = "wait" \/ (pc = "send" /\ results # <<>>))
    /\ pc' = "done"
    /\ UNCHANGED <<head, cancelled, start, lastBlock, current, results, logs, adapter, delivered>>

\* case log, ok := <-logs of Adapter.Start.
Receive ==
    /\ adapter = "reading" /\ logs # <<>>
    /\ delivered' = Append(delivered, Head(logs))
    /\ logs' = Tail(logs)
    /\ UNCHANGED <<head, cancelled, poller, adapter>>

\* ctx.Done(), a connect that the context interrupts, or logs closed and empty.
\* A polling subscription never reports on Err while the adapter listens.
AdapterReturns ==
    /\ adapter = "reading"
    /\ cancelled \/ (pc = "done" /\ logs = <<>>)
    /\ adapter' = "returned"
    /\ UNCHANGED <<head, cancelled, poller, logs, delivered>>

Next ==
    \/ Mine \/ Cancel
    \/ Subscribe \/ Poll \/ Fetch \/ FetchFails \/ Send \/ MoveCursor \/ Stop
    \/ Receive \/ AdapterReturns

Spec == Init /\ [][Next]_vars

\* The ticker fires and the goroutines run.  A call to the node does not fail for
\* ever, and its answer does not lag for ever: it is the newest block repeatedly.
Fairness ==
    /\ SF_vars(Poll /\ current' = head) /\ SF_vars(Fetch)
    /\ WF_vars(FetchFails \/ Fetch)
    /\ WF_vars(Send) /\ WF_vars(MoveCursor) /\ WF_vars(Stop)
    /\ WF_vars(Receive) /\ WF_vars(AdapterReturns)

FairSpec == Spec /\ Fairness
-----------------------------------------------------------------------------
(* Properties *)

Block == 0..MaxBlock

\* The subscription's state keeps its shape; the log channel stays within its
\* buffer and the cursor never passes the chain's newest block.
TypeOK ==
    /\ head \in Block /\ lastBlock \in 0..head /\ current \in 0..head
    /\ cancelled \in BOOLEAN
    /\ pc \in {"none", "wait", "filter", "send", "done"}
    /\ start \in Block \cup {None}
    /\ adapter \in {"reading", "returned"}
    /\ results \in Seq(Nat) /\ delivered \in Seq(Nat)
    /\ logs \in Seq(Nat) /\ Len(logs) <= BufferSize

\* The logs handed over so far, in order.
Handed == delivered \o logs

\* Whatever fails, lags or blocks: between two ranges the adapter has been handed
\* exactly the logs from the start up to the cursor, so the next range neither
\* skips nor repeats one; inside a range, what is left completes it.
CursorExact ==
    start # None =>
        LET upto(b) == [i \in 1..(LastLog[b] - LastLog[start]) |-> LastLog[start] + i]
        IN /\ pc \in {"wait", "filter"} => Handed = upto(lastBlock)
           /\ pc = "send" => Handed \o results = upto(current)

Cursor == INSTANCE LogCursor

\* The adapter receives what LogCursor promises: from the block at which it
\* subscribed, the matching logs one after the other, without a gap and once.
ImplementsCursor == Cursor!Safety

\* Until it is cancelled it receives each of them eventually, though calls fail and
\* answers lag for a while.
DeliversAll == Cursor!Fairness

\* The goroutine ends after a cancellation, also when it waits for a full channel.
PollerEnds == (cancelled /\ start # None) ~> (pc = "done")
=============================================================================
