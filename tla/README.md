# A TLA+ verification project for x-chain-oracle

x-chain-oracle watches blockchains, derives signals from their events and
streams them to gRPC subscribers. This directory models its concurrent core in
TLA+, with the functions that turn a log into signals and the loading of its
configuration, model-checks it with TLC on small instances and proves with TLAPS, for
every value of the constants, the safety invariants of every component, that the
emitter and the polling subscription implement what their readers are promised, that no
shutdown of the pipeline gets stuck, and what the rules read of an activity on a chain.

## The system

```
adapter -events-> forwarder -raw-> normalizer -chain-> enricher workers
        -enriched-> engine (rules, correlator + pruner) -signals-> emitter -> streams
```

| Component | State | Operations | What makes it correct | Model |
|---|---|---|---|---|
| Event correlator, `internal/engine/correlation.go` | a window of entries per event type, one TTL per type | `Process` (take, add), `Prune` on a ticker | entries used once, only live and matching, lost for a stated reason only, windows bounded | `Correlator` |
| Pipeline, `cmd/oracle/main.go` and the `Run` loops | five channels, one goroutine per stage and a pool, the context, a WaitGroup | receive, send, abandon on cancel, close, shutdown | nothing lost before cancel, nothing twice, no send on a closed channel, everything ends | `Pipeline` |
| gRPC emitter, `internal/signal/grpc` | listeners under an RWMutex, a buffer per stream, two counters | `Emit`, subscribe, dequeue/send, leave | in order and once per stream, never blocked by a client, honest counters | `Emitter`, `SignalStream`, `SignalFilter` |
| EVM adapter, `internal/adapter` | attempts, backoff, subscription, event channel, block timestamp cache | connect, process log, back off, return | nothing lost but what a broken subscription held, right timestamps, retries as configured, ends when cancelled | `Adapter` |
| Status tracker, `internal/status` | connection and last block per chain | set, update, snapshot | agrees with the adapter | `Adapter` |
| Polling strategy, `internal/adapter/evm/polling.go` | block cursor | poll, fetch range, retry | no gap, no repetition | `Poller`, `LogCursor` |
| Enricher and Chainlink provider, `internal/enricher`, `internal/price` | price and decimals caches under an RWMutex | `GetPriceUSD` by concurrent workers | the token's own price, never older than threshold and TTL together | `Enrichment` |
| Decoder, normalizer, registry, rules | none (the registry and rules files) | `Decode`, `Normalize`, lookups, `Evaluate` | what the rules read is the activity's own; missing or malformed data fires nothing | `Events` |
| Configuration, `internal/config` | none | file, environment keys, defaults, validation | nothing needed is missing, no checked number is negative, what reaches a setting is kept | `Config` |
| Telemetry, Solana and Cosmos stubs, CLI client, generated code | | | | not modelled |

Components interact through channels (the stages), through mutexes (windows,
listeners, price cache, tracker), through one cancelled context and through
the WaitGroup `main` waits for. The behaviours that are hard to test are listed
with their lines as `hazards` in `PROJECT.json`.

## Modules

**`Correlator`.** One `EventWindow` is a set of entries `[event, expiresAt]`;
the slice of the code is in arrival order, which is the order of the event ids.
`Receive` begins `Process` for an event; `SkipCorrelation` and
`TakeMatchingEntries` are one round of its loop each; `Add` or `Forget` ends
it. Each window operation holds the window's mutex and is one step. The pruner
goroutine takes a tick (`PruneTick`), visits the windows in any order
(`Prune`), and leaves after `Stop` (`PrunerExit`), all interleaved with the
loop of `Process` and with the clock (`Tick`). `TakeMatchingEntries` keeps an
entry at its very deadline where `Prune` removes it, as the code does.
`added` and `takes` are history variables. Definitions before the one they
resemble (`KeepMatches` before `Remaining`, and so on) are deliberately wrong
variants, used only to show that a property notices the difference.

**`Pipeline`.** `pc` and `held` give each goroutine its place and what it took
and has not sent; `chan` and `closed` are the channels. `Receive` is a round
of a `range` loop with its check of the context, `Send` and `AbandonSend` are
the two cases of the `select` around a send, `RangeEnds` the end of the loop,
`CloseChannel` the deferred `close` or the goroutine that closes after all the
writers. The forwarder has no context check, as in `main.go:108-110`.
`Wirings` holds the wirings the instance has: `TRUE` is that of `main.go`, where
one goroutine runs `Start` and then forwards; `FALSE` that of `e2e_test.go`, with
two goroutines. A stage's computation is abstracted to what it sends on: the
normalizer drops malformed events, the engine turns event e into the signals
`<<e, 1>>`, `<<e, 2>>`, ... The gRPC server is there with its streams and
`GracefulStop`, and so is the end of `main`.

**`SignalStream`** is what a subscriber is promised: matching signals published
after it subscribed, in order, none twice, possibly with gaps. **`Emitter`**
is the code: `Emit` visits the listeners one step at a time holding the read
lock (`visit > 0`), handlers register and unregister under the write lock
(guard `visit = 0`), dequeue and send in between. `Emitter` implements
`SignalStream` under the mapping `received <- sent` (`ImplementsStream`, checked
by TLC and proved). **`SignalFilter`** is `matchesFilter` over all five criteria.

**`LogCursor`** is what a subscription promises the adapter: from the block it
starts at, every matching log, in order, once, and as long as nobody cancels,
eventually. **`Poller`** is the code: `Poll` is a tick whose block lies above
the cursor (a failing call or an older block changes nothing), `Fetch` and
`FetchFails` the outcomes of `FilterLogs`, `Send` and `MoveCursor` the loop that
hands the range over and only then moves `lastBlock`, `Stop` the two
`pollCtx.Done` cases. `Receive` and `AdapterReturns` are the reading side in
`Adapter.Start`. The matching logs are numbered and `LastLog[b]` counts those up
to block b, so a range of blocks is an interval of numbers. `Poller` implements
`LogCursor` with the same variables: its safety is `ImplementsCursor`, checked and
proved, its liveness `DeliversAll`, checked.

**`Adapter`** is `Adapter.Start` inside `WithReconnect` over a subscription that
pushes logs, one action per step of its goroutine: `Connect`, `Failed`,
`BackoffElapses` and `BackoffCancelled` are the loop of `WithReconnect`;
`Subscribe`, `SubscribeFails` and the three ways out of the reading loop
(`SubscriptionLost`, `SubscriptionEnds`, `ReadingCancelled`) the connect function;
`SkipUndecodable` to `AbandonSend` are `processLog`, with the fetch of the header as
a step of its own (`CacheMiss`, then `HeaderArrives` or `HeaderFails`); `Disconnect`
and `CloseEvents` the deferred calls. `Set` is `BlockCache.Set`. `connected`,
`lastBlock` and `ts` are what the tracker was told. The node (`Emit`), the reader of
`Events()` (`Take`) and the context (`Cancel`) interleave with it. Blocks may go
back, which is how a reorganisation shows in this code.

**`Events`** holds no state: it translates `Decode` and the two decoders,
`Normalize`, the registry's lookups, the computation of `amount_usd` and
`Evaluate` with its conditions. A Go string is a tagged value, so that
`0xAB` as `Hex` prints it and `0xab` as `ToLower` leaves it are different, as in
the code's map lookups and comparisons, and numerals are told from other texts.
**`Enrichment`** extends it with what runs concurrently: the workers of the pool in
`GetPriceUSD`, step by step between its locks and its calls, the clock, and the
price feeds. A worker's event starts as an activity on a chain, from which `LogOf`
makes the log, and `EventsOf` the event that reaches the enricher.
`Events` can so be judged end to end: `SignalsMeant` (in `MCEnrichment`) compares the
signals of `Evaluate` with what the rules say of the activity, in dollars of whole tokens.
A token the bridge names is a record `[chain, prefix, address]`, the two parts of the 32
bytes of its origin address and the chain it is native to; `Transfer` keeps the last 20
bytes only, as `decoder.go:99` does. `SignalsMeant` demands the exact signals for this
chain's tokens without decimals; with decimals it demands that no sum appears too small,
which is what is left of the rules' meaning under finding 4; of other chains' tokens it
demands nothing.

**`Config`** is `Load`: an operator edits the file and exports a variable, then
`Merged`, `Unmarshal`, `WithDefaults` and `Validate` are the stages of the function.
Keys are sequences of components and components sequences of words, because
`bestKeyMatch` has only the words of `ORACLE_CHAINS_ETHEREUM_RPC_URL` and tries all
the dots; its recursive search is modelled by its result, the last match it finds.
`Said` is what the operator says of a setting and `Heard` what of it reaches the setting:
a variable does if the file has the key, or if the key has no underscore and no other key
of the file the same words (`Reached`).

`MCCorrelator`, `MCPipeline`, `MCEmitter`, `MCPoller`, `MCAdapter`, `MCEnrichment` and
`MCConfig` bind the constants for TLC. **`CorrelatorProofs`**, **`PipelineProofs`**,
**`EmitterProofs`**, **`PollerProofs`**, **`AdapterProofs`**, **`EnrichmentProofs`** and
**`ConfigProofs`** hold the theorems, and **`SequenceLemmas`** the facts about
appending, shortening, joining and filtering sequences that several of them need.

## Runs

| Run | What it shows | Bounds |
|---|---|---|
| `correlator` | the seven safety properties of the windows; expired entries leave without any trigger | 3 events of 3 types (one no correlation mentions) and 2 field values, clock 0..3, cap 2, three correlations: two that compete for the same first type and trigger (with different windows, counts and fields, one of them unknown), one that triggers on its own first type with an unparsable window |
| `correlator_own_window` | **violated**: a correlation matches events outside its own window | 4 events of 2 types, the rest as `correlator` |
| `pipeline` | exactly-once before cancellation, order, closing, termination, shutdown | both wirings; 3 logs, one malformed, one with two signals; 2 workers; buffers 3, 2, 1, 1, 1; 1 subscriber |
| `pipeline_live_flow` | **violated**: nothing flows while the adapter runs | as `pipeline`, wiring of `main.go` |
| `pipeline_shutdown` | **violated**: a connected subscriber keeps `main` from ending | as `pipeline`, wiring of `main.go` |
| `emitter` | counters, first signals, refinement of `SignalStream` | 2 subscribers, 3 signals of 2 kinds, 3 filters, buffer 2 |
| `emitter_liveness` | slow subscribers delay nobody, gone ones are removed | 2 subscribers of which one never has to read, 2 signals, buffer 1 |
| `poller` | the cursor is exact, refines `LogCursor`; every log is delivered until cancelled; the goroutine ends | 4 blocks with 2, 0, 1 and 3 logs, log channel of 2 |
| `adapter` | order, losses and timestamps of events, the block cache, retries and waits, the tracker, the end after a cancellation | 3 logs in blocks 1..3 or undecodable, cache size 1, event buffer 1, three backoff configurations: 3 attempts with a cap the second wait meets, 2 attempts with a first wait above the cap, a negative number of attempts |
| `enrichment` | age and origin of prices, and the signals of every activity, for rules whose sums are dollars of whole tokens | 2 workers, 14 activities (tokens with 0 and 1 decimals, one of another chain with the last bytes of a token of this one), 2 feeds of which one publishes twice, TTL 2, threshold 1, clock 0..3, 6 rules with every operator but `gte` |
| `enrichment_dollars` | **violated**: `amount_usd` is not dollars for a token with decimals | as `enrichment` |
| `config` | what is accepted is complete and not negative where it is checked; what reaches a setting is kept; when telemetry is off | a file like `config.toml` with one chain and no telemetry, up to two changes: edit or delete any key, add the misspelled `grpc_port`, export a variable; values -1, 0, 1, 9090, 65536 |

Why the bounds are enough: three events overflow a window of two, and let a trigger meet
one or two earlier events, enough or too few of them; a trigger that follows an overflow
would take a fourth event, and is covered by the proofs, which hold for every bound
below. The clock runs to the longest window. One-place channels make every stage of
the pipeline block, and the raw channel with the forwarder's hands holds exactly what the
adapter's buffer does, so that the forwarder waits in its plain send and still ends.
Three signals fill a buffer of two and overflow it. The poller's
blocks include an empty one and one with more logs than the channel holds.
With a cache size of 1 the adapter's cache keeps two of three blocks and evicts both
on progress and on a late old block; three attempts are the fewest with two waits,
of which the second is capped. In `enrichment` a price can expire in the cache, be
stale when fetched, and be refilled by both workers in either order; amounts lie on
both sides of each rule's threshold, for two of them depending on the round. Two
changes of a configuration suffice for a default to meet a given value and for a
variable to meet a misspelled key. Symmetry (of field values, subscribers, workers)
is used only in runs without liveness.
`CHECK_DEADLOCK FALSE` is said because every model really ends: the clock and
the inputs are bounded, and the engine, `main`, the adapter and the streams stop.

**Fairness.** `Correlator`: the pruner (the ticker fires as long as it lives).
`Pipeline`: every goroutine that can step does, and `Start` returns once the
context is cancelled; nothing obliges a log to arrive, the context to be
cancelled, the adapter to end by itself or a client to leave. `Emitter`: `Emit`
and the handlers step, a waiting writer gets the lock (`sync.RWMutex` blocks new
readers behind it, hence strong fairness of `Unsubscribe`); only a subscriber in
`Prompt` is sure to let `Send` return.

`Poller`: the ticker fires and the goroutines run; calls to the node may fail and
answers may lag any number of times but not for ever (strong fairness of the
successful outcomes); the adapter's loop reads, which supposes that somebody
reads `Adapter.Events()` (finding 1 is about `main.go` not doing so). `Adapter`: its
goroutine runs, timers fire and every call to the node ends in some way; nobody has
to read its events. `select` chooses at random among the ready cases, so a case that
is ready again and again is chosen in the end: strong fairness of
`ReadingCancelled`. `Enrichment` and `Config` state no liveness.

## Findings

1. *No event flows while an adapter runs* (`LiveFlow`). `main.go:99-111` calls
   the blocking `Start` and ranges over the adapter's events after it. Up to
   `event_buffer` events are processed when the adapter ends; then it has
   stopped. `e2e_test.go:264-276` uses two goroutines and does not see it;
   `integration_test.go:313-319` has the wiring of `main.go`, but the log channel of its
   mock is closed from the start, so that `Start` returns at once.
   The theorem `NothingWhileStartRuns` says it for every buffer size and pool.
   Moving the forwarder into a goroutine of its own would not be enough: its
   send (`main.go:109`) ignores the context, so it would block after the
   normalizer has returned. In the wiring of `main.go`, `PipelineTerminates`
   needs `event_buffer <= raw_event_buffer + 1` (one event is in the forwarder's
   hands), which the defaults satisfy (256 and 512) and no validation enforces; with
   buffers of 3 and 1 TLC finds the forwarder stuck. With two goroutines no buffer is large
   enough for every number of logs. `ShutdownNeverStuck` proves that up to these
   bounds (`ForwarderHasRoom`) nobody gets stuck.
2. *A subscriber blocks the shutdown* (`ShutdownCompletes`). `GracefulStop` waits
   for streams that end only with their clients. `ShutdownWithoutSubscribers`
   shows that this is the only obstacle, and the theorem `MainReturnsLast` that `main`
   returns only when no client is left.
3. *A correlation's own window is not enforced* (`WithinOwnWindow`): the longest
   window of all correlations that mention a type holds for each of them. A correlation
   keeps to its own if none of the others has a wider one (`WidestKeepsWindow`, proved).
4. *`amount_usd` is not in dollars* (`AmountInDollars`). `enricher.go:99` multiplies the
   token's smallest units by the price of a whole token, so a rule
   `amount_usd > 50000` passes for a twentieth of a dollar in USDC, which has 6
   decimals. The tests are split: `e2e_test.go:312` reads the product as dollars,
   `enricher_test.go:68` asserts the product itself. `DecimalsNeverDivide`
   proves it for every token, amount and price above zero.

Observed, without a run of its own:

- `decoder.go:105` gives every deposit the token bridge's address as its sender, so
  the shipped correlation `approval_then_bridge`, which asks for the same
  `source_address`, never matches a user's approval with that user's deposit
  (`UsersMeetNoDeposit`, proved); and the
  shipped registry lists no token contract, so approvals are not subscribed to.
- The registry's addresses are subscribed to however they are spelt, but
  `LookupContract` finds only the spelling of `Hex` and `LookupPriceFeed` only lower
  case. The instance of `Enrichment` has such a contract: its events have no name.
- The counter and the backoff of `WithReconnect` are never reset: `max_retries`
  counts the failures of a whole life (`RetryDiscipline` says so). `Connected` stays
  true during a backoff, and a first wait above the cap is waited in full.
- Not everything can be overridden, although `README.md:44` calls the three files "all
  overridable with `ORACLE_*` env vars". `bestKeyMatch` looks for the variable's key among
  those of the file, and otherwise puts dots for all underscores (`config.go:319`): for a
  key with an underscore that the file leaves to its default, the variable is lost without a
  word, as `ORACLE_CHAINS_SOLANA_POLL_INTERVAL` is with the shipped `config.toml`.
  `SettingsKept` has the exact condition (`Reached`), and `UnreachedIgnored` proves the
  loss. The registry and the rules are loaded without any variable.
- Telemetry that is said to be off may be turned on. The comment at `config.go:201-202` says
  that once any telemetry field is set, the user controls `enabled`; the code looks at three
  of them (`config.go:203`), so `enabled = false` alone, or beside an environment, a service
  version or a sample ratio, becomes true. `SettingsKept` says exactly when it stays off.
- Negative channel capacities and retries pass `Validate`: `make(chan)` then panics, and
  `WithReconnect` gives up at once. `PositiveUnlessUnchecked` names the settings this is
  true of.
- Of a bridged token the decoder keeps the last 20 bytes of the 32-byte origin address and
  ignores the chain it is native to (`decoder.go:99`), so a token of another chain is
  looked up as if it were one of this chain (`OriginIgnored`, proved); and an empty payload
  panics at `payload[0]` (`decoder.go:91`) instead of giving an error.
- Two silences of the correlator no validation mentions, both proved for every rules file:
  a `min_first_count` above `max_window_size` is never reached (`CountAboveCap`), and since
  a trigger takes its matches even when they are too few, a correlation behind one with
  the same sequence and no other fields never fires (`ShadowedNeverFires`).
- An older price round may overwrite a newer one in the cache, within the age
  `ServedAge` allows; the enricher's pool reorders events before the correlator, which
  depends on their order.

## Proofs

`CorrelatorProofs` proves, for every list of correlations `LoadRules` accepts,
every cap, TTL and bound: `TypeCorrect`, `WindowBounded`, `WindowsOrdered`,
`TakenOnce`, `SignalsJustified`, `TriggersDrain` and `NothingSilentlyLost`, that
is, all the safety properties of the `correlator` run. The assumptions are those
named in `Correlator`: two-element sequences, durations bounded by
`MaxDuration`, natural bounds, known field names are strings.

None of the properties but the type invariant is inductive alone. `IInv` adds

- `HistoryInv`: windows hold only entries that were added, under their type;
  ids grow with arrival, and the event in hand is the newest; what was taken had
  been added. Without it a fresh entry could have been taken before
  (`NoDoubleUse`), or be older than a trigger (`Drained`).
- `ExpiryInv`: later entries of a type expire later, because the type's TTL is
  one constant. It gives `WindowOrdered`.

`StepCases` reduces a step to the five that touch windows or events, and one
lemma per part of the invariant goes through them. Four more theorems sharpen the picture.
`NothingReturns` is an action property: what left a window never comes back. `CountAboveCap`
needs that every take came from one window, whose size `WindowBound` bounds, and
`ShadowedNeverFires` that the loop of `Process` has made a take for every correlation it
has passed, after which `Drained` leaves the later one nothing (`UseInv`, which `UseHolds`
proves next to `IInv`);
`WidestKeepsWindow` follows from `ExpiryInv`: the deadline of an entry is its arrival plus
the TTL of its type. `MaxDefined` shows that the
maximum of `WindowTTL` exists, from the well-foundedness of the naturals;
`LossStep` counts the newer entries an overflow leaves with the finite-set
theorems.

`EnrichmentProofs` proves `AgeServed`, `PricesOwn` and `TypeCorrect` for any number of
workers, any registry, any feeds and rounds, TTL and threshold, under `ProviderAssumption` (positive
durations, which `Validate` enforces; a price feed of the registry exists and has
answered once). The first two speak of a price already in an event; the invariant `IInv` follows it
back: what a worker holds between its calls belongs to its own feed (`GoodState`), only a
feed's own decimals are remembered (`DecimalsInv`), and a cached price expires before its
round is older than threshold and TTL together (`CacheInv`), because `Store` is the one
write and follows the staleness check. `WorkerStep` and `QuietStep` reduce the steps of one
worker to the state it goes to; `RoundsKept` shows that publishing disturbs no round
somebody holds. `TypeOK` is inductive next to `IInv`, which knows the feed a worker's round
belongs to; that powers of ten are natural, which the provers cannot derive, is
`PowersAssumption`.

The same module proves what the rules read, for any registry, names and prices.
`TheActivityIsSeen` states the enriched event of a message or an approval from the
activity itself: its amount, destination and source, an approval's token, of a bridged
token the last 20 bytes of its address whatever its chain, and as `amount_usd` the
undivided amount times the price of the feed those bytes have. That the chain makes no
difference to the event or its feed is `OriginIgnored`. It goes through the functions of `Events` (`DepositEvents`,
`ApprovalEvents`: what decoder and normalizer make of the log, and that nothing but the
bridge's own transfer makes a deposit), the arithmetic of `amount_usd` (`WorthOfAmount`)
and the little the workers must preserve (`WorkInv`: each works on an activity that has an
event). Its hypotheses are about Go's types, not about the instance: values that are no
strings and missing values differ from strings and numbers (`ValuesApart`), amounts are
unsigned (`AmountsNatural`). `LargeDepositsFire`, `MissingComparesWithNothing`,
`DecimalsNeverDivide` and `UsersMeetNoDeposit` follow: what the shipped rule means for any
threshold and destination, what a missing price does to every comparison, and the two
limits of what is computed.

`AdapterProofs` proves `Skips` (`NothingSkipped`), `Stamps` (`EventStamped`), `Window`
(`CacheWindow`), `RetriesCounted` (`RetryDiscipline`), `TrackerHonest` (`TrackerAgrees`)
and `TypeCorrect` for every backoff configuration, cache size, event buffer, number of
blocks and logs, under `ConfigAssumption` alone. `NothingSkipped` compares logs far apart
in time, so the invariant orders all of them at once: those the reader took, those in the
channel, the one in hand and those of the live subscription's channel are in the order of
emission (`OrderInv`), and a waiting log is of the newest subscription (`SubInv`). Then
what a lost subscription throws away is later than all that left (`LeaveStep`), and a
header that fails cannot touch the stamp of an earlier event (`HeaderFailsStep`): the
failed log is the newest in hand. Every step outside the reading loop is one case of
`ControlStep`; `AcceptedElements` carries the result from elements over to the sequence
`Accepted`. This invariant speaks of all values (`\A l`), so it is not one TLC can
evaluate; the `adapter` run checks the properties themselves. A second invariant,
`Bookkeeping`, follows `WithReconnect` and the tracker: `CountInv` says at each place of
the loop how losses and attempts relate (a loss is counted before its attempt is), `WaitInv`
that the next wait follows from the last, `TrackInv` which event the last block is of. It
needs the first one for the log in hand and the order of events.

`PollerProofs` proves `TypeCorrect`, `Exact` (`CursorExact`) and `Refinement`
(`ImplementsCursor`) for every chain, channel size and interleaving of failing calls and
old answers. `CursorExact` speaks of the moments between two ranges only. `FlowInv`
extends it to all: what was delivered, what is in the channel and what is still to be sent
are intervals of log numbers that follow each other, from the subscription's block to the
end of the range under way. Then the log a reader receives is the next one, which is the
step `Deliver` of `LogCursor`; all other steps stutter or cancel.

`EmitterProofs` proves `TypeCorrect`, `Counted` (`CountersAgree`), `FirstTaken`
(`FirstSignalsTaken`) and `Refinement` (`ImplementsStream`) for any set of subscribers,
filters, signals and any buffer. In `IInv`, `SubscriptionInv` says that every subscription
is older than the signal `Emit` is visiting with, which its read lock ensures; `OrderInv`
that a channel took only what it was offered, in order. The
counters are compared with cardinalities: a visit adds one pair to exactly one of `Taken`
and `Missed` (`PairAdded`), and no other step changes either (`StreamKeepsBooks`,
`HeadMoved`), for `Send` and `Dequeue` only move signals along.

`PipelineProofs` proves `TypeCorrect`, `SendsAreSafe` (`NoSendOnClosed`), `EventsInOrder`
(`SourceOrder`), `SignalsInGroups` (`SignalsTogether`) and `NoneTwiceNoneLost`
(`ExactlyOnce`) for both wirings, any workers, logs, signals per event and buffers. All
holders of items, goroutines, channels and what was emitted, are queues of one function
`Q`. The actions are first reduced to what they do to `Q` (`Effect`): an item arrives, moves
from the head of one queue to the end of the next, becomes its signals in the engine, is
rejected as malformed, or is lost after the cancellation. Each part of the invariant is then
kept by the six effects instead of by every action: `OrderInv` orders the line of queues in
front of the workers, `UniqueInv` says that no two places hold the same item or an event and
its signal, `PresentInv` that until the cancellation each signal or its event is somewhere,
`GroupInv` that behind the engine a signal follows its predecessor. `ReturnInv` (a channel is
closed only when its writers have returned) is what `NoSendOnClosed` needs.

That a signal is somewhere says nothing about a signal left in a channel for ever: that is
liveness (`PipelineTerminates`, `DrainsAfterAdapter`). Its safe half is proved.
`WaitingInv` relates what the goroutines wait for: before the forwarder starts everything
behind the adapter's buffer is empty and at its first receive (`QuietInv`), a stage
returns before the cancellation only with its input closed and empty (`EndInv`), `main`
returns behind all of them and the server behind its streams (`ShutInv`), and what the
forwarder still has to pass on, with what is in `rawEvents` already, is no more than was
produced, nor in `main.go`'s wiring than the adapter's buffer holds (`RoomInv`). From it
follow `NothingWhileStartRuns`, `MainReturnsLast` and `OrderlyEndEmitsAll`, and, by going
down the pipeline from the adapter to the first stage that has not returned,
`ShutdownNeverStuck` and `DrainNeverStuck`: until all have returned one of them can step.
The forwarder is the one goroutine whose send nothing but a reader can end, so the first
needs `ForwarderHasRoom` and weighs `RoomInv` against the room there is. `ShutdownWanes`
adds that after a cancellation every step of the pipeline lowers the natural number
`Todo`, which weighs each goroutine's place and each item by the steps still before it,
for any finite pool. What is left to TLC is only the appeal to fairness that joins the
two, since `CanStep` speaks of what a step needs and not of ENABLED.

`ConfigProofs` proves `Accepted` (`PositiveUnlessUnchecked`), `DefaultsFillGaps`, `Kept`
(`SettingsKept`) and `UnreachedIgnored` for every file, set of chains, variable and value.
`LoadInv` says that what was accepted is what the stages of `Load` made of the file that is
still there. The work is in the arms of `WithDefaults`: a chain's key, a stage and
`telemetry.enabled` are none of the keys with a plain default (`DefaultsShallow`,
`StageKeys`, `ChainSettingKey`, `EnabledKey`), so each is under the arm meant for it, and
what comes out of it is a positive default or what the merged file has (`PlainValue`,
`ChainValue`). For `Accepted` every setting the program needs is then either checked or
listed in `Unchecked` or `Texts` (`CheckedOrNot`). `Kept` and `UnreachedIgnored` rest on
`AsHeard`: the merged file has for each setting what was heard of it. That has a
hypothesis, `KeysTold`: of two keys with the same words one is a setting
and the other a misspelling of it that `bestKeyMatch` finds earlier. TLC evaluates it for
the instance of the `config` run; a misspelling with an earlier dot, such as
`rpc.url` for `rpc_url`, would take the variable away from the setting.

What TLAPS does not reach stays with TLC: `ExpiredPruned`, `DeliversAll` and the other
liveness properties, which need fairness and ENABLED. `SignalsMeant` is about the rules and
activities of its instance, and `Evaluate` selects the rules that fire with `SelectSeq`, of
which the provers have no definition; what a single rule's conditions mean is proved.

## Abstractions

A price's check and its entry in the cache are one step of `Enrichment` (the write
lock is taken between the check and the return, with no call in between), and time
passes in units of the TTL. Block times are a function of the block number, so the
cache is not told of a block replaced by a reorganisation; logs marked as removed are
logs like others, as in the code. Answers of a feed are natural numbers; the code
reads a negative answer as a huge unsigned one. Numerals are multiples of
1 / `Scale`; floating point is left out. The tracker is modelled for one chain: chains
share only its mutex. `Emitter` counts a signal in the step that puts it into the
buffer, where the code does so right after (`grpc.go:88-89`): for that instant the counter
may lag behind in the code. `AdapterEnds` supposes that every call to the node ends, the
dial included, which takes no context (`evm.go:153`). `Set` keeps the guard of the code
before its unsigned subtraction; no block of the run is below the cache size, where a missing
guard would show. In `Config` durations and numbers are integers, every other
type is zero or not.

## Not modelled

Telemetry only observes; `MonitorChannels` samples lengths, and nothing waits for an
exporter. The Solana and Cosmos adapters are stubs that `main` does not start (their
event types are covered in `Events`). The command-line client prints what it
receives, and generated protobuf code has no behaviour of its own. Byte-level
reading of ABI words and payloads (`decoder.go:69-97`) is abstracted to data that can be
read or cannot. The bridge publishes no empty payload (`BridgeAssumption`), for which the
decoder would panic, and no offset or length near 2^64, whose sums would wrap around in
`decoder.go:74-80`. The reading of the registry and rules files is abstracted to the
constants they end up in (`LoadRules` is what is accepted).

## Plan

1. Done: `Correlator` with its proofs, `Pipeline`, `Emitter` with `SignalStream`,
   `Poller` with `LogCursor`, `Adapter`, `Events` with `Enrichment`, `Config`.
2. Done: a theorem for every safety property of the runs but `SignalsMeant`, for both
   refinements, for the pipeline's end getting stuck nowhere (within the bound of finding 1),
   and for what rules and correlations can see at all.
3. To do: `Evaluate` as a whole for any rules file (the order of its signals), once its
   selection is written in a form the provers know.
