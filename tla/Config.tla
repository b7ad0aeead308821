------------------------------- MODULE Config -------------------------------
(***************************************************************************)
(* Load of src/internal/config/config.go: the file, the environment        *)
(* variable that overrides one of its keys, the defaults and Validate.     *)
(* A key is a sequence of components and a component a sequence of words:  *)
(* chains.ethereum.rpc_url is chains, ethereum, rpc url.  The variable     *)
(* ORACLE_CHAINS_ETHEREUM_RPC_URL shows only the words.  Every value is a  *)
(* number, 0 the zero value of its type (absent, empty, false); durations  *)
(* are in seconds and the sample ratio in percent.                         *)
(***************************************************************************)
EXTENDS Integers, Sequences
LOCAL INSTANCE SequencesExt

CONSTANTS BaseFile,    \* a file Load accepts: key -> value
          Chains,      \* the chains that may be configured, as components
          ExtraKeys,   \* keys of a file that no setting has
          Values,      \* values a key or variable may get
          MaxChanges,  \* bound: changes made to the file and the environment
          None

Setting(section, name) == <<<<section>>, name>>
Telemetry(path) == <<<<"telemetry">>>> \o path
ChainKey(c, path) == <<<<"chains">>, c>> \o path

GRPCPort == Setting("grpc", <<"port">>)
Workers == Setting("enricher", <<"workers">>)
CacheTTL == Setting("chainlink", <<"cache", "ttl">>)
StalenessThreshold == Setting("chainlink", <<"staleness", "threshold">>)
PruneInterval == Setting("engine", <<"prune", "interval">>)
MaxWindowSize == Setting("engine", <<"max", "window", "size">>)
BlockCacheSize == Setting("tuning", <<"block", "cache", "size">>)
LogChannelBuffer == Setting("tuning", <<"log", "channel", "buffer">>)
Enabled == Telemetry(<<<<"enabled">>>>)
OTLPEndpoint == Telemetry(<<<<"otlp", "endpoint">>>>)
HTTPPort == Telemetry(<<<<"http", "port">>>>)
ServiceName == Telemetry(<<<<"service", "name">>>>)
SampleRatio == Telemetry(<<<<"tracing">>, <<"sample", "ratio">>>>)
Stages == {Telemetry(<<<<"tracing">>, <<"stages">>, <<s>>>>) :
              s \in {"adapter", "normalizer", "enricher", "engine", "emitter"}}
RPCURL == <<<<"rpc", "url">>>>
SubscriberBufferSize == Setting("grpc", <<"subscriber", "buffer", "size">>)
DefaultWindowTTL == Setting("engine", <<"default", "window", "ttl">>)
PipelineBuffers ==
    {Setting("pipeline", b) : b \in {<<"raw", "event", "buffer">>, <<"chain", "event", "buffer">>,
                                     <<"enriched", "event", "buffer">>, <<"signal", "buffer">>}}
BatchTimeout == Telemetry(<<<<"tracing">>, <<"batch", "timeout">>>>)
ExportInterval == Telemetry(<<<<"metrics">>, <<"export", "interval">>>>)
LatencyBuckets == Telemetry(<<<<"metrics">>, <<"histogram", "buckets">>, <<"latency", "ms">>>>)
PollInterval == <<<<"poll", "interval">>>>
MaxRetries == <<<<"backoff">>, <<"max", "retries">>>>

\* The map with the given entries, and a map with v at k.
MapOf(entries) ==
    [k \in {e[1] : e \in entries} |-> (CHOOSE e \in entries : e[1] = k)[2]]
Put(map, k, v) == [j \in DOMAIN map \cup {k} |-> IF j = k THEN v ELSE map[j]]

\* What applyDefaults puts in the place of 0.
DefaultEntries == {
    <<SubscriberBufferSize, 64>>,
    <<StalenessThreshold, 7200>>,
    <<DefaultWindowTTL, 30>>,
    <<PruneInterval, 5>>, <<MaxWindowSize, 10000>>,
    <<Setting("pipeline", <<"raw", "event", "buffer">>), 512>>,
    <<Setting("pipeline", <<"chain", "event", "buffer">>), 256>>,
    <<Setting("pipeline", <<"enriched", "event", "buffer">>), 64>>,
    <<Setting("pipeline", <<"signal", "buffer">>), 32>>,
    <<BlockCacheSize, 100>>, <<LogChannelBuffer, 256>>,
    <<OTLPEndpoint, 1>>, <<HTTPPort, 9090>>, <<ServiceName, 1>>, <<SampleRatio, 100>>,
    <<BatchTimeout, 5>>, <<ExportInterval, 10>>, <<LatencyBuckets, 1>>}
Defaults == MapOf(DefaultEntries)
ChainDefaultEntries == {
    <<PollInterval, 12>>, <<<<<<"event", "buffer">>>>, 256>>,
    <<<<<<"backoff">>, <<"initial">>>>, 1>>, <<<<<<"backoff">>, <<"max">>>>, 30>>,
    <<MaxRetries, 10>>}
ChainDefaults == MapOf(ChainDefaultEntries)

ChainSettings == DOMAIN ChainDefaults \cup {RPCURL, <<<<"mode">>>>}
Keys == DOMAIN Defaults \cup Stages
        \cup {<<<<"log", "level">>>>, GRPCPort, Workers, CacheTTL, Enabled}
        \cup {Telemetry(<<p>>) : p \in {<<"otlp", "insecure">>, <<"service", "version">>,
                                        <<"environment">>}}
        \cup {ChainKey(c, p) : c \in Chains, p \in ChainSettings}

ASSUME FileAssumption ==
    /\ DOMAIN BaseFile \subseteq Keys /\ \A k \in DOMAIN BaseFile : BaseFile[k] \in Int
    /\ Values \subseteq Int /\ MaxChanges \in Nat
-----------------------------------------------------------------------------
VARIABLES file,     \* the file: key -> value
          env,      \* the ORACLE_ variable that is set, [words, value], or None
          changes,  \* how far file and environment are from the base file
          cfg,      \* what Load returned
          pc        \* "editing", "accepted", "rejected"

vars == <<file, env, changes, cfg, pc>>

Words(key) == FlattenSeq(key)

\* bestKeyMatch tries "_" before "." at each place and keeps the last key it finds:
\* of two keys with the same words, the one with the earlier dot.
FoundLater(k, other) ==
    \E i \in DOMAIN k \cap DOMAIN other :
        Len(k[i]) < Len(other[i]) /\ \A h \in 1..(i - 1) : k[h] = other[h]

\* A key with a dot between any two words: bestKeyMatch's answer if no key matches.
Dotted(words) == [i \in DOMAIN words |-> <<words[i]>>]

FirstKeyMatch(words, existing) ==
    LET matches == {k \in existing : Words(k) = words}
    IN IF matches = {} THEN Dotted(words)
       ELSE CHOOSE k \in matches : \A other \in matches \ {k} : FoundLater(other, k)
BestKeyMatch(words, existing) ==
    LET matches == {k \in existing : Words(k) = words}
    IN IF matches = {} THEN Dotted(words)
       ELSE CHOOSE k \in matches : \A other \in matches \ {k} : FoundLater(k, other)

\* The second k.Load: the variable's key is added to the file's, or replaces its value.
Merged ==
    IF env = None THEN file
    ELSE Put(file, BestKeyMatch(env.words, DOMAIN file), env.value)

\* k.Unmarshal: a key no setting has is ignored, but one below chains makes a chain.
Unmarshal(k) == IF k \in DOMAIN Merged THEN Merged[k] ELSE 0
Configured == {c \in Chains : \E k \in DOMAIN Merged :
                   Len(k) >= 2 /\ k[1] = <<"chains">> /\ k[2] = c}

Or(value, default) == IF value = 0 THEN default ELSE value

\* Telemetry is on if nothing but off is said of it; the stages are on if all are off.
TelemetryOn ==
    Unmarshal(Enabled) # 0
    \/ \A k \in {OTLPEndpoint, HTTPPort, ServiceName} : Unmarshal(k) = 0
NoStage == \A s \in Stages : Unmarshal(s) = 0

\* applyDefaults.
WithDefaults ==
    [k \in Keys |->
        CASE k \in DOMAIN Defaults -> Or(Unmarshal(k), Defaults[k])
          [] k = Enabled -> IF TelemetryOn THEN Or(Unmarshal(k), 1) ELSE 0
          [] k \in Stages -> IF NoStage THEN 1 ELSE Unmarshal(k)
          [] /\ Len(k) > 2 /\ k[1] = <<"chains">> /\ k[2] \in Configured
             /\ SubSeq(k, 3, Len(k)) \in DOMAIN ChainDefaults ->
                 Or(Unmarshal(k), ChainDefaults[SubSeq(k, 3, Len(k))])
          [] OTHER -> Unmarshal(k)]

MaxPort == 65535
Port(n) == n \in 1..MaxPort

\* Validate; the first form only asks that nothing is 0.
ValidNonZero(c) ==
    /\ Port(c[GRPCPort])
    /\ \A k \in {Workers, CacheTTL, StalenessThreshold, MaxWindowSize, PruneInterval,
                 BlockCacheSize, LogChannelBuffer} : c[k] # 0
    /\ \A chain \in Configured :
           c[ChainKey(chain, RPCURL)] # 0 /\ c[ChainKey(chain, PollInterval)] # 0
ValidSettings(c) ==
    /\ Port(c[GRPCPort])
    /\ \A k \in {Workers, CacheTTL, StalenessThreshold, MaxWindowSize, PruneInterval,
                 BlockCacheSize, LogChannelBuffer} : c[k] >= 1
    /\ \A chain \in Configured :
           c[ChainKey(chain, RPCURL)] # 0 /\ c[ChainKey(chain, PollInterval)] > 0
\* The telemetry part looks at the file, before the default port is known.
ValidateGivenPort(c) ==
    /\ ValidSettings(c)
    /\ c[Enabled] # 0 /\ Unmarshal(HTTPPort) # 0 =>
           /\ Port(c[HTTPPort]) /\ c[HTTPPort] # c[GRPCPort]
           /\ c[SampleRatio] \in 0..100
Validate(c) ==
    /\ ValidSettings(c)
    /\ c[Enabled] # 0 =>
           /\ Port(c[HTTPPort]) /\ c[HTTPPort] # c[GRPCPort]
           /\ c[SampleRatio] \in 0..100
-----------------------------------------------------------------------------
Init ==
    /\ file = BaseFile /\ env = None /\ changes = 0
    /\ cfg = None /\ pc = "editing"

Edit(k, v) ==
    /\ pc = "editing" /\ changes < MaxChanges
    /\ file' = Put(file, k, v)
    /\ changes' = changes + 1
    /\ UNCHANGED <<env, cfg, pc>>

Delete(k) ==
    /\ pc = "editing" /\ changes < MaxChanges /\ k \in DOMAIN file
    /\ file' = [j \in DOMAIN file \ {k} |-> file[j]]
    /\ changes' = changes + 1
    /\ UNCHANGED <<env, cfg, pc>>

Export(k, v) ==
    /\ pc = "editing" /\ changes < MaxChanges /\ env = None
    /\ env' = [words |-> Words(k), value |-> v]
    /\ changes' = changes + 1
    /\ UNCHANGED <<file, cfg, pc>>

Load ==
    /\ pc = "editing"
    /\ IF Validate(WithDefaults) THEN pc' = "accepted" /\ cfg' = WithDefaults
       ELSE pc' = "rejected" /\ UNCHANGED cfg
    /\ UNCHANGED <<file, env, changes>>

Next ==
    \/ \E k \in Keys \cup ExtraKeys, v \in Values : Edit(k, v)
    \/ \E k \in Keys : Delete(k)
    \/ \E k \in Keys, v \in Values : Export(k, v)
    \/ Load

Spec == Init /\ [][Next]_vars
-----------------------------------------------------------------------------
(* Properties *)

\* What the program cannot do without, and which of it is text (any value but 0 will do).
Needed ==
    DOMAIN Defaults \cup {GRPCPort, Workers, CacheTTL}
    \cup {ChainKey(c, p) : c \in Configured, p \in DOMAIN ChainDefaults \cup {RPCURL}}
Texts ==
    {OTLPEndpoint, ServiceName, LatencyBuckets} \cup {ChainKey(c, RPCURL) : c \in Chains}

\* The numbers Validate does not look at: channel capacities, retries and waits, the
\* default window, the exporters' intervals, and the rest of telemetry when it is off.
Unchecked ==
    {SubscriberBufferSize, DefaultWindowTTL, BatchTimeout, ExportInterval}
    \cup PipelineBuffers
    \cup {ChainKey(c, p) : c \in Chains, p \in DOMAIN ChainDefaults \ {PollInterval}}
    \cup IF cfg[Enabled] = 0 THEN {HTTPPort, SampleRatio} ELSE {}

\* What file, variable, defaults and checks come to together: nothing needed is missing
\* or 0 in an accepted configuration, and nothing is negative but a number the operator
\* gave for a setting that is not checked.  Those do pass: make(chan) panics on a negative
\* capacity, and a negative max_retries ends the adapter with its first loss.  No port is
\* claimed by two listeners, the default of 9090 included, and some stage is traced.
PositiveUnlessUnchecked ==
    pc = "accepted" =>
        /\ \A k \in Needed :
               \/ cfg[k] > 0
               \/ cfg[k] # 0 /\ cfg[k] = Unmarshal(k) /\ k \in Unchecked \cup Texts
        /\ cfg[Enabled] # 0 => /\ cfg[HTTPPort] # cfg[GRPCPort]
                               /\ {cfg[HTTPPort], cfg[GRPCPort]} \subseteq 1..MaxPort
                               /\ cfg[SampleRatio] <= 100
        /\ \E s \in Stages : cfg[s] # 0

\* What the operator says of k: by the variable with k's words, or else in the file.
Variable(k) == env # None /\ env.words = Words(k)
Said(k) == IF Variable(k) THEN env.value ELSE IF k \in DOMAIN file THEN file[k] ELSE 0

\* Whether a variable of k reaches it: the file has k, or k has a dot between any two
\* words and the file has no other key with these words.
Reached(k) ==
    \/ k \in DOMAIN file
    \/ k = Dotted(Words(k)) /\ \A other \in DOMAIN file : Words(other) # Words(k)
Heard(k) == IF Variable(k) /\ ~ Reached(k) THEN 0 ELSE Said(k)

\* The environment can tell the keys of a file apart: two keys with the same words are a
\* setting and its misspelling, and bestKeyMatch finds the setting later.
KeysTold ==
    /\ \A k, other \in Keys \cup ExtraKeys :
           k # other /\ Words(k) = Words(other) =>
               /\ k \in Keys <=> other \notin Keys
               /\ k \in Keys => FoundLater(k, other) /\ ~ FoundLater(other, k)
    /\ \A k \in Keys : Words(Dotted(Words(k))) = Words(k)

\* Defaults never replace what was said, and a variable changes the setting it names and
\* no other, also next to a misspelled key with the same words, unless it does not reach
\* its setting: then the setting is as if nothing had been said, although README.md:44 has
\* all settings overridable.  Telemetry is off exactly if it is not said to be on and one of
\* three other fields is said, where the comment at config.go:202 has any field of
\* telemetry: enabled = false beside an environment or a sample ratio is turned on.  Stages
\* are as said if one of them is said to be on.
SettingsKept ==
    pc = "accepted" =>
        /\ \A k \in Keys : Heard(k) # 0 => cfg[k] = Heard(k)
        /\ cfg[Enabled] = 0 <=>
               /\ Heard(Enabled) = 0
               /\ \E k \in {OTLPEndpoint, HTTPPort, ServiceName} : Heard(k) # 0
        /\ (\E s \in Stages : Heard(s) # 0) => \A s \in Stages : cfg[s] = Heard(s)
=============================================================================
