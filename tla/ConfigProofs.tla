---------------------------- MODULE ConfigProofs ----------------------------
(***************************************************************************)
(* Machine-checked proofs about Config, for every file, set of chains,     *)
(* environment variable and value: what an accepted configuration has and  *)
(* what it may lack, and what becomes of a value that was given.                      *)
(***************************************************************************)
EXTENDS Config, SequenceLemmas, SequenceTheorems, TLAPS

\* A map has the keys of its entries and at each key the value of one of them.
LEMMA MapElements ==
    ASSUME NEW E, NEW f, f = MapOf(E), NEW k \in DOMAIN f
    PROVE  \E e \in E : e[1] = k /\ f[k] = e[2]
<1>1. DOMAIN f = {e[1] : e \in E}
  BY DEF MapOf
<1>2. PICK e \in E : e[1] = k
  BY <1>1
<1>3. (CHOOSE d \in E : d[1] = k) \in E /\ (CHOOSE d \in E : d[1] = k)[1] = k
  BY <1>2
<1>4. f[k] = (CHOOSE d \in E : d[1] = k)[2]
  BY <1>1 DEF MapOf
<1> QED BY <1>3, <1>4

\* A prefix of components in front of a path: the sections of the file.
LEMMA Prefixed ==
    ASSUME NEW S, NEW a \in Seq(S), NEW p \in Seq(S), NEW k, k = a \o p
    PROVE  /\ k \in Seq(S) /\ Len(k) = Len(a) + Len(p)
           /\ \A i \in 1..Len(a) : k[i] = a[i]
           /\ \A i \in 1..Len(p) : k[Len(a) + i] = p[i]
<1>1. /\ k \in Seq(S) /\ Len(k) = Len(a) + Len(p) /\ DOMAIN k = 1..(Len(a) + Len(p))
      /\ \A i \in DOMAIN k : k[i] = IF i <= Len(a) THEN a[i] ELSE p[i - Len(a)]
  BY Joined
<1>2. Len(a) \in Nat /\ Len(p) \in Nat
  OBVIOUS
<1> QED BY <1>1, <1>2

\* A telemetry key begins with its section.
LEMMA TelemetryKey ==
    ASSUME NEW S, NEW p \in Seq(S), NEW k, k = Telemetry(p)
    PROVE  /\ k[1] = <<"telemetry">> /\ Len(k) = Len(p) + 1
           /\ \A i \in 1..Len(p) : k[i + 1] = p[i]
<1> DEFINE a == <<<<"telemetry">>>>
           T == S \cup {<<"telemetry">>}
<1>1. a \in Seq(T) /\ Len(a) = 1 /\ a[1] = <<"telemetry">>
  OBVIOUS
<1>2. p \in Seq(T) /\ Len(p) \in Nat
  OBVIOUS
<1>3. k = a \o p
  BY DEF Telemetry
<1> HIDE DEF a, T
<1>4. /\ Len(k) = Len(a) + Len(p)
      /\ \A i \in 1..Len(a) : k[i] = a[i]
      /\ \A i \in 1..Len(p) : k[Len(a) + i] = p[i]
  <2>1. a \in Seq(T) /\ p \in Seq(T) /\ k = a \o p
    BY <1>1, <1>2, <1>3
  <2> QED BY ONLY <2>1, Prefixed
<1>5. \A i \in 1..Len(p) : k[1 + i] = p[i] /\ 1 + i = i + 1
  BY <1>1, <1>4
<1> QED BY <1>1, <1>2, <1>4, <1>5

\* A chain's key begins with chains and the chain, and the rest is its setting.
LEMMA ChainKeyParts ==
    ASSUME NEW S, NEW c, NEW p \in Seq(S), NEW k, k = ChainKey(c, p)
    PROVE  /\ k[1] = <<"chains">> /\ k[2] = c /\ Len(k) = Len(p) + 2
           /\ SubSeq(k, 3, Len(k)) = p
<1> DEFINE a == <<<<"chains">>, c>>
           T == S \cup {<<"chains">>, c}
<1>1. a \in Seq(T) /\ Len(a) = 2 /\ a[1] = <<"chains">> /\ a[2] = c
  OBVIOUS
<1>2. p \in Seq(T) /\ Len(p) \in Nat
  OBVIOUS
<1>3. k = a \o p
  BY DEF ChainKey
<1> HIDE DEF a, T
<1>4. /\ k \in Seq(T) /\ Len(k) = Len(a) + Len(p)
      /\ \A i \in 1..Len(a) : k[i] = a[i]
      /\ \A i \in 1..Len(p) : k[Len(a) + i] = p[i]
  <2>1. a \in Seq(T) /\ p \in Seq(T) /\ k = a \o p
    BY <1>1, <1>2, <1>3
  <2> QED BY ONLY <2>1, Prefixed
<1>5. k[1] = <<"chains">> /\ k[2] = c /\ Len(k) = Len(p) + 2
  BY <1>1, <1>2, <1>4
<1>6. SubSeq(k, 3, Len(k)) = p
  <2> DEFINE q == SubSeq(k, 3, Len(k))
  <2>1. q \in Seq(T) /\ Len(q) = Len(p) /\ \A i \in 1..Len(p) : q[i] = k[2 + i]
    BY <1>2, <1>4, <1>5
  <2> HIDE DEF q
  <2>2. \A i \in 1..Len(p) : q[i] = p[i]
    BY <1>1, <1>4, <2>1
  <2>3. q = p
    BY <1>2, <2>1, <2>2, SeqEqual
  <2> QED BY <2>3 DEF q
<1> QED BY <1>5, <1>6
-----------------------------------------------------------------------------
\* The first components of a telemetry key of one, two or three more.
LEMMA TelemetryPath ==
    /\ \A a : /\ Telemetry(<<a>>)[1] = <<"telemetry">>
              /\ Telemetry(<<a>>)[2] = a
              /\ Len(Telemetry(<<a>>)) = 2
    /\ \A a, b : /\ Telemetry(<<a, b>>)[1] = <<"telemetry">>
                 /\ Len(Telemetry(<<a, b>>)) = 3
    /\ \A a, b, c : /\ Telemetry(<<a, b, c>>)[1] = <<"telemetry">>
                    /\ Telemetry(<<a, b, c>>)[2] = a
                    /\ Len(Telemetry(<<a, b, c>>)) = 4
<1>1. ASSUME NEW a
      PROVE  /\ Telemetry(<<a>>)[1] = <<"telemetry">>
             /\ Telemetry(<<a>>)[2] = a
             /\ Len(Telemetry(<<a>>)) = 2
  <2> DEFINE p == <<a>>
             k == Telemetry(p)
             S == {a}
  <2>1. p \in Seq(S) /\ Len(p) = 1 /\ k = Telemetry(p)
    OBVIOUS
  <2>2. p[1] = a
    OBVIOUS
  <2> HIDE DEF p, k, S
  <2>3. /\ k[1] = <<"telemetry">> /\ Len(k) = Len(p) + 1
        /\ \A i \in 1..Len(p) : k[i + 1] = p[i]
    BY ONLY <2>1, TelemetryKey
  <2>4. Len(k) = 2 /\ k[1 + 1] = p[1]
    BY ONLY <2>1, <2>3
  <2> QED BY <2>2, <2>3, <2>4 DEF p, k
<1>2. ASSUME NEW a, NEW b
      PROVE  /\ Telemetry(<<a, b>>)[1] = <<"telemetry">>
             /\ Len(Telemetry(<<a, b>>)) = 3
  <2> DEFINE p == <<a, b>>
             k == Telemetry(p)
             S == {a, b}
  <2>1. p \in Seq(S) /\ Len(p) = 2 /\ k = Telemetry(p)
    OBVIOUS
  <2> HIDE DEF p, k, S
  <2>2. k[1] = <<"telemetry">> /\ Len(k) = Len(p) + 1
    BY ONLY <2>1, TelemetryKey
  <2>3. Len(k) = 3
    BY ONLY <2>1, <2>2
  <2> QED BY <2>2, <2>3 DEF p, k
<1>3. ASSUME NEW a, NEW b, NEW c
      PROVE  /\ Telemetry(<<a, b, c>>)[1] = <<"telemetry">>
             /\ Telemetry(<<a, b, c>>)[2] = a
             /\ Len(Telemetry(<<a, b, c>>)) = 4
  <2> DEFINE p == <<a, b, c>>
             k == Telemetry(p)
             S == {a, b, c}
  <2>1. p \in Seq(S) /\ Len(p) = 3 /\ k = Telemetry(p)
    OBVIOUS
  <2>2. p[1] = a
    OBVIOUS
  <2> HIDE DEF p, k, S
  <2>3. /\ k[1] = <<"telemetry">> /\ Len(k) = Len(p) + 1
        /\ \A i \in 1..Len(p) : k[i + 1] = p[i]
    BY ONLY <2>1, TelemetryKey
  <2>4. Len(k) = 4 /\ k[1 + 1] = p[1]
    BY ONLY <2>1, <2>3
  <2> QED BY <2>2, <2>3, <2>4 DEF p, k
<1> QED BY <1>1, <1>2, <1>3

\* Not a chain's key, and not one of telemetry.tracing.stages.
Shallow(k) == k[1] # <<"chains">> /\ ~ (Len(k) = 4 /\ k[2] = <<"tracing">>)

\* The keys of the plain sections have two components.
LEMMA SettingShallow ==
    ASSUME NEW s \in {"grpc", "chainlink", "engine", "pipeline", "tuning"}, NEW n
    PROVE  Shallow(Setting(s, n))
<1>1. Setting(s, n)[1] = <<s>> /\ Len(Setting(s, n)) = 2
  BY DEF Setting
<1>2. <<s>> # <<"chains">>
  OBVIOUS
<1> QED BY <1>1, <1>2 DEF Shallow

\* The keys of telemetry, except those below tracing of four components.
LEMMA TelemetryShallow ==
    ASSUME NEW a, NEW b, NEW c
    PROVE  /\ Shallow(Telemetry(<<a>>)) /\ Shallow(Telemetry(<<a, b>>))
           /\ a # <<"tracing">> => Shallow(Telemetry(<<a, b, c>>))
<1>1. <<"telemetry">> # <<"chains">>
  OBVIOUS
<1> QED BY <1>1, TelemetryPath DEF Shallow

\* The defaults are positive, for keys that are neither a chain's nor a stage.
LEMMA DefaultsShallow ==
    ASSUME NEW k \in DOMAIN Defaults
    PROVE  Shallow(k) /\ Defaults[k] \in Int /\ Defaults[k] > 0
<1>1. PICK e \in DefaultEntries : e[1] = k /\ Defaults[k] = e[2]
  BY MapElements DEF Defaults
<1>2. \A d \in DefaultEntries : d[2] \in Int /\ d[2] > 0
  BY DEF DefaultEntries
<1>3. \A n :
          /\ Shallow(Setting("grpc", n)) /\ Shallow(Setting("chainlink", n))
          /\ Shallow(Setting("engine", n)) /\ Shallow(Setting("pipeline", n))
          /\ Shallow(Setting("tuning", n))
  BY SettingShallow
<1>4. \A d \in DefaultEntries : Shallow(d[1])
  <2>1. /\ Shallow(StalenessThreshold) /\ Shallow(PruneInterval) /\ Shallow(MaxWindowSize)
        /\ Shallow(BlockCacheSize) /\ Shallow(LogChannelBuffer)
        /\ Shallow(SubscriberBufferSize) /\ Shallow(DefaultWindowTTL)
    BY <1>3 DEF StalenessThreshold, PruneInterval, MaxWindowSize, BlockCacheSize,
       LogChannelBuffer, SubscriberBufferSize, DefaultWindowTTL
  <2>2. Shallow(OTLPEndpoint) /\ Shallow(HTTPPort) /\ Shallow(ServiceName)
    BY TelemetryShallow DEF OTLPEndpoint, HTTPPort, ServiceName
  <2>3. Shallow(SampleRatio)
    BY TelemetryShallow DEF SampleRatio
  <2>4. Shallow(BatchTimeout)
    BY TelemetryShallow DEF BatchTimeout
  <2>5. Shallow(ExportInterval)
    BY TelemetryShallow DEF ExportInterval
  <2>6. Shallow(LatencyBuckets)
    <3>1. <<"metrics">> # <<"tracing">>
      OBVIOUS
    <3> QED BY <3>1, TelemetryShallow DEF LatencyBuckets
  <2> QED BY <1>3, <2>1, <2>2, <2>3, <2>4, <2>5, <2>6 DEF DefaultEntries
<1> QED BY <1>1, <1>2, <1>4

\* A stage's key is none of the others that have defaults.
LEMMA StageKeys ==
    ASSUME NEW s \in Stages
    PROVE  s \in Keys /\ s \notin DOMAIN Defaults /\ s # Enabled /\ s[1] = <<"telemetry">>
<1> DEFINE a == <<"tracing">>
           b == <<"stages">>
<1>1. PICK n : s = Telemetry(<<a, b, <<n>>>>)
  BY DEF Stages
<1>2. s[1] = <<"telemetry">> /\ Len(s) = 4 /\ s[2] = a
  <2> HIDE DEF a, b
  <2>1. /\ Telemetry(<<a, b, <<n>>>>)[1] = <<"telemetry">>
        /\ Telemetry(<<a, b, <<n>>>>)[2] = a
        /\ Len(Telemetry(<<a, b, <<n>>>>)) = 4
    BY TelemetryPath
  <2> QED BY <1>1, <2>1
<1> HIDE DEF a, b
<1>3. s \notin DOMAIN Defaults
  BY <1>2, DefaultsShallow DEF Shallow, a
<1>4. Len(Enabled) = 2
  BY TelemetryPath DEF Enabled
<1> QED BY <1>2, <1>3, <1>4 DEF Keys

\* The defaults of a chain are positive; its keys are short paths, rpc_url without a default.
LEMMA ChainDefaultsValues ==
    /\ \A p \in DOMAIN ChainDefaults : ChainDefaults[p] \in Int /\ ChainDefaults[p] > 0
    /\ RPCURL \notin DOMAIN ChainDefaults
    /\ \A p \in DOMAIN ChainDefaults \cup {RPCURL} :
           \E S : p \in Seq(S) /\ Len(p) \in {1, 2}
<1>1. \A e \in ChainDefaultEntries : e[2] \in Int /\ e[2] > 0
  BY DEF ChainDefaultEntries
<1>2. ASSUME NEW p \in DOMAIN ChainDefaults
      PROVE  ChainDefaults[p] \in Int /\ ChainDefaults[p] > 0
  <2>1. \E e \in ChainDefaultEntries : e[1] = p /\ ChainDefaults[p] = e[2]
    BY MapElements DEF ChainDefaults
  <2> QED BY <1>1, <2>1
<1>3. DOMAIN ChainDefaults = {e[1] : e \in ChainDefaultEntries}
  BY DEF ChainDefaults, MapOf
<1>4. \A a, b : /\ <<a>> \in Seq({a, b}) /\ Len(<<a>>) = 1
                /\ <<a, b>> \in Seq({a, b}) /\ Len(<<a, b>>) = 2
  OBVIOUS
<1>5. \A e \in ChainDefaultEntries :
          \/ e[1] = <<<<"poll", "interval">>>>
          \/ e[1] = <<<<"event", "buffer">>>>
          \/ \E b : e[1] = <<<<"backoff">>, b>>
  BY DEF ChainDefaultEntries, PollInterval, MaxRetries
<1>6. RPCURL \notin DOMAIN ChainDefaults
  <2> DEFINE url == <<"rpc", "url">>
             poll == <<"poll", "interval">>
             buffer == <<"event", "buffer">>
  <2>1. url # poll /\ url # buffer
    OBVIOUS
  <2>2. \A e \in ChainDefaultEntries :
            e[1] = <<poll>> \/ e[1] = <<buffer>> \/ \E b : e[1] = <<<<"backoff">>, b>>
    BY <1>5
  <2> HIDE DEF url, poll, buffer
  <2>3. <<url>> # <<poll>> /\ <<url>> # <<buffer>> /\ \A a, b : <<url>> # <<a, b>>
    BY <2>1, <1>4
  <2>4. \A e \in ChainDefaultEntries : e[1] # <<url>>
    BY <2>2, <2>3
  <2> QED BY <1>3, <2>4 DEF RPCURL, url
<1>7. ASSUME NEW p \in DOMAIN ChainDefaults \cup {RPCURL}
      PROVE  \E S : p \in Seq(S) /\ Len(p) \in {1, 2}
  <2>1. \E a, b : p = <<a>> \/ p = <<a, b>>
    BY <1>3, <1>5 DEF RPCURL
  <2>2. PICK a, b : p = <<a>> \/ p = <<a, b>>
    BY <2>1
  <2>3. p \in Seq({a, b}) /\ Len(p) \in {1, 2}
    BY <1>4, <2>2
  <2> QED BY <2>3
<1> QED BY <1>2, <1>6, <1>7

\* A key of a configured chain is a setting of its own, no plain one and no stage.
LEMMA ChainSettingKey ==
    ASSUME NEW c \in Chains, NEW p \in DOMAIN ChainDefaults \cup {RPCURL},
           NEW k, k = ChainKey(c, p)
    PROVE  /\ k \in Keys /\ k \notin DOMAIN Defaults /\ k # Enabled /\ k \notin Stages
           /\ Len(k) > 2 /\ k[1] = <<"chains">> /\ k[2] = c
           /\ SubSeq(k, 3, Len(k)) = p
<1>1. PICK S : p \in Seq(S) /\ Len(p) \in {1, 2}
  BY ChainDefaultsValues
<1>2. k[1] = <<"chains">> /\ k[2] = c
  BY <1>1, ChainKeyParts
<1>3. Len(k) = Len(p) + 2
  BY <1>1, ChainKeyParts
<1>4. SubSeq(k, 3, Len(k)) = p
  BY <1>1, ChainKeyParts
<1>5. Len(k) > 2
  BY <1>1, <1>3
<1>6. k \notin DOMAIN Defaults
  BY <1>2, DefaultsShallow DEF Shallow
<1>7. <<"telemetry">> # <<"chains">>
  OBVIOUS
<1>8. k # Enabled
  BY <1>2, <1>7, TelemetryPath DEF Enabled
<1>9. k \notin Stages
  BY <1>2, <1>7, StageKeys
<1>10. k \in Keys
  BY DEF Keys, ChainSettings
<1> QED BY <1>2, <1>4, <1>5, <1>6, <1>8, <1>9, <1>10
\* telemetry.enabled has no default of its own.
LEMMA EnabledKey == Enabled \in Keys /\ Enabled \notin DOMAIN Defaults
<1> DEFINE e == <<"enabled">>
           k == Telemetry(<<e>>)
<1>1. k[1] = <<"telemetry">> /\ Len(k) = 2 /\ k[2] = e
  BY TelemetryPath
<1> HIDE DEF k, e
<1>2. k \notin {d[1] : d \in DefaultEntries}
  <2>1. \A s \in {"grpc", "chainlink", "engine", "pipeline", "tuning"} :
            \A n : k # Setting(s, n)
    BY <1>1 DEF Setting
  <2>2. \A a : k = Telemetry(<<a>>) => a = e
    BY <1>1, TelemetryPath
  <2>3. k # OTLPEndpoint /\ k # HTTPPort /\ k # ServiceName
    BY <2>2 DEF OTLPEndpoint, HTTPPort, ServiceName, e
  <2>4. ASSUME NEW a, NEW b PROVE k # Telemetry(<<a, b>>)
    <3>1. Len(Telemetry(<<a, b>>)) = 3
      BY TelemetryPath
    <3>2. Len(k) = 2
      BY <1>1
    <3> QED BY ONLY <3>1, <3>2
  <2>5. ASSUME NEW a, NEW b, NEW c PROVE k # Telemetry(<<a, b, c>>)
    <3>1. Len(Telemetry(<<a, b, c>>)) = 4
      BY TelemetryPath
    <3>2. Len(k) = 2
      BY <1>1
    <3> QED BY ONLY <3>1, <3>2
  <2>6. k # SampleRatio
    BY <2>4 DEF SampleRatio
  <2>7. /\ k # StalenessThreshold /\ k # PruneInterval /\ k # MaxWindowSize
        /\ k # BlockCacheSize /\ k # LogChannelBuffer
        /\ k # SubscriberBufferSize /\ k # DefaultWindowTTL
    BY <2>1 DEF StalenessThreshold, PruneInterval, MaxWindowSize, BlockCacheSize,
       LogChannelBuffer, SubscriberBufferSize, DefaultWindowTTL
  <2>8. k # BatchTimeout /\ k # ExportInterval /\ k # LatencyBuckets
    BY <2>4, <2>5 DEF BatchTimeout, ExportInterval, LatencyBuckets
  <2> QED BY <2>1, <2>3, <2>6, <2>7, <2>8 DEF DefaultEntries
<1>3. k = Enabled
  BY DEF k, e, Enabled
<1> QED BY <1>2, <1>3 DEF Defaults, MapOf, Keys
-----------------------------------------------------------------------------
\* The file and the variable hold numbers, and what was accepted is what Load made of
\* them and Validate let pass.
LoadInv ==
    /\ \A k \in DOMAIN file : file[k] \in Int
    /\ env = None \/ env.value \in Int
    /\ pc = "accepted" => cfg = WithDefaults /\ Validate(cfg)

\* Before Load nothing is accepted.
LEMMA InitInv == Init => LoadInv
BY FileAssumption DEF Init, LoadInv

\* An entry put into a map leaves the others.
LEMMA PutValues ==
    ASSUME NEW f, \A j \in DOMAIN f : f[j] \in Int, NEW k, NEW v \in Int
    PROVE  \A j \in DOMAIN Put(f, k, v) : Put(f, k, v)[j] \in Int
BY DEF Put

\* Nothing changes the file or the environment once Load has run.
LEMMA NextInv == LoadInv /\ [Next]_vars => LoadInv'
<1> SUFFICES ASSUME LoadInv, [Next]_vars PROVE LoadInv'
  OBVIOUS
<1>1. ASSUME UNCHANGED <<file, env>>
      PROVE  WithDefaults' = WithDefaults /\ Configured' = Configured
  <2>1. Merged' = Merged
    BY <1>1 DEF Merged
  <2>2. \A k : Unmarshal(k)' = Unmarshal(k)
    BY <2>1 DEF Unmarshal
  <2>3. Configured' = Configured
    BY <2>1 DEF Configured
  <2>4. (TelemetryOn' <=> TelemetryOn) /\ (NoStage' <=> NoStage)
    BY <2>2 DEF TelemetryOn, NoStage
  <2> QED BY <2>2, <2>3, <2>4 DEF WithDefaults
<1>2. CASE UNCHANGED vars
  <2>1. UNCHANGED <<file, env, pc, cfg>>
    BY <1>2 DEF vars
  <2> QED BY <1>1, <2>1 DEF LoadInv, Validate, ValidSettings
<1>3. ASSUME NEW k, NEW v \in Values, Edit(k, v)
      PROVE  LoadInv'
  <2>1. file' = Put(file, k, v) /\ env' = env /\ pc' = "editing"
    BY <1>3 DEF Edit
  <2>2. v \in Int
    BY FileAssumption
  <2>3. \A j \in DOMAIN file' : file'[j] \in Int
    BY <2>1, <2>2, PutValues DEF LoadInv
  <2> QED BY <2>1, <2>3 DEF LoadInv
<1>4. ASSUME NEW k, Delete(k)
      PROVE  LoadInv'
  BY <1>4 DEF Delete, LoadInv
<1>5. ASSUME NEW k, NEW v \in Values, Export(k, v)
      PROVE  LoadInv'
  <2>1. v \in Int
    BY FileAssumption
  <2> QED BY <1>5, <2>1 DEF Export, LoadInv
<1>6. CASE Load
  <2>1. UNCHANGED <<file, env>>
    BY <1>6 DEF Load
  <2>2. pc' = "accepted" => cfg' = WithDefaults /\ Validate(WithDefaults)
    BY <1>6 DEF Load
  <2>3. pc' = "accepted" => (cfg = WithDefaults)' /\ Validate(cfg)'
    BY <1>1, <2>1, <2>2 DEF Validate, ValidSettings
  <2> QED BY <2>1, <2>3 DEF LoadInv
<1> QED BY <1>2, <1>3, <1>4, <1>5, <1>6 DEF Next

\* The invariant, for every file and every sequence of changes.
THEOREM Invariant == Spec => []LoadInv
BY InitInv, NextInv, PTL DEF Spec
-----------------------------------------------------------------------------
\* Every value Load reads is a number.
LEMMA Read ==
    ASSUME LoadInv
    PROVE  \A k : Unmarshal(k) \in Int
<1>1. \A j \in DOMAIN Merged : Merged[j] \in Int
  <2>1. CASE env = None
    BY <2>1 DEF Merged, LoadInv
  <2>2. CASE env # None
    <3>1. env.value \in Int /\ \A j \in DOMAIN file : file[j] \in Int
      BY <2>2 DEF LoadInv
    <3>2. Merged = Put(file, BestKeyMatch(env.words, DOMAIN file), env.value)
      BY <2>2 DEF Merged
    <3> QED BY <3>1, <3>2, PutValues
  <2> QED BY <2>1, <2>2
<1> QED BY <1>1 DEF Unmarshal

\* applyDefaults gives a number to every setting.
LEMMA Numbers ==
    ASSUME LoadInv, NEW k \in Keys
    PROVE  WithDefaults[k] \in Int
<1>1. Unmarshal(k) \in Int
  BY Read
<1>2. k \in DOMAIN Defaults => Or(Unmarshal(k), Defaults[k]) \in Int
  BY <1>1, DefaultsShallow DEF Or
<1>3. SubSeq(k, 3, Len(k)) \in DOMAIN ChainDefaults =>
          Or(Unmarshal(k), ChainDefaults[SubSeq(k, 3, Len(k))]) \in Int
  BY <1>1, ChainDefaultsValues DEF Or
<1>4. Or(Unmarshal(k), 1) \in Int
  BY <1>1 DEF Or
<1> QED BY <1>1, <1>2, <1>3, <1>4 DEF WithDefaults

\* applyDefaults keeps every value that was given: it replaces nothing but 0.
LEMMA NothingReplaced ==
    ASSUME NEW k \in Keys, Unmarshal(k) # 0
    PROVE  WithDefaults[k] = Unmarshal(k)
<1>1. \A d : Or(Unmarshal(k), d) = Unmarshal(k)
  BY DEF Or
<1>2. k = Enabled => TelemetryOn
  BY DEF TelemetryOn
<1>3. k \in Stages => ~ NoStage
  BY DEF NoStage
<1> QED BY <1>1, <1>2, <1>3 DEF WithDefaults

\* A setting with a default of its own: what was given, or else the default.
LEMMA PlainValue ==
    ASSUME NEW k \in DOMAIN Defaults
    PROVE  k \in Keys /\ WithDefaults[k] = Or(Unmarshal(k), Defaults[k])
<1>1. k # Enabled /\ k \notin Stages /\ k \in Keys
  BY EnabledKey, StageKeys DEF Keys
<1>2. k[1] # <<"chains">>
  BY DefaultsShallow DEF Shallow
<1> QED BY <1>1, <1>2 DEF WithDefaults

\* A setting of a configured chain, and its URL, which has no default.
LEMMA ChainValue ==
    ASSUME NEW c \in Configured, NEW p \in DOMAIN ChainDefaults \cup {RPCURL},
           NEW k, k = ChainKey(c, p)
    PROVE  /\ k \in Keys
           /\ WithDefaults[k] = IF p = RPCURL THEN Unmarshal(k)
                                ELSE Or(Unmarshal(k), ChainDefaults[p])
<1>1. c \in Chains
  BY DEF Configured
<1>2. /\ k \in Keys /\ k \notin DOMAIN Defaults /\ k # Enabled /\ k \notin Stages
      /\ Len(k) > 2 /\ k[1] = <<"chains">> /\ k[2] = c
      /\ SubSeq(k, 3, Len(k)) = p
  BY <1>1, ChainSettingKey
<1>3. RPCURL \notin DOMAIN ChainDefaults
  BY ChainDefaultsValues
<1> QED BY <1>2, <1>3 DEF WithDefaults

\* Some stage is traced after applyDefaults: all of them if none was named.
LEMMA Traced == \E s \in Stages : WithDefaults[s] # 0
<1>1. PICK s \in Stages : NoStage \/ Unmarshal(s) # 0
  BY DEF NoStage, Stages
<1>2. s \in Keys /\ s \notin DOMAIN Defaults /\ s # Enabled /\ s[1] # <<"chains">>
  <2>1. <<"telemetry">> # <<"chains">>
    OBVIOUS
  <2> QED BY <2>1, StageKeys
<1>3. WithDefaults[s] = IF NoStage THEN 1 ELSE Unmarshal(s)
  BY <1>2 DEF WithDefaults
<1>4. WithDefaults[s] # 0
  BY <1>1, <1>3
<1> QED BY <1>1, <1>4

\* The settings with a default that Validate looks at, telemetry apart.
Checked ==
    {StalenessThreshold, PruneInterval, MaxWindowSize, BlockCacheSize, LogChannelBuffer}

\* Every setting with a default is checked, or among those that are not, or text.
LEMMA CheckedOrNot ==
    ASSUME NEW k \in DOMAIN Defaults
    PROVE  k \in Checked \cup {HTTPPort, SampleRatio} \cup Unchecked \cup Texts
<1>1. DOMAIN Defaults = {e[1] : e \in DefaultEntries}
  BY DEF Defaults, MapOf
<1>2. PICK e \in DefaultEntries : e[1] = k
  BY <1>1
<1>3. \/ k \in Checked \cup {HTTPPort, SampleRatio, OTLPEndpoint, ServiceName, LatencyBuckets}
      \/ k \in {SubscriberBufferSize, DefaultWindowTTL, BatchTimeout, ExportInterval}
      \/ k \in {Setting("pipeline", <<"raw", "event", "buffer">>),
                Setting("pipeline", <<"chain", "event", "buffer">>),
                Setting("pipeline", <<"enriched", "event", "buffer">>),
                Setting("pipeline", <<"signal", "buffer">>)}
  BY <1>2 DEF DefaultEntries, Checked
<1>4. {Setting("pipeline", <<"raw", "event", "buffer">>),
       Setting("pipeline", <<"chain", "event", "buffer">>),
       Setting("pipeline", <<"enriched", "event", "buffer">>),
       Setting("pipeline", <<"signal", "buffer">>)} = PipelineBuffers
  BY DEF PipelineBuffers
<1> QED BY <1>3, <1>4 DEF Unchecked, Texts

\* Whatever the file, the chains, the variable and their values: nothing an accepted
\* configuration needs is missing or 0, a number below zero was given and is one Validate
\* does not look at, the two listeners have different ports and some stage is traced.
THEOREM Accepted == Spec => []PositiveUnlessUnchecked
<1>1. LoadInv => PositiveUnlessUnchecked
  <2> SUFFICES ASSUME LoadInv, pc = "accepted" PROVE PositiveUnlessUnchecked
    BY DEF PositiveUnlessUnchecked
  <2>1. cfg = WithDefaults /\ Validate(cfg)
    BY DEF LoadInv
  <2>2. ValidSettings(cfg)
    BY <2>1 DEF Validate
  <2>3. cfg[Enabled] # 0 => /\ cfg[HTTPPort] \in 1..MaxPort /\ cfg[HTTPPort] # cfg[GRPCPort]
                            /\ cfg[SampleRatio] \in 0..100
    BY <2>1 DEF Validate, Port
  <2>4. cfg[GRPCPort] \in 1..MaxPort
    BY <2>2 DEF ValidSettings, Port
  <2>5. \A k \in Keys : cfg[k] \in Int /\ Unmarshal(k) \in Int
    BY <2>1, Numbers, Read
  <2>6. ASSUME NEW k \in {Workers, CacheTTL} \cup Checked, k \in Keys
        PROVE  cfg[k] > 0
    <3>1. cfg[k] >= 1 /\ cfg[k] \in Int
      BY <2>2, <2>5, <2>6 DEF ValidSettings, Checked
    <3> QED BY <3>1
  <2> DEFINE Fine(k) == \/ cfg[k] > 0
                        \/ cfg[k] # 0 /\ cfg[k] = Unmarshal(k) /\ k \in Unchecked \cup Texts
  <2>7. ASSUME NEW k \in Keys, NEW d \in Int, d > 0, cfg[k] = Or(Unmarshal(k), d)
        PROVE  cfg[k] # 0 /\ (cfg[k] > 0 \/ cfg[k] = Unmarshal(k))
    <3>1. Unmarshal(k) \in Int
      BY <2>5
    <3> QED BY <2>7, <3>1 DEF Or
  <2>8. ASSUME NEW k \in DOMAIN Defaults
        PROVE  Fine(k)
    <3>1. k \in Keys /\ cfg[k] = Or(Unmarshal(k), Defaults[k])
      BY <2>1, PlainValue
    <3>2. cfg[k] # 0 /\ (cfg[k] > 0 \/ cfg[k] = Unmarshal(k)) /\ cfg[k] \in Int
      BY <2>5, <2>7, <3>1, DefaultsShallow
    <3>3. CASE k \in Checked
      BY <2>6, <3>1, <3>3
    <3>4. CASE k \in Unchecked \cup Texts
      BY <3>2, <3>4
    <3>5. CASE k \in {HTTPPort, SampleRatio}
      <4>1. CASE cfg[Enabled] = 0
        BY <3>2, <3>5, <4>1 DEF Unchecked
      <4>2. CASE cfg[Enabled] # 0
        BY <2>3, <3>2, <3>5, <4>2
      <4> QED BY <4>1, <4>2
    <3> QED BY <3>3, <3>4, <3>5, CheckedOrNot
  <2>9. ASSUME NEW c \in Configured, NEW p \in DOMAIN ChainDefaults \cup {RPCURL},
               NEW k, k = ChainKey(c, p)
        PROVE  Fine(k)
    <3>1. /\ k \in Keys
          /\ cfg[k] = IF p = RPCURL THEN Unmarshal(k) ELSE Or(Unmarshal(k), ChainDefaults[p])
      BY <2>1, <2>9, ChainValue
    <3>2. c \in Chains
      BY DEF Configured
    <3>3. CASE p = RPCURL
      <4>1. cfg[k] # 0 /\ cfg[k] = Unmarshal(k)
        BY <2>2, <2>9, <3>1, <3>3 DEF ValidSettings
      <4>2. k \in Texts
        BY <2>9, <3>2, <3>3 DEF Texts
      <4> QED BY <4>1, <4>2
    <3>4. CASE p = PollInterval
      BY <2>2, <2>9, <3>4 DEF ValidSettings
    <3>5. CASE p # RPCURL /\ p # PollInterval
      <4>1. ChainDefaults[p] \in Int /\ ChainDefaults[p] > 0
        BY <3>5, ChainDefaultsValues
      <4>2. cfg[k] # 0 /\ (cfg[k] > 0 \/ cfg[k] = Unmarshal(k))
        BY <2>7, <3>1, <3>5, <4>1
      <4>3. k \in Unchecked
        BY <2>9, <3>2, <3>5 DEF Unchecked
      <4> QED BY <4>2, <4>3
    <3> QED BY <3>3, <3>4, <3>5
  <2>10. Fine(GRPCPort) /\ Fine(Workers) /\ Fine(CacheTTL)
    <3>1. GRPCPort \in Keys /\ Workers \in Keys /\ CacheTTL \in Keys
      BY DEF Keys
    <3> QED BY <2>4, <2>6, <3>1
  <2>11. \A k \in Needed : Fine(k)
    <3> HIDE DEF Fine
    <3> QED BY <2>8, <2>9, <2>10 DEF Needed
  <2>12. \E s \in Stages : cfg[s] # 0
    BY <2>1, Traced
  <2>13. cfg[Enabled] # 0 => /\ cfg[HTTPPort] # cfg[GRPCPort]
                             /\ {cfg[HTTPPort], cfg[GRPCPort]} \subseteq 1..MaxPort
                             /\ cfg[SampleRatio] <= 100
    BY <2>3, <2>4
  <2> QED BY <2>11, <2>12, <2>13 DEF PositiveUnlessUnchecked
<1> QED BY <1>1, Invariant, PTL

\* An accepted configuration has every value that reached the second k.Load: no default,
\* of a setting, of a chain, of telemetry or of its stages, takes its place.
GivenKept ==
    pc = "accepted" => \A k \in Keys : Unmarshal(k) # 0 => cfg[k] = Unmarshal(k)

\* Defaults fill gaps and nothing else, for every file and variable.
THEOREM DefaultsFillGaps == Spec => []GivenKept
<1>1. LoadInv => GivenKept
  BY NothingReplaced DEF LoadInv, GivenKept
<1> QED BY <1>1, Invariant, PTL
-----------------------------------------------------------------------------
(* What was said of a setting is what the setting gets. *)

\* Only keys and misspellings are in the file, and the variable is that of a setting.
FileInv ==
    /\ DOMAIN file \subseteq Keys \cup ExtraKeys
    /\ env # None => \E k \in Keys : env.words = Words(k)

\* Edit, Delete and Export change nothing else.
LEMMA FileKept == Spec => []FileInv
<1>1. Init => FileInv
  BY FileAssumption DEF Init, FileInv
<1>2. FileInv /\ [Next]_vars => FileInv'
  <2> SUFFICES ASSUME FileInv, [Next]_vars PROVE FileInv'
    OBVIOUS
  <2>1. ASSUME NEW k \in Keys \cup ExtraKeys, NEW v, Edit(k, v) PROVE FileInv'
    BY <2>1 DEF Edit, Put, FileInv
  <2>2. ASSUME NEW k, Delete(k) PROVE FileInv'
    BY <2>2 DEF Delete, FileInv
  <2>3. ASSUME NEW k \in Keys, NEW v, Export(k, v) PROVE FileInv'
    BY <2>3 DEF Export, FileInv
  <2>4. CASE Load
    BY <2>4 DEF Load, FileInv
  <2>5. CASE UNCHANGED vars
    BY <2>5 DEF vars, FileInv
  <2> QED BY <2>1, <2>2, <2>3, <2>4, <2>5 DEF Next
<1> QED BY <1>1, <1>2, PTL DEF Spec

\* bestKeyMatch finds a key with the variable's words, and the setting if the file has it.
LEMMA Matched ==
    ASSUME KeysTold, FileInv, env # None, NEW b, b = BestKeyMatch(env.words, DOMAIN file)
    PROVE  /\ Words(b) = env.words
           /\ \A k \in Keys \cap DOMAIN file : Words(k) = env.words => b = k
           /\ \/ b \in DOMAIN file
              \/ b = Dotted(env.words) /\ \A j \in DOMAIN file : Words(j) # env.words
<1> DEFINE M == {k \in DOMAIN file : Words(k) = env.words}
           Best(j) == \A other \in M \ {j} : FoundLater(j, other)
<1>1. M \subseteq Keys \cup ExtraKeys
  BY DEF FileInv
<1>2. ASSUME M = {}
      PROVE  Words(b) = env.words
  <2>1. b = Dotted(env.words)
    BY <1>2 DEF BestKeyMatch
  <2> QED BY <2>1 DEF FileInv, KeysTold
<1>3. ASSUME NEW k \in Keys \cap M
      PROVE  Best(k) /\ \A j \in M : Best(j) => j = k
  BY <1>1 DEF KeysTold
<1>4. ASSUME M \cap Keys = {}, NEW k \in M
      PROVE  Best(k)
  BY <1>1, <1>4 DEF KeysTold
<1>5. M # {} => \E j \in M : Best(j)
  BY <1>3, <1>4
<1>6. M # {} => b = CHOOSE j \in M : Best(j)
  BY DEF BestKeyMatch
<1>7. M # {} => b \in M /\ Best(b)
  <2> HIDE DEF M, Best
  <2> QED BY <1>5, <1>6
<1>8. M = {} => b = Dotted(env.words)
  BY DEF BestKeyMatch
<1>9. M = {} => \A j \in DOMAIN file : Words(j) # env.words
  OBVIOUS
<1> QED BY <1>2, <1>3, <1>7, <1>8, <1>9

\* Every setting gets what was said of it, and nothing if that does not reach it.
LEMMA AsHeard ==
    ASSUME KeysTold, FileInv, NEW k \in Keys
    PROVE  Unmarshal(k) = Heard(k)
<1>1. CASE env = None
  <2>1. Merged = file /\ ~ Variable(k)
    BY <1>1 DEF Merged, Variable
  <2> QED BY <2>1 DEF Unmarshal, Heard, Said
<1>2. CASE env # None
  <2> DEFINE b == BestKeyMatch(env.words, DOMAIN file)
  <2>1. /\ Words(b) = env.words
        /\ k \in DOMAIN file /\ Words(k) = env.words => b = k
        /\ \/ b \in DOMAIN file
           \/ b = Dotted(env.words) /\ \A j \in DOMAIN file : Words(j) # env.words
    BY <1>2, Matched
  <2>2. Merged = Put(file, b, env.value)
    BY <1>2 DEF Merged
  <2> HIDE DEF b
  <2>3. /\ k \in DOMAIN Merged <=> k \in DOMAIN file \/ k = b
        /\ k \in DOMAIN Merged => Merged[k] = IF k = b THEN env.value ELSE file[k]
    BY <2>2 DEF Put
  <2>4. Variable(k) <=> Words(k) = env.words
    BY <1>2 DEF Variable
  <2>5. Variable(k) => (k = b <=> Reached(k))
    BY <2>1, <2>4 DEF Reached
  <2>6. ~ Variable(k) => k # b
    BY <2>1, <2>4
  <2> QED BY <2>3, <2>5, <2>6 DEF Unmarshal, Heard, Said, Reached
<1> QED BY <1>1, <1>2

\* applyDefaults leaves telemetry off only if it is not said to be on and one of three
\* other fields is said.
LEMMA EnabledValue ==
    /\ Enabled \in Keys
    /\ WithDefaults[Enabled] = 0 <=>
           /\ Unmarshal(Enabled) = 0
           /\ \E k \in {OTLPEndpoint, HTTPPort, ServiceName} : Unmarshal(k) # 0
<1>1. Enabled \in Keys /\ Enabled \notin DOMAIN Defaults
  BY EnabledKey
<1>2. WithDefaults[Enabled] = IF TelemetryOn THEN Or(Unmarshal(Enabled), 1) ELSE 0
  <2>1. Enabled[1] # <<"chains">> /\ Enabled \notin Stages
    <3>1. <<"telemetry">> # <<"chains">>
      OBVIOUS
    <3> QED BY <3>1, TelemetryPath, StageKeys DEF Enabled
  <2> QED BY <1>1, <2>1 DEF WithDefaults
<1>3. Or(Unmarshal(Enabled), 1) # 0
  BY DEF Or
<1> QED BY <1>1, <1>2, <1>3 DEF TelemetryOn

\* A file that names a stage decides on all of them.
LEMMA StagesKept ==
    ASSUME NEW t \in Stages, Unmarshal(t) # 0, NEW s \in Stages
    PROVE  WithDefaults[s] = Unmarshal(s)
<1>1. s \in Keys /\ s \notin DOMAIN Defaults /\ s # Enabled /\ s[1] # <<"chains">>
  <2>1. <<"telemetry">> # <<"chains">>
    OBVIOUS
  <2> QED BY <2>1, StageKeys
<1>2. ~ NoStage
  BY DEF NoStage
<1> QED BY <1>1, <1>2 DEF WithDefaults

\* If the keys can be told apart, what the operator says of a setting is what an accepted
\* configuration has, except by the variable of a setting with an underscore that the file
\* lacks; and three fields alone decide whether telemetry can be off.
THEOREM Kept == KeysTold => (Spec => []SettingsKept)
<1> SUFFICES ASSUME KeysTold PROVE Spec => []SettingsKept
  OBVIOUS
<1>1. LoadInv /\ FileInv => SettingsKept
  <2> SUFFICES ASSUME LoadInv, FileInv, pc = "accepted" PROVE SettingsKept
    BY DEF SettingsKept
  <2>1. cfg = WithDefaults
    BY DEF LoadInv
  <2>2. \A k \in Keys : Unmarshal(k) = Heard(k)
    BY AsHeard
  <2>3. \A k \in Keys : Heard(k) # 0 => cfg[k] = Heard(k)
    BY <2>1, <2>2, NothingReplaced
  <2>4. {OTLPEndpoint, HTTPPort, ServiceName} \subseteq Keys
    <3>1. {OTLPEndpoint, HTTPPort, ServiceName} \subseteq {e[1] : e \in DefaultEntries}
      BY DEF DefaultEntries
    <3> QED BY <3>1 DEF Keys, Defaults, MapOf
  <2>5. cfg[Enabled] = 0 <=>
            /\ Heard(Enabled) = 0
            /\ \E k \in {OTLPEndpoint, HTTPPort, ServiceName} : Heard(k) # 0
    BY <2>1, <2>2, <2>4, EnabledValue
  <2>6. ASSUME NEW t \in Stages, Heard(t) # 0, NEW s \in Stages
        PROVE  cfg[s] = Heard(s)
    <3>1. t \in Keys /\ s \in Keys
      BY StageKeys
    <3>2. Unmarshal(t) # 0
      BY <2>2, <2>6, <3>1
    <3> QED BY <2>1, <2>2, <3>1, <3>2, StagesKept
  <2> QED BY <2>3, <2>5, <2>6 DEF SettingsKept
<1> QED BY <1>1, Invariant, FileKept, PTL

\* A variable that does not reach its setting leaves it at its default, whatever its value:
\* the limit of README.md:44, which has all settings overridable.
UnreachedAtDefault ==
    pc = "accepted" =>
        \A k \in DOMAIN Defaults : Variable(k) /\ ~ Reached(k) => cfg[k] = Defaults[k]

\* bestKeyMatch gives such a variable to a key no setting has, for every file and value.
THEOREM UnreachedIgnored == KeysTold => (Spec => []UnreachedAtDefault)
<1> SUFFICES ASSUME KeysTold PROVE Spec => []UnreachedAtDefault
  OBVIOUS
<1>1. LoadInv /\ FileInv => UnreachedAtDefault
  <2> SUFFICES ASSUME LoadInv, FileInv, pc = "accepted", NEW k \in DOMAIN Defaults,
                      Variable(k), ~ Reached(k)
               PROVE  cfg[k] = Defaults[k]
    BY DEF UnreachedAtDefault
  <2>1. k \in Keys /\ WithDefaults[k] = Or(Unmarshal(k), Defaults[k])
    BY PlainValue
  <2>2. Unmarshal(k) = 0
    BY <2>1, AsHeard DEF Heard
  <2> QED BY <2>1, <2>2 DEF Or, LoadInv
<1> QED BY <1>1, Invariant, FileKept, PTL
=============================================================================
