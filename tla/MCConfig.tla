------------------------------ MODULE MCConfig ------------------------------
(* A file like config/config.toml with one chain and without telemetry.       *)
EXTENDS Config, TLC

MCChains == {<<"ethereum">>}

\* grpc_port at the top of the file, a misspelling of port below grpc.
MCExtraKeys == {<<<<"grpc", "port">>>>}

MCBaseFile ==
    (<<<<"log", "level">>>> :> 1) @@ (GRPCPort :> 50051) @@ (Workers :> 4)
    @@ (CacheTTL :> 30) @@ (StalenessThreshold :> 7200) @@ (PruneInterval :> 5)
    @@ (MaxWindowSize :> 10000) @@ (Setting("pipeline", <<"signal", "buffer">>) :> 32)
    @@ (ChainKey(<<"ethereum">>, RPCURL) :> 1) @@ (ChainKey(<<"ethereum">>, PollInterval) :> 12)
    @@ (ChainKey(<<"ethereum">>, MaxRetries) :> 10)

\* The only misspelling of the instance is one that bestKeyMatch passes over.
ASSUME MCKeysTold == KeysTold

MCValues == {-1, 0, 1, 9090, 65536}
=============================================================================
