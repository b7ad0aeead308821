------------------------------- MODULE Events -------------------------------
(***************************************************************************)
(* What the pipeline makes of one event, as functions: the decoder of      *)
(* src/internal/adapter/evm, Normalize, the registry's lookups, the        *)
(* enricher's amount_usd and the engine's rules.                           *)
(* A Go string is a pair: <<"text", t>>, the decimal numeral <<"number",   *)
(* n>> of n / Scale, or an address as Hex prints it, <<"checksummed", a>>, *)
(* and as ToLower leaves it, <<"lower", a>>.  Two spellings of an address  *)
(* are different strings.  A mo.Result is the set of its value, empty for  *)
(* an error.  A bridged token is named by the chain it is native to and 32 *)
(* bytes, the prefix of 12 and the address of 20: [chain, prefix, address].*)
(***************************************************************************)
EXTENDS Integers, Sequences

CONSTANTS None,
          NotString,    \* a value of RawEvent.Data that is not a string
          TokenBridge,  \* the registry's wormhole token bridge
          Contracts,    \* the registry's contracts: <<chain, address string>> -> info
          PriceFeeds,   \* the registry's price feeds: <<chain, token string>> -> feed
          ChainNames,   \* wormholeChainMap: wormhole number -> chain
          Items,        \* list strings -> their items, split at commas and trimmed
          Substrings,   \* pairs <<string, a proper part of it>>
          Rules,        \* the rules file
          Scale         \* units per dollar and per 1

ASSUME EventsAssumption == Scale \in Nat \ {0}

Text(t) == <<"text", t>>
Empty == Text("")
Numeral(n) == <<"number", n>>
Checksummed(a) == <<"checksummed", a>>
Lower(a) == <<"lower", a>>
-----------------------------------------------------------------------------
(* The decoder.  A log has an address, topics (the first names the event) and   *)
(* data, None when it is too short or its offsets leave it.                     *)

WormholeChainID(id) ==
    IF id \in DOMAIN ChainNames THEN ChainNames[id] ELSE <<"wormhole", id>>

TransferPayloads == {"transfer", "transfer with payload"}

\* decodeWormholeTransferPayload.  BytesToAddress keeps the last 20 bytes of the token's
\* 32, and OriginChain is not read.  (An empty payload is BridgeAssumption's matter: the
\* error message would index it.)
Transfer(chain, log) ==
    IF log.data.payload \in TransferPayloads
    THEN {[chain |-> chain, type |-> "bridge_deposit",
           data |-> [token |-> Lower(log.data.token.address),
                     amount |-> Numeral(log.data.amount * Scale),
                     sender |-> Checksummed(TokenBridge),
                     target_chain |-> WormholeChainID(log.data.target),
                     contract |-> Checksummed(log.address)]]}
    ELSE {}

AnyMessagePublished(chain, log) ==
    IF Len(log.topics) >= 2 /\ log.data # None THEN Transfer(chain, log) ELSE {}
LogMessagePublished(chain, log) ==
    IF Len(log.topics) >= 2 /\ log.topics[2] = TokenBridge /\ log.data # None
    THEN Transfer(chain, log)
    ELSE {}

Approval(chain, log) ==
    IF Len(log.topics) >= 3 /\ log.data # None
    THEN {[chain |-> chain, type |-> "token_approval",
           data |-> [token |-> Lower(log.address), sender |-> Checksummed(log.topics[2]),
                     spender |-> Checksummed(log.topics[3]),
                     amount |-> Numeral(log.data.value * Scale),
                     contract |-> Checksummed(log.address)]]}
    ELSE {}

Decode(chain, log) ==
    IF log.topics = <<>> THEN {}
    ELSE IF log.topics[1] = "LogMessagePublished" THEN LogMessagePublished(chain, log)
    ELSE IF log.topics[1] = "Approval" THEN Approval(chain, log)
    ELSE {}
-----------------------------------------------------------------------------
(* The normalizer. *)

EVMEvents == {"bridge_deposit", "dex_swap", "token_approval"}
SolanaEvents == {"token_account_create"}
CosmosEvents == {"ibc_send_packet", "ibc_ack_packet"}

TokenKey(type) == IF type \in SolanaEvents THEN "mint" ELSE "token"
SenderKey(type) == IF type \in SolanaEvents THEN "owner" ELSE "sender"

IsString(data, key) == key \in DOMAIN data /\ data[key] # NotString
Field(data, key) == IF IsString(data, key) THEN data[key] ELSE Empty

NormalizeAny(raw) ==
    {[chain |-> raw.chain, type |-> raw.type,
      token |-> Field(raw.data, "token"),
      amount |-> Field(raw.data, "amount"),
      source |-> Field(raw.data, "sender"),
      contract |-> Field(raw.data, "contract"),
      dest |-> IF IsString(raw.data, "target_chain") THEN raw.data["target_chain"] ELSE None]}
\* Without a token there is no event; the other fields may be missing.
Normalize(raw) ==
    IF /\ raw.type \in EVMEvents \cup SolanaEvents \cup CosmosEvents
       /\ IsString(raw.data, TokenKey(raw.type))
    THEN {[chain |-> raw.chain, type |-> raw.type,
           token |-> raw.data[TokenKey(raw.type)],
           amount |-> Field(raw.data, "amount"),
           source |-> Field(raw.data, SenderKey(raw.type)),
           contract |-> IF raw.type \in EVMEvents THEN Field(raw.data, "contract") ELSE Empty,
           dest |-> IF IsString(raw.data, "target_chain") THEN raw.data["target_chain"]
                    ELSE None]}
    ELSE {}
-----------------------------------------------------------------------------
(* The registry and the enricher. *)

LookupContract(chain, address) ==
    IF <<chain, address>> \in DOMAIN Contracts THEN Contracts[<<chain, address>>] ELSE None

LookupPriceFeed(chain, token) ==
    IF <<chain, token>> \in DOMAIN PriceFeeds THEN PriceFeeds[<<chain, token>>] ELSE None

\* buildFilterQuery: the logs of these addresses are all the adapter subscribes to,
\* however the registry spells them.
Subscribed(chain, address) ==
    \E s \in {Checksummed(address), Lower(address)} : LookupContract(chain, s) # None

ParsesAsFloat(s) == s[1] = "number"

\* price is in units of 1 / Scale dollars for one unit of the amount.
AmountUSD(e, price) ==
    IF price # None /\ ParsesAsFloat(e.amount) /\ e.amount[2] > 0
    THEN (e.amount[2] * price) \div Scale
    ELSE None

Enrich(e, price) ==
    [event |-> e, info |-> LookupContract(e.chain, e.contract), usd |-> AmountUSD(e, price)]
-----------------------------------------------------------------------------
(* The engine's rules. *)

GetFieldValue(field, enriched) ==
    LET e == enriched.event
    IN CASE field = "amount_usd" /\ enriched.usd # None -> Numeral(enriched.usd)
         [] field = "destination_chain" /\ e.dest # None -> e.dest
         [] field = "source_chain" -> e.chain
         [] field = "token" -> e.token
         [] field = "amount" -> e.amount
         [] field = "source_address" -> e.source
         [] field = "protocol" /\ enriched.info # None -> enriched.info.protocol
         [] field = "contract_name" /\ enriched.info # None -> enriched.info.name
         [] field = "contract_address" -> e.contract
         [] OTHER -> Empty

Holds(op, x, y) ==
    \/ op = "gt" /\ x > y
    \/ op = "lt" /\ x < y
    \/ op = "gte" /\ x >= y
    \/ op = "lte" /\ x <= y

MissingIsZero(op, s, t) ==
    ParsesAsFloat(t) /\ Holds(op, IF ParsesAsFloat(s) THEN s[2] ELSE 0, t[2])
CompareNumeric(op, s, t) == ParsesAsFloat(s) /\ ParsesAsFloat(t) /\ Holds(op, s[2], t[2])

EvalCondition(c, enriched) ==
    LET s == GetFieldValue(c.field, enriched)
    IN \/ c.op = "eq" /\ s = c.value
       \/ c.op \in {"gt", "lt", "gte", "lte"} /\ CompareNumeric(c.op, s, c.value)
       \/ c.op = "in" /\ s \in (IF c.value \in DOMAIN Items THEN Items[c.value] ELSE {c.value})
       \/ c.op = "contains" /\ (s = c.value \/ c.value = Empty \/ <<s, c.value>> \in Substrings)

MatchConditions(conditions, enriched) ==
    \A i \in DOMAIN conditions : EvalCondition(conditions[i], enriched)

\* buildMetadata: the listed fields that have a value.
Metadata(fields, enriched) ==
    LET present == {i \in DOMAIN fields : GetFieldValue(fields[i], enriched) # Empty}
    IN [f \in {fields[i] : i \in present} |-> GetFieldValue(f, enriched)]

\* newSignal; its id, time of detection and the fields copied from the rule left out.
Signal(rule, enriched) ==
    [name |-> rule.signal, token |-> enriched.event.token, amount |-> enriched.event.amount,
     usd |-> enriched.usd, source |-> enriched.event.chain, dest |-> enriched.event.dest,
     metadata |-> Metadata(rule.metadata, enriched)]

Evaluate(enriched) ==
    LET fires(rule) == rule.trigger = enriched.event.type
                       /\ MatchConditions(rule.conditions, enriched)
        fired == SelectSeq(Rules, fires)
    IN [i \in DOMAIN fired |-> Signal(fired[i], enriched)]
=============================================================================
