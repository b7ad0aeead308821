---------------------------- MODULE MCEnrichment ----------------------------
(* Two workers, a feed with decimals that publishes once more and one without *)
(* decimals.  The registry lists the core contract, the bridge and two tokens,*)
(* weth in lower case.  The first rule is the shipped one with a threshold of *)
(* 50; the others use the remaining operators and fields.                     *)
EXTENDS Enrichment, TLC

CONSTANTS w1, w2

MCWorkers == {w1, w2}
MCSymmetry == Permutations(MCWorkers)

Ethereum == Text("ethereum")
Solana == Text("solana")

MCContracts ==
    (<<Ethereum, Checksummed("core")>> :>
        [name |-> Text("Wormhole Core"), protocol |-> Text("wormhole")])
    @@ (<<Ethereum, Checksummed("bridge")>> :>
        [name |-> Text("Token Bridge"), protocol |-> Text("wormhole")])
    @@ (<<Ethereum, Checksummed("usdc")>> :>
        [name |-> Text("USD Coin"), protocol |-> Text("erc20")])
    @@ (<<Ethereum, Lower("weth")>> :>
        [name |-> Text("Wrapped Ether"), protocol |-> Text("erc20")])

MCPriceFeeds ==
    (<<Ethereum, Lower("usdc")>> :> "usdc/usd")
    @@ (<<Ethereum, Lower("weth")>> :> "eth/usd")
MCFeeds == {"usdc/usd", "eth/usd"}
MCAnswers == ("usdc/usd" :> <<10, 11>>) @@ ("eth/usd" :> <<3>>)
MCFeedDecimals == ("usdc/usd" :> 1) @@ ("eth/usd" :> 0)

MCChainNames == (1 :> Solana) @@ (2 :> Ethereum)
MCSubstrings == {<<Text("wormhole"), Text("worm")>>}
MCItems ==
    (Text("ethereum, solana") :> {Text("ethereum"), Text("solana")})
    @@ (Text("USD Coin,Wrapped Ether") :> {Text("USD Coin"), Text("Wrapped Ether")})

\* A token of the chain itself, and one of Solana whose last 20 bytes are another's address.
Native(address) == [chain |-> 2, prefix |-> "zeros", address |-> address]
Namesake(address) == [chain |-> 1, prefix |-> "others", address |-> address]

Deposit(by, payload, token, amount, target, dec) ==
    [kind |-> "message", user |-> "alice", by |-> by, payload |-> payload, token |-> token,
     amount |-> amount, target |-> target, tokenDecimals |-> dec]

\* 50 usdc, a token without decimals here, are above 50 dollars only at the second price,
\* 27 usdc at most 27 dollars only at the first.  weth has one decimal: 200 units are 60
\* dollars, 20 units 6 dollars.
MCActivities == {
    Deposit("bridge", "transfer", Native("usdc"), 50, 1, 0),
    Deposit("bridge", "transfer with payload", Native("usdc"), 27, 9, 0),
    Deposit("bridge", "transfer", Native("weth"), 200, 1, 1),
    Deposit("bridge", "transfer", Native("weth"), 20, 1, 1),
    Deposit("bridge", "transfer", Native("rare"), 99, 1, 0),
    Deposit("bridge", "transfer", Namesake("usdc"), 99, 1, 0),
    Deposit("bridge", "attestation", Native("usdc"), 99, 1, 0),
    Deposit("another contract", "transfer", Native("usdc"), 99, 1, 0),
    [kind |-> "approval", user |-> "alice", token |-> "usdc", target |-> "bridge", amount |-> 99],
    [kind |-> "approval", user |-> "alice", token |-> "weth", target |-> "bridge", amount |-> 99],
    [kind |-> "approval", user |-> "alice", token |-> "rare", target |-> "bridge", amount |-> 99],
    [kind |-> "other", log |-> [address |-> "core", topics |-> <<>>, data |-> None]],
    [kind |-> "other",
     log |-> [address |-> "usdc", topics |-> <<"Approval", "alice">>, data |-> None]],
    [kind |-> "foreign", raw |-> [chain |-> Solana, type |-> "token_account_create",
                                  data |-> [mint |-> Text("mint"), owner |-> Text("bob")]]],
    [kind |-> "foreign", raw |-> [chain |-> Text("cosmoshub"), type |-> "ibc_send_packet",
                                  data |-> [token |-> NotString, sender |-> Text("carl")]]]}

Condition(field, op, value) == [field |-> field, op |-> op, value |-> value]
MCRules == <<
    [trigger |-> "bridge_deposit", signal |-> "liquidity_needed",
     metadata |-> <<"destination_chain", "token", "amount">>,
     conditions |-> <<Condition("amount_usd", "gt", Numeral(50 * Scale)),
                      Condition("destination_chain", "eq", Solana)>>],
    [trigger |-> "bridge_deposit", signal |-> "cheap", metadata |-> <<"amount_usd", "protocol">>,
     conditions |-> <<Condition("amount_usd", "lte", Numeral(27 * Scale)),
                      Condition("protocol", "contains", Text("worm"))>>],
    [trigger |-> "token_approval", signal |-> "approved", metadata |-> <<>>,
     conditions |-> <<Condition("source_address", "eq", Checksummed("alice")),
                      Condition("token", "eq", Lower("usdc"))>>],
    [trigger |-> "token_approval", signal |-> "known", metadata |-> <<"contract_name">>,
     conditions |-> <<Condition("contract_name", "in", Text("USD Coin,Wrapped Ether"))>>],
    [trigger |-> "token_account_create", signal |-> "account",
     metadata |-> <<"source_address", "token">>,
     conditions |-> <<Condition("source_chain", "in", Text("ethereum, solana"))>>],
    [trigger |-> "token_account_create", signal |-> "small", metadata |-> <<>>,
     conditions |-> <<Condition("amount", "lt", Numeral(5 * Scale))>>]>>

\* What the rules above mean, said of the activity itself: the signals' names.  A sum is
\* in dollars, of whole tokens: the amount divided by the token's decimals, times the price.
\* The name of a contract is known only if the registry spells its address as Hex prints it.
Meant(act, price) ==
    LET bridged == act.kind = "message" /\ act.by = "bridge" /\ act.payload # "attestation"
        MoreThan(dollars) ==
            act.amount * price.value > dollars * Scale * 10 ^ act.tokenDecimals
        meant(s) == CASE s = "liquidity_needed" -> bridged /\ price # None /\ act.target = 1
                                                   /\ MoreThan(50)
                      [] s = "cheap" -> bridged /\ price # None /\ ~ MoreThan(27)
                      [] s = "approved" -> act.kind = "approval" /\ act.user = "alice"
                                           /\ act.token = "usdc"
                      [] s = "known" -> act.kind = "approval" /\ act.token = "usdc"
                      [] s = "account" -> act.kind = "foreign"
                      [] OTHER -> FALSE
    IN {s \in {MCRules[i].signal : i \in DOMAIN MCRules} : meant(s)}

\* A token of another chain goes by its last 20 bytes, so nothing is claimed of its deposits.
OfThisChain(act) ==
    act.kind = "message" => WormholeChainID(act.token.chain) = Chain

\* From the contract's log to the signals, through decoder, normalizer, registry, price
\* and rules.  For the chain's own tokens a rule fires exactly for the activities it means,
\* at the price in use, if their amounts have no decimals.  Decimals are never divided away
\* (AmountInDollars), which makes every sum too large and never too small: "above" is then
\* never missed and "at most" never fires wrongly.  The metadata names the activity's own
\* destination, token and amount.
\* Foreign messages, attestations and malformed logs never become deposits, numbers are
\* compared as numbers, and a missing amount or price satisfies no comparison.
SignalsMeant ==
    \A w \in Enriched :
        LET act == worker[w].act
            signals == Evaluate(EnrichedOf(w))
            fired == {signals[i].name : i \in DOMAIN signals}
            meant == Meant(act, worker[w].price)
            divided == act.kind = "message" /\ act.tokenDecimals > 0
        IN OfThisChain(act) =>
               /\ meant \subseteq fired \cup (IF divided THEN {"cheap"} ELSE {})
               /\ fired \subseteq meant \cup (IF divided THEN {"liquidity_needed"} ELSE {})
               /\ \A i \in DOMAIN signals : signals[i].name = "liquidity_needed" =>
                      signals[i].metadata =
                          [destination_chain |-> Solana, token |-> Lower(act.token.address),
                           amount |-> Numeral(act.amount * Scale)]
=============================================================================
