---------------------------- MODULE MCClassified ------------------------------
(***************************************************************************)
(* How classified_transactions are made, and how the transfers among them    *)
(* get their signals.  Detection reads only what is committed and decoding   *)
(* never reads a signal, so a behaviour exercises one of the two.            *)
(*                                                                         *)
(* Making: two wallets of a user and two tokens, one of them mint-only.  The  *)
(* pool is the first token's staking contract, but some of it comes from a    *)
(* dex, and an NFT goes to a shop; a burn, a wrap, an unwrap and a redeemed   *)
(* credit are there, and two bundles that several decoders claim from.        *)
(*                                                                         *)
(* Resolving: wallet A sends through a splitter to B, which another entity   *)
(* owns, and to C, which nobody owns yet; later to C, which by then its own   *)
(* entity owns.  At last C sends a token nobody tracks to a stranger.  Until  *)
(* the user adds the receiving wallet a transfer looks external.             *)
(***************************************************************************)
EXTENDS CrossEntity, Decoding

CONSTANTS A, B, C, p, q

MCEvents     == 1..6
MCWalletOf   == <<A, B, C, A, C, C>>
MCFirstClass == <<"transfer-out", "transfer-in", "transfer-in",
                  "transfer-out", "transfer-in", "transfer-out">>
MCOwnerAt    == [w \in {A, B, C} |-> [e \in MCEvents |->
                   IF w = B THEN q ELSE IF w = C /\ e < 4 THEN None ELSE p]]
MCInflowsOf  == <<{2, 3}, {}, {}, {5}, {}, {}>>

MCAddresses == {"me", "you", "pool", "dex", "shop", "dead", "zero", "stranger",
                "erc", "nft", "qerc", "qnft", "scdt", "wlemx"}
MCErc20     == [t |-> "erc", q |-> "qerc"]
MCSeededNft == [t |-> NoAddress, q |-> "qnft"]

Raw(part, log, asset, from, to) ==
    [part |-> part, log |-> log, asset |-> asset, from |-> from, to |-> to]

Tx(to, call, priced, rows) == [rows |-> rows, to |-> to, call |-> call, priced |-> priced]

MCHistory == [
    me |-> <<
        Tx("pool", "other", TRUE, {
            Raw("erc20", 1, "erc", "pool", "me"), Raw("erc20", 2, "erc", "dex", "me")}),
        Tx("pool", "other", FALSE, {
            Raw("nft", 1, "nft", "zero", "me"), Raw("nft", 2, "nft", "me", "pool"),
            Raw("nft", 3, "nft", "pool", "me"), Raw("erc20", 4, "erc", "pool", "me")})>>,
    you |-> <<
        Tx("wlemx", "withdraw", TRUE, {
            Raw("erc20", 1, "erc", "dex", "you"), Raw("erc20", 2, "erc", "you", "dead"),
            Raw("nft", 3, "nft", "you", "shop"), Raw("erc20", 4, "wlemx", "you", "zero"),
            Raw("nft", 5, "qnft", "zero", "you"), Raw("internal", 0, "zero", "wlemx", "you")}),
        Tx("wlemx", "deposit", TRUE, {
            Raw("envelope", 0, "zero", "you", "wlemx"), Raw("erc20", 1, "wlemx", "zero", "you"),
            Raw("nft", 2, "scdt", "you", "shop"), Raw("nft", 3, "nft", "shop", "you"),
            Raw("nft", 4, "qnft", "zero", "you")})>>]

VARIABLE half

Making    == half = "making" /\ UNCHANGED <<half, vars>>
Resolving == half = "resolving" /\ UNCHANGED <<half, decodingVars>>

ClassifiedInit == Init /\ DecodingInit /\ half \in {"making", "resolving"}
ClassifiedNext == (Making /\ DecodingNext) \/ (Resolving /\ Next)
ClassifiedSpec == ClassifiedInit /\ [][ClassifiedNext]_<<vars, decodingVars, half>>
=============================================================================
