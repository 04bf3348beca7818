------------------------------- MODULE Decoding -------------------------------
(***************************************************************************)
(* What a transaction's rows become: classify_bundle with its recognizers,   *)
(* the per-token decoders and the common layer, and replace_classified, run  *)
(* by one task per wallet over the wallet's transactions.                    *)
(*                                                                         *)
(* Decoders learn.  The tasks of all wallets share l2_decoder_config: the    *)
(* first sender of a token's reward, or the first receiver of its NFT, is    *)
(* proposed as its staking contract, and somebody confirms it later.  A      *)
(* session does not expire what it has loaded when it commits                *)
(* (expire_on_commit=False), so a task works with a token's configuration as *)
(* it first read it, plus what it has learned itself, and a commit writes    *)
(* only the columns it has changed.                                          *)
(*                                                                         *)
(* A bundle's rows come in no order.  Amounts and event_seq are left out, and *)
(* of values only whether there is a price.  A chunk may end after any       *)
(* transaction.                                                              *)
(***************************************************************************)
EXTENDS Integers, FiniteSets, Sequences

CONSTANTS
    Addresses,      \* every address there is
    Accounts,       \* those of the user's wallets
    History,        \* per wallet, the sequence of its transactions' bundles
    Tokens,         \* the tokens with a row in l2_decoder_config
    MintOnly,       \* those of them with LqstDecoder
    Deflationary,   \* those with deflationary tokenomics
    Erc20,          \* their ERC-20 addresses
    SeededNft,      \* the nft_contract the seed gives them, or NoAddress
    Wlemx, Scdt, Zero,
    BurnSinks,      \* burn_addresses, confirmed or universal
    MaxUpsets,      \* bound on failures, resets, transactions held and supplies complete
    NoAddress, Unread, Unclassified

\* A bundle: its rows, the address and the function its envelope calls, and whether the
\* prices of its day can be had.  Envelope and internal rows stand for a positive native
\* value.
RawRows == [part : {"erc20", "nft", "envelope", "internal"}, log : Nat,
            asset : Addresses, from : Addresses, to : Addresses]
Bundles == [rows : SUBSET RawRows, to : Addresses \cup {NoAddress},
            call : {"deposit", "withdraw", "other"}, priced : BOOLEAN]
Deeds   == UNION {{a} \X DOMAIN History[a] : a \in Accounts}

ASSUME TokensAssumption ==
    /\ Accounts \cup {Wlemx, Scdt, Zero} \subseteq Addresses /\ NoAddress \notin Addresses
    /\ MintOnly \subseteq Tokens /\ Deflationary \subseteq Tokens
    /\ Erc20 \in [Tokens -> Addresses] /\ SeededNft \in [Tokens -> Addresses \cup {NoAddress}]
ASSUME HistoryAssumption ==
    /\ History \in [Accounts -> Seq(Bundles)]
    /\ \A a \in Accounts : \A n \in DOMAIN History[a] :
          \A r \in History[a][n].rows : a \in {r.from, r.to}
ASSUME MaxUpsetsAssumption == MaxUpsets \in Nat

VARIABLES
    config,     \* l2_decoder_config
    booked,     \* a transaction's classified_transactions, Unclassified before
    done,       \* last_classified_block, as the number of transactions behind it
    job,        \* each wallet's task: where it is, and the bundle it has open
    view,       \* the configurations its session has loaded
    news,       \* the columns of them that it has changed and not committed
    drafts,     \* the transactions it has replaced and not committed
    held,       \* transactions a user has pinned or lots point at
    vouched,    \* <<token, address>> that were confirmed as staking contracts
    upsets

decodingVars == <<config, booked, done, job, view, news, drafts, held, vouched, upsets>>

Upset == upsets < MaxUpsets /\ upsets' = upsets + 1

\* The configuration of a token before anything is learned.
Seeded(t) == [staking |-> NoAddress, status |-> "unknown", nft |-> SeededNft[t],
              complete |-> FALSE]

Asleep == [stage |-> "idle", at |-> 0, events |-> {}, todo |-> {}]
Blank(a) == [n \in DOMAIN History[a] |-> Unclassified]
NothingRead == [t \in Tokens |-> Unread]

\* What the session of wallet a sees of a token's configuration.
Look(a, t) == IF view[a][t] = Unread THEN config[t] ELSE view[a][t]

-----------------------------------------------------------------------------
(* Events and claims                                                        *)

\* An event and the rows it was made from.
Each(kind, rows, review) ==
    {[kind |-> kind, of |-> {r}, review |-> review] : r \in rows}

MutClaimed(events) == UNION {e.of : e \in {f \in events : f.kind # "mint"}}

Claimed(events) == UNION {e.of : e \in events}

\* The token and NFT rows nobody has claimed.
Free(b, events) == {r \in b.rows : r.part \in {"erc20", "nft"}} \ Claimed(events)

-----------------------------------------------------------------------------
(* The recognizers                                                          *)

\* WrapRecognizer: all events it may make, with the rows it claims.
Wraps(a, b) ==
    LET wlemx == {r \in Free(b, {}) : r.asset = Wlemx}
        in    == {r \in wlemx : r.from = Zero /\ r.to = a}
        out   == {r \in wlemx : r.from = a /\ r.to = Zero}
        paid  == \E r \in b.rows : r.part = "envelope"
        Plain(kind, rows) == {[kind |-> kind, of |-> rows, review |-> FALSE]}
    IN CASE b.to = Wlemx /\ b.call = "deposit" /\ paid -> {Plain("wrap", in)}
         [] b.to = Wlemx /\ b.call = "withdraw" /\ out # {} -> {Plain("unwrap", {r}) : r \in out}
         [] OTHER -> {{}}

\* SwapCreditRedemptionRecognizer: as many NFTs in as credits out, or nothing.
Credits(a, free, priced) ==
    LET out == {r \in free : r.part = "nft" /\ r.asset = Scdt /\ r.from = a}
        in  == {r \in free : r.part = "nft" /\ r.asset # Scdt /\ r.to = a}
    IN IF Cardinality(in) = Cardinality(out)
       THEN Each("swap-credit-redemption", in \cup out, ~priced) ELSE {}

-----------------------------------------------------------------------------
(* The detectors of a decoder.  Each gives the outcomes it may have: its      *)
(* events, and the configuration with what it proposes.                       *)

\* propose_staking_contract, propose_nft_contract.
ProposeStaking(c, addr) ==
    IF c.staking = NoAddress THEN [c EXCEPT !.staking = addr, !.status = "discovered"] ELSE c
ProposeNft(c, addr) ==
    IF c.nft = NoAddress THEN [c EXCEPT !.nft = addr] ELSE c

OfNft(c, r) == r.part = "nft" /\ c.nft \in {r.asset, NoAddress}

\* What comes from the staking contract; it asks for review unless it is confirmed.
Income(c, rows, priced) ==
    Each("reward", {r \in rows : r.from = c.staking},
         c.status # "confirmed" \/ c.complete \/ ~priced)

\* The first token from a stranger is parked while the staking contract is unknown.
Rewards(t, a, c, free, priced) ==
    LET mine == {r \in free : /\ r.part = "erc20" /\ r.asset = Erc20[t]
                              /\ r.to = a /\ r.from \notin Accounts \cup {Zero}}
        Parked(r) ==
            LET d == ProposeStaking(c, r.from)
            IN [cfg    |-> d,
                events |-> Each("pending", {r}, TRUE) \cup Income(d, mine \ {r}, priced)]
    IN IF c.staking = NoAddress /\ mine # {}
       THEN {Parked(r) : r \in mine} ELSE {[cfg |-> c, events |-> Income(c, mine, priced)]}

\* The first NFT to go out settles what is not known yet of its contract and its staking.
Stakes(a, c, free) ==
    LET out == {r \in free : OfNft(c, r) /\ r.from = a /\ r.to \notin Accounts}
        Led(r) == LET d == ProposeNft(ProposeStaking(c, r.to), r.asset)
                  IN [cfg |-> d, events |-> Each("stake", {s \in out : OfNft(d, s)}, FALSE)]
    IN IF out = {} THEN {[cfg |-> c, events |-> {}]} ELSE {Led(r) : r \in out}

Unstakes(a, c, free) ==
    Each("unstake", {r \in free : OfNft(c, r) /\ r.to = a /\ r.from = c.staking}, FALSE)

MintedNfts(a, c, free) ==
    {r \in free : r.part = "nft" /\ r.asset = c.nft /\ r.from = Zero /\ r.to = a}

\* The fee is what the envelope paid, gas included; without an envelope it is zero.
Mints(a, b, c, free) ==
    Each("mint", MintedNfts(a, c, free), ~b.priced /\ b.to # NoAddress)

\* _resolve_lqst_fee: the envelope, an outflow of LEMX as a token, or an internal one.
FeeFound(a, b) ==
    \E r \in b.rows : \/ r.part = "envelope"
                      \/ r.part = "erc20" /\ r.asset = Zero /\ r.from = a
                      \/ r.part = "internal" /\ r.from = a

-----------------------------------------------------------------------------
(* Dispatch and the common layer                                            *)

\* decoders_for_bundle: the decoders one of whose addresses the bundle mentions.
Dispatched(a, b) ==
    LET mentioned == {b.to} \cup {r.asset : r \in {s \in b.rows : s.part \in {"erc20", "nft"}}}
        KnownTo(t) == {Erc20[t], Look(a, t).nft, Look(a, t).staking} \ {NoAddress}
    IN {t \in Tokens : KnownTo(t) \cap mentioned # {}}

\* common_transfer_events over what is left; native value is never claimed.
CommonKind(a, r) ==
    CASE r.to = a -> "transfer-in"
      [] /\ r.to # a /\ r.part = "erc20" /\ r.to \in BurnSinks
         /\ \E t \in Deflationary : Erc20[t] = r.asset -> "burn"
      [] OTHER -> "transfer-out"

Common(a, b, events) ==
    UNION {Each(CommonKind(a, r), {r}, FALSE) : r \in b.rows \ Claimed(events)}

-----------------------------------------------------------------------------
(* A wallet's task                                                          *)

Bundle(a) == History[a][job[a].at]
Places(a, changes) == job' = [job EXCEPT ![a] = changes]

\* _run_classify starts where the committed cursor is, with a session of its own.
Begin(a) ==
    /\ job[a].stage = "idle" /\ done[a] < Len(History[a])
    /\ Places(a, [Asleep EXCEPT !.stage = "between", !.at = done[a] + 1])
    /\ UNCHANGED <<config, booked, done, view, news, drafts, held, vouched, upsets>>

NothingToClassify(a) ==
    job[a].stage = "idle" /\ done[a] >= Len(History[a]) /\ UNCHANGED decodingVars

\* The recognizers, then the choice of the decoders.
Open(a) ==
    /\ job[a].stage = "between" /\ job[a].at <= Len(History[a])
    /\ \E wrap \in Wraps(a, Bundle(a)) :
          Places(a, [job[a] EXCEPT
              !.stage  = "open",
              !.events = wrap \cup Credits(a, Free(Bundle(a), wrap), Bundle(a).priced),
              !.todo   = Dispatched(a, Bundle(a))])
    /\ UNCHANGED <<config, booked, done, view, news, drafts, held, vouched, upsets>>

\* The columns a session has changed.
Changed(t, c, d) == {<<t, column>> : column \in {f \in {"staking", "nft"} : c[f] # d[f]}}

\* L2Decoder.decode: the configuration is loaded, if it was not, and stays loaded.
Decoded(a, t, d, events) ==
    /\ Places(a, [job[a] EXCEPT !.events = @ \cup events, !.todo = @ \ {t}])
    /\ view' = [view EXCEPT ![a][t] = d]
    /\ news' = [news EXCEPT ![a] = @ \cup Changed(t, Look(a, t), d)]
    /\ UNCHANGED <<config, booked, done, drafts, held, vouched, upsets>>

Decode(a, t) ==
    /\ job[a].stage = "open" /\ t \in job[a].todo \ MintOnly
    /\ LET free == Free(Bundle(a), job[a].events)
       IN \E reward \in Rewards(t, a, Look(a, t), free, Bundle(a).priced) :
          LET free2 == free \ Claimed(reward.events)
          IN \E stake \in Stakes(a, reward.cfg, free2) :
             LET free3 == free2 \ Claimed(stake.events)
                 back  == Unstakes(a, stake.cfg, free3)
             IN Decoded(a, t, stake.cfg,
                    reward.events \cup stake.events \cup back
                    \cup Mints(a, Bundle(a), stake.cfg, free3 \ Claimed(back)))

\* LqstDecoder mints only, and parks a mint whose fee it cannot find.
DecodeMintOnly(a, t) ==
    /\ job[a].stage = "open" /\ t \in job[a].todo \cap MintOnly
    /\ LET c == Look(a, t)
           free == Free(Bundle(a), job[a].events)
       IN \/ /\ FeeFound(a, Bundle(a))
             /\ Decoded(a, t, c, Each("mint", MintedNfts(a, c, free), ~Bundle(a).priced))
          \/ /\ ~FeeFound(a, Bundle(a))
             /\ Decoded(a, t, c, Each("pending", MintedNfts(a, c, free), TRUE))

\* The transaction in session is rolled back and the session closed; the task is over.
Abandon(a) ==
    /\ Places(a, Asleep)
    /\ view' = [view EXCEPT ![a] = NothingRead]
    /\ news' = [news EXCEPT ![a] = {}]
    /\ drafts' = [drafts EXCEPT ![a] = Blank(a)]
    /\ UNCHANGED <<config, booked, done, held, vouched>>

\* replace_classified: nothing happens to a pinned transaction.
MutReplaced(a, n, rows) == [drafts[a] EXCEPT ![n] = rows]

Replaced(a, n, rows) ==
    IF held[<<a, n>>] = "pinned" THEN drafts[a] ELSE [drafts[a] EXCEPT ![n] = rows]

Replace(a) ==
    LET n == job[a].at
        rows == job[a].events \cup Common(a, Bundle(a), job[a].events)
    IN /\ job[a].stage = "open" /\ job[a].todo = {} /\ held[<<a, n>>] # "lots"
       /\ Places(a, [Asleep EXCEPT !.stage = "between", !.at = n + 1])
       /\ drafts' = [drafts EXCEPT ![a] = Replaced(a, n, rows)]
       /\ UNCHANGED <<config, booked, done, view, news, held, vouched, upsets>>

\* The foreign keys of lots, disposals and relocations (ON DELETE RESTRICT) refuse it.
RefuseReplace(a) ==
    /\ job[a].stage = "open" /\ job[a].todo = {} /\ held[<<a, job[a].at>>] = "lots"
    /\ Abandon(a) /\ UNCHANGED upsets

\* The columns that have changed go into the row as it is by now.
MutWritten(a, t) ==
    [config[t] EXCEPT
        !.staking = IF <<t, "staking">> \in news[a] THEN view[a][t].staking ELSE @,
        !.status  = IF <<t, "staking">> \in news[a] /\ @ # "confirmed"
                    THEN view[a][t].status ELSE @,
        !.nft     = IF <<t, "nft">> \in news[a] THEN view[a][t].nft ELSE @]

Written(a, t) ==
    [config[t] EXCEPT
        !.staking = IF <<t, "staking">> \in news[a] THEN view[a][t].staking ELSE @,
        !.status  = IF <<t, "staking">> \in news[a] THEN view[a][t].status ELSE @,
        !.nft     = IF <<t, "nft">> \in news[a] THEN view[a][t].nft ELSE @]

\* The end of a chunk: rows, proposals and cursor.
Commit(a) ==
    /\ job[a].stage = "between"
    /\ booked' = [booked EXCEPT ![a] = [n \in DOMAIN History[a] |->
                    IF drafts[a][n] = Unclassified THEN @[n] ELSE drafts[a][n]]]
    /\ config' = [t \in Tokens |-> Written(a, t)]
    /\ done' = [done EXCEPT ![a] = job[a].at - 1]
    /\ drafts' = [drafts EXCEPT ![a] = Blank(a)]
    /\ news' = [news EXCEPT ![a] = {}]
    /\ \/ job[a].at <= Len(History[a]) /\ UNCHANGED <<job, view>>
       \/ /\ job[a].at > Len(History[a])
          /\ Places(a, Asleep)
          /\ view' = [view EXCEPT ![a] = NothingRead]
    /\ UNCHANGED <<held, vouched, upsets>>

\* A crash, or an error of the database or of a price source.
Fails(a) == job[a].stage # "idle" /\ Abandon(a) /\ Upset

-----------------------------------------------------------------------------
(* What happens around the tasks                                            *)

\* "ledger classify --from-block": without the wallet's lock.
ClassifyFrom(a, n) ==
    /\ n < done[a] /\ Upset
    /\ done' = [done EXCEPT ![a] = n]
    /\ UNCHANGED <<config, booked, job, view, news, drafts, held, vouched>>

\* Somebody confirms a discovered staking contract.
Vouch(t) ==
    /\ config[t].status = "discovered"
    /\ config' = [config EXCEPT ![t].status = "confirmed"]
    /\ vouched' = vouched \cup {<<t, config[t].staking>>}
    /\ UNCHANGED <<booked, done, job, view, news, drafts, held, upsets>>

\* check_completion, of the nightly supply snapshot.
CompleteDistribution(t) ==
    /\ t \notin Deflationary /\ ~config[t].complete /\ Upset
    /\ config' = [config EXCEPT ![t].complete = TRUE]
    /\ UNCHANGED <<booked, done, job, view, news, drafts, held, vouched>>

\* A user pins a row, or the lot engine opens a lot over it; a row that a task has
\* deleted and not committed is locked.
Hold(deed, how) ==
    /\ booked[deed[1]][deed[2]] \notin {Unclassified, {}}
    /\ drafts[deed[1]][deed[2]] = Unclassified
    /\ held[deed] \notin {how, "pinned"} /\ Upset
    /\ held' = [held EXCEPT ![deed] = how]
    /\ UNCHANGED <<config, booked, done, job, view, news, drafts, vouched>>

-----------------------------------------------------------------------------
DecodingInit ==
    /\ config = [t \in Tokens |-> Seeded(t)]
    /\ booked = [a \in Accounts |-> Blank(a)]
    /\ done = [a \in Accounts |-> 0]
    /\ job = [a \in Accounts |-> Asleep]
    /\ view = [a \in Accounts |-> NothingRead]
    /\ news = [a \in Accounts |-> {}]
    /\ drafts = [a \in Accounts |-> Blank(a)]
    /\ held = [d \in Deeds |-> "no"]
    /\ vouched = {}
    /\ upsets = 0

TaskSteps(a) ==
    \/ Begin(a) \/ NothingToClassify(a) \/ Open(a)
    \/ Replace(a) \/ RefuseReplace(a) \/ Commit(a) \/ Fails(a)
    \/ \E t \in Tokens : Decode(a, t) \/ DecodeMintOnly(a, t)
    \/ \E n \in 0..Len(History[a]) : ClassifyFrom(a, n)

DecodingNext ==
    \/ \E a \in Accounts : TaskSteps(a)
    \/ \E t \in Tokens : Vouch(t) \/ CompleteDistribution(t)
    \/ \E d \in Deeds, how \in {"pinned", "lots"} : Hold(d, how)

DecodingSpec == DecodingInit /\ [][DecodingNext]_decodingVars

-----------------------------------------------------------------------------
(* Properties                                                               *)

\* claims, over four detectors of any decoders in any order: every row of a classified
\* transaction, native value included, is in exactly one of its events.
RowsBookedOnce ==
    \A a \in Accounts : \A n \in DOMAIN History[a] :
        booked[a][n] # Unclassified =>
            \A r \in History[a][n].rows :
                \E e \in booked[a][n] :
                    r \in e.of /\ \A f \in booked[a][n] : r \in f.of => f = e

\* base.py: "Never book income until the source is confirmed."  A reward that asks for no
\* review came from an address somebody has confirmed for its token, whatever other tasks
\* propose and overwrite meanwhile.
IncomeIsConfirmed ==
    \A a \in Accounts : \A n \in DOMAIN History[a] :
        booked[a][n] # Unclassified =>
            \A e \in booked[a][n] : e.kind = "reward" /\ ~e.review =>
                \A r \in e.of : \E t \in Tokens :
                    Erc20[t] = r.asset /\ <<t, r.from>> \in vouched

\* replace_classified's pinning and the foreign keys: what a user has pinned or a lot points
\* at stays, however often and with whatever configuration it is classified again.
HeldRowsStand ==
    [][\A d \in Deeds : held[d] # "no" => booked'[d[1]][d[2]] = booked[d[1]][d[2]]]_decodingVars
=============================================================================
