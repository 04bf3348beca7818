-------------------------------- MODULE Forms ---------------------------------
(***************************************************************************)
(* Tax forms out of the ledger: the gate, the read model, and the commands   *)
(* generate-8949, activity-report and reconcile that read through them while *)
(* the lot jobs, the writers of signals and the answers to open questions go *)
(* on (cli.py, domain/forms).                                                *)
(*                                                                         *)
(* A command is one READ COMMITTED session: the recompute is committed       *)
(* first, then the gate and each fetch are statements of their own, and each *)
(* sees the last committed ledger.  --recompute is an "apply" job of the     *)
(* engine over every wallet the entity was ever assigned.                    *)
(*                                                                         *)
(* A form is the disposal rows, the reward lots and the acquired lots it is  *)
(* made of; Form8949 adds them up.                                           *)
(***************************************************************************)
EXTENDS LotEngine

CONSTANTS
    YearOf,         \* the calendar year of each CT
    Years,
    Commands        \* the command lines: [kind, draft, recompute]

\* "expect_held" is a reconcile against a fixture that expects a held gate.
Kinds == {"generate", "report", "reconcile", "expect_held"}

ASSUME YearsAssumption ==
    /\ Years \subseteq Nat /\ YearOf \in [Events -> Years]
    /\ \A e, f \in Events : e < f => YearOf[e] <= YearOf[f]
ASSUME CommandsAssumption ==
    /\ Commands # {} /\ Entities # {}
    /\ Commands \subseteq [kind : Kinds, draft : BOOLEAN, recompute : BOOLEAN]
    /\ \A c \in Commands : c.recompute => c.kind = "generate"

VARIABLES
    today,      \* the year the programs run in
    asked,      \* the open questions: bridge pairs to confirm, transfers to classify
    form        \* the form command under way, or the last one's documents

formVars == <<vars, today, asked, form>>

\* asked_in is when the question was found, which is not when the event occurred.
Questions == [event : Events, kind : {"bridge", "transfer"}, asked_in : Years]

Stages == {"none", "recompute", "gate", "disposals", "income", "acquisitions", "printed"}

\* held is the gate's answer; rows, income and acquired are what was fetched.  due is
\* what the reader of a form would want on it: the disposals the recompute had before it.
FormStates == [stage : Stages, command : Commands, entity : Entities, year : Years,
               held : BOOLEAN, rows : SUBSET (Events \X Events), income : SUBSET Events,
               acquired : SUBSET Events, due : SUBSET Events]

\* get_entity_wallet_ids: every wallet ever assigned to the entity.
EntityWallets(p) == {w \in Wallets : \E e \in Events : OwnerAt[w][e] = p}

Sets(stage, f) == form' = [f EXCEPT !.stage = stage]

-----------------------------------------------------------------------------
(* Questions                                                                *)

\* Detection stores a row, the bridge pass a pair, for an outflow it cannot settle.
AskUser(e, kind) ==
    /\ Resting /\ e \in Arrived
    /\ ct[e].class \in Outflows /\ ct[e].res = None
    /\ ~\E q \in asked : q.event = e /\ q.kind = kind
    /\ asked' = asked \cup {[event |-> e, kind |-> kind, asked_in |-> today]}
    /\ UNCHANGED <<vars, today, form>>

\* The user answers: a stamp for a transfer, the bridge's classes for a pair.  A write to
\* a CT closes what was asked of it.
WriteSignal ==
    /\ Write
    /\ asked' = {q \in asked : ct'[q.event] = ct[q.event]}
    /\ UNCHANGED <<today, form>>

\* Or the answer is that nothing happened: dismissed, rejected.
Dismiss(q) ==
    /\ asked' = asked \ {q}
    /\ UNCHANGED <<vars, today, form>>

NewYear ==
    /\ today + 1 \in Years /\ today' = today + 1
    /\ UNCHANGED <<vars, asked, form>>

-----------------------------------------------------------------------------
(* The gate                                                                 *)

\* Slip: unresolved exceptions do not block.
MutBlockers(wallets) ==
    {[event |-> e, year |-> YearOf[e]] :
        e \in {d \in Arrived : ct[d].class = "pending" \/ d \in saved.review}}
    \cup {[event |-> q.event, year |-> q.asked_in] : q \in asked}

\* v_lot_gate: rows to review, exceptions, pairs to confirm, transfers to classify; the
\* last carry detected_at as their occurred_at.  Aged bridge legs do not block.
Blockers(wallets) ==
    LET own == {e \in Arrived : WalletOf[e] \in wallets}
        asks(kind) == {q \in asked : q.kind = kind /\ q.event \in own}
    IN {[event |-> e, year |-> YearOf[e]] :
            e \in {d \in own : \/ ct[d].class = "pending" \/ d \in saved.review
                               \/ \E x \in saved.excs : x.event = d}
                  \cup {q.event : q \in asks("bridge")}}
       \cup {[event |-> q.event, year |-> q.asked_in] : q \in asks("transfer")}

GateHeld(p, year) == \E b \in Blockers(EntityWallets(p)) : b.year <= year

-----------------------------------------------------------------------------
(* The commands                                                             *)

Asked(command, p, year) ==
    [stage |-> "gate", command |-> command, entity |-> p, year |-> year, held |-> FALSE,
     rows |-> {}, income |-> {}, acquired |-> {}, due |-> {}]

\* No documents.
Blank == [Asked(CHOOSE c \in Commands : TRUE, CHOOSE p \in Entities : TRUE,
                CHOOSE y \in Years : TRUE) EXCEPT !.stage = "none"]

Free == form.stage \in {"none", "printed"}

\* recompute_lots applies every CT of the entity's wallets, whatever the year asked for.
Recompute(command, p, year) ==
    /\ Free /\ command.recompute /\ EntityWallets(p) # {}
    /\ Start("apply", EntityWallets(p))
    /\ Sets("recompute", Asked(command, p, year))
    /\ UNCHANGED <<today, asked>>

Request(command, p, year) ==
    /\ Free /\ ~command.recompute
    /\ Sets("gate", Asked(command, p, year))
    /\ UNCHANGED <<vars, today, asked>>

\* Slip: a held form is printed as a final one.
MutRefuses(held, command) == FALSE

\* generate-8949 and reconcile stop at a held gate unless --draft; the activity report
\* is then marked as a draft.  What expects a held gate asks for no more than that.
Refuses(held, command) ==
    \/ command.kind = "expect_held"
    \/ held /\ ~command.draft /\ command.kind # "report"

CheckGate ==
    /\ form.stage = "gate"
    /\ LET held == GateHeld(form.entity, form.year) IN
       IF Refuses(held, form.command) THEN form' = Blank
       ELSE Sets(IF form.command.kind = "report" THEN "acquisitions" ELSE "disposals",
                 [form EXCEPT !.held = held])
    /\ UNCHANGED <<vars, today, asked>>

AcquiredLots(p, year) ==
    {l \in Events : saved.lots[l] # None /\ saved.lots[l].entity = p /\ YearOf[l] = year}

FetchAcquisitions ==
    /\ form.stage = "acquisitions"
    /\ Sets("disposals", [form EXCEPT !.acquired = AcquiredLots(form.entity, form.year)])
    /\ UNCHANGED <<vars, today, asked>>

\* Slip: the join without its WHERE on the entity.
MutDisposalRows(p, year) ==
    {r \in Events \X Events :
        /\ saved.disposals[r[1]][r[2]] > 0 /\ saved.lots[r[2]] # None
        /\ YearOf[r[1]] = year}

\* lot_disposals joined with tax_lots, of the entity that owns the lot now.
DisposalRows(p, year) ==
    {r \in Events \X Events :
        /\ saved.disposals[r[1]][r[2]] > 0
        /\ saved.lots[r[2]] # None /\ saved.lots[r[2]].entity = p
        /\ YearOf[r[1]] = year}

FetchDisposals ==
    /\ form.stage = "disposals"
    /\ Sets("income", [form EXCEPT !.rows = DisposalRows(form.entity, form.year)])
    /\ UNCHANGED <<vars, today, asked>>

\* The lots whose cost_basis_usd makes up line 8z.
RewardLots(p, year) == {l \in AcquiredLots(p, year) : saved.lots[l].acq = "reward"}

\* The last statement; the documents are written from what was fetched.
FetchIncome ==
    /\ form.stage = "income"
    /\ Sets("printed", [form EXCEPT !.income = RewardLots(form.entity, form.year),
                                    !.due = {}])
    /\ UNCHANGED <<vars, today, asked>>

-----------------------------------------------------------------------------
(* The ledger meanwhile                                                     *)

\* The recompute's commit lets the command go on.
CommitJob ==
    /\ Commit
    /\ IF form.stage = "recompute"
       THEN Sets("gate", [form EXCEPT !.due =
                {e \in Arrived : /\ WalletOf[e] \in job.scope /\ PoolOf[e] # None
                                 /\ Treatment(ct[e]) = "dispose" /\ YearOf[e] = form.year}])
       ELSE UNCHANGED form
    /\ UNCHANGED <<today, asked>>

\* An exception out of the recompute ends the command.
EndJob ==
    /\ Crash \/ \E e \in Events : Raise(e)
    /\ form' = IF form.stage = "recompute" THEN Blank ELSE form
    /\ UNCHANGED <<today, asked>>

RunJob ==
    /\ \/ \E kind \in JobKinds, ws \in (SUBSET Wallets) \ {{}} : Start(kind, ws)
       \/ \E w \in Wallets : OpenWallet(w) \/ WipeWallet(w)
       \/ \E e \in Events : Step(e) /\ ~Raise(e)
    /\ UNCHANGED <<today, asked, form>>

-----------------------------------------------------------------------------
FormsInit ==
    /\ Init
    /\ today \in Years /\ today - 1 \notin Years
    /\ asked = {}
    /\ form = Blank

FormsNext ==
    \/ \E e \in Events, kind \in {"bridge", "transfer"} : AskUser(e, kind)
    \/ WriteSignal
    \/ \E q \in asked : Dismiss(q)
    \/ NewYear
    \/ \E command \in Commands, p \in Entities, year \in Years :
        Recompute(command, p, year) \/ Request(command, p, year)
    \/ CheckGate \/ FetchAcquisitions \/ FetchDisposals \/ FetchIncome
    \/ RunJob \/ CommitJob \/ EndJob

FormsSpec == FormsInit /\ [][FormsNext]_formVars

-----------------------------------------------------------------------------
(* Properties                                                               *)

\* The tables and the form hold what they should; and whatever the ledger and the
\* questions became since the gate, a held form has gone out only as a draft or as the
\* report, which is marked.
FormsTypeOK ==
    /\ TypeOK
    /\ today \in Years /\ asked \subseteq Questions
    /\ form \in FormStates
    /\ form.held => form.command.draft \/ form.command.kind = "report"

\* A final form with --recompute has every disposal the recompute saw in the entity's
\* wallets: one that found no lots, or whose earlier ones failed, has left an exception
\* that holds the gate.  Jobs of other workers commit between the commit, the gate and
\* the fetch; a row may be on the form of another entity, to which its lot has moved.
FinalFormsAreComplete ==
    [][form.stage = "disposals" /\ form'.stage = "income"
         /\ form.command.recompute /\ ~form.held =>
        \A e \in form.due :
            \E l \in Events :
                /\ saved.disposals[e][l] > 0
                /\ <<e, l>> \in form'.rows \/ saved.lots[l].entity # form.entity]_formVars

\* What a form taxes an entity for it owned when it happened, or the lot has since been
\* moved to a wallet of the entity's: a row is there because the entity owned the wallet
\* the sale was made from, income because it owned the one the reward came into.
RowsTraceable ==
    LET ours(e, l) ==
            \/ OwnerOf(e, e) \in {form.entity, None}
            \/ \E m \in saved.relocs : m.lot = l /\ OwnerAt[m.to][m.tx] = form.entity
    IN /\ \A r \in form.rows : ours(r[1], r[2])
       /\ \A l \in form.income \cup form.acquired : ours(l, l)

\* engine.py:656: "update lot.entity_id when the lot crosses an entity boundary so form
\* generators can filter by entity_id reliably"; read_model.py:61: "Entity attribution
\* via tax_lots.entity_id -- correct".  A form lists what its own entity sold.
RowsAreTheSellers ==
    \A r \in form.rows : OwnerOf(r[1], r[1]) \in {form.entity, None}
=============================================================================
