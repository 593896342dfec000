----------------------------- MODULE RouteLegs -----------------------------
(***************************************************************************)
(* One routed position, alone in its group: the signed legs that take its  *)
(* funds to the exchange (execute_group_entries with a "bridge", an        *)
(* "unwrap_to_native" or a "swap_to_native" first step; _submit_live_step, *)
(* _execute_entry, _approve_if_needed, _await_cross_chain_transfer and the *)
(* observation of the deposit).  A leg may deliver to the wallet; the next *)
(* one is then quoted from what arrived.  A journal key contains the route *)
(* the provider quoted, so a leg quoted again after it was signed would be *)
(* signed again: what prevents that are the checkpoints, and the process   *)
(* may die or run out of its stage's time between any two of them.         *)
(***************************************************************************)
EXTENDS Integers, FiniteSets, Sequences, RouteJournal

CONSTANTS
  Entries,     (* planned positions: shape, automatic, intermediate is WETH *)
  Routes,      (* routes the provider may answer with; the plan holds one   *)
  PlanRoute,
  NoRoute,
  MaxInterruptions  (* bound: runs that die, are cut off or observe nothing *)

ASSUME RouteAssumption == /\ PlanRoute \in Routes /\ NoRoute \notin Routes
                          /\ MaxInterruptions \in Nat

VARIABLES
  \* the journal: survives a crash
  position, group,
  row,          (* state of the route_steps row of each leg and route      *)
  approval,     (* the approval of each leg: row and network together      *)
  saved,        (* the checkpoints                                         *)
  \* the running executor
  pc, run,
  entry,
  \* chains, bridge provider and exchange
  sent, mined, reverted,
  arrived, reported, refunded,  (* what the bridge delivered, what its     *)
                                (* status says                             *)
  deposit,      (* what the exchange says of the deposit                   *)
  interruptions

journal == <<position, group, row, approval, saved>>
process == <<pc, run>>
network == <<sent, mined, reverted, arrived, reported, refunded, deposit>>
vars == <<journal, process, entry, network, interruptions>>

Tx == [leg : 1 .. 3, route : Routes]

\* A leg in hand, if it observes a pending deposit, and how the run ends.
Idle == [leg |-> 1, route |-> NoRoute, observing |-> FALSE,
         result |-> "none", closes |-> "none"]

NothingSaved ==
  [prepared |-> NoRoute, converted |-> FALSE, requoted |-> FALSE,
   replacement |-> NoRoute, baseline |-> {},
   continuation |-> [n \in 2 .. 3 |-> NoRoute], migrated |-> FALSE,
   unwrapped |-> FALSE, context |-> FALSE]

Converts == entry.shape \in {"swap", "canonical"}

Legs == CASE entry.shape = "bridge" -> <<"bridge">>
          [] entry.shape = "unwrap" -> <<"unwrap", "direct">>
          [] Converts -> <<"swap", "bridge">>
          [] OTHER -> IF saved.migrated THEN <<"hop", "unwrap", "direct">>
                                        ELSE <<"hop", "bridge">>

Kind == Legs[run.leg]
Current == [leg |-> run.leg, route |-> run.route]
Intent(t) == row[t] # "none"
AssetIntent == \E t \in Tx : Intent(t)

\* Native assets and the canonical withdrawal need no approval.
NeedsApproval(n) ==
  \/ n = 1 /\ entry.shape \in {"bridge", "hop", "swap"}
  \/ n = 2 /\ Legs[2] = "bridge" /\ ~Converts

\* The wallet's balance of the asset the hop delivers.
Balance == Cardinality({t \in arrived : t.leg = 1 /\ Legs[1] = "hop"})
             - Cardinality({t \in sent : t.leg = 2 /\ Legs[1] = "hop"})

Leave == pc' = "idle" /\ run' = Idle
Ends(result, closes) ==
  pc' = "settle" /\ run' = [run EXCEPT !.result = result, !.closes = closes]
Fails == Ends(IF saved.converted /\ Converts THEN "manual_review_after_swap"
                                              ELSE "manual_review",
              "manual_review_group_halted")

Init ==
  /\ entry \in Entries
  /\ position = "planned" /\ group = "planned"
  \* an allowance may exist already
  /\ row = [t \in Tx |-> "none"] /\ approval \in [1 .. 2 -> {"none", "allowed"}]
  /\ \A n \in 1 .. 2 : approval[n] = "allowed" => n = 1 /\ NeedsApproval(n)
  /\ saved = NothingSaved
  /\ pc = "idle" /\ run = Idle
  /\ sent = {} /\ mined = {} /\ reverted = {}
  /\ arrived = {} /\ reported = {} /\ refunded = {}
  /\ deposit = "none" /\ interruptions = 0

-----------------------------------------------------------------------------
(* unsigned_delivery: the first leg is credited, the second is prepared    *)
(* but nothing else of the position was ever recorded, not even an         *)
(* approval.                                                               *)

UnsignedDelivery == /\ Legs[1] = "hop" /\ entry.auto /\ entry.weth
                    /\ ~saved.migrated /\ saved.continuation[2] # NoRoute
                    /\ \E t \in Tx : t.leg = 1 /\ row[t] = "credited"
                    /\ \A t \in Tx : Intent(t) => t.leg = 1
                    /\ \A n \in 1 .. 2 : approval[n] \in {"none", "allowed"}

\* reactivate_unsigned_weth_continuation: a group halted for lack of gas.
Reactivate ==
  /\ pc = "idle" /\ group = "manual_review_group_halted"
  /\ position = "manual_review" /\ UnsignedDelivery
  /\ position' = "bridge_submitted" /\ group' = "active"
  /\ UNCHANGED <<row, approval, saved, process, entry, network, interruptions>>

Begin ==
  /\ pc = "idle" /\ group \notin Halts \union {"completed"}
  /\ group' = "active" /\ pc' = "entry"
  /\ UNCHANGED <<position, row, approval, saved, run, entry, network, interruptions>>

EnterCompleted ==
  /\ pc = "entry" /\ position = "completed"
  /\ pc' = "close" /\ run' = [run EXCEPT !.closes = "completed"]
  /\ UNCHANGED <<journal, entry, network, interruptions>>

\* A pending deposit is only observed: by the saved context of the delivered
\* route, or by the hash of the direct transfer.
EnterPending ==
  /\ pc = "entry" /\ position = "deposit_pending"
  /\ run' = [run EXCEPT !.observing = TRUE, !.leg = Len(Legs),
                        !.route = PlanRoute]
  /\ pc' = IF saved.context THEN "poll" ELSE "leg"
  /\ UNCHANGED <<journal, entry, network, interruptions>>

Approved == \E n \in 1 .. 2 : approval[n] \notin {"none", "allowed"}

\* Mutated form: an approval freezes an automatic entry as well, and only a
\* broadcast does.
FrozenByApproval == Approved
Frozen == AssetIntent \/ (~entry.auto /\ Approved)

\* preflight: an automatic entry may be given another route, once its
\* approvals have receipts; the answer is saved before anything is signed.
Prepare ==
  /\ pc = "entry" /\ position \notin {"completed", "deposit_pending"}
  /\ \/ /\ Frozen \/ saved.converted
        /\ run' = [run EXCEPT !.route = saved.prepared]
        /\ UNCHANGED saved
     \/ /\ ~(Frozen \/ saved.converted)
        /\ entry.auto => approval[1] \in {"none", "allowed", "ok"}
        /\ \E r \in (IF entry.auto THEN Routes ELSE {PlanRoute}) :
             /\ run' = [run EXCEPT !.route = r]
             /\ saved' = [saved EXCEPT !.prepared = r]
  /\ pc' = "start"
  /\ UNCHANGED <<position, group, row, approval, entry, network, interruptions>>

\* The projected loss exceeds the group's budget.
OverBudget ==
  /\ pc = "entry" /\ position \notin {"completed", "deposit_pending"}
  /\ IF position \in SettledPositions
       THEN pc' = "close" /\ run' = [run EXCEPT !.closes =
                                     "manual_review_group_threshold_exceeded"]
       ELSE Ends("manual_review_group_threshold_exceeded",
                 "manual_review_group_threshold_exceeded")
  /\ UNCHANGED <<journal, entry, network, interruptions>>

\* The position is marked before its first leg; a position already closed
\* refuses, inside the try block of a plain route only.
Start ==
  /\ pc = "start" /\ ~saved.converted
  /\ LET submitted == IF Converts THEN "swap_submitted"
                                  ELSE "bridge_submitted" IN
     IF PositionMayBecome(position, submitted)
       THEN position' = submitted /\ pc' = "leg" /\ UNCHANGED run
       ELSE (IF Converts THEN Leave ELSE Fails) /\ UNCHANGED position
  /\ UNCHANGED <<group, row, approval, saved, entry, network, interruptions>>

-----------------------------------------------------------------------------
(* The leg in hand.                                                        *)

\* A saved continuation replaces the leg by the one after it.
Continue ==
  /\ pc = "leg" /\ run.leg + 1 \in 2 .. 3
  /\ Kind \in {"hop", "unwrap"} /\ saved.continuation[run.leg + 1] # NoRoute
  /\ run' = [run EXCEPT !.leg = @ + 1,
                        !.route = saved.continuation[run.leg + 1]]
  /\ UNCHANGED <<journal, pc, entry, network, interruptions>>

\* The unsigned continuation is turned into a withdrawal and a deposit of
\* the native asset.
Migrate ==
  /\ pc = "leg" /\ run.leg = 1 /\ UnsignedDelivery
  /\ \E r \in Routes :
       /\ saved' = [saved EXCEPT !.migrated = TRUE, !.continuation[2] = r]
       /\ run' = [run EXCEPT !.leg = 2, !.route = r]
  /\ UNCHANGED <<position, group, row, approval, pc, entry, network, interruptions>>

AfterUnwrap ==
  /\ pc = "leg" /\ Kind = "unwrap" /\ saved.unwrapped
  /\ saved.continuation[run.leg + 1] = NoRoute
  /\ pc' = "next"
  /\ UNCHANGED <<journal, run, entry, network, interruptions>>

Opens == /\ pc = "leg"
         /\ Kind \in {"hop", "unwrap"} =>
              saved.continuation[run.leg + 1] = NoRoute
         /\ ~(Kind = "unwrap" /\ saved.unwrapped)

\* Identical bytes may be sent again for a transfer whose fee was capped.
Replayable == /\ entry.auto
              /\ \/ Kind = "direct"
                 \/ Kind = "swap" /\ entry.shape = "canonical"
                 \/ Kind = "unwrap" /\ saved.migrated

\* A recorded hash is looked up; one the network does not know is ambiguous
\* (yields), unless it may be replayed.
Known ==
  /\ Opens /\ Intent(Current)
  /\ Current \in sent \/ Replayable
  /\ sent' = sent \union {Current}
  /\ pc' = "receipt"
  /\ UNCHANGED <<journal, run, entry, mined, reverted, arrived, reported,
                 refunded, deposit, interruptions>>

\* Mutated form: the balance is measured again in every run.
MeasureAgain ==
  /\ Opens
  /\ saved' = [saved EXCEPT !.baseline =
                 IF Kind = "hop" THEN {Balance} ELSE @]
  /\ pc' = IF Intent(Current) THEN "receipt" ELSE "approve"
  /\ Intent(Current) => Current \in sent
  /\ UNCHANGED <<position, group, row, approval, run, entry, network, interruptions>>

\* The balance a hop will add to is measured and saved before it is signed.
Open ==
  /\ Opens /\ ~Intent(Current)
  /\ saved' = [saved EXCEPT !.baseline =
                 IF Kind = "hop" /\ @ = {} THEN {Balance} ELSE @]
  /\ pc' = "approve"
  /\ UNCHANGED <<position, group, row, approval, run, entry, network, interruptions>>

\* An ERC20 leg is approved first, under a row and a hash of its own.
NoApproval ==
  /\ pc = "approve"
  /\ NeedsApproval(run.leg) => approval[run.leg] \in {"allowed", "ok"}
  /\ pc' = "sign"
  /\ UNCHANGED <<journal, run, entry, network, interruptions>>

Approve ==
  /\ pc = "approve" /\ NeedsApproval(run.leg) /\ approval[run.leg] = "none"
  /\ approval' = [approval EXCEPT ![run.leg] = "recorded"]
  /\ pc' = "approving"
  /\ UNCHANGED <<position, group, row, saved, run, entry, network, interruptions>>

SendApproval ==
  /\ pc = "approving"
  /\ approval' = [approval EXCEPT ![run.leg] = "sent"]
  /\ pc' = "approve"
  /\ UNCHANGED <<position, group, row, saved, run, entry, network, interruptions>>

\* The request, or only its answer, is lost.
LoseApproval ==
  /\ pc = "approving"
  /\ approval' \in {approval, [approval EXCEPT ![run.leg] = "sent"]}
  /\ Leave
  /\ UNCHANGED <<position, group, row, saved, entry, network, interruptions>>

\* Nonce, digests and hash are one commit, before the transfer is sent.
Sign ==
  /\ pc = "sign" /\ ~Intent(Current)
  /\ row' = [row EXCEPT ![Current] = "submitted"]
  /\ pc' = "send"
  /\ UNCHANGED <<position, group, approval, saved, run, entry, network,
                 interruptions>>

Send ==
  /\ pc = "send"
  /\ \/ /\ sent' = sent \union {Current} /\ pc' = "receipt"
        /\ UNCHANGED <<run, group>>
     \/ sent' \in {sent, sent \union {Current}} /\ Leave /\ UNCHANGED group
  /\ UNCHANGED <<position, row, approval, saved, entry, mined, reverted,
                 arrived, reported, refunded, deposit, interruptions>>

\* A receipt: the output of a swap or withdrawal is checkpointed, a bridge's
\* delivery awaited, a direct transfer looked for at the exchange.
Receipt ==
  /\ pc = "receipt" /\ Current \in mined
  /\ pc' = CASE Kind = "swap" -> "convert" [] Kind = "unwrap" -> "next"
              [] Kind = "direct" -> "poll" [] OTHER -> "await"
  /\ IF Kind = "unwrap"
       THEN /\ saved' = [saved EXCEPT !.unwrapped = TRUE]
            /\ position' = "source_asset_converted_bridge_pending"
       ELSE UNCHANGED <<saved, position>>
  /\ UNCHANGED <<group, row, approval, run, entry, network, interruptions>>

-----------------------------------------------------------------------------
(* _await_cross_chain_transfer.                                            *)

MarkAwaiting ==
  /\ pc = "await" /\ row[Current] \in {"submitted", "confirmed"}
  /\ row' = [row EXCEPT ![Current] =
               IF @ = "submitted" THEN "confirmed" ELSE "awaiting_bridge"]
  /\ UNCHANGED <<position, group, approval, saved, process, entry, network,
                 interruptions>>

\* Mutated form: the provider's answer alone is believed.
ProviderReports == Current \in reported
Delivered == /\ Current \in reported
             /\ Kind = "hop" => \A b \in saved.baseline : Balance > b

\* The delivery is saved, then the step credited and the progress saved.
Credit ==
  /\ pc = "await" /\ row[Current] \in {"awaiting_bridge", "credited"}
  /\ Delivered
  /\ row' = [row EXCEPT ![Current] = "credited"]
  /\ pc' = IF Kind = "hop" THEN "next" ELSE "deliver"
  /\ UNCHANGED <<position, group, approval, saved, run, entry, network,
                 interruptions>>

Progress ==
  /\ pc = "deliver"
  /\ saved' = [saved EXCEPT !.context = TRUE]
  /\ pc' = "poll"
  /\ UNCHANGED <<position, group, row, approval, run, entry, network, interruptions>>

\* requote_dependent: the next leg is quoted from what arrived and saved as
\* the continuation before it is begun; WETH may be withdrawn and deposited.
NextLeg ==
  /\ pc = "next"
  /\ \E r \in Routes, native \in BOOLEAN :
       LET route == IF Kind = "unwrap" THEN PlanRoute ELSE r IN
       /\ native => Kind = "hop" /\ entry.auto /\ entry.weth
       /\ saved' = [saved EXCEPT !.continuation[run.leg + 1] = route,
                                 !.migrated = @ \/ native]
       /\ run' = [run EXCEPT !.leg = @ + 1, !.route = route]
  /\ pc' = "leg"
  /\ UNCHANGED <<position, group, row, approval, entry, network, interruptions>>

-----------------------------------------------------------------------------
(* A converted position: swap_to_native, requote, bridge.                  *)

StartConverted ==
  /\ pc = "start" /\ saved.converted /\ pc' = "convert"
  /\ UNCHANGED <<journal, run, entry, network, interruptions>>

\* checkpoint_source_conversion: one transaction, whatever the state was.
Convert ==
  /\ pc = "convert"
  /\ saved' = [saved EXCEPT !.converted = TRUE]
  /\ position' = "source_asset_converted_bridge_pending"
  /\ pc' = "requote"
  /\ UNCHANGED <<group, row, approval, run, entry, network, interruptions>>

\* require_source_bridge_retry_due: the withdrawal's row must be confirmed.
ProvesConversion ==
  entry.shape = "canonical" =>
    \E t \in Tx : t.leg = 1 /\ row[t] \in {"confirmed", "credited"}

\* The replacement saved by an earlier run, or the one requote the journal
\* admits.
Requote ==
  /\ pc = "requote"
  /\ \/ /\ saved.replacement # NoRoute
        /\ run' = [run EXCEPT !.route = saved.replacement]
        /\ pc' = "bridge" /\ UNCHANGED <<saved, position>>
     \/ /\ saved.replacement = NoRoute /\ ProvesConversion /\ ~saved.requoted
        /\ \E r \in Routes : run' = [run EXCEPT !.route = r]
        /\ saved' = [saved EXCEPT !.requoted = TRUE]
        /\ position' = "requote_required" /\ pc' = "bridge"
     \/ /\ saved.replacement = NoRoute /\ ~(ProvesConversion /\ ~saved.requoted)
        /\ Fails /\ UNCHANGED <<saved, position>>
  /\ UNCHANGED <<group, row, approval, entry, network, interruptions>>

\* The bridge is prepared and saved, then the position is marked.
SaveBridge ==
  /\ pc = "bridge"
  /\ saved' = [saved EXCEPT !.replacement = run.route]
  /\ pc' = "bridged"
  /\ UNCHANGED <<position, group, row, approval, run, entry, network, interruptions>>

StartBridge ==
  /\ pc = "bridged"
  /\ position' = "bridge_submitted"
  /\ run' = [run EXCEPT !.leg = 2] /\ pc' = "leg"
  /\ UNCHANGED <<group, row, approval, saved, entry, network, interruptions>>

\* The replacement costs more than the group has left.
BridgeOverBudget ==
  /\ pc = "bridged"
  /\ Ends("manual_review_after_swap", "manual_review_group_threshold_exceeded")
  /\ UNCHANGED <<journal, entry, network, interruptions>>

-----------------------------------------------------------------------------
(* The deposit, and the end of a run.                                      *)

DepositCredited ==
  /\ pc = "poll" /\ deposit = "success"
  /\ row' = [t \in Tx |-> IF t.leg = run.leg /\ Intent(t)
                          THEN "credited" ELSE row[t]]
  /\ Ends("completed", "completed")
  /\ UNCHANGED <<position, group, approval, saved, entry, network, interruptions>>

\* A swapped route returns without touching its group.
DepositPending ==
  /\ pc = "poll" /\ deposit \in {"none", "pending"}
  /\ Ends("deposit_pending", IF Converts /\ ~run.observing
                               THEN "active" ELSE "deposit_pending")
  /\ UNCHANGED <<journal, entry, network, interruptions>>

DepositFailed ==
  /\ pc = "poll" /\ deposit = "failed"
  /\ IF run.observing THEN Ends("manual_review", "manual_review_group_halted")
                      ELSE Fails
  /\ UNCHANGED <<journal, entry, network, interruptions>>

RecordOutcome ==
  /\ pc = "settle"
  /\ IF PositionMayBecome(position, run.result)
       THEN position' = run.result /\ pc' = "close" /\ UNCHANGED run
       ELSE Leave /\ UNCHANGED position
  /\ UNCHANGED <<group, row, approval, saved, entry, network, interruptions>>

CloseGroup ==
  /\ pc = "close"
  /\ group' = run.closes
  /\ Leave
  /\ UNCHANGED <<position, row, approval, saved, entry, network, interruptions>>

\* Reads that may run out of the stage's time or fail.
Reading == {"entry", "leg", "approve", "sign", "receipt", "await", "next",
            "requote", "bridge", "deliver", "poll"}

\* A revert, a refund, a quote that is refused or exceeds the budget, any
\* other error.
RunFails ==
  /\ pc \in Reading
  /\ pc = "entry" => position \notin {"completed", "deposit_pending"}
  /\ \/ run.observing /\ pc = "poll" /\ UNCHANGED interruptions
        /\ Ends("manual_review", "manual_review_group_halted")
     \/ run.observing /\ pc # "poll" /\ interruptions < MaxInterruptions
        /\ interruptions' = interruptions + 1
        /\ Ends("deposit_pending", "deposit_pending")
     \/ ~run.observing /\ UNCHANGED interruptions
        /\ \/ Fails
           \/ /\ pc \in {"leg", "sign", "next"}
              /\ Ends("manual_review_group_threshold_exceeded",
                      "manual_review_group_threshold_exceeded")
  /\ UNCHANGED <<journal, entry, network>>

\* The process dies at any point, or a read runs out of the stage's time or
\* fails in a way worth retrying (yield_stage): what is committed stays and
\* the group is still active.
Interrupt ==
  /\ pc # "idle" /\ interruptions < MaxInterruptions
  /\ interruptions' = interruptions + 1 /\ Leave
  /\ UNCHANGED <<journal, entry, network>>

-----------------------------------------------------------------------------
(* External: chains, bridge provider, exchange.                            *)

Mine ==
  /\ \/ \E t \in sent \ (mined \union reverted) :
          \/ mined' = mined \union {t} /\ UNCHANGED <<reverted, approval>>
          \/ reverted' = reverted \union {t} /\ UNCHANGED <<mined, approval>>
     \/ \E n \in 1 .. 2 :
          /\ approval[n] = "sent"
          /\ approval' \in {[approval EXCEPT ![n] = "ok"],
                            [approval EXCEPT ![n] = "reverted"]}
          /\ UNCHANGED <<mined, reverted>>
  /\ UNCHANGED <<position, group, row, saved, process, entry, sent, arrived,
                 reported, refunded, deposit, interruptions>>

Bridged == {t \in mined : Legs[t.leg] \in {"hop", "bridge"}} \ refunded

\* Arrival and status answer come in any order, or the funds are refunded.
Bridge ==
  /\ \E t \in Bridged :
       \/ /\ t \notin arrived /\ arrived' = arrived \union {t}
          /\ UNCHANGED <<reported, refunded>>
       \/ /\ t \notin reported /\ reported' = reported \union {t}
          /\ UNCHANGED <<arrived, refunded>>
       \/ /\ t \notin arrived \union reported /\ refunded' = refunded \union {t}
          /\ UNCHANGED <<arrived, reported>>
  /\ UNCHANGED <<journal, process, entry, sent, mined, reverted, deposit,
                 interruptions>>

Exchange ==
  /\ \E t \in Tx : /\ t.leg = Len(Legs)
                   /\ t \in IF Legs[t.leg] = "direct" THEN mined ELSE arrived
  /\ \/ deposit = "none" /\ deposit' \in {"pending", "success", "failed"}
     \/ deposit = "pending" /\ deposit' \in {"success", "failed"}
  /\ UNCHANGED <<journal, process, entry, sent, mined, reverted, arrived,
                 reported, refunded, interruptions>>

Run == \/ Reactivate \/ Begin \/ EnterCompleted \/ EnterPending \/ Prepare
       \/ OverBudget \/ Start \/ StartConverted \/ Convert \/ Requote
       \/ SaveBridge \/ StartBridge \/ BridgeOverBudget
Leg == \/ Continue \/ Migrate \/ AfterUnwrap \/ Known \/ Open \/ NoApproval
       \/ Approve \/ SendApproval \/ LoseApproval \/ Sign \/ Send \/ Receipt
       \/ MarkAwaiting \/ Credit \/ Progress \/ NextLeg
End == \/ DepositCredited \/ DepositPending \/ DepositFailed \/ RecordOutcome
       \/ CloseGroup
Next == Run \/ Leg \/ End \/ RunFails \/ Interrupt \/ Mine \/ Bridge \/ Exchange

Spec == Init /\ [][Next]_vars

\* Every run is followed by another and goes on until it is interrupted;
\* what was sent is mined, delivered and credited.  A step may also be refused,
\* reverted or refunded: what the executor is told of that, it acts on.
Told == \/ pc = "receipt" /\ Current \in reverted
        \/ pc = "await" /\ Current \in refunded
        \/ pc = "approve" /\ NeedsApproval(run.leg) /\ approval[run.leg] = "reverted"
        \/ pc = "entry" /\ approval[1] = "reverted"
Arrives == Bridge /\ arrived' # arrived
Reports == Bridge /\ reported' # reported

Fairness == /\ WF_vars(Run \/ Leg \/ End \/ (Told /\ RunFails))
            /\ WF_vars(Mine) /\ WF_vars(Exchange)
            /\ WF_vars(Arrives) /\ WF_vars(Reports)

FairSpec == Spec /\ Fairness

-----------------------------------------------------------------------------
(* Properties                                                              *)

\* Types; what the journal's tables admit.
TypeOK ==
  /\ position \in PositionStates /\ group \in GroupStates
  /\ row \in [Tx -> StepStates \union {"none"}]
  /\ approval \in [1 .. 2 -> {"none", "allowed", "recorded", "sent", "ok", "reverted"}]
  /\ saved.prepared \in Routes \union {NoRoute}
  /\ saved.replacement \in Routes \union {NoRoute}
  /\ saved.baseline \subseteq 0 .. 1
  /\ saved.continuation \in [2 .. 3 -> Routes \union {NoRoute}]
  /\ sent \subseteq Tx /\ mined \union reverted \subseteq sent
  /\ arrived \union reported \union refunded \subseteq mined

\* A leg whose transfer was ever recorded is the leg a later run finds in the
\* checkpoints: every row's route is the one saved for its leg, so a restart
\* observes the transfer and cannot prepare another under a new key.
IntentMatchesPreparation ==
  \A t \in Tx : Intent(t) =>
    t.route = CASE t.leg = 1 -> saved.prepared
                [] t.leg = 2 /\ Converts -> saved.replacement
                [] OTHER -> saved.continuation[t.leg]

Settled(p) == p \in SettledPositions

Promise == INSTANCE FundsPath WITH
  spent <- sent,
  received <- Cardinality({t \in sent :
                IF Legs[t.leg] \in {"hop", "bridge"} THEN t \in arrived
                                                   ELSE t \in mined}),
  credited <- deposit = "success",
  outcome <- IF position = "completed" THEN "completed"
             ELSE IF Settled(position) THEN "review" ELSE "open"

\* The executor keeps the promise of FundsPath across interruptions, requotes and
\* lost answers: each leg is sent once, out of funds that have arrived.
PathPromise == Promise!Spec

\* A transfer or an approval that was recorded but never reached the network:
\* its hash stays ambiguous and the executor never resends it.
Stranded == \/ \E t \in Tx : Intent(t) /\ t \notin sent
            \/ \E n \in 1 .. 2 : approval[n] = "recorded"

\* Every route ends, completed or under review, unless a recorded transfer
\* never left: a delivery is recognised however often the wait is cut off.
RouteEnds == <>Settled(position) \/ <>[]Stranded

=============================================================================
