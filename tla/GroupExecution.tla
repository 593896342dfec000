-------------------------- MODULE GroupExecution --------------------------
(***************************************************************************)
(* A route group: the positions one wallet holds on one network, executed  *)
(* one after another under one loss budget (execute_group_entries for      *)
(* several entries, _observe_halted_route_credits for a halted group).     *)
(* Each journal write is a commit of its own, and the process may die      *)
(* between any two.  What a step does on the chain is one action here;     *)
(* DirectDeposit opens it up.  A group of one position, which the journal  *)
(* can reopen, is DirectDeposit's as well.                                 *)
(***************************************************************************)
EXTENDS Naturals, Functions, RouteJournal

CONSTANTS
  N,           (* positions of the group, executed in the order 1 .. N     *)
  KindOf,      (* "direct" or "bridge" for each position                   *)
  Planned,     (* loss the plan expects of each position                   *)
  Losses,      (* losses a fresh preflight may find                        *)
  Budget,      (* loss the group may make                                  *)
  MaxCrashes   (* bound: process deaths                                    *)

Positions == 1 .. N

ASSUME GroupAssumption ==
  /\ N \in Nat \ {0, 1}
  /\ KindOf \in [Positions -> {"direct", "bridge"}]
  /\ Losses \subseteq Nat \ {0} /\ Planned \in [Positions -> Nat]
  /\ Budget \in Nat /\ MaxCrashes \in Nat

VARIABLES
  \* the journal: survives a crash
  group, realized,   (* route_groups.state, realized_loss_usd              *)
  pos, accounted,    (* route_positions.state, accounted_loss_usd (0 none) *)
  prepared,          (* loss of the saved preparation, 0 none              *)
  signed,            (* loss of the preparation that was signed, 0 none    *)
  \* the running executor: lost in a crash
  pc, run,
  \* the exchange
  credit,
  crashes

journal == <<group, realized, pos, accounted, prepared, signed>>
vars == <<journal, pc, run, credit, crashes>>

-----------------------------------------------------------------------------
None == 0
Idle == [at |-> 1, sum |-> 0, loss |-> 0, write |-> "planned",
         after |-> "next"]
Points == {"idle", "entry", "observe", "preflight", "mark", "sign", "outcome",
           "account", "add", "write", "stop", "halt", "close", "halted"}
ReviewStates == {"manual_review"} \union Halts

\* The position the run is at; a bridge has its deposit context once it is
\* pending.
me == run.at
Direct(i) == KindOf[i] = "direct"

Leave == pc' = "idle" /\ run' = Idle

\* yield_stage: the deadline passed or the answer may still come; the group
\* stays active and a later run continues.
Yield == /\ group' = "active" /\ Leave
         /\ UNCHANGED <<realized, pos, accounted, prepared, signed, credit,
                        crashes>>

\* An exception no handler takes: what was committed stays.
Escape == Leave /\ UNCHANGED <<journal, credit, crashes>>

\* Next the position is written; then the run goes on as `after' says.
WriteThen(p, state, after) ==
  pc' = p /\ run' = [run EXCEPT !.write = state, !.after = after]
Review == WriteThen("write", "manual_review", "halt")

Init ==
  /\ group = "planned" /\ realized = 0
  /\ pos = [i \in Positions |-> "planned"]
  /\ accounted = [i \in Positions |-> None]
  /\ prepared = [i \in Positions |-> None]
  /\ signed = [i \in Positions |-> None]
  /\ pc = "idle" /\ run = Idle
  /\ credit = [i \in Positions |-> "none"]
  /\ crashes = 0

-----------------------------------------------------------------------------
(* The loop over the entries.                                              *)

\* Mutated form: the budget of a new run starts from zero.
BeginFromZero ==
  /\ pc = "idle" /\ group \notin Halts \union {"completed"}
  /\ group' = "active" /\ pc' = "entry" /\ UNCHANGED run
  /\ UNCHANGED <<realized, pos, accounted, prepared, signed, credit, crashes>>

BeginRun ==
  /\ pc = "idle" /\ group \notin Halts \union {"completed"}
  /\ group' = "active"
  /\ pc' = "entry" /\ run' = [run EXCEPT !.sum = realized]
  /\ UNCHANGED <<realized, pos, accounted, prepared, signed, credit, crashes>>

\* A known direct transfer and every pending deposit are observed.
Observes == \/ pos[me] = "deposit_pending"
            \/ pos[me] = "direct_deposit_submitted" /\ signed[me] # None

NextEntry ==
  /\ pc = "entry"
  /\ IF me > N THEN pc' = "close" /\ UNCHANGED run
     ELSE IF pos[me] = "completed"
       THEN pc' = "entry" /\ run' = [run EXCEPT !.at = me + 1]
     ELSE /\ pc' = IF Observes THEN "observe" ELSE "preflight"
          /\ UNCHANGED run
  /\ UNCHANGED <<journal, credit, crashes>>

\* The deadline has passed, or gas is held back for other positions.
EntryYields == pc = "entry" /\ me <= N /\ Yield

\* The loss the accounted part of a position leaves to come.
Remaining(loss, i) == IF loss > accounted[i] THEN loss - accounted[i] ELSE 0

Future == LET later == {j \in Positions : j > me /\ pos[j] # "completed"} IN
          SumFunctionOnSet([j \in Positions |-> Remaining(Planned[j], j)],
                           later)

\* Mutated form: only this position is held against the budget.
OwnLossFits(loss) == loss <= Budget

Fits(loss) == run.sum + Remaining(loss, me) + Future <= Budget

\* A signed position keeps its saved preparation; any other is quoted anew.
Preflight ==
  /\ pc = "preflight"
  /\ \E loss \in IF signed[me] # None THEN {prepared[me]} ELSE Losses :
       IF Fits(loss)
         THEN /\ prepared' = [prepared EXCEPT ![me] = loss]
              /\ pc' = "mark" /\ run' = [run EXCEPT !.loss = loss]
         ELSE /\ WriteThen("halt", "manual_review_group_threshold_exceeded",
                           "halt")
              /\ UNCHANGED prepared
  /\ UNCHANGED <<group, realized, pos, accounted, signed, credit, crashes>>

PreflightFails ==
  /\ pc = "preflight" /\ signed[me] = None
  /\ Review
  /\ UNCHANGED <<journal, credit, crashes>>

PreflightDefersGas ==
  /\ pc = "preflight" /\ signed[me] = None
  /\ WriteThen("write", "gas_deferred", "gas")
  /\ UNCHANGED <<journal, credit, crashes>>

PreflightYields == pc = "preflight" /\ signed[me] = None /\ Yield

\* The position is marked before its step runs; a refusal is handled like any
\* failure of the step.
Failure == IF Direct(me) /\ signed[me] # None
             THEN WriteThen("write", "deposit_pending", "pending")
             ELSE Review

Mark ==
  /\ pc = "mark"
  /\ LET state == IF Direct(me) THEN "direct_deposit_submitted"
                  ELSE "bridge_submitted" IN
     IF PositionMayBecome(pos[me], state)
       THEN /\ pos' = [pos EXCEPT ![me] = state]
            /\ pc' = IF signed[me] = None THEN "sign" ELSE "outcome"
            /\ UNCHANGED run
       ELSE Failure /\ UNCHANGED pos
  /\ UNCHANGED <<group, realized, accounted, prepared, signed, credit,
                 crashes>>

Sign ==
  /\ pc = "sign" /\ pc' = "outcome"
  /\ signed' = [signed EXCEPT ![me] = run.loss]
  /\ UNCHANGED <<group, realized, pos, accounted, prepared, run, credit,
                 crashes>>

\* Gas rose since the preflight: a direct deposit waits, a bridge is reviewed.
SignDefersGas ==
  /\ pc = "sign"
  /\ IF Direct(me) THEN WriteThen("write", "gas_deferred", "gas") ELSE Review
  /\ UNCHANGED <<journal, credit, crashes>>

StepYields == pc \in {"sign", "outcome", "observe"} /\ Yield

StepFails ==
  /\ pc \in {"sign", "outcome", "observe"}
  /\ IF pc = "observe" THEN WriteThen("write", "deposit_pending", "pending")
     ELSE Failure
  /\ UNCHANGED <<journal, credit, crashes>>

\* A dependent leg of a bridge no longer fits: halt from this position on.
DependentLegTooDear ==
  /\ pc = "outcome" /\ ~Direct(me)
  /\ WriteThen("halt", "manual_review_group_threshold_exceeded", "halt")
  /\ UNCHANGED <<journal, credit, crashes>>

\* The deposit is there, not credited yet.
StillPending ==
  /\ pc \in {"outcome", "observe"} /\ credit[me] = "none"
  /\ WriteThen("account", "deposit_pending", "next")
  /\ UNCHANGED <<journal, credit, crashes>>

\* A bridge that is credited at once adds its loss to the group's without
\* accounting it to the position.
Credited ==
  /\ pc \in {"outcome", "observe"} /\ credit[me] = "credited"
  /\ WriteThen(IF pc = "outcome" /\ ~Direct(me) THEN "add" ELSE "account",
               "completed", "next")
  /\ UNCHANGED <<journal, credit, crashes>>

\* The exchange rejected the deposit or has not seen it in time.
NotSettled ==
  /\ pc \in {"outcome", "observe"} /\ credit[me] # "credited"
  /\ Review
  /\ UNCHANGED <<journal, credit, crashes>>

-----------------------------------------------------------------------------
(* The commits after a step.                                               *)

\* account_position_loss: once for a position, whatever is reported later.
Account ==
  /\ pc = "account"
  /\ IF accounted[me] = None
       THEN /\ accounted' = [accounted EXCEPT ![me] = signed[me]]
            /\ realized' = realized + signed[me]
       ELSE UNCHANGED <<accounted, realized>>
  /\ run' = [run EXCEPT !.sum = realized'] /\ pc' = "write"
  /\ UNCHANGED <<group, pos, prepared, signed, credit, crashes>>

\* _add_realized and record_group_realized_loss, which refuses to go back.
AddRealized ==
  /\ pc = "add"
  /\ LET total == run.sum + run.loss IN
     IF total < realized THEN Failure /\ UNCHANGED realized
     ELSE /\ realized' = total
          /\ run' = [run EXCEPT !.sum = total] /\ pc' = "write"
  /\ UNCHANGED <<group, pos, accounted, prepared, signed, credit, crashes>>

\* record_position_state; then the next entry, the end of the run, or the halt
\* of what is left.
Advances(p, after) == p = "write" /\ after = "next"

WritePosition ==
  /\ pc = "write"
  /\ IF ~PositionMayBecome(pos[me], run.write) THEN Escape
     ELSE /\ pos' = [pos EXCEPT ![me] = run.write]
          /\ run' = [run EXCEPT !.at = me + 1,
                                !.write = "manual_review_group_halted"]
          /\ pc' = CASE Advances(pc, run.after) -> "entry"
                     [] run.after \in {"halt", "halted"} -> run.after
                     [] OTHER -> "stop"
          /\ UNCHANGED <<group, realized, accounted, prepared, signed, credit,
                         crashes>>

StopRun ==
  /\ pc = "stop"
  /\ LET state == IF run.after = "gas" THEN "gas_deferred"
                  ELSE "deposit_pending" IN
     group' = IF GroupMayBecome(group, state) THEN state ELSE group
  /\ Leave
  /\ UNCHANGED <<realized, pos, accounted, prepared, signed, credit, crashes>>

\* halt_remaining: one commit per position still open, then the group's.
HaltPosition ==
  /\ pc = "halt" /\ me <= N
  /\ IF pos[me] \in SettledPositions \/ PositionMayBecome(pos[me], run.write)
       THEN /\ pos' = IF pos[me] \in SettledPositions THEN pos
                      ELSE [pos EXCEPT ![me] = run.write]
            /\ run' = [run EXCEPT !.at = me + 1] /\ UNCHANGED pc
            /\ UNCHANGED <<group, realized, accounted, prepared, signed,
                           credit, crashes>>
       ELSE Escape

\* Mutated form: the group is halted first.
HaltGroupFirst ==
  /\ pc = "halt"
  /\ group' = run.write /\ Leave
  /\ UNCHANGED <<realized, pos, accounted, prepared, signed, credit, crashes>>

HaltGroup ==
  /\ pc = "halt" /\ me > N
  /\ group' = run.write /\ Leave
  /\ UNCHANGED <<realized, pos, accounted, prepared, signed, credit, crashes>>

CloseGroup ==
  /\ pc = "close"
  /\ group' = IF \E i \in Positions : pos[i] = "deposit_pending"
                THEN "deposit_pending" ELSE "completed"
  /\ Leave
  /\ UNCHANGED <<realized, pos, accounted, prepared, signed, credit, crashes>>

-----------------------------------------------------------------------------
(* A run on a halted group observes its pending bridges, nothing else.     *)

BeginHalted ==
  /\ pc = "idle" /\ group \in Halts
  /\ pc' = "halted"
  /\ UNCHANGED <<journal, run, credit, crashes>>

ObserveHalted ==
  /\ pc = "halted" /\ me <= N
  /\ pos[me] = "deposit_pending" /\ ~Direct(me)
  /\ \/ credit[me] = "credited" /\ WriteThen("account", "completed", "halted")
     \/ credit[me] = "rejected"
        /\ WriteThen("write", "manual_review", "halted")
  /\ UNCHANGED <<journal, credit, crashes>>

\* Nothing to observe, no answer yet, or no answer that can be used.
SkipHalted ==
  /\ pc = "halted" /\ me <= N
  /\ run' = [run EXCEPT !.at = me + 1]
  /\ UNCHANGED <<journal, pc, credit, crashes>>

EndHalted ==
  /\ pc = "halted" /\ me > N /\ Escape

-----------------------------------------------------------------------------
Settle ==
  /\ \E i \in Positions :
       /\ signed[i] # None /\ credit[i] = "none"
       /\ \E answer \in {"credited", "rejected"} :
            credit' = [credit EXCEPT ![i] = answer]
  /\ UNCHANGED <<journal, pc, run, crashes>>

Crash ==
  /\ pc # "idle" /\ crashes < MaxCrashes
  /\ crashes' = crashes + 1
  /\ Leave
  /\ UNCHANGED <<journal, credit>>

Executor ==
  \/ BeginRun \/ NextEntry \/ EntryYields \/ Preflight \/ PreflightFails
  \/ PreflightDefersGas \/ PreflightYields \/ Mark \/ Sign \/ SignDefersGas
  \/ StepYields \/ StepFails \/ DependentLegTooDear \/ StillPending
  \/ Credited \/ NotSettled \/ Account \/ AddRealized \/ WritePosition
  \/ StopRun \/ HaltPosition \/ HaltGroup \/ CloseGroup
  \/ BeginHalted \/ ObserveHalted \/ SkipHalted \/ EndHalted

Next == Executor \/ Settle \/ Crash

Spec == Init /\ [][Next]_vars

-----------------------------------------------------------------------------
(* Properties.                                                             *)

Runs == [at : 1 .. N + 1, sum : Nat, loss : {None} \union Losses,
         write : PositionStates,
         after : {"next", "halt", "pending", "gas", "halted"}]

\* Every variable has its type; what was accounted is what was signed.
TypeOK ==
  /\ group \in GroupStates /\ realized \in Nat
  /\ pos \in [Positions -> PositionStates]
  /\ signed \in [Positions -> {None} \union Losses]
  /\ prepared \in [Positions -> {None} \union Losses]
  /\ \A i \in Positions : accounted[i] \in {None, signed[i]}
  /\ pc \in Points /\ run \in Runs
  /\ credit \in [Positions -> {"none", "credited", "rejected"}]
  /\ crashes \in 0 .. MaxCrashes

Total(loss, of) == SumFunctionOnSet(loss, of)

\* The loss of a completed position is in the group's realized loss, whoever
\* wrote it and wherever the process died in between; or a later position
\* would be held against a budget that was spent already.
CompletedLossCounted ==
  Total(signed, {i \in Positions : pos[i] = "completed"}) <= realized

\* A completed group has only completed positions, and a halted one leaves
\* none that a run could still send: the group's state is written last.
ClosedGroupAgrees ==
  /\ group = "completed" => \A i \in Positions : pos[i] = "completed"
  /\ group \in Halts =>
       \A i \in Positions : pos[i] \in SettledPositions \union {"deposit_pending"}

\* The group keeps the promise of LossBudget: nothing is sent beyond the
\* budget or after a position needs a review, over any number of runs.
Promise == INSTANCE LossBudget
  WITH spent <- signed,
       stopped <- \E i \in Positions : pos[i] \in ReviewStates
KeepsBudget == Promise!Spec

=============================================================================
