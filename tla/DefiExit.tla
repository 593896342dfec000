------------------------------ MODULE DefiExit ------------------------------
(***************************************************************************)
(* One reviewed DeFi withdrawal (execute_defi_action, _submit_durable):    *)
(* under the lock of the inventory database a recorded transaction is      *)
(* observed, otherwise the action is checked afresh, signed, journaled and *)
(* sent.  Two processes may call it for the same action: the worker of the *)
(* batch queue and an operator's command.  Actions take the process and    *)
(* what the caller does with the result is left to DefiBatch.              *)
(***************************************************************************)
EXTENDS Naturals, FiniteSets

CONSTANT Actions      (* reviewed withdrawals                              *)

ASSUME ExitAssumption == Actions # {}

VARIABLES
  \* the journal and the lock file beside it
  step,        (* the defi_withdraw row of each action                     *)
  lock,        (* process that holds the inventory lock, or "free"         *)
  \* the running commands
  exit,        (* place, action and result of each process                 *)
  \* the network
  net,         (* what became of the transaction of each action            *)
  signed       (* <<process, action>> of every signature ever made         *)

exitVars == <<step, lock, exit, net, signed>>

Processes == {"worker", "operator"}
Places == {"idle", "lock", "look", "sign", "send", "receipt", "event", "done"}
\* How a command ends: the payload's status, or how _run_operation classes the
\* exception: "transient" and "limited" are code 4, the others code 2.
Results == {"none", "withdrawn", "review", "transient", "limited", "stale",
            "refused"}
NoExit == [at |-> "idle", action |-> CHOOSE a \in Actions : TRUE,
           result |-> "none"]

ExitTypeOK ==
  /\ step \in [Actions -> {"none", "submitted", "confirmed"}]
  /\ lock \in Processes \union {"free"}
  /\ exit \in [Processes -> [at : Places, action : Actions, result : Results]]
  /\ net \in [Actions -> {"unsent", "pending", "mined", "reverted"}]
  /\ signed \subseteq Processes \X Actions

ExitInit ==
  /\ step = [a \in Actions |-> "none"] /\ lock = "free"
  /\ exit = [p \in Processes |-> NoExit]
  /\ net = [a \in Actions |-> "unsent"] /\ signed = {}

-----------------------------------------------------------------------------
At(p, place) == exit[p].at = place
Act(p) == exit[p].action
GoTo(p, place) == exit' = [exit EXCEPT ![p].at = place]
\* The batch reads the result of its own commands; the operator's are over.
Return(p, place, result) ==
  exit' = [exit EXCEPT ![p] = IF p = "operator" THEN NoExit
             ELSE [at |-> place, action |-> @.action, result |-> result]]
End(p, result) == Return(p, "done", result)
Release(p) == lock' = IF lock = p THEN "free" ELSE lock

StartExit(p, a) ==
  exit' = [exit EXCEPT ![p] = [at |-> "lock", action |-> a, result |-> "none"]]

\* Mutated form: the lock file is opened and not locked.
TakeUnlocked(p) ==
  /\ At(p, "lock") /\ GoTo(p, "look") /\ lock' = p
  /\ UNCHANGED <<step, net, signed>>

\* _action_lock: never waited for; whoever finds it held is refused.
TakeLock(p) ==
  /\ At(p, "lock")
  /\ \/ lock = "free" /\ lock' = p /\ GoTo(p, "look")
     \/ lock # "free" /\ End(p, "refused") /\ UNCHANGED lock
  /\ UNCHANGED <<step, net, signed>>

\* A recorded hash is observed before anything fresh is asked for.  A hash the
\* node does not know is AmbiguousBroadcast, and it may forget what is pending;
\* a failed call is an RPC error.
ObserveExisting(p) ==
  /\ At(p, "look") /\ step[Act(p)] # "none"
  /\ \/ net[Act(p)] # "unsent" /\ GoTo(p, "receipt") /\ UNCHANGED lock
     \/ End(p, "transient") /\ Release(p)
  /\ UNCHANGED <<step, net, signed>>

\* Mutated form: an observed exit is told from its receipt.
UnsignedUnconfirmed(a) == step[a] # "confirmed"

Unsigned(a) == step[a] = "none"

\* prepare_defi_action and the checks of _submit_durable before the signature.
PrepareFails(p) ==
  /\ At(p, "look") /\ Unsigned(Act(p))
  /\ \E result \in {"transient", "limited", "stale", "refused"} :
       End(p, result)
  /\ Release(p)
  /\ UNCHANGED <<step, net, signed>>

Prepare(p) ==
  /\ At(p, "look") /\ Unsigned(Act(p))
  /\ GoTo(p, "sign")
  /\ UNCHANGED <<step, lock, net, signed>>

\* The signature's intent and hash are one commit (record_step_intent).
Sign(p) ==
  /\ At(p, "sign") /\ GoTo(p, "send")
  /\ step' = [step EXCEPT ![Act(p)] = "submitted"]
  /\ signed' = signed \union {<<p, Act(p)>>}
  /\ UNCHANGED <<lock, net>>

Arrives(a) == net' = [net EXCEPT ![a] = IF @ = "unsent" THEN "pending" ELSE @]

\* The node answers with the hash; the call fails on the way there or back; or
\* the answer is another hash, which is refused.
Send(p) ==
  /\ At(p, "send")
  /\ \/ Arrives(Act(p)) /\ GoTo(p, "receipt") /\ UNCHANGED lock
     \/ /\ Arrives(Act(p)) \/ UNCHANGED net
        /\ End(p, "transient") /\ Release(p)
     \/ Arrives(Act(p)) /\ End(p, "refused") /\ Release(p)
  /\ UNCHANGED <<step, signed>>

\* _withdrawal_result: the exit's outputs are compared with the balances of its
\* block; whatever does not add up or cannot be read is left to a person.
Verified == {"withdrawn", "review"}

\* Mutated form: a receipt is taken for a success.
ReceiptTaken(p) ==
  /\ At(p, "receipt") /\ net[Act(p)] \in {"mined", "reverted"}
  /\ step' = [step EXCEPT ![Act(p)] = "confirmed"]
  /\ \E result \in Verified : Return(p, "event", result)
  /\ Release(p)
  /\ UNCHANGED <<net, signed>>

\* wait_for_receipt: a success is journaled; no receipt in ten minutes and a
\* revert are refused; a failed call leaves the hash to the next look.
Receipt(p) ==
  /\ At(p, "receipt")
  /\ \/ /\ net[Act(p)] = "mined"
        /\ step' = [step EXCEPT ![Act(p)] = "confirmed"]
        /\ \E result \in Verified : Return(p, "event", result)
     \/ /\ net[Act(p)] # "mined" /\ End(p, "refused") /\ UNCHANGED step
     \/ End(p, "transient") /\ UNCHANGED step
  /\ Release(p)
  /\ UNCHANGED <<net, signed>>

\* record_defi_execution opens the inventory as a writer of its own: while
\* another process holds the lock the finished exit ends as a database error.
RecordEvent(p) ==
  /\ At(p, "event")
  /\ IF lock = "free" THEN GoTo(p, "done") ELSE End(p, "transient")
  /\ UNCHANGED <<step, lock, net, signed>>

ExitStep(p) ==
  \/ TakeLock(p) \/ ObserveExisting(p) \/ PrepareFails(p) \/ Prepare(p)
  \/ Sign(p) \/ Send(p) \/ Receipt(p) \/ RecordEvent(p)

\* The operating system releases the lock of a process that dies.
ExitDies(p) ==
  /\ exit' = [exit EXCEPT ![p] = NoExit]
  /\ Release(p)
  /\ UNCHANGED <<step, net, signed>>

-----------------------------------------------------------------------------
(* The network.                                                            *)

Mine ==
  /\ \E a \in Actions, fate \in {"mined", "reverted"} :
       /\ net[a] = "pending"
       /\ net' = [net EXCEPT ![a] = fate]
  /\ UNCHANGED <<step, lock, exit, signed>>
=============================================================================
