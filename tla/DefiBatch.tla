------------------------------ MODULE DefiBatch ------------------------------
(***************************************************************************)
(* The durable queue of DeFi withdrawals (defi_batch.py): wallets are      *)
(* worked off in the order of the queue, each from a fresh plan, an action *)
(* at a time, with pauses after transactions.  The worker dies anywhere    *)
(* between two commits and is started again; it goes on from the tables.   *)
(* An operator may run single commands on the same actions meanwhile.      *)
(***************************************************************************)
EXTENDS DefiExit

CONSTANTS
  WalletCount,   (* wallets of the queue, numbered in its order            *)
  Owner,         (* wallet of each action                                  *)
  Attempts,      (* tries of a wallet before it is closed: 3 in the code   *)
  Tries,         (* repeats of an execution that left no step: 2           *)
  MaxCrashes,    (* bound: deaths of the worker                            *)
  Commanded,     (* bound: actions the operator may execute himself        *)
  MaxCommands    (* bound: commands of the operator                        *)

ASSUME BatchAssumption ==
  /\ WalletCount \in Nat \ {0} /\ Attempts \in Nat \ {0} /\ Tries \in Nat
  /\ MaxCrashes \in Nat /\ MaxCommands \in Nat
  /\ Owner \in [Actions -> 1 .. WalletCount] /\ Commanded \subseteq Actions

VARIABLES
  \* the queue's tables: survive a crash
  run,           (* defi_batch_runs.status                                 *)
  wallet,        (* status, due and attempts of each queued wallet         *)
  action,        (* defi_batch_actions.status                              *)
  recorded,      (* actions with a row in defi_batch_transactions          *)
  held,          (* wallets the newest of those rows holds back for now    *)
  \* the running worker: lost in a crash
  pc, head,      (* its place, and the wallet it processes                 *)
  ready,         (* entries of the fresh plan that are still to do         *)
  tries,         (* invocations of one execution that left no step         *)
  outcome,       (* what process_wallet returns                            *)
  crashes, commands    (* what the bounds count                            *)

tables == <<run, wallet, action, recorded, held>>
worker == <<pc, head, ready, tries, outcome>>
bounds == <<crashes, commands>>
vars == <<exitVars, tables, worker, bounds>>

Wallets == 1 .. WalletCount
Final == {"done", "no_ready", "manual_review", "failed"}
Open(w) == wallet[w].status \in {"queued", "active"}
ActionsOf(w) == {a \in Actions : Owner[a] = w}

Init ==
  /\ ExitInit
  /\ run = "running"
  /\ wallet = [w \in Wallets |-> [status |-> "queued", attempts |-> 0,
                                  due |-> IF w = 1 THEN "now" ELSE "null"]]
  /\ action = [a \in Actions |-> "none"]
  /\ recorded = {} /\ held = {}
  /\ pc = "idle" /\ head = 1 /\ ready = {} /\ tries = 0 /\ outcome = "none"
  /\ crashes = 0 /\ commands = 0

-----------------------------------------------------------------------------
Work(place) == pc' = place /\ UNCHANGED <<head, ready, tries, outcome>>
Finish(status) ==
  pc' = "finish" /\ outcome' = status /\ UNCHANGED <<head, ready, tries>>
SetAction(a, status) == action' = [action EXCEPT ![a] = status]
Current == Act("worker")
Ended(results) == At("worker", "done") /\ exit["worker"].result \in results
Consumed == exit' = [exit EXCEPT !["worker"] = NoExit]

\* record_transaction: the deadlines of a hash are drawn once, one for its own
\* wallet and one for the others (_next_transaction_due).
Record(a) ==
  IF a \in recorded THEN UNCHANGED <<recorded, held>>
  ELSE recorded' = recorded \union {a} /\ held' = Wallets

\* Mutated form: the attempts of a wallet are not counted.
RetryForever(status) ==
  /\ wallet' = [wallet EXCEPT ![head].due = "retry"]
  /\ pc' = "idle" /\ UNCHANGED <<head, ready, tries, outcome>>

\* _retry_wallet: half an hour later, and not at all after the last try.
RetryOr(status) ==
  /\ wallet' = [wallet EXCEPT ![head].attempts = @ + 1, ![head].due = "retry"]
  /\ IF wallet[head].attempts + 1 >= Attempts THEN Finish(status)
     ELSE pc' = "idle" /\ UNCHANGED <<head, ready, tries, outcome>>

Due(w) == \/ wallet[w].due = "now"
          \/ wallet[w].due = "pause" /\ w \notin held

-----------------------------------------------------------------------------
(* run_worker and process_wallet.                                          *)

\* The first open wallet of the queue; an action that was executing when the
\* last worker stopped is looked at before anything else.
TakeWallet ==
  /\ pc = "idle" /\ run = "running"
  /\ \E w \in Wallets :
       /\ Open(w) /\ \A v \in 1 .. w - 1 : ~Open(v)
       /\ Due(w)
       /\ wallet' = [wallet EXCEPT ![w].status = "active"]
       /\ head' = w
       /\ LET unresolved == {a \in ActionsOf(w) : action[a] = "executing"}
          IN IF unresolved = {} THEN pc' = "quote" /\ UNCHANGED exit
             ELSE \E a \in unresolved :
                    pc' = "recover" /\ StartExit("worker", a)
  /\ ready' = {} /\ tries' = 0 /\ outcome' = "none"
  /\ UNCHANGED <<step, lock, net, signed, run, action, recorded, held, bounds>>

RecoveredRecord ==
  /\ pc = "recover" /\ Ended({"withdrawn", "review"})
  /\ Record(Current) /\ Work("recovered")
  /\ UNCHANGED <<exitVars, run, wallet, action, bounds>>

RecoveredSet ==
  /\ pc = "recovered"
  /\ SetAction(Current, IF exit["worker"].result = "withdrawn"
                        THEN "withdrawn" ELSE "manual_review")
  /\ Consumed /\ Work("quote")
  /\ UNCHANGED <<step, lock, net, signed, run, wallet, recorded, held, bounds>>

RecoveredStale ==
  /\ pc = "recover" /\ Ended({"stale"})
  /\ SetAction(Current, "stale") /\ Consumed /\ Work("quote")
  /\ UNCHANGED <<step, lock, net, signed, run, wallet, recorded, held, bounds>>

RecoverLater ==
  /\ pc = "recover" /\ Ended({"transient", "limited"})
  /\ RetryOr("manual_review") /\ Consumed
  /\ UNCHANGED <<step, lock, net, signed, run, action, recorded, held, bounds>>

RecoverRefused ==
  /\ pc = "recover" /\ Ended({"refused"})
  /\ Finish("manual_review") /\ Consumed
  /\ UNCHANGED <<step, lock, net, signed, tables, bounds>>

\* A fresh plan is saved under the inventory lock.  It lists some of the
\* wallet's positions as ready; attempts start anew.
Quote ==
  /\ pc = "quote" /\ lock = "free"
  /\ wallet' = [wallet EXCEPT ![head].attempts = 0]
  /\ \E entries \in SUBSET ActionsOf(head) :
       /\ ready' = entries
       /\ pc' = IF entries = {} THEN "finish" ELSE "entries"
       /\ outcome' = IF entries = {} THEN "no_ready" ELSE outcome
  /\ UNCHANGED <<head, tries, exitVars, run, action, recorded, held, bounds>>

QuoteLimited ==
  /\ pc = "quote" /\ RetryOr("failed")
  /\ UNCHANGED <<exitVars, run, action, recorded, held,
                 bounds>>

QuoteFails ==
  /\ pc = "quote" /\ Finish("failed")
  /\ UNCHANGED <<exitVars, tables, bounds>>

NextEntry == pc' = "entries" /\ tries' = 0 /\ UNCHANGED <<head, outcome>>

\* Entries this run has closed already are passed over.
Closed == {"withdrawn", "manual_review", "skipped"}

SkipClosed ==
  /\ pc = "entries"
  /\ \E a \in ready : action[a] \in Closed /\ ready' = ready \ {a}
  /\ NextEntry
  /\ UNCHANGED <<exitVars, tables, bounds>>

\* The preview of an entry fails: a person decides after a 429, the others are
\* skipped.
PreviewFails ==
  /\ pc = "entries"
  /\ \E a \in ready :
       /\ action[a] \notin Closed
       /\ \/ /\ SetAction(a, "skipped") /\ ready' = ready \ {a} /\ NextEntry
          \/ /\ SetAction(a, "manual_review") /\ Finish("manual_review")
  /\ UNCHANGED <<exitVars, run, wallet, recorded, held,
                 bounds>>

Deferred ==
  /\ pc = "entries"
  /\ \E a \in ready : action[a] \notin Closed
  /\ head \in held
  /\ wallet' = [wallet EXCEPT ![head].due = "pause"]
  /\ Work("idle")
  /\ UNCHANGED <<exitVars, run, action, recorded, held,
                 bounds>>

\* Mutated form: the row is written when the command has returned.
ExecuteUnmarked ==
  /\ pc = "entries" /\ head \notin held
  /\ \E a \in ready :
       /\ action[a] \notin Closed
       /\ ready' = ready \ {a} /\ StartExit("worker", a)
  /\ pc' = "execute" /\ tries' = 0 /\ UNCHANGED <<head, outcome>>
  /\ UNCHANGED <<step, lock, net, signed, tables, bounds>>

\* The previewed action is marked before it is executed.
Execute ==
  /\ pc = "entries" /\ head \notin held
  /\ \E a \in ready :
       /\ action[a] \notin Closed
       /\ SetAction(a, "executing") /\ ready' = ready \ {a}
       /\ StartExit("worker", a)
  /\ pc' = "execute" /\ tries' = 0 /\ UNCHANGED <<head, outcome>>
  /\ UNCHANGED <<step, lock, net, signed, run, wallet, recorded, held, bounds>>

EntriesDone ==
  /\ pc = "entries" /\ ready = {} /\ Finish("done")
  /\ UNCHANGED <<exitVars, tables, bounds>>

-----------------------------------------------------------------------------
(* What the worker makes of an execution.                                  *)

ExecutedSet ==
  /\ pc = "execute" /\ Ended({"withdrawn", "review"})
  /\ SetAction(Current, IF exit["worker"].result = "withdrawn"
                        THEN "withdrawn" ELSE "manual_review")
  /\ Work("record")
  /\ UNCHANGED <<exitVars, run, wallet, recorded, held,
                 bounds>>

ExecutedRecord ==
  /\ pc = "record" /\ Record(Current) /\ Consumed
  /\ NextEntry /\ UNCHANGED ready
  /\ UNCHANGED <<step, lock, net, signed, run, wallet, action, bounds>>

\* A failed call that left no step in the journal is made again.
SafeToRetry(a) == step[a] = "none"

ExecuteAgain ==
  /\ pc = "execute" /\ Ended({"transient"})
  /\ SafeToRetry(Current) /\ tries < Tries
  /\ tries' = tries + 1 /\ StartExit("worker", Current)
  /\ UNCHANGED <<pc, head, ready, outcome, step, lock, net, signed,
                 tables, bounds>>

\* An error with a hash in the journal: paced, and looked at again later.
ExecuteLater ==
  /\ pc = "execute" /\ Ended({"transient", "limited"}) /\ step[Current] # "none"
  /\ Record(Current) /\ Work("later")
  /\ UNCHANGED <<exitVars, run, wallet, action, bounds>>

LookLater ==
  /\ pc = "later" /\ RetryOr("manual_review") /\ Consumed
  /\ UNCHANGED <<step, lock, net, signed, run, action, recorded, held, bounds>>

\* Mutated form: whatever failed is skipped.
SkipsAny == Ended({"stale", "transient", "limited", "refused"})

\* Nothing was sent: the entry is skipped.
Skips == \/ Ended({"stale"})
         \/ Ended({"transient"}) /\ step[Current] = "none" /\ tries = Tries

ExecuteSkipped ==
  /\ pc = "execute" /\ Skips
  /\ SetAction(Current, "skipped") /\ Consumed
  /\ NextEntry /\ UNCHANGED ready
  /\ UNCHANGED <<step, lock, net, signed, run, wallet, recorded, held, bounds>>

\* A 429 and whatever else was refused: a person decides.
ExecuteReviewed ==
  /\ pc = "execute"
  /\ \/ Ended({"refused"})
     \/ Ended({"limited"}) /\ step[Current] = "none"
  /\ SetAction(Current, "manual_review") /\ Consumed
  /\ Finish("manual_review")
  /\ UNCHANGED <<step, lock, net, signed, run, wallet, recorded, held, bounds>>

\* advance_wallet: one commit closes the wallet and makes the next one due, or
\* completes the run.
Advance ==
  /\ pc = "finish"
  /\ LET next == {w \in Wallets : w > head /\ wallet[w].status = "queued"}
         closed == [wallet EXCEPT ![head].status = outcome]
     IN IF next = {} THEN run' = "completed" /\ wallet' = closed
        ELSE \E w \in next :
               /\ \A v \in next : w <= v
               /\ wallet' = [closed EXCEPT ![w].due = "now"]
               /\ UNCHANGED run
  /\ Work("idle")
  /\ UNCHANGED <<exitVars, action, recorded, held, bounds>>

-----------------------------------------------------------------------------
(* Time, the operator, and crashes.                                        *)

PauseOver ==
  /\ \E w \in held : held' = held \ {w}
  /\ UNCHANGED <<exitVars, run, wallet, action, recorded, worker, bounds>>

RetryDue ==
  /\ \E w \in Wallets : /\ wallet[w].due = "retry"
                        /\ wallet' = [wallet EXCEPT ![w].due = "now"]
  /\ UNCHANGED <<exitVars, run, action, recorded, held,
                 worker, bounds>>

OperatorCommand ==
  /\ At("operator", "idle") /\ commands < MaxCommands
  /\ commands' = commands + 1
  /\ \E a \in Commanded : StartExit("operator", a)
  /\ UNCHANGED <<step, lock, net, signed, tables, worker, crashes>>

Crash ==
  /\ pc # "idle" /\ crashes < MaxCrashes /\ crashes' = crashes + 1
  /\ ExitDies("worker")
  /\ pc' = "idle" /\ ready' = {} /\ tries' = 0 /\ outcome' = "none"
  /\ UNCHANGED <<head, tables, commands>>

\* A command runs for the worker or the operator.
Commands(p) == ExitStep(p) /\ UNCHANGED <<tables, worker, bounds>>
Network == Mine /\ UNCHANGED <<tables, worker, bounds>>

Worker ==
  \/ TakeWallet \/ RecoveredRecord \/ RecoveredSet \/ RecoveredStale
  \/ RecoverLater \/ RecoverRefused \/ Quote \/ QuoteLimited \/ QuoteFails
  \/ SkipClosed \/ PreviewFails \/ Deferred \/ Execute \/ EntriesDone
  \/ ExecutedSet \/ ExecutedRecord \/ ExecuteAgain \/ ExecuteLater
  \/ LookLater \/ ExecuteSkipped \/ ExecuteReviewed \/ Advance

Next == \/ Worker \/ Commands("worker") \/ Commands("operator")
        \/ OperatorCommand \/ Network
        \/ PauseOver \/ RetryDue \/ Crash

Spec == Init /\ [][Next]_vars

\* The worker is started again after it died, and time passes.  The network,
\* the nodes and the operator are under no fairness.
Fairness == /\ WF_vars(Worker) /\ WF_vars(Commands("worker"))
            /\ WF_vars(PauseOver) /\ WF_vars(RetryDue)

FairSpec == Spec /\ Fairness

-----------------------------------------------------------------------------
(* Properties.                                                             *)

\* What each variable of the worker and its queue holds: records the queue
\* table and the Relay file can be in.
TypeOK ==
  /\ ExitTypeOK
  /\ run \in {"running", "completed"}
  /\ wallet \in [Wallets -> [status : Final \union {"queued", "active"},
                             attempts : 0 .. Attempts + MaxCrashes,
                             due : {"null", "now", "retry", "pause"}]]
  /\ action \in [Actions -> {"none", "executing", "stale"} \union Closed]
  /\ recorded \subseteq Actions /\ held \subseteq Wallets
  /\ pc \in {"idle", "recover", "recovered", "quote", "entries", "execute",
             "record", "later", "finish"}
  /\ head \in Wallets /\ ready \subseteq Actions /\ tries \in 0 .. Tries
  /\ outcome \in Final \union {"none"}
  /\ crashes \in 0 .. MaxCrashes /\ commands \in 0 .. MaxCommands

Signatures(a) == {p \in Processes : <<p, a>> \in signed}

\* An exit is signed once, whoever asks for it and however often: by the worker
\* before or after a crash, or by an operator's command beside it.
SignedOnce ==
  /\ \A a \in Actions : Cardinality(Signatures(a)) <= 1
  /\ \A p \in Processes : At(p, "sign") => Signatures(Act(p)) = {}

\* What the queue says of an action is what became of its transaction: only a
\* mined exit is withdrawn, nothing the worker signed is passed over, and a
\* wallet that was closed with an open exit is under review.
QueueAgrees ==
  \A a \in Actions :
    /\ action[a] = "withdrawn" => net[a] = "mined"
    /\ action[a] \in {"none", "stale", "skipped"} => <<"worker", a>> \notin signed
    /\ action[a] = "executing" /\ ~Open(Owner[a]) =>
         wallet[Owner[a]].status = "manual_review"

\* The worker signs no exit while another one it signed has an unknown end,
\* unless a person was asked to look at that one.
NoExitBehindUnresolved ==
  [][\A a, b \in Actions :
       a # b /\ <<"worker", a>> \in signed' \ signed
             /\ <<"worker", b>> \in signed =>
         \/ step[b] = "confirmed" \/ action[b] = "manual_review"
         \/ wallet[Owner[b]].status = "manual_review"]_vars

\* Whatever fails, the queue comes to its end.
BatchCompletes == <>(run = "completed")
=============================================================================
