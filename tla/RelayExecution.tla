-------------------------- MODULE RelayExecution --------------------------
(***************************************************************************)
(* One position routed through Relay: a single deposit on the source       *)
(* network that Relay answers with a payment to the exchange on another    *)
(* (execute_relay_entries, _observe, _destination_transfer,                *)
(* broadcast_durable_transaction).  A run either prepares and sends, when  *)
(* the journal holds no hash, or observes the saved one; a deadline, an    *)
(* error or a process death may end it at any commit, and a later run goes *)
(* on from the journal.                                                    *)
(***************************************************************************)
EXTENDS Naturals, RouteJournal

CONSTANTS
  Recipients,  (* deposit addresses the workbook may name                  *)
  Trusted,     (* the one the plan was made for                            *)
  MaxQuotes,   (* bound: fresh quotes                                      *)
  MaxNonce,    (* bound: nonces of the wallet on the source network        *)
  MaxCrashes,  (* bound: process deaths                                    *)
  MaxReorgs    (* bound: reorganisations of the source network             *)

ASSUME RelayAssumption ==
  /\ Trusted \in Recipients
  /\ MaxQuotes \in Nat /\ MaxNonce \in Nat
  /\ MaxCrashes \in Nat /\ MaxReorgs \in Nat

VARIABLES
  \* the journal: survives a crash
  position,    (* route_positions.state                                    *)
  row,         (* the relay_deposit row of route_steps                     *)
  saved,       (* quote of the relay_execution checkpoint, 0 none          *)
  waiting,     (* relay_retry names a time that is not over                *)
  \* the running executor: lost in a crash
  pc, quote, nonce,
  recipient,   (* what the workbook says                                   *)
  \* the source network
  sent, visible,     (* transfers broadcast; those the RPC still knows     *)
  mined, reverted,   (* transfers with a receipt, status 1 and status 0    *)
  latest, deep,      (* next nonce; nonces below deep have a block on top  *)
  \* Relay, the destination network and the exchange, for each quote
  request,     (* what Relay did: "none", "paid", "refunded"               *)
  status,      (* what it reports: "waiting", "success", "failure"         *)
  proven,      (* quotes whose payment has a receipt with a block on top   *)
  credit,      (* what the exchange says of the payment                    *)
  quotes, crashes, reorgs    (* what the bounds count                      *)

journal == <<position, row, saved, waiting>>
process == <<pc, quote, nonce>>
chain == <<sent, visible, mined, reverted, latest, deep>>
relay == <<request, status, proven, credit>>
world == <<recipient, chain, relay, crashes, reorgs>>
vars == <<journal, process, world, quotes>>

-----------------------------------------------------------------------------
Quotes == 1 .. MaxQuotes
Nonces == 0 .. MaxNonce
Tx == [quote : Quotes, nonce : Nonces]
NoRow == [state |-> "none", quote |-> 0, nonce |-> 0]
Points == {"idle", "entry", "nonce", "sign", "send", "mark", "receipt",
           "status", "payment", "pending", "credit", "credited", "complete",
           "terminal"}

HasBroadcast == row.state # "none"
Transfer == [quote |-> row.quote, nonce |-> row.nonce]

Goto(p) == pc' = p /\ UNCHANGED <<quote, nonce>>
Leave == pc' = "idle" /\ quote' = 0 /\ nonce' = 0

Init ==
  /\ position = "planned" /\ row = NoRow /\ saved = 0 /\ waiting = FALSE
  /\ pc = "idle" /\ quote = 0 /\ nonce = 0
  /\ recipient \in Recipients
  /\ sent = {} /\ visible = {} /\ mined = {} /\ reverted = {}
  /\ latest = 0 /\ deep = 0
  /\ request = [q \in Quotes |-> "none"]
  /\ status = [q \in Quotes |-> "waiting"]
  /\ proven = {} /\ credit = [q \in Quotes |-> "none"]
  /\ quotes = 0 /\ crashes = 0 /\ reorgs = 0

-----------------------------------------------------------------------------
(* A run on a position that is not closed.                                 *)

BeginRun ==
  /\ pc = "idle" /\ position \notin {"completed", "manual_review"}
  /\ Goto("entry")
  /\ UNCHANGED <<journal, world, quotes>>

\* Mutated form: what was sent is told from the position's state.
ObservesMarked == position # "planned"

\* A saved hash is observed, never signed again.
Observes == HasBroadcast

\* A changed workbook ends the run: the hash is the saved recipient's.
ObserveSaved ==
  /\ pc = "entry" /\ Observes /\ recipient = Trusted
  /\ Goto("mark")
  /\ UNCHANGED <<journal, world, quotes>>

Prepares == /\ pc = "entry" /\ ~Observes /\ ~waiting /\ recipient = Trusted
            /\ quotes < MaxQuotes

\* Mutated form: the first checkpoint of the position is kept.
PrepareKeeping ==
  /\ Prepares
  /\ quotes' = quotes + 1 /\ quote' = quotes + 1
  /\ saved' = IF saved = 0 THEN quotes + 1 ELSE saved
  /\ pc' = "nonce" /\ UNCHANGED nonce
  /\ UNCHANGED <<position, row, waiting, world>>

\* A fresh quote that passes the checks on recipient, balance, fee, minimum
\* and loss is saved before its nonce is asked for.
Prepare ==
  /\ Prepares
  /\ quotes' = quotes + 1 /\ quote' = quotes + 1
  /\ saved' = quotes + 1
  /\ pc' = "nonce" /\ UNCHANGED nonce
  /\ UNCHANGED <<position, row, waiting, world>>

\* A nonce no transfer the node knows has taken.
ReadNonce ==
  /\ pc = "nonce"
  /\ \E n \in Nonces : /\ n >= latest /\ \A t \in visible : t.nonce # n
                       /\ nonce' = n
  /\ pc' = "sign" /\ UNCHANGED quote
  /\ UNCHANGED <<journal, world, quotes>>

\* Mutated form: the hash is saved by the receipt, not by the intent.
SignOnly ==
  /\ pc = "sign" /\ Goto("send")
  /\ row' = [state |-> "none", quote |-> quote, nonce |-> nonce]
  /\ UNCHANGED <<position, saved, waiting, world, quotes>>

\* The signed transfer's intent and hash are one commit (record_step_intent).
Sign ==
  /\ pc = "sign" /\ Goto("send")
  /\ row' = [state |-> "submitted", quote |-> quote, nonce |-> nonce]
  /\ UNCHANGED <<position, saved, waiting, world, quotes>>

\* The node takes the transfer, or the call fails on the way there or back: the
\* run goes on with the durable hash, or ends on an unforeseen error.
Send ==
  /\ pc = "send" /\ (Goto("mark") \/ Leave)
  /\ \/ sent' = sent \union {Transfer} /\ visible' = visible \union {Transfer}
     \/ UNCHANGED <<sent, visible>>
  /\ UNCHANGED <<journal, recipient, mined, reverted, latest, deep, relay,
                 crashes, reorgs, quotes>>

MarkSubmitted ==
  /\ pc = "mark" /\ Goto("receipt")
  /\ position' = IF position = "planned" THEN "bridge_submitted" ELSE position
  /\ UNCHANGED <<row, saved, waiting, world, quotes>>

-----------------------------------------------------------------------------
(* _observe: from the source receipt to the exchange's credit.             *)

Becomes(state) == row' = IF row.state = "submitted"
                           THEN [row EXCEPT !.state = state] ELSE row

\* A revert ends the position, whatever the depth of its block.
SourceReverted ==
  /\ pc = "receipt" /\ Transfer \in reverted
  /\ Becomes("reverted") /\ Goto("terminal")
  /\ UNCHANGED <<position, saved, waiting, world, quotes>>

SourceConfirmed ==
  /\ pc = "receipt" /\ Transfer \in mined /\ row.nonce < deep
  /\ Becomes("confirmed") /\ Goto("status")
  /\ UNCHANGED <<position, saved, waiting, world, quotes>>

\* The status of the saved request must name the saved hash.
StatusSuccess ==
  /\ pc = "status" /\ status[saved] = "success" /\ saved = row.quote
  /\ Goto("payment")
  /\ UNCHANGED <<journal, world, quotes>>

StatusFailure ==
  /\ pc = "status" /\ status[saved] = "failure"
  /\ Goto("terminal")
  /\ UNCHANGED <<journal, world, quotes>>

\* _destination_transfer: one confirmed payment of at least the minimum.
PaymentProven ==
  /\ pc = "payment" /\ saved \in proven
  /\ Goto("pending")
  /\ UNCHANGED <<journal, world, quotes>>

MarkPending ==
  /\ pc = "pending" /\ Goto("credit")
  /\ position' = IF position = "bridge_submitted" THEN "deposit_pending"
                 ELSE position
  /\ UNCHANGED <<row, saved, waiting, world, quotes>>

\* Mutated form: a payment that has arrived counts as credited.
CreditAssumed ==
  /\ pc = "credit" /\ credit[saved] # "fail"
  /\ Goto("credited")
  /\ UNCHANGED <<journal, world, quotes>>

CreditSuccess ==
  /\ pc = "credit" /\ credit[saved] = "success"
  /\ Goto("credited")
  /\ UNCHANGED <<journal, world, quotes>>

CreditFailure ==
  /\ pc = "credit" /\ credit[saved] = "fail"
  /\ Goto("terminal")
  /\ UNCHANGED <<journal, world, quotes>>

\* Mutated form: a step that is credited already is refused.
CreditConfirmed ==
  /\ pc = "credited" /\ row.state = "confirmed"
  /\ row' = [row EXCEPT !.state = "credited"]
  /\ Goto("complete")
  /\ UNCHANGED <<position, saved, waiting, world, quotes>>

\* A step whose receipt was once a revert is refused: the run ends (Fails).
RecordCredited ==
  /\ pc = "credited" /\ StepMayBecome(row.state, "credited")
  /\ row' = [row EXCEPT !.state = "credited"]
  /\ Goto("complete")
  /\ UNCHANGED <<position, saved, waiting, world, quotes>>

Complete ==
  /\ pc = "complete" /\ position' = "completed" /\ Leave
  /\ UNCHANGED <<row, saved, waiting, world, quotes>>

\* RelayTerminalFailure: a person decides.
Review ==
  /\ pc = "terminal" /\ position' = "manual_review" /\ Leave
  /\ UNCHANGED <<row, saved, waiting, world, quotes>>

\* Nothing to do yet, the deadline, or an error: nothing is decided.
Yield ==
  /\ pc \in {"entry", "nonce", "sign", "receipt", "status", "payment",
             "credit"}
  /\ Leave
  /\ UNCHANGED <<journal, world, quotes>>

RefusesCredit ==
  /\ pc = "credited" /\ ~StepMayBecome(row.state, "credited")
  /\ Leave
  /\ UNCHANGED <<journal, world, quotes>>

\* A provider's error with a time to retry at, before anything was signed.
FailsUnsigned ==
  /\ pc \in {"entry", "nonce", "sign"} /\ ~HasBroadcast
  /\ waiting' = TRUE /\ Leave
  /\ UNCHANGED <<position, row, saved, world, quotes>>

-----------------------------------------------------------------------------
(* The networks, Relay, the exchange and the operator.                     *)

RetryDue ==
  /\ waiting /\ waiting' = FALSE
  /\ UNCHANGED <<position, row, saved, process, world, quotes>>

EditWorkbook ==
  /\ pc = "idle" /\ recipient' \in Recipients \ {recipient}
  /\ UNCHANGED <<journal, process, chain, relay, crashes, reorgs, quotes>>

Forget ==
  /\ \E t \in visible \ (mined \union reverted) : visible' = visible \ {t}
  /\ UNCHANGED <<journal, process, recipient, sent, mined, reverted, latest,
                 deep, relay, crashes, reorgs, quotes>>

Mine ==
  /\ latest <= MaxNonce /\ latest' = latest + 1
  /\ \/ UNCHANGED <<visible, mined, reverted>>   (* another transfer's *)
     \/ \E t \in sent :
          /\ t.nonce = latest /\ visible' = visible \union {t}
          /\ \/ mined' = mined \union {t} /\ UNCHANGED reverted
             \/ reverted' = reverted \union {t} /\ UNCHANGED mined
  /\ UNCHANGED <<journal, process, recipient, sent, deep, relay, crashes,
                 reorgs, quotes>>

Deepen ==
  /\ deep < latest /\ deep' = latest
  /\ UNCHANGED <<journal, process, recipient, sent, visible, mined, reverted,
                 latest, relay, crashes, reorgs, quotes>>

\* One block on top is not finality: the last nonce is used anew.
Reorganise ==
  /\ latest > 0 /\ reorgs < MaxReorgs /\ reorgs' = reorgs + 1
  /\ latest' = latest - 1 /\ deep' = IF deep = latest THEN latest' ELSE deep
  /\ mined' = {t \in mined : t.nonce < latest'}
  /\ reverted' = {t \in reverted : t.nonce < latest'}
  /\ UNCHANGED <<journal, process, recipient, sent, visible, relay, crashes,
                 quotes>>

Fulfil ==
  /\ \E t \in mined : /\ request[t.quote] = "none"
                      /\ \E did \in {"paid", "refunded"} :
                           request' = [request EXCEPT ![t.quote] = did]
  /\ UNCHANGED <<journal, process, recipient, chain, status, proven, credit,
                 crashes, reorgs, quotes>>

Report ==
  /\ \E q \in Quotes :
       /\ request[q] # "none" /\ status[q] = "waiting"
       /\ status' = [status EXCEPT ![q] = IF request[q] = "paid"
                                          THEN "success" ELSE "failure"]
  /\ UNCHANGED <<journal, process, recipient, chain, request, proven, credit,
                 crashes, reorgs, quotes>>

Arrive ==
  /\ \E q \in Quotes : /\ request[q] = "paid" /\ q \notin proven
                       /\ proven' = proven \union {q}
  /\ UNCHANGED <<journal, process, recipient, chain, request, status, credit,
                 crashes, reorgs, quotes>>

Decide ==
  /\ \E q \in proven, says \in {"success", "fail"} :
       credit[q] = "none" /\ credit' = [credit EXCEPT ![q] = says]
  /\ UNCHANGED <<journal, process, recipient, chain, request, status, proven,
                 crashes, reorgs, quotes>>

Crash ==
  /\ pc # "idle" /\ crashes < MaxCrashes /\ crashes' = crashes + 1
  /\ Leave
  /\ UNCHANGED <<journal, recipient, chain, relay, reorgs, quotes>>

Executor ==
  \/ BeginRun \/ ObserveSaved \/ Prepare \/ ReadNonce \/ Sign \/ Send
  \/ MarkSubmitted \/ SourceReverted \/ SourceConfirmed \/ StatusSuccess
  \/ StatusFailure \/ PaymentProven \/ MarkPending \/ CreditSuccess
  \/ CreditFailure \/ RecordCredited \/ Complete \/ Review \/ Yield
  \/ RefusesCredit \/ FailsUnsigned

World == \/ RetryDue \/ EditWorkbook \/ Forget \/ Mine \/ Deepen
         \/ Reorganise \/ Fulfil \/ Report \/ Arrive \/ Decide

Next == Executor \/ World \/ Crash

Spec == Init /\ [][Next]_vars

\* The command is run again and again, and an answer that is there is read in
\* the end.  Network, Relay and exchange are under no fairness.
Fairness == /\ WF_vars(Executor)
            /\ SF_vars(ObserveSaved) /\ SF_vars(SourceConfirmed)
            /\ SF_vars(StatusSuccess) /\ SF_vars(PaymentProven)
            /\ SF_vars(CreditSuccess)

FairSpec == Spec /\ Fairness

-----------------------------------------------------------------------------
(* Properties.                                                             *)

\* Every variable has its type.
TypeOK ==
  /\ position \in {"planned", "bridge_submitted", "deposit_pending",
                   "completed", "manual_review"}
  /\ row \in [state : {"none", "submitted", "confirmed", "reverted",
                       "credited"},
              quote : 0 .. MaxQuotes, nonce : Nonces]
  /\ HasBroadcast => row.quote \in Quotes
  /\ saved \in 0 .. quotes /\ waiting \in BOOLEAN
  /\ pc \in Points /\ quote \in 0 .. quotes /\ nonce \in Nonces
  /\ recipient \in Recipients
  /\ sent \subseteq Tx /\ visible \subseteq sent
  /\ mined \subseteq sent /\ reverted \subseteq sent
  /\ latest \in 0 .. MaxNonce + 1 /\ deep \in 0 .. latest
  /\ request \in [Quotes -> {"none", "paid", "refunded"}]
  /\ status \in [Quotes -> {"waiting", "success", "failure"}]
  /\ proven \subseteq Quotes
  /\ credit \in [Quotes -> {"none", "success", "fail"}]
  /\ quotes \in 0 .. MaxQuotes /\ crashes \in 0 .. MaxCrashes
  /\ reorgs \in 0 .. MaxReorgs

\* Whatever reached the network has its hash in the journal, so a later run
\* observes it; broadcast_durable_transaction commits the hash first.
SentIsJournaled == \A t \in sent : HasBroadcast /\ t = Transfer

\* The checkpoint a run observes with is that of the transfer it observes,
\* although every run before the first signature saves another quote.
CheckpointIsSigned == HasBroadcast => saved = row.quote

\* A position is completed for the credit of its own transfer's payment.
CompletedMeansCredited ==
  position = "completed" => row.quote \in proven /\ credit[row.quote] = "success"

Credited == \E q \in Quotes : credit[q] = "success"
Outcome == CASE position = "completed" -> "completed"
             [] position = "manual_review" -> "review"
             [] OTHER -> "open"
Promise == INSTANCE OneTransfer
  WITH Transfers <- Tx, credited <- Credited, outcome <- Outcome
\* One deposit at most, closed only by a credit or after something was sent,
\* for good: the promise of OneTransfer, over any number of runs.
SingleTransfer == Promise!Spec

\* A transfer that stays delivered, reported and credited gets its position
\* completed, wherever the runs before were cut off.  One whose receipt was
\* once a revert is left out: it is under review, or refused for good.
Delivered ==
  /\ HasBroadcast /\ recipient = Trusted
  /\ Transfer \in mined /\ row.nonce < deep /\ row.state # "reverted"
  /\ status[row.quote] = "success" /\ credit[row.quote] = "success"
DeliveredCompletes ==
  <>[]Delivered => <>(position \in {"completed", "manual_review"})
=============================================================================
