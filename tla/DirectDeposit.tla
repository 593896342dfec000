--------------------------- MODULE DirectDeposit ---------------------------
(***************************************************************************)
(* One direct deposit to the exchange: a route group that holds a single   *)
(* position whose only step signs one transfer, sends it and observes it   *)
(* until the exchange credits it (execute_group_entries for one entry,     *)
(* _submit_live_step's direct_deposit branch, _execute_entry,              *)
(* broadcast_durable_transaction, and the two recoveries of a transfer     *)
(* that can no longer succeed).  The executor may die between two commits  *)
(* and is started again on the same journal; the network may lose, hide,   *)
(* revert or reorganise a transaction, and the wallet's other transfers    *)
(* use up nonces.                                                          *)
(*                                                                         *)
(* Every live execution runs under a stage deadline, so a read that has to *)
(* wait yields: the run ends and a later run looks again.                  *)
(***************************************************************************)
EXTENDS Naturals, RouteJournal

CONSTANTS
  Kinds,        (* "plain", "ethereum" (gas ceiling), "celo" (ERC20 CELO), *)
                (* "scroll" (native Scroll)                                *)
  MaxQuotes,    (* bound: preflights, each preparing another payload       *)
  MaxNonce,     (* bound: nonces the wallet uses, other transfers included *)
  MaxCrashes,   (* bound: process deaths                                   *)
  MaxReorgs,    (* bound: chain reorganisations                            *)
  CrashPoints   (* program points at which the process may die             *)

ASSUME DirectAssumption ==
  /\ MaxQuotes \in Nat /\ MaxNonce \in Nat
  /\ MaxCrashes \in Nat /\ MaxReorgs \in Nat

VARIABLES
  \* the journal (SQLite): survives a crash
  position, group,  (* route_positions.state, route_groups.state           *)
  row,              (* latest route_steps row of each step key             *)
  prepared,         (* payload of the "direct_prepared" checkpoint, 0 none *)
  recovery,         (* "direct_recovery" checkpoint                        *)
  \* the running executor: lost in a crash
  pc, run,
  entry,            (* what the plan says of this position                 *)
  \* the chain and the exchange
  sent, visible,    (* transfers broadcast; those the RPC still knows      *)
  mined, reverted,  (* transfers with a receipt, status 1 and status 0     *)
  latest, final,    (* next nonce; nonces below final cannot be undone     *)
  seen, credited, rejected,  (* what the exchange says of a transfer       *)
  quotes, crashes, reorgs    (* what the bounds count                      *)

journal == <<position, group, row, prepared, recovery>>
process == <<pc, run>>
chain == <<sent, visible, mined, reverted, latest, final>>
exchange == <<seen, credited, rejected>>
world == <<entry, chain, exchange, crashes, reorgs>>
vars == <<journal, process, world, quotes>>

-----------------------------------------------------------------------------
Keys == {"direct_deposit", "recovery1", "replacement1"}
Nonces == 0 .. MaxNonce
Payloads == 0 .. MaxQuotes   (* 0: none *)
Tx == [key : Keys, nonce : Nonces, payload : Payloads]
Points == {"idle", "entry", "submit", "scroll", "celo", "restore", "nonce",
           "sign", "send", "replay", "receipt", "seen", "settle", "close"}

NoRow == [nonce |-> 0, payload |-> 0, state |-> "none"]
NoRecovery == [kind |-> "none", nonce |-> 0, payload |-> 0, winner |-> "none"]

HasHash(k) == row[k].state # "none"
TxOf(k) == [key |-> k, nonce |-> row[k].nonce, payload |-> row[k].payload]
Receipt(t) == IF t \in mined THEN "ok"
              ELSE IF t \in reverted THEN "reverted" ELSE "none"

\* _direct_step_key: the recovery's key, unless a winner has been recorded.
StepKey == CASE recovery.winner # "none" -> recovery.winner
             [] recovery.kind = "scroll" -> "replacement1"
             [] recovery.kind = "celo" -> "recovery1"
             [] OTHER -> "direct_deposit"

\* eth_getTransactionCount "pending": a nonce no known transfer of this
\* position has taken; the wallet's other transfers may hold those below it.
PendingNonce(n) == n >= latest /\ \A t \in visible : t.nonce # n

Idle == [key |-> "direct_deposit", payload |-> 0, nonce |-> 0,
         observing |-> FALSE, result |-> "none"]

\* A run ends.  StageDeadlineExceeded leaves the group active for the next
\* run (yield_stage); an exception that escapes leaves what was committed.
Leave == pc' = "idle" /\ run' = Idle
Yield == group' = "active" /\ Leave
Escape == Leave /\ UNCHANGED group
ToSettle(result) == pc' = "settle" /\ run' = [run EXCEPT !.result = result]

Fresh ==
  /\ ~entry.legacy
  /\ position = "planned" /\ group = "planned"
  /\ row = [k \in Keys |-> NoRow] /\ prepared = 0 /\ quotes = 0
  /\ sent = {} /\ visible = {}

\* A journal inherited from the program's older version: a transfer without a
\* fee cap, without Scroll's L1 fee, sweeping CELO to the last unit.
Legacy ==
  /\ entry.legacy /\ MaxQuotes > 0
  /\ position \in {"direct_deposit_submitted", "deposit_pending"}
  /\ group = "active"
  /\ row = [k \in Keys |-> IF k = "direct_deposit"
              THEN [nonce |-> 0, payload |-> 1, state |-> "submitted"]
              ELSE NoRow]
  /\ prepared = 1 /\ quotes = 1
  /\ sent \in {{}, {TxOf("direct_deposit")}} /\ visible = sent

Init ==
  /\ entry \in [kind : Kinds, auto : BOOLEAN, legacy : BOOLEAN]
  /\ Fresh \/ Legacy
  /\ recovery = NoRecovery
  /\ pc = "idle" /\ run = Idle
  /\ mined = {} /\ reverted = {} /\ latest = 0 /\ final = 0
  /\ seen = {} /\ credited = {} /\ rejected = {}
  /\ crashes = 0 /\ reorgs = 0

-----------------------------------------------------------------------------
(* The group executor around the one position.                             *)

\* A halted group with one known send is reopened (one commit).
ReactivateKnown ==
  /\ pc = "idle" /\ group = "manual_review_group_halted"
  /\ position \in {"manual_review", "deposit_pending"}
  /\ HasHash("direct_deposit")
  /\ row["direct_deposit"].state \notin {"failed", "reverted"}
  /\ position' = "deposit_pending" /\ group' = "deposit_pending"
  /\ UNCHANGED <<row, prepared, recovery, process, world, quotes>>

BeginRun ==
  /\ pc = "idle" /\ group \notin Halts \union {"completed"}
  /\ group' = "active" /\ pc' = "entry"
  /\ UNCHANGED <<position, row, prepared, recovery, run, world, quotes>>

FinishCompleted ==
  /\ pc = "entry" /\ position = "completed"
  /\ pc' = "close" /\ run' = [run EXCEPT !.result = "completed"]
  /\ UNCHANGED <<journal, world, quotes>>

\* Mutated form: only a position already marked pending is observed.
ObservesPending == position = "deposit_pending"

\* A known hash is observed with the checkpointed preparation, never re-signed.
Observes == \/ position = "deposit_pending"
            \/ position = "direct_deposit_submitted" /\ HasHash("direct_deposit")

ObserveSaved ==
  /\ pc = "entry" /\ Observes
  /\ pc' = "submit"
  /\ run' = [run EXCEPT !.payload = prepared, !.observing = TRUE]
  /\ UNCHANGED <<journal, world, quotes>>

Preflights == /\ pc = "entry" /\ ~Observes /\ position # "completed"
              /\ ~HasHash("direct_deposit")

\* A fresh preflight prepares a new payload; the position is marked submitted
\* before the step runs.
PreflightAccepted ==
  /\ Preflights /\ quotes < MaxQuotes
  /\ PositionMayBecome(position, "direct_deposit_submitted")
  /\ quotes' = quotes + 1
  /\ position' = "direct_deposit_submitted"
  /\ pc' = "submit" /\ run' = [run EXCEPT !.payload = quotes + 1]
  /\ UNCHANGED <<group, row, prepared, recovery, world>>

\* The preflight fails for good, or a closed position refuses to be reopened.
PreflightRefused ==
  /\ Preflights /\ ToSettle("manual_review")
  /\ UNCHANGED <<journal, world, quotes>>

PreflightDefersGas ==
  /\ Preflights /\ entry.kind = "ethereum" /\ ToSettle("gas_deferred")
  /\ UNCHANGED <<journal, world, quotes>>

\* The projected loss exceeds the group's budget: halt_remaining from this
\* position on.
OverBudget ==
  /\ Preflights
  /\ IF position \in SettledPositions
       THEN /\ pc' = "close"
            /\ run' = [run EXCEPT !.result =
                         "manual_review_group_threshold_exceeded"]
       ELSE ToSettle("manual_review_group_threshold_exceeded")
  /\ UNCHANGED <<journal, world, quotes>>

PreflightYields ==
  /\ Preflights /\ Yield
  /\ UNCHANGED <<position, row, prepared, recovery, world, quotes>>

\* The position is under review, its transfer is known, and the group was not
\* halted: the saved preparation is used, record_position_state refuses both
\* direct_deposit_submitted and deposit_pending, and ValueError escapes.
ReviewedEscapes ==
  /\ pc = "entry" /\ ~Observes /\ position # "completed"
  /\ HasHash("direct_deposit")
  /\ Escape
  /\ UNCHANGED <<position, row, prepared, recovery, world, quotes>>

\* The outcome of the step is written to the position; a refused transition
\* escapes.  Then the group state is written, in a commit of its own.
GroupResult(result) == IF result = "manual_review"
                         THEN "manual_review_group_halted" ELSE result

\* Mutated form: the group is written with the position, before it.
RecordGroupFirst ==
  /\ pc = "settle"
  /\ group' = GroupResult(run.result)
  /\ pc' = "close" /\ run' = [run EXCEPT !.result = group']
  /\ UNCHANGED <<position, row, prepared, recovery, world, quotes>>

RecordOutcome ==
  /\ pc = "settle"
  /\ IF PositionMayBecome(position, run.result)
       THEN /\ position' = run.result
            /\ pc' = "close"
            /\ run' = [run EXCEPT !.result = GroupResult(run.result)]
            /\ UNCHANGED group
       ELSE Escape /\ UNCHANGED position
  /\ UNCHANGED <<row, prepared, recovery, world, quotes>>

\* Mutated form: the group takes over the state of its position.
CloseAsPosition ==
  /\ pc = "close"
  /\ group' = position
  /\ Leave
  /\ UNCHANGED <<position, row, prepared, recovery, world, quotes>>

CloseGroup ==
  /\ pc = "close"
  /\ group' = IF GroupMayBecome(group, run.result) THEN run.result ELSE group
  /\ Leave
  /\ UNCHANGED <<position, row, prepared, recovery, world, quotes>>

Crash ==
  /\ pc \in CrashPoints \ {"idle"} /\ crashes < MaxCrashes
  /\ crashes' = crashes + 1
  /\ Leave
  /\ UNCHANGED <<journal, entry, chain, exchange, reorgs, quotes>>

-----------------------------------------------------------------------------
(* _submit_live_step, direct_deposit branch: which transfer to look at.    *)

OriginalReceipt == Receipt(TxOf("direct_deposit"))
Superseded == recovery.kind = "scroll" /\ OriginalReceipt # "none"

\* A Scroll transfer that paid no L1 fee, unknown to the network, its nonce
\* still free.
MissingScroll == /\ entry.auto /\ entry.legacy /\ entry.kind = "scroll"
                 /\ HasHash("direct_deposit") /\ recovery = NoRecovery
                 /\ OriginalReceipt = "none"
                 /\ TxOf("direct_deposit") \notin visible
                 /\ latest = row["direct_deposit"].nonce
                 /\ PendingNonce(row["direct_deposit"].nonce)

RevertedCelo == /\ entry.auto /\ entry.kind = "celo" /\ HasHash(StepKey)
                /\ Receipt(TxOf(StepKey)) = "reverted"

\* The replaced transfer was mined after all: it is the winner.
SubmitOriginalWins ==
  /\ pc = "submit" /\ Superseded
  /\ IF OriginalReceipt = "reverted"
       THEN ToSettle("manual_review") /\ UNCHANGED recovery
       ELSE /\ recovery' = [recovery EXCEPT !.winner = "direct_deposit"]
            /\ pc' = "receipt"
            /\ run' = [run EXCEPT !.key = "direct_deposit",
                                  !.payload = recovery.payload]
  /\ UNCHANGED <<position, group, row, prepared, world, quotes>>

\* A known hash is observed, an unknown one is signed; a missing Scroll
\* transfer may be replaced once it is two minutes old.
Submit ==
  /\ pc = "submit" /\ ~Superseded /\ ~RevertedCelo
  /\ prepared' = run.payload
  /\ run' = [run EXCEPT !.key = StepKey]
  /\ \/ MissingScroll /\ pc' = "scroll"
     \/ pc' = IF HasHash(StepKey) THEN "replay"
              ELSE IF recovery # NoRecovery THEN "restore" ELSE "nonce"
  /\ UNCHANGED <<position, group, row, recovery, world, quotes>>

\* _recover_missing_scroll_direct: a fresh preflight, then the checkpoints.
ReplaceScroll ==
  /\ pc = "scroll" /\ quotes < MaxQuotes
  /\ quotes' = quotes + 1 /\ prepared' = quotes + 1
  /\ recovery' = [kind |-> "scroll", nonce |-> row["direct_deposit"].nonce,
                  payload |-> run.payload, winner |-> "none"]
  /\ run' = [run EXCEPT !.key = "replacement1", !.payload = quotes + 1]
  /\ pc' = "nonce"
  /\ UNCHANGED <<position, group, row, world>>

\* _recover_reverted_celo_direct: only the first, legacy transfer, only once
\* its revert is final.  The receipt is recorded before the recovery.
CeloRecoverable == entry.legacy /\ recovery = NoRecovery /\ run.payload = 1

\* Mutated form: a receipt is enough.
RevertHasReceipt == TRUE
RevertIsFinal == row["direct_deposit"].nonce < final

RecordRevert ==
  /\ pc = "submit" /\ RevertedCelo /\ CeloRecoverable
  /\ RevertIsFinal /\ quotes < MaxQuotes
  /\ StepMayBecome(row["direct_deposit"].state, "reverted")
  /\ quotes' = quotes + 1
  /\ row' = [row EXCEPT !["direct_deposit"].state = "reverted"]
  /\ run' = [run EXCEPT !.key = "recovery1", !.payload = quotes + 1]
  /\ pc' = "celo"
  /\ UNCHANGED <<position, group, prepared, recovery, world>>

RecoverCelo ==
  /\ pc = "celo"
  /\ recovery' = [NoRecovery EXCEPT !.kind = "celo"]
  /\ prepared' = run.payload
  /\ pc' = "nonce"
  /\ UNCHANGED <<position, group, row, run, world, quotes>>

\* A second revert, a revert whose cause is not proved, a lossy recovery.
RefuseRecovery ==
  /\ \/ pc = "submit" /\ RevertedCelo
     \/ pc \in {"scroll", "restore"}
  /\ ToSettle("manual_review")
  /\ UNCHANGED <<journal, world, quotes>>

\* The recovery was checkpointed, its transfer never signed: quote it again.
RestoreRecovery ==
  /\ pc = "restore" /\ quotes < MaxQuotes
  /\ quotes' = quotes + 1 /\ prepared' = quotes + 1
  /\ run' = [run EXCEPT !.payload = quotes + 1]
  /\ pc' = "nonce"
  /\ UNCHANGED <<position, group, row, recovery, world>>

\* Any read may run out of the stage's time.
StepYields ==
  /\ pc \in {"submit", "scroll", "restore", "nonce", "sign", "replay",
             "receipt", "seen"}
  /\ Yield
  /\ UNCHANGED <<position, row, prepared, recovery, world, quotes>>

\* Any other exception: a position whose transfer is known stays pending.
StepFails ==
  /\ pc \in {"submit", "scroll", "restore", "nonce", "sign", "replay",
             "receipt"}
  /\ ToSettle(IF run.observing \/ HasHash("direct_deposit")
                THEN "deposit_pending" ELSE "manual_review")
  /\ UNCHANGED <<journal, world, quotes>>

-----------------------------------------------------------------------------
(* _execute_entry and broadcast_durable_transaction.                       *)

\* The nonce is read first; a replacement keeps the nonce it replaces and
\* gives up once that nonce is gone.
ReadNonce ==
  /\ pc = "nonce" /\ run.key # "replacement1"
  /\ \E n \in Nonces : /\ PendingNonce(n)
                       /\ run' = [run EXCEPT !.nonce = n]
  /\ pc' = "sign"
  /\ UNCHANGED <<journal, world, quotes>>

\* Mutated form: the replacement takes the next free nonce.
ReadNextNonce ==
  /\ pc = "nonce" /\ run.key = "replacement1"
  /\ \E n \in Nonces : /\ PendingNonce(n)
                       /\ run' = [run EXCEPT !.nonce = n]
  /\ pc' = "sign"
  /\ UNCHANGED <<journal, world, quotes>>

ReadReplacementNonce ==
  /\ pc = "nonce" /\ run.key = "replacement1"
  /\ latest <= recovery.nonce
  /\ run' = [run EXCEPT !.nonce = recovery.nonce]
  /\ pc' = "sign"
  /\ UNCHANGED <<journal, world, quotes>>

\* require_ethereum_gas_below_limit, immediately before the signature.
SignDefersGas ==
  /\ pc = "sign" /\ entry.kind = "ethereum" /\ ~run.observing
  /\ ToSettle("gas_deferred")
  /\ UNCHANGED <<journal, world, quotes>>

\* Mutated form: the hash is recorded under the nonce that is next now.
SignUnderLatest ==
  /\ pc = "sign" /\ ~HasHash(run.key) /\ latest \in Nonces
  /\ prepared' = run.payload
  /\ row' = [row EXCEPT ![run.key] = [nonce |-> latest,
                            payload |-> run.payload, state |-> "submitted"]]
  /\ pc' = "send"
  /\ UNCHANGED <<position, group, recovery, run, world, quotes>>

\* Sign, checkpoint the preparation, record nonce and hash in one commit.
Sign ==
  /\ pc = "sign" /\ ~HasHash(run.key)
  /\ prepared' = run.payload
  /\ row' = [row EXCEPT ![run.key] = [nonce |-> run.nonce,
                            payload |-> run.payload, state |-> "submitted"]]
  /\ pc' = "send"
  /\ UNCHANGED <<position, group, recovery, run, world, quotes>>

Signed == [key |-> run.key, nonce |-> run.nonce, payload |-> run.payload]
Reaches(t) == sent' = sent \union {t} /\ visible' = visible \union {t}

\* eth_sendRawTransaction answers; the request or its answer is lost
\* (AmbiguousBroadcast yields); the answer is not the hash of the payload.
Send ==
  /\ pc = "send"
  /\ \/ /\ Reaches(Signed) /\ pc' = "receipt"
        /\ run' = [run EXCEPT !.observing = FALSE] /\ UNCHANGED group
     \/ Reaches(Signed) /\ Yield
     \/ UNCHANGED <<sent, visible>> /\ Yield
     \/ /\ Reaches(Signed) \/ UNCHANGED <<sent, visible>>
        /\ ToSettle("deposit_pending") /\ UNCHANGED group
  /\ UNCHANGED <<position, row, prepared, recovery, entry, mined, reverted,
                 latest, final, exchange, crashes, reorgs, quotes>>

\* _replay_missing_direct: identical bytes only, for a capped preparation.
Replays == /\ entry.auto /\ ~(entry.legacy /\ run.payload = 1)
           /\ Receipt(TxOf(run.key)) = "none"
           /\ TxOf(run.key) \notin visible
           /\ latest <= row[run.key].nonce

SkipReplay ==
  /\ pc = "replay" /\ ~Replays
  /\ pc' = "receipt"
  /\ UNCHANGED <<journal, run, world, quotes>>

Replay ==
  /\ pc = "replay" /\ Replays
  /\ LET again == [Signed EXCEPT !.nonce = row[run.key].nonce] IN
       IF again # TxOf(run.key)
         THEN ToSettle("manual_review") /\ UNCHANGED <<sent, visible>>
         ELSE \/ Reaches(again) /\ pc' = "receipt" /\ UNCHANGED run
              \/ /\ Reaches(again) \/ UNCHANGED <<sent, visible>>
                 /\ ToSettle("deposit_pending")
              \/ Reaches(again) /\ ToSettle("manual_review")
  /\ UNCHANGED <<journal, entry, mined, reverted, latest, final, exchange,
                 crashes, reorgs, quotes>>

\* wait_for_receipt: the first transfer of a replaced pair with a receipt is
\* checkpointed as the winner.
ReceiptOk ==
  /\ pc = "receipt" /\ Receipt(TxOf(run.key)) = "ok"
  /\ recovery' = IF recovery.kind = "scroll" /\ run.observing
                   THEN [recovery EXCEPT !.winner = run.key] ELSE recovery
  /\ pc' = "seen"
  /\ UNCHANGED <<position, group, row, prepared, run, world, quotes>>

\* Mutated form: a deposit the exchange has merely seen counts as credited.
CreditWhenSeen ==
  /\ pc = "seen" /\ TxOf(run.key) \in seen
  /\ ToSettle("completed")
  /\ UNCHANGED <<journal, world, quotes>>

\* The exchange's answer about this transfer.
Credit ==
  /\ pc = "seen" /\ TxOf(run.key) \in credited
  /\ row' = [row EXCEPT ![run.key].state =
               IF @ \in {"submitted", "deposit_seen"} THEN "credited" ELSE @]
  /\ ToSettle("completed")
  /\ UNCHANGED <<position, group, prepared, recovery, world, quotes>>

SeenPending ==
  /\ pc = "seen" /\ TxOf(run.key) \in seen \ (credited \union rejected)
  /\ row' = [row EXCEPT ![run.key].state =
               IF @ = "submitted" THEN "deposit_seen" ELSE @]
  /\ ToSettle("deposit_pending")
  /\ UNCHANGED <<position, group, prepared, recovery, world, quotes>>

NotSeenYet ==
  /\ pc = "seen" /\ TxOf(run.key) \notin seen
  /\ ToSettle("deposit_pending")
  /\ UNCHANGED <<journal, world, quotes>>

\* The exchange rejected the deposit, or its answer failed.
DepositFails ==
  /\ pc = "seen"
  /\ ToSettle("manual_review")
  /\ UNCHANGED <<journal, world, quotes>>

-----------------------------------------------------------------------------
(* The chain, the wallet's other transfers and the exchange.               *)

MineTransfer ==
  /\ \E t \in sent :
       /\ t.nonce = latest
       /\ \/ mined' = mined \union {t} /\ UNCHANGED reverted
          \/ reverted' = reverted \union {t} /\ UNCHANGED mined
  /\ latest' = latest + 1
  /\ UNCHANGED <<journal, process, entry, sent, visible, final, exchange,
                 crashes, reorgs, quotes>>

MineOther ==
  /\ latest <= MaxNonce
  /\ latest' = latest + 1
  /\ UNCHANGED <<journal, process, entry, sent, visible, mined, reverted,
                 final, exchange, crashes, reorgs, quotes>>

Finalise ==
  /\ final < latest /\ final' = latest
  /\ UNCHANGED <<journal, process, entry, sent, visible, mined, reverted,
                 latest, exchange, crashes, reorgs, quotes>>

Reorganise ==
  /\ final < latest /\ reorgs < MaxReorgs
  /\ latest' = final /\ reorgs' = reorgs + 1
  /\ mined' = {t \in mined : t.nonce < final}
  /\ reverted' = {t \in reverted : t.nonce < final}
  /\ UNCHANGED <<journal, process, entry, sent, visible, final, exchange,
                 crashes, quotes>>

\* A node forgets a pending transfer, or hears of it again.
Gossip ==
  /\ \E t \in sent : visible' = IF t \in visible THEN visible \ {t}
                                ELSE visible \union {t}
  /\ UNCHANGED <<journal, process, entry, sent, mined, reverted, latest,
                 final, exchange, crashes, reorgs, quotes>>

\* The exchange lists a mined transfer and settles it once it is final.
ExchangeSees ==
  /\ \E t \in mined \ seen : seen' = seen \union {t}
  /\ UNCHANGED <<journal, process, entry, chain, credited, rejected, crashes,
                 reorgs, quotes>>

ExchangeSettles ==
  /\ \E t \in (mined \intersect seen) \ (credited \union rejected) :
       /\ t.nonce < final
       /\ \/ credited' = credited \union {t} /\ UNCHANGED rejected
          \/ rejected' = rejected \union {t} /\ UNCHANGED credited
  /\ UNCHANGED <<journal, process, entry, chain, seen, crashes, reorgs,
                 quotes>>

-----------------------------------------------------------------------------
Executor ==
  \/ ReactivateKnown \/ BeginRun \/ FinishCompleted \/ ObserveSaved
  \/ PreflightAccepted \/ PreflightRefused \/ PreflightDefersGas
  \/ OverBudget \/ PreflightYields \/ ReviewedEscapes
  \/ RecordOutcome \/ CloseGroup

Step ==
  \/ SubmitOriginalWins \/ Submit \/ ReplaceScroll \/ RecordRevert
  \/ RecoverCelo \/ RefuseRecovery \/ RestoreRecovery \/ StepYields
  \/ StepFails \/ ReadNonce \/ ReadReplacementNonce \/ SignDefersGas \/ Sign
  \/ Send \/ SkipReplay \/ Replay \/ ReceiptOk \/ Credit \/ SeenPending
  \/ NotSeenYet \/ DepositFails

Network ==
  \/ MineTransfer \/ MineOther \/ Finalise \/ Reorganise \/ Gossip
  \/ ExchangeSees \/ ExchangeSettles

Next == Executor \/ Step \/ Network \/ Crash

Spec == Init /\ [][Next]_vars

\* The operator runs the command again until the group closes; a read that is
\* possible over and over succeeds in the end.
Fairness == /\ WF_vars(Executor \/ Step)
            /\ SF_vars(Submit) /\ SF_vars(SubmitOriginalWins)
            /\ SF_vars(SkipReplay) /\ SF_vars(ReceiptOk) /\ SF_vars(Credit)

FairSpec == Spec /\ Fairness

-----------------------------------------------------------------------------
(* Properties.                                                             *)

\* Every variable keeps its type.
TypeOK ==
  /\ position \in PositionStates /\ group \in GroupStates
  /\ row \in [Keys -> [nonce : Nonces, payload : Payloads,
                       state : StepStates \union {"none"}]]
  /\ prepared \in Payloads
  /\ recovery \in [kind : {"none", "scroll", "celo"}, nonce : Nonces,
                   payload : Payloads, winner : Keys \union {"none"}]
  /\ pc \in Points
  /\ run \in [key : Keys, payload : Payloads, nonce : Nonces,
              observing : BOOLEAN,
              result : PositionStates \union GroupStates \union {"none"}]
  /\ entry \in [kind : Kinds, auto : BOOLEAN, legacy : BOOLEAN]
  /\ sent \subseteq Tx /\ visible \subseteq sent
  /\ mined \subseteq sent /\ reverted \subseteq sent
  /\ latest \in 0 .. MaxNonce + 1 /\ final \in 0 .. latest
  /\ seen \subseteq Tx /\ credited \subseteq Tx /\ rejected \subseteq Tx
  /\ quotes \in 0 .. MaxQuotes /\ crashes \in 0 .. MaxCrashes
  /\ reorgs \in 0 .. MaxReorgs

\* The balance reaches the exchange at most once: whatever is lost, replayed,
\* replaced or recovered, the chain executes one deposit of this position.
AtMostOneDepositMined == \A t, u \in mined : t = u

\* No transfer reaches the network before its nonce and payload are durable,
\* and the journal never forgets one that did (record_step_intent precedes the
\* broadcast).
SentIsJournaled == \A t \in sent : HasHash(t.key) /\ t = TxOf(t.key)

\* A transfer signed while an earlier one of the position is known either
\* shares its nonce or follows its final revert: the two cannot both succeed.
NoUnsafeResign ==
  [][\A k \in Keys : ~HasHash(k) /\ HasHash(k)' =>
       \A j \in Keys : HasHash(j) =>
         \/ row'[k].nonce = row[j].nonce
         \/ TxOf(j) \in reverted /\ row[j].nonce < final]_vars

\* A position is completed only for a deposit the exchange has credited and
\* the chain cannot undo.
CompletedMeansCredited ==
  position = "completed" =>
    \E t \in credited : t \in mined /\ t.nonce < final

\* The group is closed after its position, never before: a run never meets a
\* closed group whose position is still open (terminal_route_group_position_
\* mismatch), whatever the crash.
ClosedGroupAgrees ==
  /\ group = "completed" => position = "completed"
  /\ group = "deposit_pending" => position = "deposit_pending"
  /\ group = "gas_deferred" => position = "gas_deferred"
  /\ group \in Halts => position \in SettledPositions

\* A deposit the exchange credited is recorded as completed by some later run.
\* The second transfer of a CELO recovery is left out: a failed answer of the
\* exchange about it puts the position under review for good, by
\* reactivate_known_direct_deposit's rule of one known send.
CreditedCompletes ==
  (\E t \in credited : t.key # "recovery1") ~> (position = "completed")

=============================================================================
