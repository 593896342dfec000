------------------------ MODULE DirectDepositProofs ------------------------
(***************************************************************************)
(* The safety properties of DirectDeposit for every value of its constants *)
(* (any bounds, any crash points).  IInv strengthens the checked           *)
(* invariants with what links the journal, the running executor and the    *)
(* chain; it is inductive, and each property follows from it.              *)
(***************************************************************************)
EXTENDS DirectDeposit, TLAPS

\* What a run may leave in run.result, and where.
Outcomes == {"completed", "deposit_pending", "gas_deferred", "manual_review",
             "manual_review_group_threshold_exceeded"}

ResultOK == /\ pc = "settle" => run.result \in Outcomes
            /\ pc = "close" => run.result \in GroupStates

TypeInv == TypeOK /\ ResultOK

\* The first transfer can never succeed any more.
OriginalDead == /\ HasHash("direct_deposit")
                /\ TxOf("direct_deposit") \in reverted
                /\ row["direct_deposit"].nonce < final

\* Which rows may exist under which recovery.
RowsOK ==
  /\ HasHash("replacement1") =>
       /\ recovery.kind = "scroll"
       /\ row["replacement1"].nonce = recovery.nonce
  /\ HasHash("recovery1") => recovery.kind = "celo"
  /\ recovery.kind = "scroll" =>
       /\ HasHash("direct_deposit")
       /\ recovery.nonce = row["direct_deposit"].nonce
  /\ recovery.kind = "celo" => OriginalDead
  /\ recovery.winner # "none" => recovery.kind = "scroll"
  /\ recovery.winner # "recovery1"

\* What the running executor has read is what the journal still says.
RunOK ==
  /\ run.key = "replacement1" => recovery.kind = "scroll"
  /\ run.key = "recovery1" => recovery.kind = "celo" \/ pc = "celo"
  /\ pc = "celo" => OriginalDead /\ recovery = NoRecovery
                      /\ run.key = "recovery1"
  /\ pc = "scroll" => HasHash("direct_deposit") /\ recovery = NoRecovery
  /\ pc = "sign" /\ run.key = "replacement1" => run.nonce = recovery.nonce
  /\ pc = "send" => HasHash(run.key) /\ Signed = TxOf(run.key)
  /\ pc = "replay" => HasHash(run.key)

\* One transfer per nonce, every one of them below the chain's next nonce.
ChainOK ==
  /\ \A t \in mined \union reverted : t.nonce < latest
  /\ \A t, u \in mined \union reverted : t.nonce = u.nonce => t = u
  /\ mined \intersect reverted = {}

\* The exchange credits what is final, and completion follows a credit.
CreditOK ==
  /\ \A t \in credited : t \in mined /\ t.nonce < final
  /\ pc = "settle" /\ run.result = "completed" => credited # {}
  /\ position = "completed" => credited # {}

\* The group stays active while a run is under way; its result fits the
\* position already written.
GroupOK ==
  /\ pc # "idle" => group = "active"
  /\ pc = "close" =>
       /\ run.result = "completed" => position = "completed"
       /\ run.result = "deposit_pending" => position = "deposit_pending"
       /\ run.result = "gas_deferred" => position = "gas_deferred"
       /\ run.result \in Halts => position \in SettledPositions

IInv == /\ TypeInv /\ SentIsJournaled /\ RowsOK /\ RunOK /\ ChainOK
        /\ CreditOK /\ GroupOK /\ ClosedGroupAgrees

-----------------------------------------------------------------------------
(* Types.                                                                  *)

LEMMA TypeInit == Init => TypeInv
  BY DirectAssumption DEF Init, Fresh, Legacy, TypeInv, TypeOK, ResultOK,
     NoRow, NoRecovery, Idle, TxOf, Tx, Keys, Nonces, Payloads, Points,
     PositionStates, GroupStates, StepStates

LEMMA TypeStep == ASSUME TypeInv, [Next]_vars PROVE TypeInv'
<1> USE DirectAssumption DEF TypeInv, TypeOK, ResultOK, journal, process,
        chain, exchange, world
<1> USE DEF Outcomes, PositionStates, GroupStates, Halts, StepStates, Points,
        Keys, Nonces, Payloads
<1>1. CASE ReactivateKnown
  BY <1>1 DEF ReactivateKnown
<1>2. CASE BeginRun
  BY <1>2 DEF BeginRun
<1>3. CASE FinishCompleted
  BY <1>3 DEF FinishCompleted
<1>4. CASE ObserveSaved
  <2>1. run' = [key |-> run.key, payload |-> prepared, nonce |-> run.nonce,
                observing |-> TRUE, result |-> run.result]
    BY <1>4 DEF ObserveSaved
  <2>2. run' \in [key : Keys, payload : Payloads, nonce : Nonces,
                 observing : BOOLEAN,
                 result : PositionStates \union GroupStates \union {"none"}]
    BY <2>1
  <2> QED
    BY <1>4, <2>2 DEF ObserveSaved
<1>5. CASE PreflightAccepted
  BY <1>5 DEF PreflightAccepted, Preflights
<1>6. CASE PreflightRefused
  BY <1>6 DEF PreflightRefused, ToSettle
<1>7. CASE PreflightDefersGas
  BY <1>7 DEF PreflightDefersGas, ToSettle
<1>8. CASE OverBudget
  BY <1>8 DEF OverBudget, ToSettle
<1>9. CASE PreflightYields
  BY <1>9 DEF PreflightYields, Yield, Leave, Idle
<1>10. CASE ReviewedEscapes
  BY <1>10 DEF ReviewedEscapes, Escape, Leave, Idle
<1>11. CASE RecordOutcome
  <2>1. CASE PositionMayBecome(position, run.result)
    <3>1. /\ position' = run.result /\ pc' = "close" /\ UNCHANGED group
          /\ run' = [run EXCEPT !.result = GroupResult(run.result)]
      BY <1>11, <2>1 DEF RecordOutcome
    <3>2. run.result \in Outcomes
      BY <1>11 DEF RecordOutcome
    <3>3. GroupResult(run.result) \in GroupStates
      BY <3>2 DEF GroupResult
    <3> QED
      BY <1>11, <3>1, <3>2, <3>3 DEF RecordOutcome
  <2>2. CASE ~PositionMayBecome(position, run.result)
    <3>1. UNCHANGED <<position, group>> /\ Leave
      BY <1>11, <2>2 DEF RecordOutcome, Escape
    <3> QED
      BY <1>11, <3>1 DEF RecordOutcome, Leave, Idle
  <2> QED
    BY <2>1, <2>2
<1>12. CASE CloseGroup
  BY <1>12 DEF CloseGroup, Leave, Idle
<1>13. CASE SubmitOriginalWins
  <2>1. CASE OriginalReceipt = "reverted"
    BY <1>13, <2>1 DEF SubmitOriginalWins, ToSettle
  <2>2. CASE OriginalReceipt # "reverted"
    <3>1. recovery' = [kind |-> recovery.kind, nonce |-> recovery.nonce,
                       payload |-> recovery.payload,
                       winner |-> "direct_deposit"]
      BY <1>13, <2>2 DEF SubmitOriginalWins
    <3>2. run' = [key |-> "direct_deposit", payload |-> recovery.payload,
                  nonce |-> run.nonce, observing |-> run.observing,
                  result |-> run.result]
      BY <1>13, <2>2 DEF SubmitOriginalWins
    <3> QED
      BY <1>13, <2>2, <3>1, <3>2 DEF SubmitOriginalWins
  <2> QED
    BY <2>1, <2>2
<1>14. CASE Submit
  BY <1>14 DEF Submit, StepKey
<1>15. CASE ReplaceScroll
  <2>1. row["direct_deposit"].nonce \in Nonces
    OBVIOUS
  <2>2. run' = [key |-> "replacement1", payload |-> quotes + 1,
                nonce |-> run.nonce, observing |-> run.observing,
                result |-> run.result]
    BY <1>15 DEF ReplaceScroll
  <2>3. quotes + 1 \in Payloads
    BY <1>15 DEF ReplaceScroll
  <2> QED
    BY <1>15, <2>1, <2>2, <2>3 DEF ReplaceScroll
<1>16. CASE RecordRevert
  <2>1. run' = [key |-> "recovery1", payload |-> quotes + 1,
                nonce |-> run.nonce, observing |-> run.observing,
                result |-> run.result]
    BY <1>16 DEF RecordRevert
  <2>2. quotes + 1 \in Payloads
    BY <1>16 DEF RecordRevert
  <2>3. row' \in [Keys -> [nonce : Nonces, payload : Payloads,
                           state : StepStates \union {"none"}]]
    BY <1>16 DEF RecordRevert
  <2> QED
    BY <1>16, <2>1, <2>2, <2>3 DEF RecordRevert
<1>17. CASE RecoverCelo
  BY <1>17 DEF RecoverCelo, NoRecovery
<1>18. CASE RefuseRecovery
  BY <1>18 DEF RefuseRecovery, ToSettle
<1>19. CASE RestoreRecovery
  BY <1>19 DEF RestoreRecovery
<1>20. CASE StepYields
  BY <1>20 DEF StepYields, Yield, Leave, Idle
<1>21. CASE StepFails
  BY <1>21 DEF StepFails, ToSettle
<1>22. CASE ReadNonce
  BY <1>22 DEF ReadNonce
<1>23. CASE ReadReplacementNonce
  BY <1>23 DEF ReadReplacementNonce
<1>24. CASE SignDefersGas
  BY <1>24 DEF SignDefersGas, ToSettle
<1>25. CASE Sign
  BY <1>25 DEF Sign
<1>26. CASE Send
  <2>1. Signed \in Tx
    BY DEF Signed, Tx
  <2>2. sent' \subseteq Tx /\ visible' \subseteq sent' /\ sent \subseteq sent'
    BY <1>26, <2>1 DEF Send, Reaches
  <2>3. CASE pc' = "receipt" /\ UNCHANGED group
             /\ run' = [run EXCEPT !.observing = FALSE]
    <3>1. run' \in [key : Keys, payload : Payloads, nonce : Nonces,
                   observing : BOOLEAN,
                   result : PositionStates \union GroupStates
                              \union {"none"}]
      BY <2>3
    <3> QED
      BY <1>26, <2>2, <2>3, <3>1 DEF Send
  <2>4. CASE Leave
    BY <1>26, <2>2, <2>4 DEF Send, Yield, Leave, Idle, ToSettle
  <2>5. CASE ToSettle("deposit_pending")
    BY <1>26, <2>2, <2>5 DEF Send, Yield, Leave, Idle, ToSettle
  <2> QED
    BY <1>26, <2>3, <2>4, <2>5 DEF Send, Yield
<1>27. CASE SkipReplay
  BY <1>27 DEF SkipReplay
<1>28. CASE Replay
  BY <1>28 DEF Replay, Reaches, Signed, Tx, ToSettle
<1>29. CASE ReceiptOk
  BY <1>29 DEF ReceiptOk
<1>30. CASE Credit
  BY <1>30 DEF Credit, ToSettle
<1>31. CASE SeenPending
  BY <1>31 DEF SeenPending, ToSettle
<1>32. CASE NotSeenYet
  BY <1>32 DEF NotSeenYet, ToSettle
<1>33. CASE DepositFails
  BY <1>33 DEF DepositFails, ToSettle
<1>34. CASE MineTransfer
  BY <1>34 DEF MineTransfer, Tx
<1>35. CASE MineOther
  BY <1>35 DEF MineOther
<1>36. CASE Finalise
  BY <1>36 DEF Finalise
<1>37. CASE Reorganise
  BY <1>37 DEF Reorganise
<1>38. CASE Gossip
  BY <1>38 DEF Gossip
<1>39. CASE ExchangeSees
  BY <1>39 DEF ExchangeSees, Tx
<1>40. CASE ExchangeSettles
  BY <1>40 DEF ExchangeSettles, Tx
<1>41. CASE Crash
  BY <1>41 DEF Crash, Leave, Idle
<1>42. CASE UNCHANGED vars
  BY <1>42 DEF vars
<1> QED
  BY <1>1, <1>2, <1>3, <1>4, <1>5, <1>6, <1>7, <1>8, <1>9, <1>10, <1>11, <1>12, <1>13, <1>14, <1>15, <1>16, <1>17, <1>18, <1>19, <1>20, <1>21, <1>22, <1>23, <1>24, <1>25, <1>26, <1>27, <1>28, <1>29, <1>30, <1>31, <1>32, <1>33, <1>34, <1>35, <1>36, <1>37, <1>38, <1>39, <1>40, <1>41, <1>42 DEF Next, Executor, Step, Network

-----------------------------------------------------------------------------
(* What each part of the state can be changed by.                          *)

LEMMA RowFrame ==
  [Next]_vars => UNCHANGED row \/ RecordRevert \/ Sign \/ Credit \/ SeenPending
<1> USE DEF journal, process, chain, exchange, world
<1>1. Executor => UNCHANGED row
  BY DEF Executor, ReactivateKnown, BeginRun, FinishCompleted, ObserveSaved,
     PreflightAccepted, PreflightRefused, PreflightDefersGas, OverBudget,
     PreflightYields, ReviewedEscapes, RecordOutcome, CloseGroup
<1>2. Step => UNCHANGED row \/ RecordRevert \/ Sign \/ Credit \/ SeenPending
  BY DEF Step, SubmitOriginalWins, Submit, ReplaceScroll, RecoverCelo,
     RefuseRecovery, RestoreRecovery, StepYields, StepFails, ReadNonce,
     ReadReplacementNonce, SignDefersGas, Send, SkipReplay, Replay, ReceiptOk,
     NotSeenYet, DepositFails
<1>3. Network \/ Crash \/ UNCHANGED vars => UNCHANGED row
  BY DEF Network, MineTransfer, MineOther, Finalise, Reorganise, Gossip,
     ExchangeSees, ExchangeSettles, Crash, vars
<1> QED
  BY <1>1, <1>2, <1>3 DEF Next

LEMMA RecoveryFrame ==
  [Next]_vars => UNCHANGED recovery \/ SubmitOriginalWins \/ ReplaceScroll
                   \/ RecoverCelo \/ ReceiptOk
<1> USE DEF journal, process, chain, exchange, world
<1>1. Executor => UNCHANGED recovery
  BY DEF Executor, ReactivateKnown, BeginRun, FinishCompleted, ObserveSaved,
     PreflightAccepted, PreflightRefused, PreflightDefersGas, OverBudget,
     PreflightYields, ReviewedEscapes, RecordOutcome, CloseGroup
<1>2. Step => UNCHANGED recovery \/ SubmitOriginalWins \/ ReplaceScroll
                \/ RecoverCelo \/ ReceiptOk
  BY DEF Step, Submit, RecordRevert, RefuseRecovery, RestoreRecovery,
     StepYields, StepFails, ReadNonce, ReadReplacementNonce, SignDefersGas,
     Sign, Send, SkipReplay, Replay, Credit, SeenPending, NotSeenYet,
     DepositFails
<1>3. Network \/ Crash \/ UNCHANGED vars => UNCHANGED recovery
  BY DEF Network, MineTransfer, MineOther, Finalise, Reorganise, Gossip,
     ExchangeSees, ExchangeSettles, Crash, vars
<1> QED
  BY <1>1, <1>2, <1>3 DEF Next

LEMMA ChainFrame ==
  [Next]_vars => \/ UNCHANGED <<mined, reverted, latest, final>>
                 \/ MineTransfer \/ MineOther \/ Finalise \/ Reorganise
<1> USE DEF journal, process, chain, exchange, world
<1>1. Executor => UNCHANGED <<mined, reverted, latest, final>>
  BY DEF Executor, ReactivateKnown, BeginRun, FinishCompleted, ObserveSaved,
     PreflightAccepted, PreflightRefused, PreflightDefersGas, OverBudget,
     PreflightYields, ReviewedEscapes, RecordOutcome, CloseGroup
<1>2. Step => UNCHANGED <<mined, reverted, latest, final>>
  BY DEF Step, SubmitOriginalWins, Submit, ReplaceScroll, RecordRevert,
     RecoverCelo, RefuseRecovery, RestoreRecovery, StepYields, StepFails,
     ReadNonce, ReadReplacementNonce, SignDefersGas, Sign, Send, SkipReplay,
     Replay, ReceiptOk, Credit, SeenPending, NotSeenYet, DepositFails
<1>3. Network \/ Crash \/ UNCHANGED vars
        => \/ UNCHANGED <<mined, reverted, latest, final>>
           \/ MineTransfer \/ MineOther \/ Finalise \/ Reorganise
  BY DEF Network, Gossip, ExchangeSees, ExchangeSettles, Crash, vars
<1> QED
  BY <1>1, <1>2, <1>3 DEF Next

-----------------------------------------------------------------------------
(* The journal keeps every signature, the chain every final revert.        *)

LEMMA RowsKept ==
  ASSUME TypeInv, [Next]_vars, NEW k \in Keys, HasHash(k)
  PROVE  HasHash(k)' /\ TxOf(k)' = TxOf(k)
<1> USE DEF TypeInv, TypeOK, HasHash, TxOf
<1>1. CASE UNCHANGED row
  BY <1>1
<1>2. CASE RecordRevert
  BY <1>2 DEF RecordRevert, Keys
<1>3. CASE Sign
  BY <1>3 DEF Sign
<1>4. CASE Credit
  BY <1>4 DEF Credit
<1>5. CASE SeenPending
  BY <1>5 DEF SeenPending
<1> QED
  BY <1>1, <1>2, <1>3, <1>4, <1>5, RowFrame

LEMMA OnlySignSigns ==
  ASSUME TypeInv, [Next]_vars, NEW k \in Keys, ~HasHash(k), HasHash(k)'
  PROVE  /\ Sign /\ k = run.key
         /\ row'[k].nonce = run.nonce /\ TxOf(k)' = Signed
<1> USE DEF TypeInv, TypeOK, HasHash, TxOf, Signed
<1>1. CASE UNCHANGED row
  BY <1>1
<1>2. CASE RecordRevert
  <2>1. StepKey = "direct_deposit" /\ HasHash(StepKey)
    BY <1>2 DEF RecordRevert, RevertedCelo, CeloRecoverable, StepKey,
       NoRecovery
  <2> QED
    BY <1>2, <2>1 DEF RecordRevert, Keys
<1>3. CASE Sign
  BY <1>3 DEF Sign
<1>4. CASE Credit
  BY <1>4 DEF Credit
<1>5. CASE SeenPending
  BY <1>5 DEF SeenPending
<1> QED
  BY <1>1, <1>2, <1>3, <1>4, <1>5, RowFrame

LEMMA DeadStep ==
  ASSUME TypeInv, [Next]_vars, OriginalDead PROVE OriginalDead'
<1> DEFINE T == TxOf("direct_deposit")
<1>1. "direct_deposit" \in Keys
  BY DEF Keys
<1>2. HasHash("direct_deposit")' /\ T' = T
  BY <1>1, RowsKept DEF OriginalDead
<1>3. row'["direct_deposit"].nonce = row["direct_deposit"].nonce
  BY <1>2 DEF TxOf
<1>4. T \in reverted /\ T.nonce = row["direct_deposit"].nonce
  BY DEF OriginalDead, TxOf
<1>5. row["direct_deposit"].nonce \in Nat /\ latest \in Nat /\ final \in Nat
  BY <1>1, DirectAssumption DEF TypeInv, TypeOK, Nonces
<1>6. T \in reverted' /\ row["direct_deposit"].nonce < final'
  <2>1. CASE UNCHANGED <<mined, reverted, latest, final>>
    BY <2>1, <1>4 DEF OriginalDead
  <2>2. CASE MineTransfer
    BY <2>2, <1>4 DEF MineTransfer, OriginalDead
  <2>3. CASE MineOther
    BY <2>3, <1>4 DEF MineOther, OriginalDead
  <2>4. CASE Finalise
    BY <2>4, <1>4, <1>5 DEF Finalise, OriginalDead
  <2>5. CASE Reorganise
    BY <2>5, <1>4 DEF Reorganise, OriginalDead
  <2> QED
    BY <2>1, <2>2, <2>3, <2>4, <2>5, ChainFrame
<1> QED
  BY <1>2, <1>3, <1>6 DEF OriginalDead

-----------------------------------------------------------------------------
(* Each conjunct of IInv is kept by every step.                            *)

LEMMA SafeInit == Init => IInv
<1> SUFFICES ASSUME Init PROVE IInv
  OBVIOUS
<1>1. TypeInv
  BY TypeInit
<1>2. SentIsJournaled
  BY DEF Init, Fresh, Legacy, SentIsJournaled, HasHash, TxOf, Keys
<1>3. RowsOK
  BY DEF Init, Fresh, Legacy, RowsOK, NoRecovery, HasHash, Keys, NoRow
<1>4. RunOK
  BY DEF Init, RunOK, Idle
<1>5. ChainOK /\ CreditOK /\ GroupOK /\ ClosedGroupAgrees
  BY DEF Init, Fresh, Legacy, ChainOK, CreditOK, GroupOK, ClosedGroupAgrees,
     Halts, SettledPositions
<1> QED
  BY <1>1, <1>2, <1>3, <1>4, <1>5 DEF IInv

LEMMA SentStep ==
  ASSUME IInv, [Next]_vars PROVE SentIsJournaled'
<1> USE DEF IInv, TypeInv, TypeOK
<1>1. \A t \in sent : (HasHash(t.key) /\ t = TxOf(t.key))'
  BY RowsKept DEF SentIsJournaled, Tx
<1>2. ASSUME NEW t \in sent', t \notin sent
      PROVE  HasHash(t.key)' /\ t = TxOf(t.key)'
  <2>1. Send \/ Replay
    <3> USE DEF journal, process, chain, exchange, world
    <3>1. CASE Executor
      BY <1>2, <3>1 DEF Executor, ReactivateKnown, BeginRun, FinishCompleted,
         ObserveSaved, PreflightAccepted, PreflightRefused,
         PreflightDefersGas, OverBudget, PreflightYields, ReviewedEscapes,
         RecordOutcome, CloseGroup
    <3>2. CASE Step
      BY <1>2, <3>2 DEF Step, SubmitOriginalWins, Submit, ReplaceScroll,
         RecordRevert, RecoverCelo, RefuseRecovery, RestoreRecovery,
         StepYields, StepFails, ReadNonce, ReadReplacementNonce,
         SignDefersGas, Sign, SkipReplay, ReceiptOk, Credit, SeenPending,
         NotSeenYet, DepositFails
    <3>3. CASE Network \/ Crash \/ UNCHANGED vars
      BY <1>2, <3>3 DEF Network, MineTransfer, MineOther, Finalise,
         Reorganise, Gossip, ExchangeSees, ExchangeSettles, Crash, vars
    <3> QED
      BY <3>1, <3>2, <3>3 DEF Next
  <2>2. t = TxOf(run.key) /\ HasHash(run.key) /\ UNCHANGED row
    <3>1. CASE Send
      BY <1>2, <3>1 DEF Send, Reaches, RunOK
    <3>2. CASE Replay
      BY <1>2, <3>2 DEF Replay, Reaches, RunOK, journal
    <3> QED
      BY <2>1, <3>1, <3>2
  <2>3. run.key \in Keys /\ t.key = run.key
    BY <2>2 DEF TxOf
  <2> QED
    BY <2>2, <2>3 DEF HasHash, TxOf
<1> QED
  BY <1>1, <1>2 DEF SentIsJournaled

LEMMA RowsStep ==
  ASSUME IInv, [Next]_vars PROVE RowsOK'
<1> USE DEF IInv, TypeInv, TypeOK
<1> DEFINE D == "direct_deposit"
<1>0. /\ D \in Keys /\ "recovery1" \in Keys /\ "replacement1" \in Keys
  BY DEF Keys
<1>1. \A k \in Keys : HasHash(k) =>
        HasHash(k)' /\ row'[k].nonce = row[k].nonce
  BY RowsKept DEF TxOf
<1>2. OriginalDead => OriginalDead'
  BY DeadStep
<1>3. CASE UNCHANGED recovery
  <2>1. HasHash("replacement1")' =>
          recovery.kind = "scroll" /\ row'["replacement1"].nonce = recovery.nonce
    <3>1. CASE HasHash("replacement1")
      BY <1>0, <1>1, <3>1 DEF RowsOK
    <3>2. CASE ~HasHash("replacement1")
      BY <1>0, <3>2, OnlySignSigns DEF RunOK, Sign
    <3> QED
      BY <3>1, <3>2
  <2>2. HasHash("recovery1")' => recovery.kind = "celo"
    <3>1. CASE HasHash("recovery1")
      BY <3>1 DEF RowsOK
    <3>2. CASE ~HasHash("recovery1")
      BY <1>0, <3>2, OnlySignSigns DEF RunOK, Sign
    <3> QED
      BY <3>1, <3>2
  <2> QED
    BY <1>0, <1>1, <1>2, <1>3, <2>1, <2>2 DEF RowsOK
<1>4. CASE SubmitOriginalWins
  <2>1. UNCHANGED row
    BY <1>4 DEF SubmitOriginalWins
  <2>2. /\ recovery'.kind = recovery.kind /\ recovery'.nonce = recovery.nonce
        /\ recovery'.winner # "none" => recovery.kind = "scroll"
        /\ recovery'.winner # "recovery1"
    BY <1>4 DEF SubmitOriginalWins, Superseded, RowsOK
  <2> QED
    BY <1>2, <2>1, <2>2 DEF RowsOK, HasHash
<1>5. CASE ReplaceScroll
  <2>1. /\ UNCHANGED row /\ HasHash(D) /\ recovery = NoRecovery
        /\ recovery' = [kind |-> "scroll", nonce |-> row[D].nonce,
                        payload |-> run.payload, winner |-> "none"]
    BY <1>5 DEF ReplaceScroll, RunOK
  <2>2. ~HasHash("replacement1") /\ ~HasHash("recovery1")
    BY <2>1 DEF RowsOK, NoRecovery
  <2> QED
    BY <2>1, <2>2 DEF RowsOK, HasHash
<1>6. CASE RecoverCelo
  <2>1. /\ UNCHANGED row /\ OriginalDead /\ recovery = NoRecovery
        /\ recovery' = [NoRecovery EXCEPT !.kind = "celo"]
    BY <1>6 DEF RecoverCelo, RunOK
  <2>2. ~HasHash("replacement1")
    BY <2>1 DEF RowsOK, NoRecovery
  <2>3. recovery'.kind = "celo" /\ recovery'.winner = "none"
    BY <2>1 DEF NoRecovery
  <2> QED
    BY <1>2, <2>1, <2>2, <2>3 DEF RowsOK, HasHash
<1>7. CASE ReceiptOk
  <2>1. UNCHANGED row
    BY <1>7 DEF ReceiptOk
  <2>2. /\ recovery'.kind = recovery.kind /\ recovery'.nonce = recovery.nonce
        /\ recovery'.winner # "none" => recovery.kind = "scroll"
        /\ recovery'.winner # "recovery1"
    <3>1. CASE recovery.kind = "scroll" /\ run.observing
      BY <1>7, <3>1 DEF ReceiptOk, RunOK, RowsOK
    <3>2. CASE ~(recovery.kind = "scroll" /\ run.observing)
      BY <1>7, <3>2 DEF ReceiptOk, RowsOK
    <3> QED
      BY <3>1, <3>2
  <2> QED
    BY <1>2, <2>1, <2>2 DEF RowsOK, HasHash
<1> QED
  BY <1>3, <1>4, <1>5, <1>6, <1>7, RecoveryFrame

LEMMA ChainStep ==
  ASSUME IInv, [Next]_vars PROVE ChainOK'
<1> USE DEF IInv, TypeInv, TypeOK
<1>0. latest \in Nat /\ final \in Nat /\ \A t \in Tx : t.nonce \in Nat
  BY DirectAssumption DEF Tx, Nonces
<1>1. CASE UNCHANGED <<mined, reverted, latest, final>>
  BY <1>1 DEF ChainOK
<1>2. CASE MineTransfer
  <2>1. PICK t \in sent :
          /\ t.nonce = latest
          /\ \/ mined' = mined \union {t} /\ UNCHANGED reverted
             \/ reverted' = reverted \union {t} /\ UNCHANGED mined
    BY <1>2 DEF MineTransfer
  <2>2. latest' = latest + 1
    BY <1>2 DEF MineTransfer
  <2>3. \A u \in mined \union reverted : u \in Tx /\ u.nonce < latest
    BY DEF ChainOK
  <2>4. t \notin mined \union reverted
    BY <1>0, <2>1, <2>3
  <2> QED
    BY <1>0, <2>1, <2>2, <2>3, <2>4 DEF ChainOK
<1>3. CASE MineOther
  <2>1. UNCHANGED <<mined, reverted>> /\ latest' = latest + 1
    BY <1>3 DEF MineOther
  <2> QED
    BY <1>0, <2>1 DEF ChainOK
<1>4. CASE Finalise
  BY <1>4 DEF Finalise, ChainOK
<1>5. CASE Reorganise
  BY <1>5 DEF Reorganise, ChainOK
<1> QED
  BY <1>1, <1>2, <1>3, <1>4, <1>5, ChainFrame

LEMMA RunStep ==
  ASSUME IInv, [Next]_vars PROVE RunOK'
<1> USE DEF IInv, TypeInv, TypeOK, journal, process, chain, exchange, world
<1> DEFINE Quiet ==
      /\ UNCHANGED recovery
      /\ run'.key = run.key \/ run'.key = "direct_deposit"
      /\ pc' \notin {"celo", "scroll", "sign", "send", "replay"}
      /\ pc # "celo" \/ run'.key = "direct_deposit"
<1>0. Quiet => RunOK'
  BY DEF RunOK
<1> HIDE DEF Quiet
<1>1. CASE Executor
  <2>1. ASSUME \/ ReactivateKnown \/ BeginRun \/ FinishCompleted
               \/ ObserveSaved \/ PreflightAccepted
        PROVE  Quiet
    BY <2>1 DEF ReactivateKnown, BeginRun, FinishCompleted, ObserveSaved,
       PreflightAccepted, Preflights, Quiet
  <2>2. ASSUME \/ PreflightRefused \/ PreflightDefersGas \/ OverBudget
               \/ PreflightYields \/ ReviewedEscapes
        PROVE  Quiet
    BY <2>2 DEF PreflightRefused, PreflightDefersGas, OverBudget,
       PreflightYields, ReviewedEscapes, Yield, Escape, Leave, Idle, ToSettle,
       Preflights, Quiet
  <2>3. ASSUME RecordOutcome \/ CloseGroup
        PROVE  Quiet
    BY <2>3 DEF RecordOutcome, CloseGroup, Escape, Leave, Idle, Quiet
  <2> QED
    BY <1>0, <1>1, <2>1, <2>2, <2>3 DEF Executor
<1>2. CASE \/ RefuseRecovery \/ RestoreRecovery \/ StepYields \/ StepFails
           \/ SignDefersGas \/ NotSeenYet \/ DepositFails
  <2>1. Quiet
    BY <1>2 DEF RefuseRecovery, RestoreRecovery, StepYields, StepFails,
       SignDefersGas, NotSeenYet, DepositFails, Yield, Leave, Idle, ToSettle,
       Quiet
  <2> QED
    BY <1>0, <2>1
<1>3. CASE \/ Send \/ SkipReplay \/ Replay \/ Credit \/ SeenPending
  <2>1. Quiet
    BY <1>3 DEF Send, SkipReplay, Replay, Credit, SeenPending, Yield, Leave,
       Idle, ToSettle, Quiet
  <2> QED
    BY <1>0, <2>1
<1>4. CASE SubmitOriginalWins
  BY <1>4 DEF SubmitOriginalWins, ToSettle, Superseded, RunOK
<1>5. CASE Submit
  <2>1. /\ UNCHANGED <<row, recovery>> /\ run'.key = StepKey
        /\ pc' \in {"scroll", "replay", "restore", "nonce"}
        /\ pc' = "scroll" => HasHash("direct_deposit") /\ recovery = NoRecovery
        /\ pc' = "replay" => HasHash(StepKey)
    BY <1>5 DEF Submit, MissingScroll
  <2>2. /\ StepKey = "replacement1" => recovery.kind = "scroll"
        /\ StepKey = "recovery1" => recovery.kind = "celo"
    BY DEF StepKey, RowsOK
  <2> QED
    BY <2>1, <2>2 DEF RunOK, HasHash
<1>6. CASE ReplaceScroll
  BY <1>6 DEF ReplaceScroll, RunOK
<1>7. CASE RecordRevert
  <2>1. StepKey = "direct_deposit" /\ HasHash("direct_deposit")
    BY <1>7 DEF RecordRevert, RevertedCelo, CeloRecoverable, StepKey,
       NoRecovery
  <2>2. OriginalDead
    BY <1>7, <2>1 DEF RecordRevert, RevertedCelo, RevertIsFinal, Receipt,
       OriginalDead
  <2>3. OriginalDead'
    BY <2>2, DeadStep
  <2>4. /\ UNCHANGED recovery /\ recovery = NoRecovery /\ pc' = "celo"
        /\ run'.key = "recovery1"
    BY <1>7 DEF RecordRevert, CeloRecoverable
  <2> QED
    BY <2>3, <2>4 DEF RunOK
<1>8. CASE RecoverCelo
  BY <1>8 DEF RecoverCelo, NoRecovery, RunOK
<1>9. CASE ReadNonce \/ ReadReplacementNonce
  BY <1>9 DEF ReadNonce, ReadReplacementNonce, RunOK
<1>10. CASE Sign
  BY <1>10 DEF Sign, RunOK, HasHash, Signed, TxOf, StepStates
<1>11. CASE ReceiptOk
  BY <1>11 DEF ReceiptOk, RunOK
<1>12. CASE Network \/ UNCHANGED vars
  <2>1. UNCHANGED <<position, group, row, prepared, recovery, pc, run>>
    BY <1>12 DEF Network, MineTransfer, MineOther, Finalise, Reorganise,
       Gossip, ExchangeSees, ExchangeSettles, vars
  <2>2. pc = "celo" => OriginalDead'
    BY DeadStep DEF RunOK
  <2> QED
    BY <2>1, <2>2 DEF RunOK, HasHash, Signed, TxOf
<1>13. CASE Crash
  BY <1>13 DEF Crash, Leave, Idle, RunOK
<1> QED
  BY <1>1, <1>2, <1>3, <1>4, <1>5, <1>6, <1>7, <1>8, <1>9, <1>10, <1>11,
     <1>12, <1>13 DEF Next, Step

LEMMA CreditStep ==
  ASSUME IInv, [Next]_vars PROVE CreditOK'
<1> USE DEF IInv, TypeInv, TypeOK, journal, process, chain, exchange, world
<1>0. latest \in Nat /\ final \in Nat /\ \A t \in Tx : t.nonce \in Nat
  BY DirectAssumption DEF Tx, Nonces
<1>1. credited \subseteq credited'
      /\ \A t \in credited' : t \in mined' /\ t.nonce < final'
  <2>1. CASE ExchangeSettles
    BY <2>1 DEF ExchangeSettles, CreditOK
  <2>2. CASE ~ExchangeSettles
    <3>1. UNCHANGED credited
      <4>1. CASE Executor
        BY <4>1 DEF Executor, ReactivateKnown, BeginRun, FinishCompleted,
           ObserveSaved, PreflightAccepted, PreflightRefused,
           PreflightDefersGas, OverBudget, PreflightYields, ReviewedEscapes,
           RecordOutcome, CloseGroup
      <4>2. CASE Step
        BY <4>2 DEF Step, SubmitOriginalWins, Submit, ReplaceScroll,
           RecordRevert, RecoverCelo, RefuseRecovery, RestoreRecovery,
           StepYields, StepFails, ReadNonce, ReadReplacementNonce,
           SignDefersGas, Sign, Send, SkipReplay, Replay, ReceiptOk, Credit,
           SeenPending, NotSeenYet, DepositFails
      <4>3. CASE Network \/ Crash \/ UNCHANGED vars
        BY <2>2, <4>3 DEF Network, MineTransfer, MineOther, Finalise,
           Reorganise, Gossip, ExchangeSees, Crash, vars
      <4> QED
        BY <4>1, <4>2, <4>3 DEF Next
    <3>2. CASE UNCHANGED <<mined, reverted, latest, final>>
      BY <3>1, <3>2 DEF CreditOK
    <3>3. CASE MineTransfer
      BY <3>1, <3>3 DEF MineTransfer, CreditOK
    <3>4. CASE MineOther
      BY <3>1, <3>4 DEF MineOther, CreditOK
    <3>5. CASE Finalise
      BY <1>0, <3>1, <3>5 DEF Finalise, CreditOK
    <3>6. CASE Reorganise
      BY <3>1, <3>6 DEF Reorganise, CreditOK
    <3> QED
      BY <3>2, <3>3, <3>4, <3>5, <3>6, ChainFrame
  <2> QED
    BY <2>1, <2>2
<1> DEFINE Claims == \/ position = "completed"
                     \/ pc = "settle" /\ run.result = "completed"
<1>2. Claims' => Claims \/ credited # {}
  <2>1. CASE Executor
    BY <2>1 DEF Executor, ReactivateKnown, BeginRun, FinishCompleted,
       ObserveSaved, PreflightAccepted, PreflightRefused, PreflightDefersGas,
       OverBudget, PreflightYields, ReviewedEscapes, RecordOutcome,
       CloseGroup, Yield, Escape, Leave, ToSettle
  <2>2. CASE Credit
    BY <2>2 DEF Credit
  <2>3. CASE Step /\ ~Credit
    BY <2>3 DEF Step, SubmitOriginalWins, Submit, ReplaceScroll,
       RecordRevert, RecoverCelo, RefuseRecovery, RestoreRecovery,
       StepYields, StepFails, ReadNonce, ReadReplacementNonce, SignDefersGas,
       Sign, Send, SkipReplay, Replay, ReceiptOk, SeenPending, NotSeenYet,
       DepositFails, Yield, Leave, ToSettle
  <2>4. CASE Network \/ Crash \/ UNCHANGED vars
    BY <2>4 DEF Network, MineTransfer, MineOther, Finalise, Reorganise,
       Gossip, ExchangeSees, ExchangeSettles, Crash, Leave, vars
  <2> QED
    BY <2>1, <2>2, <2>3, <2>4 DEF Next
<1> QED
  BY <1>1, <1>2 DEF CreditOK

LEMMA GroupStep ==
  ASSUME IInv, [Next]_vars PROVE GroupOK' /\ ClosedGroupAgrees'
<1> USE DEF IInv, TypeInv, TypeOK, journal, process, chain, exchange, world
<1> USE DEF GroupOK, ClosedGroupAgrees, Halts, SettledPositions
<1>1. CASE ReactivateKnown \/ BeginRun \/ FinishCompleted \/ ObserveSaved
  BY <1>1 DEF ReactivateKnown, BeginRun, FinishCompleted, ObserveSaved
<1>2. CASE \/ PreflightAccepted \/ PreflightRefused \/ PreflightDefersGas
           \/ OverBudget \/ PreflightYields \/ ReviewedEscapes
  BY <1>2 DEF PreflightAccepted, PreflightRefused, PreflightDefersGas,
     OverBudget, PreflightYields, ReviewedEscapes, Preflights, Yield, Escape,
     Leave, ToSettle
<1>3. CASE RecordOutcome
  <2>1. CASE PositionMayBecome(position, run.result)
    <3>1. /\ run.result \in Outcomes /\ position' = run.result
          /\ pc' = "close" /\ UNCHANGED group /\ group = "active"
          /\ run'.result = GroupResult(run.result)
      BY <1>3, <2>1 DEF RecordOutcome, ResultOK
    <3> QED
      BY <3>1 DEF Outcomes, GroupResult
  <2>2. CASE ~PositionMayBecome(position, run.result)
    BY <1>3, <2>2 DEF RecordOutcome, Escape, Leave
  <2> QED
    BY <2>1, <2>2
<1>4. CASE CloseGroup
  BY <1>4 DEF CloseGroup, Leave
<1>5. CASE Step
  BY <1>5 DEF Step, SubmitOriginalWins, Submit, ReplaceScroll, RecordRevert,
     RecoverCelo, RefuseRecovery, RestoreRecovery, StepYields, StepFails,
     ReadNonce, ReadReplacementNonce, SignDefersGas, Sign, Send, SkipReplay,
     Replay, ReceiptOk, Credit, SeenPending, NotSeenYet, DepositFails, Yield,
     Leave, ToSettle
<1>6. CASE Network \/ UNCHANGED vars
  BY <1>6 DEF Network, MineTransfer, MineOther, Finalise, Reorganise, Gossip,
     ExchangeSees, ExchangeSettles, vars
<1>7. CASE Crash
  BY <1>7 DEF Crash, Leave
<1> QED
  BY <1>1, <1>2, <1>3, <1>4, <1>5, <1>6, <1>7 DEF Next, Executor

LEMMA SafeStep == IInv /\ [Next]_vars => IInv'
  BY TypeStep, SentStep, RowsStep, RunStep, ChainStep, CreditStep, GroupStep
     DEF IInv

\* IInv holds in every reachable state.
THEOREM Inductive == Spec => []IInv
  BY SafeInit, SafeStep, PTL DEF Spec

-----------------------------------------------------------------------------
(* The properties of DirectDeposit.                                        *)

\* Every variable of the journal, the executor and the chain keeps its type.
THEOREM TypeCorrect == Spec => []TypeOK
<1>1. IInv => TypeOK
  BY DEF IInv, TypeInv
<1> QED
  BY <1>1, Inductive, PTL

\* Nothing reaches the network whose nonce and payload are not in the journal.
THEOREM Journaled == Spec => []SentIsJournaled
<1>1. IInv => SentIsJournaled
  BY DEF IInv
<1> QED
  BY <1>1, Inductive, PTL

\* Two transfers with a successful receipt are one: the original and its
\* Scroll replacement share a nonce, a CELO recovery follows a final revert of
\* the original, and one position has only one of the two recoveries.
LEMMA OneMined == IInv => AtMostOneDepositMined
<1> SUFFICES ASSUME IInv, NEW t \in mined, NEW u \in mined PROVE t = u
  BY DEF AtMostOneDepositMined
<1> USE DEF IInv, TypeInv, TypeOK
<1> DEFINE Safe(k, j) ==
      HasHash(k) /\ HasHash(j) /\ TxOf(k) \in mined /\ TxOf(j) \in mined
        => row[k].nonce = row[j].nonce
<1>1. Safe("direct_deposit", "replacement1")
  BY DEF RowsOK
<1>2. Safe("direct_deposit", "recovery1")
  BY DEF RowsOK, OriginalDead, ChainOK
<1>3. Safe("recovery1", "replacement1")
  BY DEF RowsOK
<1>4. /\ t.key \in Keys /\ HasHash(t.key) /\ t = TxOf(t.key)
      /\ u.key \in Keys /\ HasHash(u.key) /\ u = TxOf(u.key)
  BY DEF SentIsJournaled, Tx
<1>5. Safe(t.key, u.key)
  BY <1>1, <1>2, <1>3, <1>4 DEF Keys
<1>6. t.nonce = row[t.key].nonce /\ u.nonce = row[u.key].nonce
  BY <1>4 DEF TxOf
<1>7. t.nonce = u.nonce
  BY <1>4, <1>5, <1>6
<1> QED
  BY <1>7 DEF ChainOK

\* The chain executes at most one deposit of the position, whatever crashes,
\* losses, replays, replacements and reorganisations happen.
THEOREM AtMostOnce == Spec => []AtMostOneDepositMined
  BY OneMined, Inductive, PTL

\* A completed position has a credited, final deposit.
THEOREM Completion == Spec => []CompletedMeansCredited
<1>1. IInv => CompletedMeansCredited
  BY DEF IInv, CreditOK, CompletedMeansCredited
<1> QED
  BY <1>1, Inductive, PTL

\* A closed group never holds an open position, at any crash point.
THEOREM ClosedAgreement == Spec => []ClosedGroupAgrees
<1>1. IInv => ClosedGroupAgrees
  BY DEF IInv
<1> QED
  BY <1>1, Inductive, PTL

\* Every new signature shares the nonce of each earlier one, or follows that
\* one's final revert.
THEOREM SafeResign == Spec => NoUnsafeResign
<1>1. ASSUME IInv, [Next]_vars, NEW k \in Keys, ~HasHash(k), HasHash(k)',
             NEW j \in Keys, HasHash(j)
      PROVE  \/ row'[k].nonce = row[j].nonce
             \/ TxOf(j) \in reverted /\ row[j].nonce < final
  <2>1. pc = "sign" /\ k = run.key /\ row'[k].nonce = run.nonce
    BY <1>1, OnlySignSigns DEF Sign, IInv
  <2>2. CASE k = "direct_deposit"
    BY <1>1, <2>2 DEF IInv, RowsOK, OriginalDead, Keys
  <2>3. CASE k = "replacement1"
    <3>1. recovery.kind = "scroll" /\ row'[k].nonce = recovery.nonce
      BY <1>1, <2>1, <2>3 DEF IInv, RunOK
    <3>2. j = "direct_deposit"
      BY <1>1, <2>3, <3>1 DEF IInv, RowsOK, Keys
    <3> QED
      BY <1>1, <3>1, <3>2 DEF IInv, RowsOK
  <2>4. CASE k = "recovery1"
    <3>1. recovery.kind = "celo"
      BY <1>1, <2>1, <2>4 DEF IInv, RunOK
    <3>2. j = "direct_deposit"
      BY <1>1, <2>4, <3>1 DEF IInv, RowsOK, Keys
    <3> QED
      BY <1>1, <3>1, <3>2 DEF IInv, RowsOK, OriginalDead
  <2> QED
    BY <2>2, <2>3, <2>4 DEF Keys
<1>2. IInv /\ [Next]_vars =>
        [\A k \in Keys : ~HasHash(k) /\ HasHash(k)' =>
           \A j \in Keys : HasHash(j) =>
             \/ row'[k].nonce = row[j].nonce
             \/ TxOf(j) \in reverted /\ row[j].nonce < final]_vars
  BY <1>1
<1> QED
  BY <1>2, Inductive, PTL DEF Spec, NoUnsafeResign
=============================================================================
