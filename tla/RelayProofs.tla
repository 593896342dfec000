---------------------------- MODULE RelayProofs ----------------------------
(***************************************************************************)
(* The safety properties of RelayExecution for every value of its          *)
(* constants, and its refinement of OneTransfer.  IInv adds to the checked *)
(* invariants what the running executor may rely on and what Relay and the *)
(* exchange can know of.                                                   *)
(***************************************************************************)
EXTENDS RelayExecution, TLAPS

Closed == {"completed", "manual_review"}
Observing == {"mark", "receipt", "status", "payment", "pending", "credit",
              "credited", "complete", "terminal"}

\* What the running executor knows at each point.
RunOK ==
  /\ pc # "idle" => position \notin Closed
  /\ pc \in {"nonce", "sign"} =>
       ~HasBroadcast /\ quote \in Quotes /\ saved = quote
  /\ pc = "send" => HasBroadcast /\ sent = {}
  /\ pc \in Observing => HasBroadcast

\* Relay, the destination and the exchange know of a quote only what follows
\* from a transfer that was sent for it.
KnownOK ==
  /\ \A q \in Quotes : request[q] # "none" => sent # {} /\ q = row.quote
  /\ \A q \in Quotes : status[q] # "waiting" => request[q] # "none"
  /\ \A q \in proven : request[q] # "none"
  /\ \A q \in Quotes : credit[q] # "none" => q \in proven

\* How a position is about to close, and was closed.
ClosingOK ==
  /\ pc \in {"credited", "complete"} => credit[row.quote] = "success"
  /\ pc = "terminal" \/ position = "manual_review" => sent # {}
  /\ position = "completed" => credit[row.quote] = "success"
  /\ position \in Closed => HasBroadcast

IInv == /\ TypeOK /\ SentIsJournaled /\ CheckpointIsSigned
        /\ RunOK /\ KnownOK /\ ClosingOK

-----------------------------------------------------------------------------
(* Types.                                                                  *)

\* Init gives every variable a value of its type.
LEMMA TypeInit == Init => TypeOK
<1> SUFFICES ASSUME Init PROVE TypeOK
  OBVIOUS
<1> USE RelayAssumption DEF Init
<1>1. 0 \in 0 .. MaxQuotes /\ 0 \in Nonces /\ 0 \in 0 .. MaxNonce + 1
  BY DEF Nonces
<1>2. row.state = "none" /\ row.quote = 0 /\ row.nonce = 0
  BY DEF NoRow
<1>3. row \in [state : {"none", "submitted", "confirmed", "reverted",
                       "credited"},
              quote : 0 .. MaxQuotes, nonce : Nonces]
  BY <1>1 DEF NoRow
<1>4. /\ request \in [Quotes -> {"none", "paid", "refunded"}]
      /\ status \in [Quotes -> {"waiting", "success", "failure"}]
      /\ credit \in [Quotes -> {"none", "success", "fail"}]
  OBVIOUS
<1>5. /\ quotes \in 0 .. MaxQuotes /\ crashes \in 0 .. MaxCrashes
      /\ reorgs \in 0 .. MaxReorgs /\ deep \in 0 .. latest
      /\ saved \in 0 .. quotes /\ quote \in 0 .. quotes
  OBVIOUS
<1> QED
  BY <1>1, <1>2, <1>3, <1>4, <1>5 DEF TypeOK, HasBroadcast, Points

\* Every action keeps the types, given that a quote is at hand when one is
\* signed.
LEMMA TypeStep == ASSUME TypeOK, RunOK, [Next]_vars PROVE TypeOK'
<1> USE RelayAssumption DEF TypeOK, journal, process, chain, relay, world,
        HasBroadcast
<1> USE DEF Points, Quotes, Nonces, Tx
<1>1. CASE BeginRun
  BY <1>1 DEF BeginRun, Goto
<1>2. CASE ObserveSaved
  BY <1>2 DEF ObserveSaved, Goto
<1>3. CASE Prepare
  BY <1>3 DEF Prepare, Prepares
<1>4. CASE ReadNonce
  BY <1>4 DEF ReadNonce
<1>5. CASE Sign
  BY <1>5 DEF Sign, Goto, RunOK
<1>6. CASE Send
  BY <1>6 DEF Send, Goto, Leave, Transfer, RunOK
<1>7. CASE MarkSubmitted
  BY <1>7 DEF MarkSubmitted, Goto
<1>8. CASE SourceReverted
  BY <1>8 DEF SourceReverted, Becomes, Goto
<1>9. CASE SourceConfirmed
  BY <1>9 DEF SourceConfirmed, Becomes, Goto
<1>10. CASE StatusSuccess
  BY <1>10 DEF StatusSuccess, Goto
<1>11. CASE StatusFailure
  BY <1>11 DEF StatusFailure, Goto
<1>12. CASE PaymentProven
  BY <1>12 DEF PaymentProven, Goto
<1>13. CASE MarkPending
  BY <1>13 DEF MarkPending, Goto
<1>14. CASE CreditSuccess
  BY <1>14 DEF CreditSuccess, Goto
<1>15. CASE CreditFailure
  BY <1>15 DEF CreditFailure, Goto
<1>16. CASE RecordCredited
  BY <1>16 DEF RecordCredited, Goto, RunOK, Observing
<1>17. CASE Complete
  BY <1>17 DEF Complete, Leave
<1>18. CASE Review
  BY <1>18 DEF Review, Leave
<1>19. CASE Yield
  BY <1>19 DEF Yield, Leave
<1>20. CASE RefusesCredit
  BY <1>20 DEF RefusesCredit, Leave
<1>21. CASE FailsUnsigned
  BY <1>21 DEF FailsUnsigned, Leave
<1>22. CASE RetryDue
  BY <1>22 DEF RetryDue
<1>23. CASE EditWorkbook
  BY <1>23 DEF EditWorkbook
<1>24. CASE Forget
  BY <1>24 DEF Forget
<1>25. CASE Mine
  BY <1>25 DEF Mine
<1>26. CASE Deepen
  BY <1>26 DEF Deepen
<1>27. CASE Reorganise
  BY <1>27 DEF Reorganise
<1>28. CASE Fulfil
  BY <1>28 DEF Fulfil
<1>29. CASE Report
  BY <1>29 DEF Report
<1>30. CASE Arrive
  BY <1>30 DEF Arrive
<1>31. CASE Decide
  BY <1>31 DEF Decide
<1>32. CASE Crash
  BY <1>32 DEF Crash, Leave
<1>33. CASE UNCHANGED vars
  BY <1>33 DEF vars
<1> QED
  BY <1>1, <1>2, <1>3, <1>4, <1>5, <1>6, <1>7, <1>8, <1>9, <1>10, <1>11,
     <1>12, <1>13, <1>14, <1>15, <1>16, <1>17, <1>18, <1>19, <1>20,
     <1>21, <1>22, <1>23, <1>24, <1>25, <1>26, <1>27, <1>28, <1>29,
     <1>30, <1>31, <1>32, <1>33
     DEF Next, Executor, World

-----------------------------------------------------------------------------
(* The journal against the network.                                        *)

\* What was sent is what the journal holds: only Sign writes the hash, and
\* nothing was sent before.
LEMMA SentStep ==
  ASSUME IInv, [Next]_vars PROVE SentIsJournaled'
<1> USE DEF IInv, SentIsJournaled, Transfer, HasBroadcast, journal, process,
        chain, relay, world
<1>1. CASE BeginRun
  BY <1>1 DEF BeginRun, Goto
<1>2. CASE ObserveSaved
  BY <1>2 DEF ObserveSaved, Goto
<1>3. CASE Prepare
  BY <1>3 DEF Prepare, Prepares
<1>4. CASE ReadNonce
  BY <1>4 DEF ReadNonce
<1>5. CASE Sign
  BY <1>5 DEF Sign, Goto, RunOK
<1>6. CASE Send
  BY <1>6 DEF Send, Goto, Leave, RunOK, HasBroadcast
<1>7. CASE MarkSubmitted
  BY <1>7 DEF MarkSubmitted, Goto
<1>8. CASE SourceReverted
  BY <1>8 DEF SourceReverted, Becomes, Goto
<1>9. CASE SourceConfirmed
  BY <1>9 DEF SourceConfirmed, Becomes, Goto
<1>10. CASE StatusSuccess
  BY <1>10 DEF StatusSuccess, Goto
<1>11. CASE StatusFailure
  BY <1>11 DEF StatusFailure, Goto
<1>12. CASE PaymentProven
  BY <1>12 DEF PaymentProven, Goto
<1>13. CASE MarkPending
  BY <1>13 DEF MarkPending, Goto
<1>14. CASE CreditSuccess
  BY <1>14 DEF CreditSuccess, Goto
<1>15. CASE CreditFailure
  BY <1>15 DEF CreditFailure, Goto
<1>16. CASE RecordCredited
  BY <1>16 DEF RecordCredited, Goto
<1>17. CASE Complete
  BY <1>17 DEF Complete, Leave
<1>18. CASE Review
  BY <1>18 DEF Review, Leave
<1>19. CASE Yield
  BY <1>19 DEF Yield, Leave
<1>20. CASE RefusesCredit
  BY <1>20 DEF RefusesCredit, Leave
<1>21. CASE FailsUnsigned
  BY <1>21 DEF FailsUnsigned, Leave
<1>22. CASE RetryDue
  BY <1>22 DEF RetryDue
<1>23. CASE EditWorkbook
  BY <1>23 DEF EditWorkbook
<1>24. CASE Forget
  BY <1>24 DEF Forget
<1>25. CASE Mine
  BY <1>25 DEF Mine
<1>26. CASE Deepen
  BY <1>26 DEF Deepen
<1>27. CASE Reorganise
  BY <1>27 DEF Reorganise
<1>28. CASE Fulfil
  BY <1>28 DEF Fulfil
<1>29. CASE Report
  BY <1>29 DEF Report
<1>30. CASE Arrive
  BY <1>30 DEF Arrive
<1>31. CASE Decide
  BY <1>31 DEF Decide
<1>32. CASE Crash
  BY <1>32 DEF Crash, Leave
<1>33. CASE UNCHANGED vars
  BY <1>33 DEF vars
<1> QED
  BY <1>1, <1>2, <1>3, <1>4, <1>5, <1>6, <1>7, <1>8, <1>9, <1>10, <1>11,
     <1>12, <1>13, <1>14, <1>15, <1>16, <1>17, <1>18, <1>19, <1>20,
     <1>21, <1>22, <1>23, <1>24, <1>25, <1>26, <1>27, <1>28, <1>29,
     <1>30, <1>31, <1>32, <1>33
     DEF Next, Executor, World

\* The checkpoint is replaced only while nothing is signed.
LEMMA CheckpointStep ==
  ASSUME IInv, [Next]_vars PROVE CheckpointIsSigned'
<1> USE DEF IInv, CheckpointIsSigned, HasBroadcast, journal, process, chain,
        relay, world
<1>1. CASE BeginRun
  BY <1>1 DEF BeginRun, Goto
<1>2. CASE ObserveSaved
  BY <1>2 DEF ObserveSaved, Goto
<1>3. CASE Prepare
  BY <1>3 DEF Prepare, Prepares, Observes
<1>4. CASE ReadNonce
  BY <1>4 DEF ReadNonce
<1>5. CASE Sign
  BY <1>5 DEF Sign, Goto, RunOK
<1>6. CASE Send
  BY <1>6 DEF Send, Goto, Leave
<1>7. CASE MarkSubmitted
  BY <1>7 DEF MarkSubmitted, Goto
<1>8. CASE SourceReverted
  BY <1>8 DEF SourceReverted, Becomes, Goto
<1>9. CASE SourceConfirmed
  BY <1>9 DEF SourceConfirmed, Becomes, Goto
<1>10. CASE StatusSuccess
  BY <1>10 DEF StatusSuccess, Goto
<1>11. CASE StatusFailure
  BY <1>11 DEF StatusFailure, Goto
<1>12. CASE PaymentProven
  BY <1>12 DEF PaymentProven, Goto
<1>13. CASE MarkPending
  BY <1>13 DEF MarkPending, Goto
<1>14. CASE CreditSuccess
  BY <1>14 DEF CreditSuccess, Goto
<1>15. CASE CreditFailure
  BY <1>15 DEF CreditFailure, Goto
<1>16. CASE RecordCredited
  BY <1>16 DEF RecordCredited, Goto, RunOK, Observing, TypeOK
<1>17. CASE Complete
  BY <1>17 DEF Complete, Leave
<1>18. CASE Review
  BY <1>18 DEF Review, Leave
<1>19. CASE Yield
  BY <1>19 DEF Yield, Leave
<1>20. CASE RefusesCredit
  BY <1>20 DEF RefusesCredit, Leave
<1>21. CASE FailsUnsigned
  BY <1>21 DEF FailsUnsigned, Leave
<1>22. CASE RetryDue
  BY <1>22 DEF RetryDue
<1>23. CASE EditWorkbook
  BY <1>23 DEF EditWorkbook
<1>24. CASE Forget
  BY <1>24 DEF Forget
<1>25. CASE Mine
  BY <1>25 DEF Mine
<1>26. CASE Deepen
  BY <1>26 DEF Deepen
<1>27. CASE Reorganise
  BY <1>27 DEF Reorganise
<1>28. CASE Fulfil
  BY <1>28 DEF Fulfil
<1>29. CASE Report
  BY <1>29 DEF Report
<1>30. CASE Arrive
  BY <1>30 DEF Arrive
<1>31. CASE Decide
  BY <1>31 DEF Decide
<1>32. CASE Crash
  BY <1>32 DEF Crash, Leave
<1>33. CASE UNCHANGED vars
  BY <1>33 DEF vars
<1> QED
  BY <1>1, <1>2, <1>3, <1>4, <1>5, <1>6, <1>7, <1>8, <1>9, <1>10, <1>11,
     <1>12, <1>13, <1>14, <1>15, <1>16, <1>17, <1>18, <1>19, <1>20,
     <1>21, <1>22, <1>23, <1>24, <1>25, <1>26, <1>27, <1>28, <1>29,
     <1>30, <1>31, <1>32, <1>33
     DEF Next, Executor, World

\* The executor's knowledge survives its own steps and the world's.
LEMMA RunStep ==
  ASSUME IInv, [Next]_vars PROVE RunOK'
<1> USE DEF IInv, RunOK, Closed, Observing, HasBroadcast, Quotes, journal,
        process, chain, relay, world
<1>1. CASE BeginRun
  BY <1>1 DEF BeginRun, Goto
<1>2. CASE ObserveSaved
  BY <1>2 DEF ObserveSaved, Goto, Observes
<1>3. CASE Prepare
  BY <1>3, RelayAssumption DEF Prepare, Prepares, Observes, TypeOK
<1>4. CASE ReadNonce
  BY <1>4 DEF ReadNonce
<1>5. CASE Sign
  BY <1>5 DEF Sign, Goto, SentIsJournaled
<1>6. CASE Send
  BY <1>6 DEF Send, Goto, Leave
<1>7. CASE MarkSubmitted
  BY <1>7 DEF MarkSubmitted, Goto
<1>8. CASE SourceReverted
  BY <1>8 DEF SourceReverted, Becomes, Goto
<1>9. CASE SourceConfirmed
  BY <1>9 DEF SourceConfirmed, Becomes, Goto
<1>10. CASE StatusSuccess
  BY <1>10 DEF StatusSuccess, Goto
<1>11. CASE StatusFailure
  BY <1>11 DEF StatusFailure, Goto
<1>12. CASE PaymentProven
  BY <1>12 DEF PaymentProven, Goto
<1>13. CASE MarkPending
  BY <1>13 DEF MarkPending, Goto
<1>14. CASE CreditSuccess
  BY <1>14 DEF CreditSuccess, Goto
<1>15. CASE CreditFailure
  BY <1>15 DEF CreditFailure, Goto
<1>16. CASE RecordCredited
  BY <1>16 DEF RecordCredited, Goto
<1>17. CASE Complete
  BY <1>17 DEF Complete, Leave
<1>18. CASE Review
  BY <1>18 DEF Review, Leave
<1>19. CASE Yield
  BY <1>19 DEF Yield, Leave
<1>20. CASE RefusesCredit
  BY <1>20 DEF RefusesCredit, Leave
<1>21. CASE FailsUnsigned
  BY <1>21 DEF FailsUnsigned, Leave
<1>22. CASE RetryDue
  BY <1>22 DEF RetryDue
<1>23. CASE EditWorkbook
  BY <1>23 DEF EditWorkbook
<1>24. CASE Forget
  BY <1>24 DEF Forget
<1>25. CASE Mine
  BY <1>25 DEF Mine
<1>26. CASE Deepen
  BY <1>26 DEF Deepen
<1>27. CASE Reorganise
  BY <1>27 DEF Reorganise
<1>28. CASE Fulfil
  BY <1>28 DEF Fulfil
<1>29. CASE Report
  BY <1>29 DEF Report
<1>30. CASE Arrive
  BY <1>30 DEF Arrive
<1>31. CASE Decide
  BY <1>31 DEF Decide
<1>32. CASE Crash
  BY <1>32 DEF Crash, Leave
<1>33. CASE UNCHANGED vars
  BY <1>33 DEF vars
<1> QED
  BY <1>1, <1>2, <1>3, <1>4, <1>5, <1>6, <1>7, <1>8, <1>9, <1>10, <1>11,
     <1>12, <1>13, <1>14, <1>15, <1>16, <1>17, <1>18, <1>19, <1>20,
     <1>21, <1>22, <1>23, <1>24, <1>25, <1>26, <1>27, <1>28, <1>29,
     <1>30, <1>31, <1>32, <1>33
     DEF Next, Executor, World

\* Relay learns of a quote from a mined transfer, the exchange of a payment
\* from Relay.
LEMMA KnownStep ==
  ASSUME IInv, [Next]_vars PROVE KnownOK'
<1> USE DEF IInv, KnownOK, TypeOK, journal, process, chain, relay, world
<1>1. CASE BeginRun
  BY <1>1 DEF BeginRun, Goto
<1>2. CASE ObserveSaved
  BY <1>2 DEF ObserveSaved, Goto
<1>3. CASE Prepare
  BY <1>3 DEF Prepare, Prepares
<1>4. CASE ReadNonce
  BY <1>4 DEF ReadNonce
<1>5. CASE Sign
  BY <1>5 DEF Sign, Goto, RunOK, SentIsJournaled, HasBroadcast
<1>6. CASE Send
  BY <1>6 DEF Send, Goto, Leave
<1>7. CASE MarkSubmitted
  BY <1>7 DEF MarkSubmitted, Goto
<1>8. CASE SourceReverted
  BY <1>8 DEF SourceReverted, Becomes, Goto
<1>9. CASE SourceConfirmed
  BY <1>9 DEF SourceConfirmed, Becomes, Goto
<1>10. CASE StatusSuccess
  BY <1>10 DEF StatusSuccess, Goto
<1>11. CASE StatusFailure
  BY <1>11 DEF StatusFailure, Goto
<1>12. CASE PaymentProven
  BY <1>12 DEF PaymentProven, Goto
<1>13. CASE MarkPending
  BY <1>13 DEF MarkPending, Goto
<1>14. CASE CreditSuccess
  BY <1>14 DEF CreditSuccess, Goto
<1>15. CASE CreditFailure
  BY <1>15 DEF CreditFailure, Goto
<1>16. CASE RecordCredited
  BY <1>16 DEF RecordCredited, Goto
<1>17. CASE Complete
  BY <1>17 DEF Complete, Leave
<1>18. CASE Review
  BY <1>18 DEF Review, Leave
<1>19. CASE Yield
  BY <1>19 DEF Yield, Leave
<1>20. CASE RefusesCredit
  BY <1>20 DEF RefusesCredit, Leave
<1>21. CASE FailsUnsigned
  BY <1>21 DEF FailsUnsigned, Leave
<1>22. CASE RetryDue
  BY <1>22 DEF RetryDue
<1>23. CASE EditWorkbook
  BY <1>23 DEF EditWorkbook
<1>24. CASE Forget
  BY <1>24 DEF Forget
<1>25. CASE Mine
  BY <1>25 DEF Mine
<1>26. CASE Deepen
  BY <1>26 DEF Deepen
<1>27. CASE Reorganise
  BY <1>27 DEF Reorganise
<1>28. CASE Fulfil
  BY <1>28 DEF Fulfil, SentIsJournaled, Transfer, Tx
<1>29. CASE Report
  BY <1>29 DEF Report
<1>30. CASE Arrive
  BY <1>30 DEF Arrive
<1>31. CASE Decide
  BY <1>31 DEF Decide
<1>32. CASE Crash
  BY <1>32 DEF Crash, Leave
<1>33. CASE UNCHANGED vars
  BY <1>33 DEF vars
<1> QED
  BY <1>1, <1>2, <1>3, <1>4, <1>5, <1>6, <1>7, <1>8, <1>9, <1>10, <1>11,
     <1>12, <1>13, <1>14, <1>15, <1>16, <1>17, <1>18, <1>19, <1>20,
     <1>21, <1>22, <1>23, <1>24, <1>25, <1>26, <1>27, <1>28, <1>29,
     <1>30, <1>31, <1>32, <1>33
     DEF Next, Executor, World

\* A position closes on a credit or after a send, and stays so.
LEMMA ClosingStep ==
  ASSUME IInv, [Next]_vars PROVE ClosingOK'
<1> USE DEF IInv, ClosingOK, Closed, HasBroadcast, journal, process, chain,
        relay, world
<1>1. CASE BeginRun
  BY <1>1 DEF BeginRun, Goto
<1>2. CASE ObserveSaved
  BY <1>2 DEF ObserveSaved, Goto
<1>3. CASE Prepare
  BY <1>3 DEF Prepare, Prepares
<1>4. CASE ReadNonce
  BY <1>4 DEF ReadNonce
<1>5. CASE Sign
  BY <1>5 DEF Sign, Goto, RunOK, Closed
<1>6. CASE Send
  BY <1>6 DEF Send, Goto, Leave
<1>7. CASE MarkSubmitted
  BY <1>7 DEF MarkSubmitted, Goto
<1>8. CASE SourceReverted
  BY <1>8 DEF SourceReverted, Becomes, Goto, TypeOK
<1>9. CASE SourceConfirmed
  BY <1>9 DEF SourceConfirmed, Becomes, Goto
<1>10. CASE StatusSuccess
  BY <1>10 DEF StatusSuccess, Goto
<1>11. CASE StatusFailure
  BY <1>11 DEF StatusFailure, Goto, CheckpointIsSigned, RunOK, Observing,
     KnownOK, TypeOK
<1>12. CASE PaymentProven
  BY <1>12 DEF PaymentProven, Goto
<1>13. CASE MarkPending
  BY <1>13 DEF MarkPending, Goto
<1>14. CASE CreditSuccess
  BY <1>14 DEF CreditSuccess, Goto, CheckpointIsSigned, RunOK, Observing
<1>15. CASE CreditFailure
  BY <1>15 DEF CreditFailure, Goto, CheckpointIsSigned, RunOK, Observing,
     KnownOK, TypeOK
<1>16. CASE RecordCredited
  BY <1>16 DEF RecordCredited, Goto
<1>17. CASE Complete
  BY <1>17 DEF Complete, Leave, RunOK, Observing
<1>18. CASE Review
  BY <1>18 DEF Review, Leave, RunOK, Observing
<1>19. CASE Yield
  BY <1>19 DEF Yield, Leave
<1>20. CASE RefusesCredit
  BY <1>20 DEF RefusesCredit, Leave
<1>21. CASE FailsUnsigned
  BY <1>21 DEF FailsUnsigned, Leave
<1>22. CASE RetryDue
  BY <1>22 DEF RetryDue
<1>23. CASE EditWorkbook
  BY <1>23 DEF EditWorkbook
<1>24. CASE Forget
  BY <1>24 DEF Forget
<1>25. CASE Mine
  BY <1>25 DEF Mine
<1>26. CASE Deepen
  BY <1>26 DEF Deepen
<1>27. CASE Reorganise
  BY <1>27 DEF Reorganise
<1>28. CASE Fulfil
  BY <1>28 DEF Fulfil
<1>29. CASE Report
  BY <1>29 DEF Report
<1>30. CASE Arrive
  BY <1>30 DEF Arrive
<1>31. CASE Decide
  BY <1>31 DEF Decide
<1>32. CASE Crash
  BY <1>32 DEF Crash, Leave
<1>33. CASE UNCHANGED vars
  BY <1>33 DEF vars
<1> QED
  BY <1>1, <1>2, <1>3, <1>4, <1>5, <1>6, <1>7, <1>8, <1>9, <1>10, <1>11,
     <1>12, <1>13, <1>14, <1>15, <1>16, <1>17, <1>18, <1>19, <1>20,
     <1>21, <1>22, <1>23, <1>24, <1>25, <1>26, <1>27, <1>28, <1>29,
     <1>30, <1>31, <1>32, <1>33
     DEF Next, Executor, World

-----------------------------------------------------------------------------
(* The theorems.                                                           *)

\* The initial states satisfy the invariant.
LEMMA SafeInit == Init => IInv
  BY TypeInit DEF Init, IInv, SentIsJournaled, CheckpointIsSigned, RunOK,
     KnownOK, ClosingOK, Closed, Observing, HasBroadcast, NoRow

\* Every step keeps it.
LEMMA SafeStep == IInv /\ [Next]_vars => IInv'
  BY TypeStep, SentStep, CheckpointStep, RunStep, KnownStep, ClosingStep
  DEF IInv

\* IInv holds in every reachable state.
THEOREM Inductive == Spec => []IInv
  BY SafeInit, SafeStep, PTL DEF Spec

\* Every variable has its type, in every run.
THEOREM TypeCorrect == Spec => []TypeOK
<1>1. IInv => TypeOK
  BY DEF IInv
<1> QED
  BY <1>1, Inductive, PTL

\* Whatever reached the network can be found again in the journal.
THEOREM Journaled == Spec => []SentIsJournaled
<1>1. IInv => SentIsJournaled
  BY DEF IInv
<1> QED
  BY <1>1, Inductive, PTL

\* A transfer is always observed with the checkpoint of its own quote.
THEOREM OwnCheckpoint == Spec => []CheckpointIsSigned
<1>1. IInv => CheckpointIsSigned
  BY DEF IInv
<1> QED
  BY <1>1, Inductive, PTL

\* A completed position was credited for the payment of its own transfer.
THEOREM Completion == Spec => []CompletedMeansCredited
<1>1. IInv => CompletedMeansCredited
  <2> SUFFICES ASSUME IInv, position = "completed"
               PROVE  row.quote \in proven /\ credit[row.quote] = "success"
    BY DEF CompletedMeansCredited
  <2>1. credit[row.quote] = "success" /\ row.quote \in Quotes
    BY DEF IInv, ClosingOK, Closed, TypeOK
  <2> QED
    BY <2>1 DEF IInv, KnownOK
<1> QED
  BY <1>1, Inductive, PTL

-----------------------------------------------------------------------------
(* The refinement of OneTransfer.                                          *)

\* A step that touches neither the transfers sent, nor what the exchange
\* says, nor the position's outcome is a stutter of the promise.
LEMMA Stutter ==
  ASSUME sent' = sent, credit' = credit, Outcome' = Outcome
  PROVE  UNCHANGED Promise!promise
  BY DEF Promise!promise, Credited

\* A running executor works on an open position.
LEMMA OpenWhileRunning == ASSUME IInv, pc # "idle" PROVE Outcome = "open"
  BY DEF IInv, RunOK, Closed, Outcome

\* Each step sends the one transfer, credits it, closes the position, or is
\* none of the promise's business.
LEMMA StepRefines ==
  ASSUME IInv, [Next]_vars PROVE [Promise!Next]_(Promise!promise)
<1> USE DEF journal, process, chain, relay, world
<1>1. CASE BeginRun
  BY <1>1, Stutter DEF BeginRun, Goto, Outcome
<1>2. CASE ObserveSaved
  BY <1>2, Stutter DEF ObserveSaved, Goto, Outcome
<1>3. CASE Prepare
  BY <1>3, Stutter DEF Prepare, Prepares, Outcome
<1>4. CASE ReadNonce
  BY <1>4, Stutter DEF ReadNonce, Outcome
<1>5. CASE Sign
  BY <1>5, Stutter DEF Sign, Goto, Outcome
<1>6. CASE Send
  <2>1. Outcome = "open" /\ Outcome' = Outcome /\ Credited' = Credited
    BY <1>6, OpenWhileRunning DEF Send, Outcome, Credited
  <2>2. CASE sent' = sent
    BY <1>6, <2>1, <2>2 DEF Send, Promise!promise
  <2>3. CASE sent' = sent \union {Transfer}
    <3>1. sent = {} /\ Transfer \in Tx
      BY <1>6 DEF Send, IInv, RunOK, TypeOK, Transfer, Tx
    <3>2. Promise!Send(Transfer)
      BY <2>1, <2>3, <3>1 DEF Promise!Send
    <3> QED
      BY <3>1, <3>2 DEF Promise!Next
  <2> QED
    BY <1>6, <2>2, <2>3 DEF Send
<1>7. CASE MarkSubmitted
  BY <1>7, Stutter DEF MarkSubmitted, Goto, Outcome
<1>8. CASE SourceReverted
  BY <1>8, Stutter DEF SourceReverted, Becomes, Goto, Outcome
<1>9. CASE SourceConfirmed
  BY <1>9, Stutter DEF SourceConfirmed, Becomes, Goto, Outcome
<1>10. CASE StatusSuccess
  BY <1>10, Stutter DEF StatusSuccess, Goto, Outcome
<1>11. CASE StatusFailure
  BY <1>11, Stutter DEF StatusFailure, Goto, Outcome
<1>12. CASE PaymentProven
  BY <1>12, Stutter DEF PaymentProven, Goto, Outcome
<1>13. CASE MarkPending
  BY <1>13, Stutter DEF MarkPending, Goto, Outcome
<1>14. CASE CreditSuccess
  BY <1>14, Stutter DEF CreditSuccess, Goto, Outcome
<1>15. CASE CreditFailure
  BY <1>15, Stutter DEF CreditFailure, Goto, Outcome
<1>16. CASE RecordCredited
  BY <1>16, Stutter DEF RecordCredited, Goto, Outcome
<1>17. CASE Complete
  <2>1. Outcome = "open" /\ Outcome' = "completed" /\ Credited' = Credited
    BY <1>17, OpenWhileRunning DEF Complete, Outcome, Credited
  <2>2. Credited
    BY <1>17 DEF Complete, IInv, RunOK, Observing, ClosingOK, TypeOK, Credited
  <2>3. Promise!Close("completed")
    BY <1>17, <2>1, <2>2 DEF Complete, Promise!Close
  <2> QED
    BY <2>3 DEF Promise!Next
<1>18. CASE Review
  <2>1. Outcome = "open" /\ Outcome' = "review" /\ Credited' = Credited
    BY <1>18, OpenWhileRunning DEF Review, Outcome, Credited
  <2>2. Promise!Close("review")
    BY <1>18, <2>1 DEF Review, IInv, ClosingOK, Promise!Close
  <2> QED
    BY <2>2 DEF Promise!Next
<1>19. CASE Yield
  BY <1>19, Stutter DEF Yield, Leave, Outcome
<1>20. CASE RefusesCredit
  BY <1>20, Stutter DEF RefusesCredit, Leave, Outcome
<1>21. CASE FailsUnsigned
  BY <1>21, Stutter DEF FailsUnsigned, Leave, Outcome
<1>22. CASE RetryDue
  BY <1>22, Stutter DEF RetryDue, Outcome
<1>23. CASE EditWorkbook
  BY <1>23, Stutter DEF EditWorkbook, Outcome
<1>24. CASE Forget
  BY <1>24, Stutter DEF Forget, Outcome
<1>25. CASE Mine
  BY <1>25, Stutter DEF Mine, Outcome
<1>26. CASE Deepen
  BY <1>26, Stutter DEF Deepen, Outcome
<1>27. CASE Reorganise
  BY <1>27, Stutter DEF Reorganise, Outcome
<1>28. CASE Fulfil
  BY <1>28, Stutter DEF Fulfil, Outcome
<1>29. CASE Report
  BY <1>29, Stutter DEF Report, Outcome
<1>30. CASE Arrive
  BY <1>30, Stutter DEF Arrive, Outcome
<1>31. CASE Decide
  <2> PICK q \in proven, says \in {"success", "fail"} :
         credit[q] = "none" /\ credit' = [credit EXCEPT ![q] = says]
    BY <1>31 DEF Decide
  <2>1. q \in Quotes /\ sent # {} /\ ~Credited
    BY DEF IInv, TypeOK, KnownOK, Credited
  <2>2. sent' = sent /\ Outcome' = Outcome
    BY <1>31 DEF Decide, Outcome
  <2>3. Credited' <=> says = "success"
    BY <2>1 DEF Credited, IInv, TypeOK, Quotes
  <2>4. CASE says = "success"
    <3>1. Promise!Credit
      BY <2>1, <2>2, <2>3, <2>4 DEF Promise!Credit
    <3> QED
      BY <3>1 DEF Promise!Next
  <2>5. CASE says # "success"
    BY <2>1, <2>2, <2>3, <2>5 DEF Promise!promise, Credited
  <2> QED
    BY <2>4, <2>5
<1>32. CASE Crash
  BY <1>32, Stutter DEF Crash, Leave, Outcome
<1>33. CASE UNCHANGED vars
  BY <1>33, Stutter DEF vars, Outcome
<1> QED
  BY <1>1, <1>2, <1>3, <1>4, <1>5, <1>6, <1>7, <1>8, <1>9, <1>10, <1>11,
     <1>12, <1>13, <1>14, <1>15, <1>16, <1>17, <1>18, <1>19, <1>20,
     <1>21, <1>22, <1>23, <1>24, <1>25, <1>26, <1>27, <1>28, <1>29,
     <1>30, <1>31, <1>32, <1>33
     DEF Next, Executor, World

\* Over any number of runs, crashes and reorganisations a position sends its
\* asset once, and is closed for good, by a credit or after something was sent.
THEOREM Refinement == Spec => SingleTransfer
<1>1. Init => Promise!Init
  BY DEF Init, Promise!Init, Credited, Outcome
<1>2. IInv /\ [Next]_vars => [Promise!Next]_(Promise!promise)
  BY StepRefines
<1> QED
  BY <1>1, <1>2, Inductive, PTL DEF Spec, SingleTransfer, Promise!Spec
=============================================================================
