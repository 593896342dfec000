-------------------------- MODULE DefiBatchProofs --------------------------
(***************************************************************************)
(* The safety properties of DefiBatch, for any queue of wallets and        *)
(* actions and any number of deaths, tries and operator commands.  LockInv *)
(* says what the inventory lock and the journal guarantee of two commands  *)
(* on the same actions; QueueInv, where an action that is being executed   *)
(* can be found: the worker knows of it, or looks at it before the next.   *)
(***************************************************************************)
EXTENDS DefiBatch, FiniteSetTheorems, TLAPS

Locked == {"look", "sign", "send", "receipt"}

LockInv ==
  /\ \A p \in Processes : exit[p].at \in Locked => lock = p
  /\ \A p \in Processes : At(p, "sign") => step[Act(p)] = "none"
  /\ \A s \in signed : step[s[2]] # "none"
  /\ \A p, q \in Processes, a \in Actions :
       <<p, a>> \in signed /\ <<q, a>> \in signed => p = q

\* What a result says of the transaction.
ResultInv ==
  LET e == exit["worker"] IN
  /\ e.at \in {"event", "done"} /\ e.result = "withdrawn" =>
       net[e.action] = "mined" /\ step[e.action] = "confirmed"
  /\ e.at = "event" => e.result \in {"withdrawn", "review"}
  /\ e.at = "done" /\ e.result = "stale" => <<"worker", e.action>> \notin signed

\* Where the worker is.
Commanding == {"recover", "recovered", "execute", "record", "later"}
Executing(w) == {a \in ActionsOf(w) : action[a] = "executing"}

PlaceInv ==
  /\ exit["worker"].at # "idle" => pc \in Commanding
  /\ pc \in {"recovered", "record", "later"} => exit["worker"].at = "done"
  /\ pc # "idle" => Open(head)
  /\ pc = "finish" => /\ outcome \in Final
                      /\ Executing(head) # {} => outcome = "manual_review"
  /\ \A v \in Wallets : v < head => ~Open(v)

\* Where the actions in execution are.
QueueInv ==
  /\ \A a \in Actions : action[a] = "executing" /\ Open(Owner[a]) => Owner[a] = head
  /\ \A a, b \in Executing(head) : Open(head) => a = b
  /\ pc \in Commanding \ {"record"} => Current \in Executing(head)
  /\ pc \in {"quote", "entries", "record"} => Executing(head) = {}
  /\ ready \subseteq ActionsOf(head)

\* QueueAgrees, and the journal's word for what was withdrawn.
AgreeInv ==
  /\ QueueAgrees
  /\ \A a \in Actions : action[a] = "withdrawn" => step[a] = "confirmed"

\* Only a death between the last try and the commit that closes the wallet
\* lets it be tried once more.
AttemptsInv ==
  \A w \in Wallets :
    /\ wallet[w].attempts <= Attempts + crashes
    /\ Open(w) /\ (pc = "finish" => w # head) =>
         wallet[w].attempts < Attempts + crashes

IInv == /\ TypeOK /\ LockInv /\ ResultInv /\ PlaceInv /\ QueueInv /\ AgreeInv
        /\ AttemptsInv

-----------------------------------------------------------------------------
(* The commands and the lock.                                              *)

LEMMA ProcessNames ==
  /\ "worker" \in Processes /\ "operator" \in Processes
  /\ \A p \in Processes : p = "worker" \/ p = "operator"
  BY DEF Processes

LEMMA NoExitType ==
  /\ NoExit \in [at : Places, action : Actions, result : Results]
  /\ NoExit.at = "idle" /\ NoExit.result = "none"
<1>1. (CHOOSE a \in Actions : TRUE) \in Actions
  BY ExitAssumption
<1> QED
  BY <1>1 DEF NoExit, Places, Results

\* A command goes on in its place, or returns.
LEMMA Going ==
  ASSUME ExitTypeOK, NEW p \in Processes, NEW place \in Places, GoTo(p, place)
  PROVE  /\ exit' \in [Processes -> [at : Places, action : Actions, result : Results]]
         /\ exit'[p].at = place /\ exit'[p].action = exit[p].action
         /\ exit'[p].result = exit[p].result
         /\ \A q \in Processes : q # p => exit'[q] = exit[q]
  BY DEF ExitTypeOK, GoTo

LEMMA Returning ==
  ASSUME ExitTypeOK, NEW p \in Processes, NEW place \in Places,
         NEW result \in Results, Return(p, place, result)
  PROVE  /\ exit' \in [Processes -> [at : Places, action : Actions, result : Results]]
         /\ p = "operator" => exit'[p] = NoExit
         /\ p # "operator" => /\ exit'[p].at = place
                              /\ exit'[p].action = exit[p].action
                              /\ exit'[p].result = result
         /\ \A q \in Processes : q # p => exit'[q] = exit[q]
<1> DEFINE new == IF p = "operator" THEN NoExit
                  ELSE [at |-> place, action |-> exit[p].action, result |-> result]
<1>1. new \in [at : Places, action : Actions, result : Results]
  BY NoExitType DEF ExitTypeOK
<1>2. exit' = [exit EXCEPT ![p] = new]
  BY DEF Return
<1>3. /\ p = "operator" => new = NoExit
      /\ p # "operator" => /\ new.at = place /\ new.action = exit[p].action
                           /\ new.result = result
  OBVIOUS
<1> HIDE DEF new
<1> QED
  BY <1>1, <1>2, <1>3 DEF ExitTypeOK

LEMMA Starting ==
  ASSUME ExitTypeOK, NEW p \in Processes, NEW a \in Actions, StartExit(p, a)
  PROVE  /\ exit' \in [Processes -> [at : Places, action : Actions, result : Results]]
         /\ exit'[p].at = "lock" /\ exit'[p].action = a
         /\ exit'[p].result = "none"
         /\ \A q \in Processes : q # p => exit'[q] = exit[q]
  BY DEF ExitTypeOK, StartExit, Places, Results

LEMMA Forgetting ==
  ASSUME ExitTypeOK, NEW p \in Processes, exit' = [exit EXCEPT ![p] = NoExit]
  PROVE  /\ exit' \in [Processes -> [at : Places, action : Actions, result : Results]]
         /\ exit'[p] = NoExit
         /\ \A q \in Processes : q # p => exit'[q] = exit[q]
  BY NoExitType DEF ExitTypeOK

\* What a step of a command may do, whatever it is.
Moves(p) ==
  /\ exit' \in [Processes -> [at : Places, action : Actions, result : Results]]
  /\ \A q \in Processes : q # p => exit'[q] = exit[q]
  /\ exit[p].at \notin {"idle", "done"}
  /\ \/ p = "operator" /\ exit'[p] = NoExit
     \/ exit'[p].action = exit[p].action /\ exit'[p].at \notin {"idle", "lock"}

LEMMA ExitMoves ==
  ASSUME ExitTypeOK, NEW p \in Processes, ExitStep(p)
  PROVE  Moves(p)
<1>1. ASSUME NEW place \in Places \ {"idle", "lock"}, GoTo(p, place),
             exit[p].at \notin {"idle", "done"}
      PROVE  Moves(p)
  BY <1>1, Going DEF Moves
<1>2. ASSUME NEW place \in Places \ {"idle", "lock"}, NEW result \in Results,
             Return(p, place, result), exit[p].at \notin {"idle", "done"}
      PROVE  Moves(p)
  BY <1>2, Returning DEF Moves
<1>3. ASSUME TakeLock(p) \/ ObserveExisting(p) \/ PrepareFails(p) \/ Prepare(p)
      PROVE  Moves(p)
  <2>1. exit[p].at \notin {"idle", "done"}
    BY <1>3 DEF TakeLock, ObserveExisting, PrepareFails, Prepare, At
  <2>2. \/ \E place \in {"look", "receipt", "sign"} : GoTo(p, place)
        \/ \E result \in {"refused", "transient", "limited", "stale"} :
             Return(p, "done", result)
    BY <1>3 DEF TakeLock, ObserveExisting, PrepareFails, Prepare, End
  <2> QED
    BY <1>1, <1>2, <2>1, <2>2 DEF Places, Results
<1>4. ASSUME Sign(p) \/ Send(p) \/ Receipt(p) \/ RecordEvent(p)
      PROVE  Moves(p)
  <2>1. exit[p].at \notin {"idle", "done"}
    BY <1>4 DEF Sign, Send, Receipt, RecordEvent, At
  <2>2. \/ \E place \in {"send", "receipt", "done"} : GoTo(p, place)
        \/ \E place \in {"event", "done"},
              result \in {"refused", "transient", "withdrawn", "review"} :
             Return(p, place, result)
    BY <1>4 DEF Sign, Send, Receipt, RecordEvent, End, Verified
  <2> QED
    BY <1>1, <1>2, <2>1, <2>2 DEF Places, Results
<1> QED
  BY <1>3, <1>4 DEF ExitStep

\* Which actions of a command touch the lock, the journal and the network.
LEMMA ExitTouches ==
  ASSUME ExitTypeOK, NEW p \in Processes, ExitStep(p)
  PROVE  /\ signed' # signed => Sign(p)
         /\ step' # step => Sign(p) \/ (Receipt(p) /\ net[Act(p)] = "mined")
         /\ net' # net => Send(p) /\ Arrives(Act(p))
         /\ lock' # lock => TakeLock(p) \/ exit[p].at \in Locked
         /\ exit'[p].at \in Locked =>
              \/ TakeLock(p) /\ lock = "free" /\ lock' = p
              \/ exit[p].at \in Locked /\ lock' = lock
         /\ exit'[p].at = "sign" => Prepare(p)
<1>1. /\ NoExit.at = "idle" /\ "idle" \notin Locked /\ "done" \notin Locked
      /\ "event" \notin Locked /\ {"look", "receipt", "sign", "send"} \subseteq Locked
      /\ {"look", "receipt", "sign", "send", "done", "event"} \subseteq Places
      /\ {"refused", "transient", "limited", "stale", "withdrawn", "review"}
           \subseteq Results
  BY NoExitType DEF Locked, Places, Results
<1>2. ASSUME NEW place \in {"done", "event"}, NEW result \in Results,
             Return(p, place, result)
      PROVE  exit'[p].at \notin Locked /\ exit'[p].at # "sign"
  <2>1. place \in Places
    BY <1>1
  <2> QED
    BY <1>1, <1>2, <2>1, Returning
<1>3. ASSUME NEW place \in {"look", "receipt", "sign", "send", "done"}, GoTo(p, place)
      PROVE  exit'[p].at = place
  BY <1>1, <1>3, Going
<1>4. CASE TakeLock(p)
  <2>1. step' = step /\ signed' = signed /\ net' = net
    BY <1>4 DEF TakeLock
  <2>2. \/ lock = "free" /\ lock' = p /\ GoTo(p, "look")
        \/ Return(p, "done", "refused") /\ lock' = lock
    BY <1>4 DEF TakeLock, End
  <2> QED
    BY <1>1, <1>2, <1>3, <1>4, <2>1, <2>2
<1>5. CASE ObserveExisting(p) \/ PrepareFails(p) \/ Prepare(p)
  <2>1. step' = step /\ signed' = signed /\ net' = net /\ exit[p].at = "look"
    BY <1>5 DEF ObserveExisting, PrepareFails, Prepare, At
  <2>2. \/ GoTo(p, "receipt") /\ lock' = lock
        \/ GoTo(p, "sign") /\ lock' = lock /\ Prepare(p)
        \/ \E result \in Results : Return(p, "done", result)
    BY <1>1, <1>5 DEF ObserveExisting, PrepareFails, Prepare, End
  <2> QED
    BY <1>1, <1>2, <1>3, <2>1, <2>2
<1>6. CASE Sign(p)
  <2>1. net' = net /\ At(p, "sign") /\ GoTo(p, "send") /\ lock' = lock
    BY <1>6, Zenon DEF Sign
  <2>2. exit[p].at = "sign"
    BY <2>1 DEF At
  <2> QED
    BY <1>1, <1>3, <1>6, <2>1, <2>2
<1>7. CASE Send(p)
  <2>1. step' = step /\ signed' = signed /\ exit[p].at = "send"
        /\ (Arrives(Act(p)) \/ net' = net)
    BY <1>7 DEF Send, At
  <2>2. \/ GoTo(p, "receipt") /\ lock' = lock
        \/ \E result \in Results : Return(p, "done", result)
    BY <1>1, <1>7 DEF Send, End
  <2> QED
    BY <1>1, <1>2, <1>3, <1>7, <2>1, <2>2
<1>8. CASE Receipt(p)
  <2>1. /\ signed' = signed /\ net' = net /\ exit[p].at = "receipt"
        /\ net[Act(p)] = "mined" \/ step' = step
    BY <1>8 DEF Receipt, At
  <2>2. \E place \in {"done", "event"}, result \in Results : Return(p, place, result)
    BY <1>1, <1>8 DEF Receipt, End, Verified
  <2> QED
    BY <1>1, <1>2, <1>8, <2>1, <2>2
<1>9. CASE RecordEvent(p)
  <2>1. step' = step /\ signed' = signed /\ net' = net /\ lock' = lock
    BY <1>9 DEF RecordEvent
  <2>2. GoTo(p, "done") \/ Return(p, "done", "transient")
    BY <1>9 DEF RecordEvent, End
  <2> QED
    BY <1>1, <1>2, <1>3, <2>1, <2>2
<1> QED
  BY <1>4, <1>5, <1>6, <1>7, <1>8, <1>9 DEF ExitStep

\* The types of the commands.
LEMMA ExitTypes ==
  ASSUME ExitTypeOK, NEW p \in Processes, ExitStep(p) PROVE ExitTypeOK'
<1>1. exit' \in [Processes -> [at : Places, action : Actions, result : Results]]
  BY ExitMoves DEF Moves
<1>2. Act(p) \in Actions
  BY DEF ExitTypeOK, Act
<1>3. step' \in [Actions -> {"none", "submitted", "confirmed"}]
  BY <1>2, ExitTouches DEF ExitTypeOK, Sign, Receipt
<1>4. net' \in [Actions -> {"unsent", "pending", "mined", "reverted"}]
  BY <1>2, ExitTouches DEF ExitTypeOK, Arrives
<1>5. signed' \subseteq Processes \X Actions
  BY <1>2, ExitTouches DEF ExitTypeOK, Sign
<1>6. lock' \in Processes \union {"free"}
  <2>1. lock' \in {lock, p, "free"}
    BY DEF ExitStep, TakeLock, ObserveExisting, PrepareFails, Prepare, Sign, Send,
       Receipt, RecordEvent, Release
  <2> QED
    BY <2>1 DEF ExitTypeOK
<1> QED
  BY <1>1, <1>3, <1>4, <1>5, <1>6 DEF ExitTypeOK

LEMMA LockExit ==
  ASSUME ExitTypeOK, LockInv, NEW p \in Processes, ExitStep(p) PROVE LockInv'
<1>1. /\ \A q \in Processes : q # p => exit'[q] = exit[q]
      /\ Act(p) \in Actions
      /\ step \in [Actions -> {"none", "submitted", "confirmed"}]
      /\ signed \subseteq Processes \X Actions /\ p # "free" /\ \A q \in Processes : q # "free"
  BY ExitMoves DEF Moves, ExitTypeOK, Act, Processes
<1>2. \A q \in Processes : exit[q].at \in Locked => lock = q
  BY DEF LockInv
<1>3. ASSUME NEW q \in Processes, exit'[q].at \in Locked PROVE lock' = q
  <2>1. CASE q = p
    BY <1>2, <1>3, <2>1, ExitTouches
  <2>2. CASE q # p
    <3>1. lock = q
      BY <1>1, <1>2, <1>3, <2>2
    <3>2. exit[p].at \notin Locked
      BY <1>2, <2>2, <3>1
    <3>3. TakeLock(p) => lock' = lock
      BY <1>1, <3>1 DEF TakeLock
    <3> QED
      BY <3>1, <3>2, <3>3, ExitTouches
  <2> QED
    BY <2>1, <2>2
<1>4. ASSUME NEW q \in Processes, exit'[q].at = "sign"
      PROVE  step'[exit'[q].action] = "none"
  <2>1. CASE q = p
    <3>1. Prepare(p)
      BY <1>4, <2>1, ExitTouches
    <3>2. exit'[p].action = exit[p].action
      BY <3>1, Going DEF Prepare, Places
    <3> QED
      BY <2>1, <3>1, <3>2 DEF Prepare, Unsigned, Act
  <2>2. CASE q # p
    <3>1. exit[q].at = "sign" /\ exit'[q] = exit[q]
      BY <1>1, <1>4, <2>2
    <3>2. exit[p].at \notin Locked
      BY <1>2, <2>2, <3>1 DEF Locked
    <3>3. step' = step
      BY <3>2, ExitTouches DEF Sign, Receipt, At, Locked
    <3> QED
      BY <3>1, <3>3 DEF LockInv, At, Act
  <2> QED
    BY <2>1, <2>2
<1>5. \A a \in Actions : step[a] # "none" => step'[a] # "none"
  BY <1>1, ExitTouches DEF Sign, Receipt
<1>6. ASSUME NEW s \in signed' PROVE step'[s[2]] # "none"
  <2>1. CASE s \in signed
    BY <1>1, <1>5, <2>1 DEF LockInv
  <2>2. CASE s \notin signed
    <3>1. Sign(p) /\ s = <<p, Act(p)>>
      BY <1>6, <2>2, ExitTouches DEF Sign
    <3> QED
      BY <1>1, <3>1 DEF Sign
  <2> QED
    BY <2>1, <2>2
<1>7. ASSUME NEW q \in Processes, NEW r \in Processes, NEW a \in Actions,
             <<q, a>> \in signed', <<r, a>> \in signed'
      PROVE  q = r
  <2>1. CASE signed' = signed
    BY <1>7, <2>1 DEF LockInv
  <2>2. CASE Sign(p)
    <3>1. /\ signed' = signed \union {<<p, Act(p)>>}
          /\ \A o \in Processes : <<o, Act(p)>> \notin signed
      BY <2>2 DEF Sign, LockInv
    <3> QED
      BY <1>7, <3>1 DEF LockInv
  <2> QED
    BY <2>1, <2>2, ExitTouches
<1> QED
  BY <1>3, <1>4, <1>6, <1>7 DEF LockInv, At, Act

-----------------------------------------------------------------------------
(* What every step leaves alone.                                           *)

\* A step that is none of a command starts one, forgets one or touches none.
LEMMA Frame ==
  ASSUME TypeOK, [Next]_vars, \A p \in Processes : ~Commands(p)
  PROVE  /\ step' = step /\ signed' = signed
         /\ net' # net => Mine
         /\ \/ exit' = exit /\ lock' = lock
            \/ OperatorCommand
            \/ Crash
            \/ /\ lock' = lock
               /\ \/ \E a \in Actions : StartExit("worker", a)
                  \/ Consumed
<1> USE ProcessNames
<1>1. CASE TakeWallet
  <2>1. \A w : ActionsOf(w) \subseteq Actions
    BY DEF ActionsOf
  <2> QED
    BY <1>1, <2>1 DEF TakeWallet
<1>2. CASE RecoveredRecord \/ RecoveredSet \/ RecoveredStale \/ RecoverLater
           \/ RecoverRefused
  BY <1>2 DEF RecoveredRecord, RecoveredSet, RecoveredStale, RecoverLater,
     RecoverRefused, exitVars
<1>3. CASE Quote \/ QuoteLimited \/ QuoteFails \/ SkipClosed \/ PreviewFails
           \/ Deferred \/ EntriesDone
  BY <1>3 DEF Quote, QuoteLimited, QuoteFails, SkipClosed, PreviewFails,
     Deferred, EntriesDone, exitVars
<1>4. CASE Execute \/ ExecuteAgain
  <2>1. ready \subseteq Actions /\ Current \in Actions
    BY DEF TypeOK, ExitTypeOK, Current, Act
  <2> QED
    BY <1>4, <2>1 DEF Execute, ExecuteAgain
<1>5. CASE ExecutedSet \/ ExecutedRecord \/ ExecuteLater \/ LookLater
           \/ ExecuteSkipped \/ ExecuteReviewed \/ Advance
  BY <1>5 DEF ExecutedSet, ExecutedRecord, ExecuteLater, LookLater,
     ExecuteSkipped, ExecuteReviewed, Advance, exitVars
<1>6. CASE PauseOver \/ RetryDue
  BY <1>6 DEF PauseOver, RetryDue, exitVars
<1>7. CASE UNCHANGED vars
  BY <1>7 DEF vars, exitVars
<1>8. CASE OperatorCommand \/ Crash \/ Network
  BY <1>8 DEF OperatorCommand, Crash, ExitDies, Network, Mine
<1> QED
  BY <1>1, <1>2, <1>3, <1>4, <1>5, <1>6, <1>7, <1>8 DEF Next, Worker

\* The exits such a step leaves: only one that waits for the lock is new.
LEMMA FrameExit ==
  ASSUME TypeOK, [Next]_vars, \A p \in Processes : ~Commands(p)
  PROVE  /\ exit' \in [Processes -> [at : Places, action : Actions, result : Results]]
         /\ \A p \in Processes : \/ exit'[p] = exit[p]
                                 \/ exit'[p].at \in {"idle", "lock"}
         /\ lock' \in {lock, "free"}
         /\ lock' # lock => lock = "worker" /\ exit'["worker"].at = "idle"
<1>1. ExitTypeOK /\ Commanded \subseteq Actions
  BY BatchAssumption DEF TypeOK
<1>2. CASE exit' = exit /\ lock' = lock
  BY <1>1, <1>2 DEF ExitTypeOK
<1>3. CASE OperatorCommand
  BY <1>1, <1>3, Starting, ProcessNames DEF OperatorCommand
<1>4. CASE Crash
  BY <1>1, <1>4, Forgetting, NoExitType, ProcessNames DEF Crash, ExitDies, Release
<1>5. CASE lock' = lock /\ \E a \in Actions : StartExit("worker", a)
  BY <1>1, <1>5, Starting, ProcessNames
<1>6. CASE lock' = lock /\ Consumed
  BY <1>1, <1>6, Forgetting, NoExitType, ProcessNames DEF Consumed
<1> QED
  BY <1>2, <1>3, <1>4, <1>5, <1>6, Frame

LEMMA LockStep ==
  ASSUME TypeOK, LockInv, [Next]_vars PROVE LockInv'
<1>1. ExitTypeOK
  BY DEF TypeOK
<1>2. CASE \E p \in Processes : Commands(p)
  BY <1>1, <1>2, LockExit DEF Commands
<1>3. CASE \A p \in Processes : ~Commands(p)
  <2>1. step' = step /\ signed' = signed
    BY <1>3, Frame
  <2>2. ASSUME NEW p \in Processes, exit'[p].at \in Locked
        PROVE  exit'[p] = exit[p] /\ lock' = p
    BY <1>3, <2>2, FrameExit DEF LockInv, Locked
  <2>3. ASSUME NEW p \in Processes, exit'[p].at = "sign"
        PROVE  step[exit'[p].action] = "none"
    BY <2>2, <2>3 DEF LockInv, Locked, At, Act
  <2> QED
    BY <2>1, <2>2, <2>3 DEF LockInv, At, Act
<1> QED
  BY <1>2, <1>3

\* What is mined or confirmed stays so.
LEMMA EndsStay ==
  ASSUME TypeOK, LockInv, [Next]_vars, NEW a \in Actions
  PROVE  /\ net[a] = "mined" => net'[a] = "mined"
         /\ step[a] = "confirmed" => step'[a] = "confirmed"
<1>1. /\ step \in [Actions -> {"none", "submitted", "confirmed"}]
      /\ net \in [Actions -> {"unsent", "pending", "mined", "reverted"}]
      /\ ExitTypeOK
  BY DEF TypeOK, ExitTypeOK
<1>2. ASSUME NEW p \in Processes, Commands(p)
      PROVE  /\ net[a] = "mined" => net'[a] = "mined"
             /\ step[a] = "confirmed" => step'[a] = "confirmed"
  <2>1. ExitStep(p) /\ Act(p) \in Actions
    BY <1>1, <1>2 DEF Commands, ExitTypeOK, Act
  <2>2. net[a] = "mined" => net'[a] = "mined"
    BY <1>1, <2>1, ExitTouches DEF Arrives
  <2>3. step[a] = "confirmed" => step'[a] = "confirmed"
    <3>1. CASE Sign(p)
      <4>1. /\ At(p, "sign")
            /\ step' = [step EXCEPT ![Act(p)] = "submitted"]
        BY <3>1, Zenon DEF Sign
      <4>2. step[Act(p)] = "none"
        BY <4>1, Zenon DEF LockInv
      <4> QED
        BY <1>1, <2>1, <4>1, <4>2
    <3>2. CASE Receipt(p)
      <4>1. step' = [step EXCEPT ![Act(p)] = "confirmed"] \/ step' = step
        BY <3>2 DEF Receipt
      <4> QED
        BY <1>1, <2>1, <4>1
    <3> QED
      BY <1>1, <2>1, <3>1, <3>2, ExitTouches
  <2> QED
    BY <2>2, <2>3
<1>3. CASE \A p \in Processes : ~Commands(p)
  BY <1>1, <1>3, Frame DEF Mine
<1> QED
  BY <1>2, <1>3

\* Who signs what.
LEMMA SignsWhat ==
  ASSUME TypeOK, LockInv, [Next]_vars, NEW p \in Processes, NEW a \in Actions,
         <<p, a>> \in signed' \ signed
  PROVE  Commands(p) /\ Sign(p) /\ a = Act(p) /\ step[a] = "none"
<1>1. PICK q \in Processes : Commands(q)
  BY Frame
<1>2. Sign(q)
  BY <1>1, ExitTouches DEF Commands, TypeOK
<1>3. p = q /\ a = Act(p)
  BY <1>2 DEF Sign
<1> QED
  BY <1>1, <1>2, <1>3 DEF Sign, LockInv

LEMMA ResultStep ==
  ASSUME TypeOK, LockInv, ResultInv, [Next]_vars PROVE ResultInv'
<1>1. ExitTypeOK /\ exit["worker"].action \in Actions
  BY ProcessNames DEF TypeOK, ExitTypeOK
<1> DEFINE old == exit["worker"]
           new == exit'["worker"]
<1>2. CASE new = old
  <2>1. /\ new.at \in {"event", "done"} /\ new.result = "withdrawn" =>
             net'[new.action] = "mined" /\ step'[new.action] = "confirmed"
    BY <1>1, <1>2, EndsStay DEF ResultInv
  <2>2. ASSUME new.at = "done", new.result = "stale"
        PROVE  <<"worker", new.action>> \notin signed'
    <3>1. <<"worker", old.action>> \notin signed
      BY <1>2, <2>2 DEF ResultInv
    <3>2. ~Sign("worker")
      BY <1>2, <2>2 DEF Sign, At
    <3> QED
      BY <1>1, <1>2, <3>1, <3>2, SignsWhat, ProcessNames
  <2>3. new.at = "event" => new.result \in {"withdrawn", "review"}
    BY <1>2 DEF ResultInv
  <2> QED
    BY <2>1, <2>2, <2>3 DEF ResultInv
<1>3. CASE new.at \in {"idle", "lock"}
  BY <1>3 DEF ResultInv
<1>4. CASE Commands("worker")
  <2>1. ExitStep("worker")
    BY <1>4 DEF Commands
  <2>2. CASE TakeLock("worker") \/ ObserveExisting("worker") \/ Send("worker")
             \/ Prepare("worker") \/ Sign("worker")
    <3>1. \/ \E place \in {"look", "receipt", "sign", "send"} : GoTo("worker", place)
          \/ \E result \in {"refused", "transient"} :
               Return("worker", "done", result)
      BY <2>2 DEF TakeLock, ObserveExisting, Send, Prepare, Sign, End
    <3>2. \/ new.at \in {"look", "receipt", "sign", "send"}
          \/ new.at = "done" /\ new.result \in {"refused", "transient"}
      BY <1>1, <3>1, Going, Returning, ProcessNames DEF Places, Results
    <3> QED
      BY <3>2 DEF ResultInv
  <2>3. CASE PrepareFails("worker")
    <3>1. /\ \E result \in Results \ {"withdrawn"} : Return("worker", "done", result)
          /\ step[old.action] = "none" /\ signed' = signed
      BY <2>3 DEF PrepareFails, End, Unsigned, Act, Results
    <3>2. new.at = "done" /\ new.result # "withdrawn" /\ new.action = old.action
      BY <1>1, <3>1, Returning, ProcessNames DEF Places
    <3>3. <<"worker", old.action>> \notin signed
      BY <3>1 DEF LockInv
    <3> QED
      BY <3>1, <3>2, <3>3 DEF ResultInv
  <2>4. CASE Receipt("worker")
    <3>1. \/ \E result \in {"refused", "transient"} :
               Return("worker", "done", result)
          \/ /\ net[old.action] = "mined" /\ net' = net
             /\ step' = [step EXCEPT ![old.action] = "confirmed"]
             /\ \E result \in {"withdrawn", "review"} :
                  Return("worker", "event", result)
      BY <2>4 DEF Receipt, End, Verified, Act
    <3>2. \/ new.at = "done" /\ new.result \in {"refused", "transient"}
          \/ /\ net[old.action] = "mined" /\ net' = net /\ new.action = old.action
             /\ step' = [step EXCEPT ![old.action] = "confirmed"]
             /\ new.at = "event" /\ new.result \in {"withdrawn", "review"}
      BY <1>1, <3>1, Returning, ProcessNames DEF Places, Results
    <3> QED
      BY <1>1, <3>2 DEF ResultInv, ExitTypeOK
  <2>5. CASE RecordEvent("worker")
    <3>1. /\ old.at = "event" /\ net' = net /\ step' = step /\ signed' = signed
          /\ \/ GoTo("worker", "done")
             \/ Return("worker", "done", "transient")
      BY <2>5 DEF RecordEvent, End, At
    <3>2. \/ new.result = "transient"
          \/ new.action = old.action /\ new.result = old.result
      BY <1>1, <3>1, Going, Returning, ProcessNames DEF Places, Results
    <3>3. new.at # "event" /\ old.result \in {"withdrawn", "review"}
      BY <1>1, <3>1, Going, Returning, ProcessNames DEF Places, Results, ResultInv
    <3> QED
      BY <3>1, <3>2, <3>3 DEF ResultInv
  <2> QED
    BY <2>1, <2>2, <2>3, <2>4, <2>5 DEF ExitStep
<1> QED
  <2>1. ASSUME Commands("operator") PROVE new = old
    BY <1>1, <2>1, ExitMoves, ProcessNames DEF Commands, Moves
  <2>2. ASSUME \A p \in Processes : ~Commands(p)
        PROVE  new = old \/ new.at \in {"idle", "lock"}
    BY <2>2, FrameExit, ProcessNames
  <2> QED
    BY <1>2, <1>3, <1>4, <2>1, <2>2, ProcessNames

-----------------------------------------------------------------------------
(* What every step does to the queue.                                      *)

\* Steps that touch neither the worker nor what the queue says of an action;
\* only a command of the worker changes its exit, and not the action of it.
Quiet ==
  /\ UNCHANGED <<action, worker, crashes>>
  /\ \/ exit'["worker"] = exit["worker"]
     \/ /\ exit["worker"].at \notin {"idle", "done"}
        /\ exit'["worker"].action = exit["worker"].action
        /\ exit'["worker"].at \notin {"idle", "lock"}

LEMMA QuietSteps ==
  ASSUME TypeOK,
         \/ \E p \in Processes : Commands(p)
         \/ OperatorCommand \/ Network \/ PauseOver \/ RetryDue \/ UNCHANGED vars
  PROVE  Quiet
<1> USE ProcessNames
<1>1. ExitTypeOK /\ Commanded \subseteq Actions
  BY BatchAssumption DEF TypeOK
<1>2. ASSUME NEW p \in Processes, Commands(p) PROVE Quiet
  <2>1. Moves(p) /\ UNCHANGED <<action, worker, crashes>>
    BY <1>1, <1>2, ExitMoves DEF Commands, tables, bounds
  <2> QED
    BY <2>1 DEF Moves, Quiet
<1>3. CASE OperatorCommand
  <2>1. exit'["worker"] = exit["worker"]
    BY <1>1, <1>3, Starting DEF OperatorCommand
  <2> QED
    BY <1>3, <2>1 DEF OperatorCommand, Quiet, tables
<1>4. CASE Network \/ PauseOver \/ RetryDue \/ UNCHANGED vars
  BY <1>4 DEF Network, Mine, PauseOver, RetryDue, vars, exitVars, tables, bounds,
     Quiet
<1> QED
  BY <1>2, <1>3, <1>4

\* The records of the queue, without their bound.
Queued == [status : Final \union {"queued", "active"}, attempts : Nat,
           due : {"null", "now", "retry", "pause"}]

LEMMA QueuedType ==
  ASSUME TypeOK
  PROVE  /\ wallet \in [Wallets -> Queued] /\ head \in Wallets
         /\ Attempts \in Nat /\ crashes \in Nat /\ Wallets \subseteq Nat
<1>1. Attempts + MaxCrashes \in Nat /\ Wallets \subseteq Nat
  BY BatchAssumption DEF Wallets
<1>2. 0 .. Attempts + MaxCrashes \subseteq Nat
  BY <1>1
<1>3. [status : Final \union {"queued", "active"},
       attempts : 0 .. Attempts + MaxCrashes,
       due : {"null", "now", "retry", "pause"}] \subseteq Queued
  BY <1>2 DEF Queued
<1>4. wallet \in [Wallets -> Queued]
  BY <1>3 DEF TypeOK
<1> QED
  BY <1>1, <1>4, BatchAssumption DEF TypeOK

\* A retry counts the attempt.
LEMMA Retrying ==
  ASSUME TypeOK, NEW status, RetryOr(status)
  PROVE  /\ wallet' \in [Wallets -> Queued]
         /\ \A v \in Wallets : /\ wallet'[v].status = wallet[v].status
                               /\ v # head => wallet'[v].attempts = wallet[v].attempts
         /\ wallet'[head].attempts = wallet[head].attempts + 1
<1>1. wallet \in [Wallets -> Queued] /\ head \in Wallets
  BY QueuedType
<1>2. PICK n \in Nat : n = wallet[head].attempts + 1
  BY <1>1 DEF Queued
<1>3. wallet' = [wallet EXCEPT ![head].attempts = n, ![head].due = "retry"]
  BY <1>1, <1>2 DEF RetryOr
<1>4. /\ wallet' = [wallet EXCEPT ![head] = wallet'[head]]
      /\ wallet'[head] \in Queued
      /\ wallet'[head].status = wallet[head].status
      /\ wallet'[head].attempts = n
  BY <1>1, <1>3 DEF Queued
<1> QED
  BY <1>1, <1>2, <1>4

\* Only taking a wallet and closing it change its status.
LEMMA StatusMoves ==
  ASSUME TypeOK, PlaceInv, [Next]_vars
  PROVE  /\ wallet' \in [Wallets -> Queued]
         /\ \A w \in Wallets :
              \/ wallet'[w].status = wallet[w].status
              \/ TakeWallet /\ Open(w) /\ wallet'[w].status = "active"
              \/ Advance /\ w = head /\ wallet'[w].status = outcome
         /\ Advance => wallet'[head].status = outcome
<1>1. wallet \in [Wallets -> Queued] /\ head \in Wallets
  BY QueuedType
<1>2. CASE TakeWallet
  <2>1. PICK w \in Wallets : Open(w) /\ wallet' = [wallet EXCEPT ![w].status = "active"]
    BY <1>2 DEF TakeWallet
  <2>2. /\ wallet' = [wallet EXCEPT ![w] = wallet'[w]]
        /\ wallet'[w] \in Queued
        /\ wallet'[w].status = "active"
    BY <1>1, <2>1 DEF Queued
  <2>3. pc = "idle"
    BY <1>2 DEF TakeWallet
  <2> QED
    BY <1>1, <1>2, <2>1, <2>2, <2>3 DEF Advance
<1>3. CASE Advance
  <2>1. outcome \in Final
    BY <1>3 DEF Advance, PlaceInv
  <2> DEFINE closed == [wallet EXCEPT ![head].status = outcome]
  <2>2. /\ closed = [wallet EXCEPT ![head] = closed[head]]
        /\ closed[head] \in Queued
        /\ closed[head].status = outcome
    BY <1>1, <2>1 DEF Queued
  <2>3. \/ wallet' = closed
        \/ \E w \in Wallets : wallet' = [closed EXCEPT ![w].due = "now"]
    BY <1>3 DEF Advance
  <2> HIDE DEF closed
  <2>4. closed \in [Wallets -> Queued]
    BY <1>1, <2>2
  <2>5. ASSUME NEW w \in Wallets, wallet' = [closed EXCEPT ![w].due = "now"]
        PROVE  /\ wallet' = [closed EXCEPT ![w] = wallet'[w]]
               /\ wallet'[w] \in Queued
               /\ wallet'[w].status = closed[w].status
    BY <2>4, <2>5 DEF Queued
  <2>6. /\ wallet' \in [Wallets -> Queued]
        /\ \A w \in Wallets : wallet'[w].status = closed[w].status
    BY <2>3, <2>4, <2>5
  <2> QED
    BY <1>1, <1>3, <2>2, <2>6
<1>4. CASE RecoverLater \/ QuoteLimited \/ LookLater
  <2>1. \E status : RetryOr(status)
    BY <1>4 DEF RecoverLater, QuoteLimited, LookLater
  <2>2. pc # "finish"
    BY <1>4 DEF RecoverLater, QuoteLimited, LookLater
  <2> QED
    BY <2>1, <2>2, Retrying DEF Advance
<1>5. CASE Quote
  <2>1. wallet' = [wallet EXCEPT ![head].attempts = 0] /\ pc # "finish"
    BY <1>5 DEF Quote
  <2>2. /\ wallet' = [wallet EXCEPT ![head] = wallet'[head]]
        /\ wallet'[head] \in Queued
        /\ wallet'[head].status = wallet[head].status
    BY <1>1, <2>1 DEF Queued
  <2> QED
    BY <1>1, <2>1, <2>2 DEF Advance
<1>6. CASE Deferred \/ RetryDue
  <2>1. PICK w \in Wallets, due \in {"pause", "now"} :
          wallet' = [wallet EXCEPT ![w].due = due]
    BY <1>1, <1>6 DEF Deferred, RetryDue
  <2>2. /\ wallet' = [wallet EXCEPT ![w] = wallet'[w]]
        /\ wallet'[w] \in Queued
        /\ wallet'[w].status = wallet[w].status
    BY <1>1, <2>1 DEF Queued
  <2>3. /\ wallet' \in [Wallets -> Queued]
        /\ \A v \in Wallets : wallet'[v].status = wallet[v].status
    BY <1>1, <2>1, <2>2
  <2> QED
    BY <1>3, <2>3
<1>7. ASSUME wallet' = wallet
      PROVE  /\ wallet' \in [Wallets -> Queued]
             /\ \A w \in Wallets : wallet'[w].status = wallet[w].status
  BY <1>1, <1>7
<1>8. CASE RecoveredRecord \/ RecoveredSet \/ RecoveredStale \/ RecoverRefused
           \/ QuoteFails \/ SkipClosed \/ PreviewFails \/ Execute
  BY <1>3, <1>7, <1>8 DEF RecoveredRecord, RecoveredSet, RecoveredStale,
     RecoverRefused, QuoteFails, SkipClosed, PreviewFails, Execute, tables
<1>9. CASE EntriesDone \/ ExecutedSet \/ ExecutedRecord \/ ExecuteAgain
           \/ ExecuteLater \/ ExecuteSkipped \/ ExecuteReviewed
  BY <1>3, <1>7, <1>9 DEF EntriesDone, ExecutedSet, ExecutedRecord,
     ExecuteAgain, ExecuteLater, ExecuteSkipped, ExecuteReviewed, tables
<1>10. CASE OperatorCommand \/ Network \/ PauseOver \/ Crash
            \/ Commands("worker") \/ Commands("operator") \/ UNCHANGED vars
  BY <1>3, <1>7, <1>10 DEF OperatorCommand, Network, PauseOver, Crash, Commands,
     tables, vars
<1> QED
  BY <1>2, <1>3, <1>4, <1>5, <1>6, <1>8, <1>9, <1>10 DEF Next, Worker

\* Attempts are counted and reset for the wallet the worker is at.
LEMMA AttemptMoves ==
  ASSUME TypeOK, [Next]_vars
  PROVE  \A w \in Wallets :
           \/ wallet'[w].attempts = wallet[w].attempts
           \/ w = head /\ wallet'[w].attempts = 0
           \/ /\ w = head /\ pc \notin {"idle", "finish"}
              /\ wallet'[w].attempts = wallet[w].attempts + 1
              /\ \/ pc' = "finish" /\ head' = head
                 \/ wallet[w].attempts + 1 < Attempts
<1>1. wallet \in [Wallets -> Queued] /\ head \in Wallets
  BY QueuedType
<1>2. CASE TakeWallet
  <2>1. PICK w \in Wallets : wallet' = [wallet EXCEPT ![w].status = "active"]
    BY <1>2 DEF TakeWallet
  <2>2. /\ wallet' = [wallet EXCEPT ![w] = wallet'[w]]
        /\ wallet'[w].attempts = wallet[w].attempts
    BY <1>1, <2>1 DEF Queued
  <2> QED
    BY <1>1, <2>1, <2>2
<1>3. CASE Advance
  <2> DEFINE closed == [wallet EXCEPT ![head].status = outcome]
  <2>1. /\ closed = [wallet EXCEPT ![head] = closed[head]]
        /\ closed[head].attempts = wallet[head].attempts
    BY <1>1 DEF Queued
  <2>2. \/ wallet' = closed
        \/ \E w \in Wallets : wallet' = [closed EXCEPT ![w].due = "now"]
    BY <1>3 DEF Advance
  <2>3. ASSUME NEW w \in Wallets, wallet' = [closed EXCEPT ![w].due = "now"]
        PROVE  /\ wallet' = [closed EXCEPT ![w] = wallet'[w]]
               /\ wallet'[w].attempts = closed[w].attempts
    BY <1>1, <2>3 DEF Queued
  <2> HIDE DEF closed
  <2>4. \A w \in Wallets : closed[w].attempts = wallet[w].attempts
    BY <1>1, <2>1
  <2>5. \A w \in Wallets : wallet'[w].attempts = closed[w].attempts
    BY <1>1, <2>1, <2>2, <2>3
  <2> QED
    BY <2>4, <2>5
<1>4. CASE RecoverLater \/ QuoteLimited \/ LookLater
  <2>1. PICK status : RetryOr(status)
    BY <1>4 DEF RecoverLater, QuoteLimited, LookLater
  <2>2. pc \notin {"idle", "finish"}
    BY <1>4 DEF RecoverLater, QuoteLimited, LookLater
  <2>3. \/ pc' = "finish" /\ head' = head
        \/ wallet[head].attempts + 1 < Attempts
    <3>1. wallet[head].attempts \in Nat /\ Attempts \in Nat
      BY <1>1, BatchAssumption DEF Queued
    <3> QED
      BY <2>1, <3>1 DEF RetryOr, Finish
  <2> QED
    BY <2>1, <2>2, <2>3, Retrying
<1>5. CASE Quote
  <2>1. wallet' = [wallet EXCEPT ![head].attempts = 0]
    BY <1>5 DEF Quote
  <2>2. /\ wallet' = [wallet EXCEPT ![head] = wallet'[head]]
        /\ wallet'[head].attempts = 0
    BY <1>1, <2>1 DEF Queued
  <2> QED
    BY <1>1, <2>2
<1>6. CASE Deferred \/ RetryDue
  <2>1. PICK w \in Wallets, due \in {"pause", "now"} :
          wallet' = [wallet EXCEPT ![w].due = due]
    BY <1>1, <1>6 DEF Deferred, RetryDue
  <2>2. /\ wallet' = [wallet EXCEPT ![w] = wallet'[w]]
        /\ wallet'[w].attempts = wallet[w].attempts
    BY <1>1, <2>1 DEF Queued
  <2> QED
    BY <1>1, <2>1, <2>2
<1>7. CASE RecoveredRecord \/ RecoveredSet \/ RecoveredStale \/ RecoverRefused
           \/ QuoteFails \/ SkipClosed \/ PreviewFails \/ Execute
  <2>1. wallet' = wallet
    BY <1>7 DEF RecoveredRecord, RecoveredSet, RecoveredStale,
       RecoverRefused, QuoteFails, SkipClosed, PreviewFails, Execute, tables
  <2> QED
    BY <2>1
<1>8. CASE EntriesDone \/ ExecutedSet \/ ExecutedRecord \/ ExecuteAgain
           \/ ExecuteLater \/ ExecuteSkipped \/ ExecuteReviewed
  <2>1. wallet' = wallet
    BY <1>8 DEF EntriesDone, ExecutedSet, ExecutedRecord,
       ExecuteAgain, ExecuteLater, ExecuteSkipped, ExecuteReviewed, tables
  <2> QED
    BY <2>1
<1>9. CASE OperatorCommand \/ Network \/ PauseOver \/ Crash
           \/ Commands("worker") \/ Commands("operator") \/ UNCHANGED vars
  <2>1. wallet' = wallet
    BY <1>9 DEF OperatorCommand, Network, PauseOver, Crash, Commands,
       tables, vars
  <2> QED
    BY <2>1
<1> QED
  BY <1>2, <1>3, <1>4, <1>5, <1>6, <1>7, <1>8, <1>9 DEF Next, Worker

\* A wallet is closed once, by Advance, and stays closed.
LEMMA OpenMoves ==
  ASSUME TypeOK, PlaceInv, [Next]_vars
  PROVE  \A w \in Wallets : Open(w)' <=> Open(w) /\ ~(Advance /\ w = head)
<1>1. Advance => pc = "finish" /\ outcome \in Final
  BY DEF Advance, PlaceInv
<1>2. TakeWallet => pc = "idle"
  BY DEF TakeWallet
<1> QED
  BY <1>1, <1>2, StatusMoves DEF Open, Final

\* The steps of a worker that waits for the commit that closes its wallet.
LEMMA AtFinish ==
  ASSUME TypeOK, [Next]_vars, pc = "finish"
  PROVE  Advance \/ Crash \/ Quiet
<1>1. ~(\/ TakeWallet \/ RecoveredRecord \/ RecoveredSet \/ RecoveredStale
        \/ RecoverLater \/ RecoverRefused \/ Quote \/ QuoteLimited \/ QuoteFails
        \/ SkipClosed \/ PreviewFails \/ Deferred \/ Execute \/ EntriesDone)
  BY DEF TakeWallet, RecoveredRecord, RecoveredSet, RecoveredStale, RecoverLater,
     RecoverRefused, Quote, QuoteLimited, QuoteFails, SkipClosed, PreviewFails,
     Deferred, Execute, EntriesDone
<1>2. ~(\/ ExecutedSet \/ ExecutedRecord \/ ExecuteAgain \/ ExecuteLater
        \/ LookLater \/ ExecuteSkipped \/ ExecuteReviewed)
  BY DEF ExecutedSet, ExecutedRecord, ExecuteAgain, ExecuteLater, LookLater,
     ExecuteSkipped, ExecuteReviewed
<1> QED
  BY <1>1, <1>2, QuietSteps, ProcessNames DEF Next, Worker

\* The wallet of the worker changes when it takes the next one.
LEMMA HeadMoves ==
  ASSUME TypeOK, [Next]_vars
  PROVE  /\ head' = head \/ TakeWallet
         /\ crashes' = crashes \/ (Crash /\ crashes' = crashes + 1)
<1>1. CASE Quiet
  BY <1>1 DEF Quiet, worker
<1>2. CASE TakeWallet \/ RecoveredRecord \/ RecoveredSet \/ RecoveredStale
           \/ RecoverLater \/ RecoverRefused \/ Quote
  BY <1>2 DEF TakeWallet, RecoveredRecord, RecoveredSet, RecoveredStale,
     RecoverLater, RecoverRefused, Quote, bounds, Work, Finish, RetryOr
<1>3. CASE QuoteLimited \/ QuoteFails \/ SkipClosed \/ PreviewFails \/ Deferred
           \/ Execute \/ EntriesDone
  BY <1>3 DEF QuoteLimited, QuoteFails, SkipClosed, PreviewFails, Deferred,
     Execute, EntriesDone, bounds, Work, Finish, RetryOr, NextEntry
<1>4. CASE ExecutedSet \/ ExecutedRecord \/ ExecuteAgain \/ ExecuteLater
           \/ LookLater
  BY <1>4 DEF ExecutedSet, ExecutedRecord, ExecuteAgain, ExecuteLater, LookLater,
     bounds, Work, Finish, RetryOr, NextEntry
<1>5. CASE ExecuteSkipped \/ ExecuteReviewed \/ Advance \/ Crash
  BY <1>5 DEF ExecuteSkipped, ExecuteReviewed, Advance, Crash, bounds, Work,
     Finish, NextEntry
<1> QED
  BY <1>1, <1>2, <1>3, <1>4, <1>5, QuietSteps, ProcessNames DEF Next, Worker

LEMMA AttemptsStep ==
  ASSUME TypeOK, PlaceInv, AttemptsInv, [Next]_vars PROVE AttemptsInv'
<1>1. /\ wallet \in [Wallets -> Queued] /\ head \in Wallets
      /\ Attempts \in Nat \ {0} /\ crashes \in Nat
  BY QueuedType, BatchAssumption
<1>2. crashes' \in Nat /\ crashes' >= crashes
  BY <1>1, HeadMoves
<1>3. \A w \in Wallets : wallet[w].attempts \in Nat
  BY <1>1 DEF Queued
<1>4. ASSUME NEW w \in Wallets PROVE wallet'[w].attempts <= Attempts + crashes'
  <2>1. wallet[w].attempts <= Attempts + crashes
    BY DEF AttemptsInv
  <2>2. w = head /\ pc \notin {"idle", "finish"} =>
          wallet[w].attempts < Attempts + crashes
    BY DEF AttemptsInv, PlaceInv
  <2> QED
    BY <1>1, <1>2, <1>3, <2>1, <2>2, AttemptMoves
<1>5. ASSUME NEW w \in Wallets, Open(w)', pc' = "finish" => w # head'
      PROVE  wallet'[w].attempts < Attempts + crashes'
  <2>1. Open(w) /\ ~(Advance /\ w = head)
    BY <1>5, OpenMoves
  <2>2. CASE pc = "finish" => w # head
    <3>1. wallet[w].attempts < Attempts + crashes
      BY <2>1, <2>2 DEF AttemptsInv
    <3> QED
      BY <1>1, <1>2, <1>3, <1>5, <3>1, AttemptMoves
  <2>3. CASE pc = "finish" /\ w = head
    <3>1. Crash
      BY <1>5, <2>1, <2>3, AtFinish DEF Quiet, worker
    <3>2. crashes' = crashes + 1 /\ wallet' = wallet
      BY <3>1 DEF Crash, tables
    <3>3. wallet[w].attempts <= Attempts + crashes
      BY DEF AttemptsInv
    <3> QED
      BY <1>1, <1>3, <3>2, <3>3
  <2> QED
    BY <2>2, <2>3
<1> QED
  BY <1>4, <1>5 DEF AttemptsInv, Wallets


-----------------------------------------------------------------------------
(* The types.                                                              *)

LEMMA ExitTypeStep ==
  ASSUME TypeOK, [Next]_vars PROVE ExitTypeOK'
<1>1. ExitTypeOK
  BY DEF TypeOK
<1>2. CASE \E p \in Processes : Commands(p)
  BY <1>1, <1>2, ExitTypes DEF Commands
<1>3. CASE \A p \in Processes : ~Commands(p)
  <2>1. step' = step /\ signed' = signed
    BY <1>3, Frame
  <2>2. net' \in [Actions -> {"unsent", "pending", "mined", "reverted"}]
    BY <1>1, <1>3, Frame DEF Mine, ExitTypeOK
  <2>3. exit' \in [Processes -> [at : Places, action : Actions, result : Results]]
    BY <1>3, FrameExit
  <2>4. lock' \in Processes \union {"free"}
    BY <1>1, <1>3, FrameExit DEF ExitTypeOK
  <2> QED
    BY <1>1, <2>1, <2>2, <2>3, <2>4 DEF ExitTypeOK
<1> QED
  BY <1>2, <1>3

LEMMA WalletTypeStep ==
  ASSUME TypeOK, PlaceInv, AttemptsInv, [Next]_vars, crashes' \in 0 .. MaxCrashes
  PROVE  wallet' \in [Wallets -> [status : Final \union {"queued", "active"},
                                  attempts : 0 .. Attempts + MaxCrashes,
                                  due : {"null", "now", "retry", "pause"}]]
<1>1. wallet' \in [Wallets -> Queued]
  BY StatusMoves
<1>2. \A w \in Wallets : wallet'[w].attempts <= Attempts + crashes'
  BY AttemptsStep DEF AttemptsInv, Wallets
<1>3. Attempts \in Nat /\ MaxCrashes \in Nat
  BY BatchAssumption
<1>4. ASSUME NEW w \in Wallets
      PROVE  wallet'[w].attempts \in 0 .. Attempts + MaxCrashes
  <2>1. wallet'[w].attempts \in Nat
    BY <1>1 DEF Queued
  <2> QED
    BY <1>2, <1>3, <2>1
<1>5. \A w \in Wallets : wallet'[w] \in Queued
  BY <1>1
<1>6. \A w \in Wallets :
        wallet'[w] \in [status : Final \union {"queued", "active"},
                        attempts : 0 .. Attempts + MaxCrashes,
                        due : {"null", "now", "retry", "pause"}]
  BY <1>4, <1>5 DEF Queued
<1> QED
  BY <1>1, <1>6

\* The rest of the type invariant.
Rest ==
  /\ run \in {"running", "completed"}
  /\ action \in [Actions -> {"none", "executing", "stale"} \union Closed]
  /\ recorded \subseteq Actions /\ held \subseteq Wallets
  /\ pc \in {"idle", "recover", "recovered", "quote", "entries", "execute",
             "record", "later", "finish"}
  /\ head \in Wallets /\ ready \subseteq Actions /\ tries \in 0 .. Tries
  /\ outcome \in Final \union {"none"}
  /\ crashes \in 0 .. MaxCrashes /\ commands \in 0 .. MaxCommands

LEMMA RestStep ==
  ASSUME TypeOK, [Next]_vars PROVE Rest'
<1>1. Rest /\ Current \in Actions
  BY ProcessNames DEF TypeOK, Rest, ExitTypeOK, Current, Act
<1>2. /\ Tries \in Nat /\ MaxCrashes \in Nat /\ MaxCommands \in Nat
      /\ 0 \in 0 .. Tries
  BY BatchAssumption
<1>3. \A w : ActionsOf(w) \subseteq Actions
  BY DEF ActionsOf
<1>4. ASSUME NEW a, Record(a), a \in Actions
      PROVE  recorded' \subseteq Actions /\ held' \subseteq Wallets
  BY <1>1, <1>4 DEF Record, Rest
<1>5. CASE TakeWallet \/ RecoveredSet \/ RecoveredStale \/ RecoverLater
           \/ RecoverRefused
  BY <1>1, <1>2, <1>5 DEF TakeWallet, RecoveredSet, RecoveredStale, RecoverLater,
     RecoverRefused, SetAction, Work, Finish, RetryOr, Rest, Closed, Final, tables,
     bounds
<1>6. CASE RecoveredRecord \/ ExecutedRecord \/ ExecuteLater
  BY <1>1, <1>2, <1>4, <1>6 DEF RecoveredRecord, ExecutedRecord, ExecuteLater,
     Work, NextEntry, Rest, bounds
<1>7. CASE Quote \/ QuoteLimited \/ QuoteFails \/ EntriesDone
  BY <1>1, <1>3, <1>7 DEF Quote, QuoteLimited, QuoteFails, EntriesDone, Finish,
     RetryOr, Rest, Final, tables, bounds
<1>8. CASE SkipClosed \/ Deferred
  BY <1>1, <1>2, <1>8 DEF SkipClosed, Deferred, Work, NextEntry, Rest, tables,
     bounds
<1>9. CASE PreviewFails
  BY <1>1, <1>2, <1>9 DEF PreviewFails, SetAction, Finish, NextEntry, Rest,
     Closed, Final, bounds
<1>10. CASE Execute
  BY <1>1, <1>2, <1>10 DEF Execute, SetAction, Rest, bounds
<1>11. CASE ExecutedSet \/ ExecuteSkipped \/ ExecuteReviewed
  BY <1>1, <1>2, <1>11 DEF ExecutedSet, ExecuteSkipped, ExecuteReviewed, SetAction,
     Work, Finish, NextEntry, Rest, Closed, Final, bounds
<1>12. CASE ExecuteAgain \/ LookLater \/ Advance
  BY <1>1, <1>2, <1>12 DEF ExecuteAgain, LookLater, Advance, Work, Finish, RetryOr,
     Rest, Final, tables, bounds
<1>13. CASE PauseOver \/ RetryDue \/ OperatorCommand \/ Network
  BY <1>1, <1>2, <1>13 DEF PauseOver, RetryDue, OperatorCommand, Network, Rest,
     tables, worker, bounds
<1>14. CASE Crash
  BY <1>1, <1>2, <1>14 DEF Crash, Rest, tables
<1>15. CASE Commands("worker") \/ Commands("operator") \/ UNCHANGED vars
  BY <1>1, <1>15 DEF Commands, Rest, vars, tables, worker, bounds
<1> QED
  BY <1>5, <1>6, <1>7, <1>8, <1>9, <1>10, <1>11, <1>12, <1>13, <1>14, <1>15
     DEF Next, Worker

LEMMA TypeStep ==
  ASSUME TypeOK, PlaceInv, AttemptsInv, [Next]_vars PROVE TypeOK'
<1>1. ExitTypeOK'
  BY ExitTypeStep
<1>2. Rest'
  BY RestStep
<1>3. (wallet \in [Wallets -> [status : Final \union {"queued", "active"},
                               attempts : 0 .. Attempts + MaxCrashes,
                               due : {"null", "now", "retry", "pause"}]])'
  BY <1>2, WalletTypeStep DEF Rest, Wallets, Final
<1> QED
  BY <1>1, <1>2, <1>3 DEF TypeOK, Rest

-----------------------------------------------------------------------------
(* Where the worker is.                                                    *)

LEMMA AtIdle ==
  ASSUME TypeOK, [Next]_vars, pc = "idle" PROVE TakeWallet \/ Quiet
<1>1. ~(\/ RecoveredRecord \/ RecoveredSet \/ RecoveredStale
        \/ RecoverLater \/ RecoverRefused \/ Quote \/ QuoteLimited \/ QuoteFails
        \/ SkipClosed \/ PreviewFails \/ Deferred \/ Execute \/ EntriesDone)
  BY DEF RecoveredRecord, RecoveredSet, RecoveredStale, RecoverLater,
     RecoverRefused, Quote, QuoteLimited, QuoteFails, SkipClosed, PreviewFails,
     Deferred, Execute, EntriesDone
<1>2. ~(\/ ExecutedSet \/ ExecutedRecord \/ ExecuteAgain \/ ExecuteLater
        \/ LookLater \/ ExecuteSkipped \/ ExecuteReviewed \/ Advance \/ Crash)
  BY DEF ExecutedSet, ExecutedRecord, ExecuteAgain, ExecuteLater, LookLater,
     ExecuteSkipped, ExecuteReviewed, Advance, Crash
<1> QED
  BY <1>1, <1>2, QuietSteps, ProcessNames DEF Next, Worker

\* The wallet the worker is at is open and the first open one.
LEMMA HeadStep ==
  ASSUME TypeOK, PlaceInv, [Next]_vars
  PROVE  /\ pc' # "idle" => Open(head)'
         /\ \A v \in Wallets : v < head' => ~Open(v)'
<1>1. \A w \in Wallets : Open(w)' <=> Open(w) /\ ~(Advance /\ w = head)
  BY OpenMoves
<1>2. head \in Wallets /\ Wallets \subseteq Nat
  BY QueuedType
<1>3. CASE TakeWallet
  <2>1. PICK w \in Wallets : /\ Open(w) /\ \A v \in 1 .. w - 1 : ~Open(v)
                             /\ head' = w
    BY <1>3 DEF TakeWallet
  <2>2. ~Advance
    BY <1>3 DEF TakeWallet, Advance
  <2>3. Open(w)'
    BY <1>1, <2>1, <2>2
  <2>4. wallet'[w].status \in {"queued", "active"}
    BY <2>3 DEF Open
  <2>5. ASSUME NEW v \in Wallets, v < w PROVE ~Open(v)
    <3>1. v \in 1 .. w - 1
      BY <1>2, <2>5, BatchAssumption DEF Wallets
    <3> QED
      BY <2>1, <3>1
  <2> QED
    BY <1>1, <2>1, <2>4, <2>5 DEF Open
<1>4. CASE head' = head
  <2>1. \A v \in Wallets : v < head' => ~Open(v)'
    BY <1>1, <1>4 DEF PlaceInv
  <2>2. ASSUME pc' # "idle", ~TakeWallet PROVE wallet'[head'].status \in {"queued", "active"}
    <3>1. pc # "idle" /\ ~Advance
      BY <2>2, AtIdle DEF Quiet, worker, Advance, Work
    <3>2. Open(head)
      BY <3>1 DEF PlaceInv
    <3>3. wallet'[head].status \in {"queued", "active"}
      BY <1>1, <1>2, <3>1, <3>2 DEF Open
    <3> QED
      BY <1>4, <3>3
  <2> QED
    BY <1>3, <2>1, <2>2 DEF Open
<1> QED
  BY <1>3, <1>4, HeadMoves

\* What the worker knows of its command.
LEMMA CommandStep ==
  ASSUME TypeOK, PlaceInv, [Next]_vars
  PROVE  /\ exit'["worker"].at # "idle" => pc' \in Commanding
         /\ pc' \in {"recovered", "record", "later"} => exit'["worker"].at = "done"
<1> DEFINE old == exit["worker"]
           new == exit'["worker"]
<1>1. /\ old.at # "idle" => pc \in Commanding
      /\ pc \in {"recovered", "record", "later"} => old.at = "done"
      /\ ExitTypeOK /\ Current \in Actions
  BY ProcessNames DEF PlaceInv, TypeOK, ExitTypeOK, Current, Act
<1>2. ASSUME Consumed PROVE new.at = "idle"
  BY <1>1, <1>2, Forgetting, NoExitType, ProcessNames DEF Consumed
<1>3. ASSUME UNCHANGED exitVars PROVE new = old
  BY <1>3 DEF exitVars
<1>4. CASE Quiet
  BY <1>1, <1>4 DEF Quiet, worker
<1>5. CASE TakeWallet
  <2>1. old.at = "idle"
    BY <1>1, <1>5 DEF TakeWallet, Commanding
  <2>2. pc' = "recover" \/ (pc' = "quote" /\ new = old)
    BY <1>5 DEF TakeWallet
  <2> QED
    BY <2>1, <2>2 DEF Commanding
<1>6. CASE RecoveredRecord \/ ExecutedSet \/ ExecuteLater
  BY <1>3, <1>6 DEF RecoveredRecord, ExecutedSet, ExecuteLater, Work, Ended, At,
     Commanding
<1>7. CASE RecoveredSet \/ RecoveredStale \/ RecoverLater \/ RecoverRefused
  BY <1>2, <1>7 DEF RecoveredSet, RecoveredStale, RecoverLater, RecoverRefused,
     Work, Finish, RetryOr
<1>8. CASE ExecutedRecord \/ LookLater \/ ExecuteSkipped \/ ExecuteReviewed
  BY <1>2, <1>8 DEF ExecutedRecord, LookLater, ExecuteSkipped, ExecuteReviewed,
     NextEntry, Finish, RetryOr
<1>9. CASE Quote \/ QuoteLimited \/ QuoteFails \/ SkipClosed
  BY <1>1, <1>3, <1>9 DEF Quote, QuoteLimited, QuoteFails, SkipClosed, NextEntry,
     Finish, RetryOr, Commanding
<1>10. CASE PreviewFails \/ Deferred \/ EntriesDone \/ Advance
  BY <1>1, <1>3, <1>10 DEF PreviewFails, Deferred, EntriesDone, Advance, NextEntry,
     Finish, Work, Commanding
<1>11. CASE Execute \/ ExecuteAgain
  BY <1>11 DEF Execute, ExecuteAgain, Commanding
<1>12. CASE Crash
  <2>1. new = NoExit /\ pc' = "idle"
    BY <1>1, <1>12, Forgetting, ProcessNames DEF Crash, ExitDies
  <2> QED
    BY <2>1, NoExitType
<1> QED
  BY <1>4, <1>5, <1>6, <1>7, <1>8, <1>9, <1>10, <1>11, <1>12, QuietSteps,
     ProcessNames DEF Next, Worker

\* The wallet is left with an exit that is executing only for a review.
LEMMA OutcomeStep ==
  ASSUME TypeOK, PlaceInv, QueueInv, [Next]_vars, pc' = "finish"
  PROVE  /\ outcome' \in Final
         /\ Executing(head)' # {} => outcome' = "manual_review"
<1>1. pc \in {"quote", "entries"} => Executing(head) = {}
  BY DEF QueueInv
<1>2. ASSUME UNCHANGED <<action, head>>
      PROVE  Executing(head)' = Executing(head)
  BY <1>2 DEF Executing
<1>3. CASE Quiet
  BY <1>2, <1>3 DEF Quiet, worker, PlaceInv
<1>4. CASE RecoverLater \/ RecoverRefused \/ LookLater \/ ExecuteReviewed
  BY <1>4 DEF RecoverLater, RecoverRefused, LookLater, ExecuteReviewed, RetryOr,
     Finish, Final
<1>5. CASE QuoteLimited \/ QuoteFails \/ Quote \/ EntriesDone
  BY <1>1, <1>2, <1>5 DEF QuoteLimited, QuoteFails, Quote, EntriesDone, RetryOr,
     Finish, Final, tables
<1>6. CASE PreviewFails
  BY <1>6 DEF PreviewFails, Finish, NextEntry, Final
<1>7. ~(\/ TakeWallet \/ RecoveredRecord \/ RecoveredSet \/ RecoveredStale
        \/ SkipClosed \/ Deferred \/ Execute)
  BY DEF TakeWallet, RecoveredRecord, RecoveredSet, RecoveredStale, SkipClosed,
     Deferred, Execute, Work, NextEntry
<1>8. ~(\/ ExecutedSet \/ ExecutedRecord \/ ExecuteAgain \/ ExecuteLater
        \/ ExecuteSkipped \/ Advance \/ Crash)
  BY DEF ExecutedSet, ExecutedRecord, ExecuteAgain, ExecuteLater, ExecuteSkipped,
     Advance, Crash, Work, NextEntry
<1> QED
  BY <1>3, <1>4, <1>5, <1>6, <1>7, <1>8, QuietSteps, ProcessNames DEF Next, Worker

LEMMA PlaceStep ==
  ASSUME TypeOK, PlaceInv, QueueInv, [Next]_vars PROVE PlaceInv'
<1>1. /\ exit'["worker"].at # "idle" => pc' \in Commanding
      /\ pc' \in {"recovered", "record", "later"} => exit'["worker"].at = "done"
  BY CommandStep
<1>2. /\ pc' # "idle" => Open(head)'
      /\ \A v \in Wallets : v < head' => ~Open(v)'
  BY HeadStep
<1>3. pc' = "finish" => /\ outcome' \in Final
                        /\ Executing(head)' # {} => outcome' = "manual_review"
  BY OutcomeStep
<1> QED
  BY <1>1, <1>2, <1>3 DEF PlaceInv, Open, Wallets, Final, Commanding

-----------------------------------------------------------------------------
(* Where the exits in execution are.                                       *)

\* Only Execute marks an action as executing.
LEMMA ExecutingMoves ==
  ASSUME TypeOK, [Next]_vars, ~Execute
  PROVE  \A a \in Actions : action'[a] = "executing" => action[a] = "executing"
<1>1. action \in [Actions -> {"none", "executing", "stale"} \union Closed]
  BY DEF TypeOK
<1>2. ASSUME NEW b, NEW s \in {"stale"} \union Closed, SetAction(b, s)
      PROVE  \A a \in Actions : action'[a] = "executing" => action[a] = "executing"
  BY <1>1, <1>2 DEF SetAction, Closed
<1>3. CASE UNCHANGED action
  BY <1>3
<1>4. CASE RecoveredSet \/ RecoveredStale \/ ExecutedSet \/ ExecuteSkipped
           \/ ExecuteReviewed
  <2>1. \E s \in {"stale"} \union Closed : SetAction(Current, s)
    BY <1>4 DEF RecoveredSet, RecoveredStale, ExecutedSet, ExecuteSkipped,
       ExecuteReviewed, Closed
  <2> QED
    BY <1>2, <2>1
<1>5. CASE PreviewFails
  <2>1. \E a \in ready, s \in {"stale"} \union Closed : SetAction(a, s)
    BY <1>5 DEF PreviewFails, Closed
  <2> QED
    BY <1>2, <2>1
<1>6. CASE TakeWallet \/ RecoveredRecord \/ RecoverLater \/ RecoverRefused
           \/ Quote \/ QuoteLimited \/ QuoteFails \/ SkipClosed \/ Deferred
  BY <1>3, <1>6 DEF TakeWallet, RecoveredRecord, RecoverLater, RecoverRefused,
     Quote, QuoteLimited, QuoteFails, SkipClosed, Deferred, tables
<1>7. CASE EntriesDone \/ ExecutedRecord \/ ExecuteAgain \/ ExecuteLater
           \/ LookLater \/ Advance \/ Crash
  BY <1>3, <1>7 DEF EntriesDone, ExecutedRecord, ExecuteAgain, ExecuteLater,
     LookLater, Advance, Crash, tables
<1>8. CASE Quiet
  BY <1>3, <1>8 DEF Quiet
<1> QED
  BY <1>4, <1>5, <1>6, <1>7, <1>8, QuietSteps, ProcessNames DEF Next, Worker

\* Between two entries nothing is in execution, so the marked one is alone.
LEMMA ExecuteMarks ==
  ASSUME TypeOK, QueueInv, PlaceInv, Execute
  PROVE  \E a \in ActionsOf(head) :
           /\ action' = [action EXCEPT ![a] = "executing"]
           /\ exit'["worker"].action = a
           /\ \A b \in ActionsOf(head) : action'[b] = "executing" => b = a
           /\ ready' \subseteq ready /\ head' = head
<1>1. PICK a \in ready : /\ SetAction(a, "executing") /\ ready' = ready \ {a}
                         /\ StartExit("worker", a)
  BY DEF Execute
<1>2. /\ Executing(head) = {} /\ a \in ActionsOf(head) /\ head' = head
      /\ ExitTypeOK /\ a \in Actions
  BY <1>1 DEF Execute, QueueInv, TypeOK
<1>3. exit'["worker"].action = a
  BY <1>1, <1>2, Starting, ProcessNames
<1>4. /\ action' = [action EXCEPT ![a] = "executing"]
      /\ action \in [Actions -> {"none", "executing", "stale"} \union Closed]
  BY <1>1 DEF SetAction, TypeOK
<1>5. \A b \in ActionsOf(head) : action'[b] = "executing" => b = a
  BY <1>2, <1>4 DEF Executing, ActionsOf
<1> QED
  BY <1>1, <1>2, <1>3, <1>4, <1>5

LEMMA WhereExecuting ==
  ASSUME TypeOK, PlaceInv, QueueInv, [Next]_vars
  PROVE  /\ \A a \in Actions : action'[a] = "executing" /\ Open(Owner[a])' =>
              Owner[a] = head'
         /\ \A a, b \in Executing(head)' : Open(head)' => a = b
         /\ ready' \subseteq ActionsOf(head')
<1>1. \A w \in Wallets : Open(w)' => Open(w)
  BY OpenMoves
<1>2. \A a \in Actions : Owner[a] \in Wallets
  BY BatchAssumption DEF Wallets
<1>3. head \in Wallets /\ head' \in Wallets /\ Wallets \subseteq Nat
  BY QueuedType, RestStep DEF Rest, Wallets
<1>4. Open(head)' => Open(head')
  BY <1>3, OpenMoves DEF Open
<1>5. CASE TakeWallet
  <2>1. PICK w \in Wallets : /\ action' = action /\ Open(w) /\ ready' = {}
                             /\ \A v \in 1 .. w - 1 : ~Open(v)
                             /\ head' = w
    BY <1>5 DEF TakeWallet
  <2>2. Open(head) => head' = head
    <3>1. ~(w < head)
      BY <1>3, <2>1 DEF PlaceInv
    <3>2. head \in Nat /\ w \in Nat /\ head >= 1
      BY <1>3, <2>1, BatchAssumption DEF Wallets
    <3>3. head < w => head \in 1 .. w - 1
      BY <3>2
    <3> QED
      BY <2>1, <3>1, <3>2, <3>3
  <2>3. ASSUME NEW a \in Actions, action[a] = "executing", Open(Owner[a])
        PROVE  Owner[a] = head'
    <3>1. Owner[a] = head
      BY <2>3 DEF QueueInv
    <3> QED
      BY <2>2, <2>3, <3>1
  <2>4. ASSUME NEW a \in Actions, NEW b \in Actions, Owner[a] = head',
               Owner[b] = head', action[a] = "executing", action[b] = "executing"
        PROVE  a = b
    <3>1. Owner[a] = head /\ Owner[b] = head /\ Open(head)
      BY <2>1, <2>4 DEF QueueInv
    <3> QED
      BY <2>4, <3>1 DEF QueueInv, Executing, ActionsOf
  <2> QED
    BY <1>1, <1>2, <2>1, <2>3, <2>4 DEF Executing, ActionsOf
<1>6. CASE Execute
  <2>1. PICK c \in ActionsOf(head) :
           /\ action' = [action EXCEPT ![c] = "executing"]
           /\ \A b \in ActionsOf(head) : action'[b] = "executing" => b = c
           /\ ready' \subseteq ready /\ head' = head
    BY <1>6, ExecuteMarks
  <2>2. ASSUME NEW a \in Actions, action'[a] = "executing", Open(Owner[a])'
        PROVE  Owner[a] = head'
    BY <1>1, <1>2, <2>1, <2>2 DEF QueueInv, ActionsOf, TypeOK
  <2> QED
    BY <2>1, <2>2 DEF QueueInv, Executing, ActionsOf
<1>7. CASE ~TakeWallet /\ ~Execute
  <2>1. \A a \in Actions : action'[a] = "executing" => action[a] = "executing"
    BY <1>7, ExecutingMoves
  <2>2. head' = head
    BY <1>7, HeadMoves
  <2>3. ready' \subseteq ActionsOf(head)
    <3>1. ready \subseteq ActionsOf(head)
      BY DEF QueueInv
    <3>2. CASE \/ RecoveredRecord \/ RecoveredSet \/ RecoveredStale
               \/ RecoverLater \/ RecoverRefused \/ Quote \/ QuoteLimited
      BY <3>1, <3>2 DEF RecoveredRecord, RecoveredSet, RecoveredStale, RecoverLater,
         RecoverRefused, Quote, QuoteLimited, Work, Finish, RetryOr
    <3>3. CASE QuoteFails \/ SkipClosed \/ PreviewFails \/ Deferred \/ EntriesDone
      <4>1. ready' = ready \/ \E a \in ready : ready' = ready \ {a}
        BY <3>3 DEF QuoteFails, SkipClosed, PreviewFails, Deferred, EntriesDone,
           Work, Finish
      <4> QED
        BY <3>1, <4>1
    <3>4. CASE ExecutedSet \/ ExecutedRecord \/ ExecuteAgain \/ ExecuteLater
               \/ LookLater
      BY <3>1, <3>4 DEF ExecutedSet, ExecutedRecord, ExecuteAgain, ExecuteLater,
         LookLater, Work, Finish, RetryOr
    <3>5. CASE ExecuteSkipped \/ ExecuteReviewed \/ Advance \/ Crash \/ Quiet
      BY <3>1, <3>5 DEF ExecuteSkipped, ExecuteReviewed, Advance, Crash, Quiet,
         worker, Work, Finish
    <3> QED
      BY <1>7, <3>2, <3>3, <3>4, <3>5, QuietSteps, ProcessNames DEF Next, Worker
  <2>4. \A a \in Actions : action'[a] = "executing" /\ Open(Owner[a])' =>
          Owner[a] = head'
    BY <1>1, <1>2, <2>1, <2>2 DEF QueueInv
  <2>5. \A a, b \in Executing(head)' : Open(head)' => a = b
    BY <1>4, <2>1, <2>2 DEF QueueInv, Executing, ActionsOf
  <2> QED
    BY <2>2, <2>3, <2>4, <2>5
<1> QED
  BY <1>5, <1>6, <1>7

\* The worker's command is for the exit in execution.
LEMMA CurrentStep ==
  ASSUME TypeOK, PlaceInv, QueueInv, [Next]_vars
  PROVE  /\ pc' \in Commanding \ {"record"} =>
              exit'["worker"].action \in Executing(head)'
         /\ pc' \in {"quote", "entries", "record"} => Executing(head)' = {}
<1> DEFINE Goal == /\ pc' \in Commanding \ {"record"} =>
                        exit'["worker"].action \in Executing(head)'
                   /\ pc' \in {"quote", "entries", "record"} => Executing(head)' = {}
<1>1. /\ pc \in Commanding \ {"record"} => exit["worker"].action \in Executing(head)
      /\ pc \in {"quote", "entries", "record"} => Executing(head) = {}
  BY DEF QueueInv, Current, Act
<1>2. ASSUME UNCHANGED <<action, head>> PROVE Executing(head)' = Executing(head)
  BY <1>2 DEF Executing
<1>3. ExitTypeOK /\ Current \in Actions
      /\ action \in [Actions -> {"none", "executing", "stale"} \union Closed]
  BY ProcessNames DEF TypeOK, ExitTypeOK, Current, Act
<1>4. CASE Quiet
  BY <1>1, <1>2, <1>4 DEF Quiet, worker
<1>5. CASE TakeWallet
  <2>1. /\ Executing(head)' = {a \in ActionsOf(head') : action[a] = "executing"}
        /\ ActionsOf(head') \subseteq Actions
    BY <1>5 DEF TakeWallet, Executing, ActionsOf
  <2>2. \/ pc' = "quote" /\ Executing(head)' = {}
        \/ \E a \in Executing(head)' : pc' = "recover" /\ StartExit("worker", a)
    BY <1>5, <2>1 DEF TakeWallet
  <2>3. ASSUME NEW a \in Executing(head)', StartExit("worker", a)
        PROVE  exit'["worker"].action = a
    BY <1>3, <2>1, <2>3, Starting, ProcessNames
  <2> QED
    BY <2>2, <2>3 DEF Commanding
<1>6. CASE RecoveredRecord \/ ExecuteLater
  BY <1>1, <1>2, <1>6 DEF RecoveredRecord, ExecuteLater, Work, exitVars, Commanding
<1>7. CASE RecoveredSet \/ RecoveredStale \/ ExecutedSet \/ ExecuteSkipped
  <2>1. /\ pc \in Commanding \ {"record"} /\ pc' \in {"quote", "record", "entries"}
        /\ \E s \in {"stale"} \union Closed : SetAction(Current, s)
        /\ head' = head
    BY <1>7 DEF RecoveredSet, RecoveredStale, ExecutedSet, ExecuteSkipped, Closed,
       Commanding, Work, NextEntry
  <2>2. Open(head) /\ Current \in Executing(head)
    BY <1>1, <2>1 DEF PlaceInv, Commanding, Current, Act
  <2>3. action'[Current] # "executing"
        /\ \A a \in Actions : a # Current => action'[a] = action[a]
    BY <1>3, <2>1 DEF SetAction, Closed
  <2>4. \A a \in Executing(head) : a = Current
    BY <2>2 DEF QueueInv
  <2>5. Executing(head)' = {}
    BY <2>1, <2>3, <2>4 DEF Executing, ActionsOf
  <2> QED
    BY <2>1, <2>5 DEF Commanding
<1>8. CASE RecoverLater \/ RecoverRefused \/ LookLater \/ ExecuteReviewed
  BY <1>8 DEF RecoverLater, RecoverRefused, LookLater, ExecuteReviewed, Finish,
     RetryOr, Commanding
<1>9. CASE Quote \/ QuoteLimited \/ QuoteFails \/ SkipClosed
  BY <1>1, <1>2, <1>9 DEF Quote, QuoteLimited, QuoteFails, SkipClosed, Finish,
     RetryOr, NextEntry, tables, Commanding
<1>10. CASE Deferred \/ EntriesDone \/ ExecutedRecord \/ Advance \/ Crash
  BY <1>1, <1>2, <1>10 DEF Deferred, EntriesDone, ExecutedRecord, Advance, Crash,
     Finish, Work, NextEntry, tables, Commanding
<1>11. CASE PreviewFails
  <2>1. /\ pc = "entries" /\ pc' \in {"entries", "finish"} /\ head' = head
        /\ ~Execute
    BY <1>11 DEF PreviewFails, Execute, NextEntry, Finish
  <2>2. Executing(head)' = {}
    BY <1>1, <2>1, ExecutingMoves DEF Executing, ActionsOf
  <2> QED
    BY <2>1, <2>2 DEF Commanding
<1>12. CASE Execute
  <2>1. PICK a \in ActionsOf(head) :
           /\ action' = [action EXCEPT ![a] = "executing"]
           /\ exit'["worker"].action = a /\ head' = head
    BY <1>12, ExecuteMarks
  <2>2. pc' = "execute"
    BY <1>12 DEF Execute
  <2> QED
    BY <1>3, <2>1, <2>2 DEF Executing, ActionsOf
<1>13. CASE ExecuteAgain
  <2>1. StartExit("worker", Current) /\ UNCHANGED <<pc, head, action>>
    BY <1>13 DEF ExecuteAgain, tables
  <2>2. exit'["worker"].action = exit["worker"].action
    BY <1>3, <2>1, Starting, ProcessNames DEF Current, Act
  <2> QED
    BY <1>1, <1>2, <2>1, <2>2
<1> QED
  BY <1>4, <1>5, <1>6, <1>7, <1>8, <1>9, <1>10, <1>11, <1>12, <1>13, QuietSteps,
     ProcessNames DEF Next, Worker

LEMMA QueueStep ==
  ASSUME TypeOK, PlaceInv, QueueInv, [Next]_vars PROVE QueueInv'
<1>1. /\ \A a \in Actions : action'[a] = "executing" /\ Open(Owner[a])' =>
           Owner[a] = head'
      /\ \A a, b \in Executing(head)' : Open(head)' => a = b
      /\ ready' \subseteq ActionsOf(head')
  BY WhereExecuting
<1>2. /\ pc' \in Commanding \ {"record"} =>
           exit'["worker"].action \in Executing(head)'
      /\ pc' \in {"quote", "entries", "record"} => Executing(head)' = {}
  BY CurrentStep
<1>3. ASSUME NEW a \in Actions, action'[a] = "executing",
             wallet'[Owner[a]].status \in {"queued", "active"}
      PROVE  Owner[a] = head'
  BY <1>1, <1>3 DEF Open
<1> QED
  BY <1>1, <1>2, <1>3 DEF QueueInv, Current, Act, Open, ActionsOf

-----------------------------------------------------------------------------
(* What the queue says of an action.                                       *)

\* The worker signs only what it is at, and that is in execution.
LEMMA WorkerSigns ==
  ASSUME TypeOK, LockInv, PlaceInv, QueueInv, [Next]_vars, NEW a \in Actions,
         <<"worker", a>> \in signed' \ signed
  PROVE  /\ Commands("worker") /\ a \in Executing(head) /\ Open(head)
         /\ step[a] = "none"
<1>1. Commands("worker") /\ Sign("worker") /\ a = Current /\ step[a] = "none"
  BY SignsWhat, ProcessNames DEF Current
<1>2. exit["worker"].at = "sign"
  BY <1>1 DEF Sign, At
<1>3. pc \in Commanding \ {"record"}
  BY <1>2 DEF PlaceInv
<1>4. Current \in Executing(head)
  BY <1>3 DEF QueueInv
<1>5. pc # "idle"
  BY <1>3 DEF Commanding
<1> QED
  BY <1>1, <1>4, <1>5 DEF PlaceInv

\* An action is called withdrawn when its transaction is mined and confirmed.
LEMMA WithdrawnStep ==
  ASSUME TypeOK, LockInv, ResultInv, PlaceInv, QueueInv, AgreeInv, [Next]_vars,
         NEW a \in Actions, action'[a] = "withdrawn"
  PROVE  net'[a] = "mined" /\ step'[a] = "confirmed"
<1>1. action \in [Actions -> {"none", "executing", "stale"} \union Closed]
      /\ Current \in Actions
  BY ProcessNames DEF TypeOK, ExitTypeOK, Current, Act
<1>2. SUFFICES net[a] = "mined" /\ step[a] = "confirmed"
  BY EndsStay
<1>3. CASE action[a] = "withdrawn"
  BY <1>3 DEF AgreeInv, QueueAgrees
<1>4. CASE action[a] # "withdrawn"
  <2>1. CASE RecoveredSet \/ ExecutedSet
    <3>1. /\ exit["worker"].at = "done"
          /\ a = Current /\ exit["worker"].result = "withdrawn"
      BY <1>1, <1>4, <2>1 DEF RecoveredSet, ExecutedSet, SetAction, Ended, At, PlaceInv
    <3> QED
      BY <3>1 DEF ResultInv, Current, Act
  <2>2. ~(RecoveredStale \/ PreviewFails \/ Execute \/ ExecuteSkipped \/ ExecuteReviewed)
    BY <1>1, <1>4 DEF RecoveredStale, PreviewFails, Execute, ExecuteSkipped,
       ExecuteReviewed, SetAction
  <2>3. ~(\/ TakeWallet \/ RecoveredRecord \/ RecoverLater \/ RecoverRefused
          \/ Quote \/ QuoteLimited \/ QuoteFails \/ SkipClosed \/ Deferred)
    BY <1>4 DEF TakeWallet, RecoveredRecord, RecoverLater, RecoverRefused,
       Quote, QuoteLimited, QuoteFails, SkipClosed, Deferred, tables
  <2>4. ~(\/ EntriesDone \/ ExecutedRecord \/ ExecuteAgain \/ ExecuteLater
          \/ LookLater \/ Advance \/ Crash \/ Quiet)
    BY <1>4 DEF EntriesDone, ExecutedRecord, ExecuteAgain, ExecuteLater,
       LookLater, Advance, Crash, Quiet, tables
  <2> QED
    BY <2>1, <2>2, <2>3, <2>4, QuietSteps, ProcessNames DEF Next, Worker
<1> QED
  BY <1>3, <1>4

\* What the worker signed is not passed over.
LEMMA PassedOverStep ==
  ASSUME TypeOK, LockInv, ResultInv, PlaceInv, QueueInv, AgreeInv, [Next]_vars,
         NEW a \in Actions, action'[a] \in {"none", "stale", "skipped"}
  PROVE  <<"worker", a>> \notin signed'
<1>1. action \in [Actions -> {"none", "executing", "stale"} \union Closed]
      /\ Current \in Actions /\ ready \subseteq Actions
  BY ProcessNames DEF TypeOK, ExitTypeOK, Current, Act
<1>2. CASE Commands("worker")
  <2>1. action' = action
    BY <1>2 DEF Commands, tables
  <2>2. a \notin Executing(head) /\ <<"worker", a>> \notin signed
    BY <2>1 DEF Executing, AgreeInv, QueueAgrees
  <2> QED
    BY <2>2, WorkerSigns
<1>3. CASE ~Commands("worker")
  <2>1. SUFFICES <<"worker", a>> \notin signed
    BY <1>3, WorkerSigns
  <2>2. CASE action[a] \in {"none", "stale", "skipped"}
    BY <2>2 DEF AgreeInv, QueueAgrees
  <2>3. CASE action[a] \notin {"none", "stale", "skipped"}
    <3>1. CASE RecoveredStale
      BY <1>1, <2>3, <3>1 DEF RecoveredStale, SetAction, Ended, At, ResultInv,
         Current, Act
    <3>2. CASE ExecuteSkipped
      <4>1. /\ a = Current
            /\ \/ exit["worker"].at = "done" /\ exit["worker"].result = "stale"
               \/ step[a] = "none"
        BY <1>1, <2>3, <3>2 DEF ExecuteSkipped, SetAction, Skips, Ended, At
      <4> QED
        BY <4>1 DEF ResultInv, LockInv, Current, Act
    <3>3. ~PreviewFails
      <4>1. ASSUME PreviewFails PROVE FALSE
        <5>1. /\ a \in ready /\ action[a] \notin Closed
              /\ pc = "entries"
          BY <1>1, <2>3, <4>1 DEF PreviewFails, SetAction
        <5>2. a \in Executing(head)
          BY <1>1, <2>3, <5>1 DEF QueueInv, Executing, Closed
        <5> QED
          BY <5>1, <5>2 DEF QueueInv
      <4> QED
        BY <4>1
    <3>4. ~(RecoveredSet \/ ExecutedSet \/ Execute \/ ExecuteReviewed)
      BY <1>1, <2>3 DEF RecoveredSet, ExecutedSet, Execute, ExecuteReviewed, SetAction
    <3>5. ~(\/ TakeWallet \/ RecoveredRecord \/ RecoverLater \/ RecoverRefused
            \/ Quote \/ QuoteLimited \/ QuoteFails \/ SkipClosed \/ Deferred)
      BY <2>3 DEF TakeWallet, RecoveredRecord, RecoverLater, RecoverRefused,
         Quote, QuoteLimited, QuoteFails, SkipClosed, Deferred, tables
    <3>6. ~(\/ EntriesDone \/ ExecutedRecord \/ ExecuteAgain \/ ExecuteLater
            \/ LookLater \/ Advance \/ Crash \/ Quiet)
      BY <2>3 DEF EntriesDone, ExecutedRecord, ExecuteAgain, ExecuteLater,
         LookLater, Advance, Crash, Quiet, tables
    <3> QED
      BY <3>1, <3>2, <3>3, <3>4, <3>5, <3>6, QuietSteps, ProcessNames DEF Next, Worker
  <2> QED
    BY <2>2, <2>3
<1> QED
  BY <1>2, <1>3

\* A wallet closed with an exit in execution is under review.
LEMMA ReviewStep ==
  ASSUME TypeOK, PlaceInv, QueueInv, AgreeInv, [Next]_vars,
         NEW a \in Actions, action'[a] = "executing", ~Open(Owner[a])'
  PROVE  wallet'[Owner[a]].status = "manual_review"
<1>1. Owner[a] \in Wallets
  BY BatchAssumption DEF Wallets
<1>2. action[a] = "executing"
  <2>1. CASE Execute
    <3>1. PICK c \in ActionsOf(head) : action' = [action EXCEPT ![c] = "executing"]
      BY <2>1, ExecuteMarks
    <3>2. Open(head) /\ ~Advance
      BY <2>1 DEF Execute, PlaceInv, Advance
    <3>3. Owner[a] # head
      BY <1>1, <3>2, OpenMoves
    <3> QED
      BY <3>1, <3>3 DEF ActionsOf, TypeOK
  <2> QED
    BY <2>1, ExecutingMoves
<1>3. CASE ~Open(Owner[a])
  <2>1. wallet[Owner[a]].status = "manual_review"
    BY <1>2, <1>3 DEF AgreeInv, QueueAgrees
  <2>2. Advance => Open(head)
    BY DEF Advance, PlaceInv
  <2> QED
    BY <1>1, <1>3, <2>1, <2>2, StatusMoves
<1>4. CASE Open(Owner[a])
  <2>1. Advance /\ Owner[a] = head
    BY <1>1, <1>4, OpenMoves
  <2>2. a \in Executing(head) /\ pc = "finish"
    BY <1>2, <2>1 DEF Executing, ActionsOf, Advance
  <2>3. outcome = "manual_review"
    BY <2>2 DEF PlaceInv
  <2> QED
    BY <2>1, <2>3, StatusMoves
<1> QED
  BY <1>3, <1>4

LEMMA AgreeStep ==
  ASSUME TypeOK, LockInv, ResultInv, PlaceInv, QueueInv, AgreeInv, [Next]_vars
  PROVE  AgreeInv'
<1>1. \A a \in Actions : action'[a] = "withdrawn" =>
        net'[a] = "mined" /\ step'[a] = "confirmed"
  BY WithdrawnStep
<1>2. \A a \in Actions : action'[a] \in {"none", "stale", "skipped"} =>
        <<"worker", a>> \notin signed'
  BY PassedOverStep
<1>3. ASSUME NEW a \in Actions, action'[a] = "executing",
             wallet'[Owner[a]].status \notin {"queued", "active"}
      PROVE  wallet'[Owner[a]].status = "manual_review"
  BY <1>3, ReviewStep DEF Open
<1> QED
  BY <1>1, <1>2, <1>3 DEF AgreeInv, QueueAgrees, Open

-----------------------------------------------------------------------------
(* The invariant.                                                          *)

LEMMA Start == Init => IInv
<1> SUFFICES ASSUME Init PROVE IInv
  OBVIOUS
<1> USE ProcessNames, BatchAssumption
<1>1. /\ step = [a \in Actions |-> "none"] /\ lock = "free"
      /\ exit = [p \in Processes |-> NoExit]
      /\ net = [a \in Actions |-> "unsent"] /\ signed = {}
      /\ action = [a \in Actions |-> "none"] /\ pc = "idle" /\ ready = {} /\ head = 1
  BY DEF Init, ExitInit
<1>2. \A p \in Processes : exit[p] = NoExit
  BY <1>1
<1>3. ExitTypeOK
  BY <1>1, NoExitType DEF ExitTypeOK
<1>4. wallet \in [Wallets -> [status : Final \union {"queued", "active"},
                              attempts : 0 .. Attempts + MaxCrashes,
                              due : {"null", "now", "retry", "pause"}]]
  <2>1. 0 \in 0 .. Attempts + MaxCrashes
    OBVIOUS
  <2> QED
    BY <2>1 DEF Init
<1>5. Rest
  BY DEF Init, Rest, Wallets
<1>6. TypeOK
  BY <1>3, <1>4, <1>5 DEF TypeOK, Rest
<1>7. LockInv
  BY <1>1, <1>2, NoExitType DEF LockInv, Locked, At
<1>8. ResultInv
  BY <1>2, NoExitType DEF ResultInv
<1>9. PlaceInv
  <2>1. ~(\E v \in Wallets : v < head)
    BY <1>1 DEF Wallets
  <2> QED
    BY <1>1, <1>2, <2>1, NoExitType DEF PlaceInv
<1>10. QueueInv
  BY <1>1 DEF QueueInv, Executing, ActionsOf, Commanding
<1>11. AgreeInv
  BY <1>1 DEF AgreeInv, QueueAgrees
<1>12. AttemptsInv
  <2>1. \A w \in Wallets : wallet[w].attempts = 0
    BY DEF Init
  <2>2. crashes = 0
    BY DEF Init
  <2> QED
    BY <2>1, <2>2 DEF AttemptsInv
<1> QED
  BY <1>6, <1>7, <1>8, <1>9, <1>10, <1>11, <1>12 DEF IInv

LEMMA Inductive == IInv /\ [Next]_vars => IInv'
<1> SUFFICES ASSUME IInv, [Next]_vars PROVE IInv'
  OBVIOUS
<1>1. /\ TypeOK /\ LockInv /\ ResultInv /\ PlaceInv /\ QueueInv /\ AgreeInv
      /\ AttemptsInv
  BY DEF IInv
<1>2. TypeOK'
  BY <1>1, TypeStep
<1>3. LockInv'
  BY <1>1, LockStep
<1>4. ResultInv'
  BY <1>1, ResultStep
<1>5. PlaceInv'
  BY <1>1, PlaceStep
<1>6. QueueInv'
  BY <1>1, QueueStep
<1>7. AgreeInv'
  BY <1>1, AgreeStep
<1>8. AttemptsInv'
  BY <1>1, AttemptsStep
<1> QED
  BY <1>2, <1>3, <1>4, <1>5, <1>6, <1>7, <1>8 DEF IInv

\* What the lock, the journal and the queue's tables guarantee together holds
\* in every state of every execution, deaths of the worker included.
THEOREM Invariant == Spec => []IInv
<1> QED
  BY Start, Inductive, PTL DEF Spec

\* Every variable of the worker, its queue and its commands stays in its type:
\* a wallet is never tried more often than its attempts and deaths allow.
THEOREM TypeCorrect == Spec => []TypeOK
<1>1. IInv => TypeOK
  BY DEF IInv
<1> QED
  BY <1>1, Invariant, PTL

\* Every exit is signed at most once, by the worker or by an operator's
\* command, however the two meet and whenever the worker dies.
THEOREM ExitIsSignedOnce == Spec => []SignedOnce
<1>1. ASSUME IInv PROVE SignedOnce
  <2>1. LockInv
    BY <1>1 DEF IInv
  <2>2. ASSUME NEW a \in Actions PROVE Cardinality(Signatures(a)) <= 1
    <3>1. \A p, q \in Signatures(a) : p = q
      BY <2>1 DEF LockInv, Signatures
    <3>2. CASE Signatures(a) = {}
      BY <3>2, FS_EmptySet
    <3>3. CASE Signatures(a) # {}
      <4>1. PICK p : Signatures(a) = {p}
        BY <3>1, <3>3
      <4> QED
        BY <4>1, FS_Singleton
    <3> QED
      BY <3>2, <3>3
  <2>3. ASSUME NEW p \in Processes, At(p, "sign") PROVE Signatures(Act(p)) = {}
    <3>1. step[Act(p)] = "none"
      BY <2>1, <2>3 DEF LockInv
    <3> QED
      BY <2>1, <3>1 DEF LockInv, Signatures
  <2> QED
    BY <2>2, <2>3 DEF SignedOnce
<1> QED
  BY <1>1, Invariant, PTL

\* The queue never calls an exit withdrawn that is not mined, never passes over
\* one the worker signed, and closes a wallet with an open exit for review.
THEOREM QueueIsRight == Spec => []QueueAgrees
<1>1. IInv => QueueAgrees
  BY DEF IInv, AgreeInv
<1> QED
  BY <1>1, Invariant, PTL

\* The worker signs no exit while another one it signed is unresolved and
\* nobody was asked to look at it.
THEOREM NoneSignedBehind == Spec => NoExitBehindUnresolved
<1> DEFINE Behind ==
      \A a, b \in Actions :
        a # b /\ <<"worker", a>> \in signed' \ signed
              /\ <<"worker", b>> \in signed =>
          \/ step[b] = "confirmed" \/ action[b] = "manual_review"
          \/ wallet[Owner[b]].status = "manual_review"
<1>1. ASSUME IInv, [Next]_vars PROVE Behind
  <2> SUFFICES ASSUME NEW a \in Actions, NEW b \in Actions, a # b,
                      <<"worker", a>> \in signed' \ signed, <<"worker", b>> \in signed
               PROVE  \/ step[b] = "confirmed" \/ action[b] = "manual_review"
                      \/ wallet[Owner[b]].status = "manual_review"
    OBVIOUS
  <2>1. /\ TypeOK /\ LockInv /\ PlaceInv /\ QueueInv /\ AgreeInv
        /\ action[b] \in {"none", "executing", "stale"} \union Closed
    BY <1>1 DEF IInv, TypeOK
  <2>2. a \in Executing(head) /\ Open(head)
    BY <1>1, <2>1, WorkerSigns
  <2>3. action[b] \notin {"none", "stale", "skipped"}
    BY <2>1 DEF AgreeInv, QueueAgrees
  <2>4. CASE action[b] = "withdrawn"
    BY <2>1, <2>4 DEF AgreeInv
  <2>5. CASE action[b] = "executing"
    <3>1. ASSUME Open(Owner[b]) PROVE FALSE
      <4>1. b \in Executing(head)
        BY <2>1, <2>5, <3>1 DEF QueueInv, Executing, ActionsOf
      <4> QED
        BY <2>1, <2>2, <4>1 DEF QueueInv
    <3> QED
      BY <2>1, <2>5, <3>1 DEF AgreeInv, QueueAgrees
  <2> QED
    BY <2>1, <2>3, <2>4, <2>5 DEF Closed
<1>2. IInv /\ [Next]_vars => [Behind]_vars
  BY <1>1
<1> QED
  BY <1>2, Invariant, PTL DEF Spec, NoExitBehindUnresolved
=============================================================================
