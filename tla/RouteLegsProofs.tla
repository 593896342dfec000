-------------------------- MODULE RouteLegsProofs --------------------------
(***************************************************************************)
(* The safety properties of RouteLegs, for any positions, any routes the   *)
(* provider may answer with and any number of interruptions.  A leg is     *)
(* known by the route its checkpoint holds: CheckInv says what a           *)
(* checkpoint proves of the legs before it, PlaceInv that the executor     *)
(* never has another route in hand than the saved one.                     *)
(***************************************************************************)
EXTENDS RouteLegs, FiniteSetTheorems, TLAPS

MaybeRoutes == Routes \union {NoRoute}

Runs == [leg : 1 .. 3, route : MaybeRoutes, observing : BOOLEAN,
         result : PositionStates \union {"none"},
         closes : GroupStates \union {"none"}]

Checkpoints == [prepared : MaybeRoutes, converted : BOOLEAN, requoted : BOOLEAN,
                replacement : MaybeRoutes, baseline : SUBSET {0},
                continuation : [2 .. 3 -> MaybeRoutes], migrated : BOOLEAN,
                unwrapped : BOOLEAN, context : BOOLEAN]

Deposits == {"none", "pending", "success", "failed"}

Types ==
  /\ TypeOK
  /\ run \in Runs /\ saved \in Checkpoints /\ deposit \in Deposits
  /\ IsFiniteSet(sent)
  /\ pc = "settle" => run.result \in PositionStates
  /\ pc \in {"settle", "close"} => run.closes \in GroupStates

\* The route a restart finds for a leg.
SavedRoute(n) == IF n = 1 THEN saved.prepared
                 ELSE IF n = 2 /\ Converts THEN saved.replacement
                 ELSE saved.continuation[n]

\* A leg that has delivered what the next one spends.
Delivers(t) == IF Legs[t.leg] \in {"hop", "bridge"} THEN t \in arrived
                                                    ELSE t \in mined
Done(n) == \E t \in sent : t.leg = n /\ Delivers(t)

IntentInv ==
  /\ IntentMatchesPreparation
  /\ \A t \in Tx : Intent(t) => t.leg <= Len(Legs)
  /\ \A t \in sent : Intent(t)

\* What the checkpoints prove of the legs before them.
CheckInv ==
  /\ \A n \in 2 .. 3 :
       saved.continuation[n] # NoRoute /\ ~(n = 2 /\ Converts) => Done(n - 1)
  /\ saved.converted => Converts /\ Done(1)
  /\ saved.replacement # NoRoute => saved.converted
  /\ saved.unwrapped => \E n \in 1 .. 2 : Legs[n] = "unwrap" /\ Done(n)
  /\ AssetIntent \/ Approved \/ saved.converted => saved.prepared # NoRoute
  /\ saved.continuation[3] \in {NoRoute, PlanRoute}
  /\ Legs[1] = "unwrap" => saved.continuation[2] \in {NoRoute, PlanRoute}
  /\ Legs[1] = "hop" /\ (\E t \in Tx : t.leg = 1 /\ Intent(t)) =>
       saved.baseline = {0}

\* Places of a leg in hand, and those where the next one is not begun yet.
Opened == {"approve", "approving", "sign", "send", "receipt", "await"}
LegPlaces == Opened \union {"leg", "deliver"}

PlaceInv ==
  /\ pc \in {"idle", "entry", "start"} => run.leg = 1
  /\ pc \in LegPlaces \union {"start", "convert", "next"} =>
       saved.prepared # NoRoute
  /\ pc = "start" => run.route = saved.prepared
  /\ pc \in LegPlaces => run.leg <= Len(Legs) /\ run.route # NoRoute
                         /\ run.route = SavedRoute(run.leg)
  /\ pc \in Opened /\ Kind \in {"hop", "unwrap"} =>
       saved.continuation[run.leg + 1] = NoRoute
  /\ pc \in Opened /\ Kind = "hop" => saved.baseline = {0}
  /\ pc \in {"receipt", "await"} => Current \in sent
  /\ pc = "send" => Intent(Current)
  /\ pc \in {"await", "deliver"} => Kind \in {"hop", "bridge"}
  /\ pc = "deliver" => Kind = "bridge"
  /\ pc = "next" => /\ Kind \in {"hop", "unwrap"} /\ Done(run.leg)
                    /\ run.leg <= Len(Legs)
                    /\ saved.continuation[run.leg + 1] = NoRoute
  /\ pc = "convert" => Converts /\ Done(1)
  /\ pc \in {"requote", "bridge", "bridged"} => saved.converted
  /\ pc = "bridge" => /\ run.route # NoRoute
                      /\ saved.replacement \in {NoRoute, run.route}
  /\ pc = "bridged" => run.route = saved.replacement /\ run.route # NoRoute

\* A deposit that is only looked for was sent.
Deposited == \/ saved.context
             \/ /\ Legs[Len(Legs)] = "direct"
                /\ Intent([leg |-> Len(Legs), route |-> PlanRoute])

OutcomeInv ==
  /\ pc \in LegPlaces \union {"next", "poll", "requote", "bridge", "bridged"} =>
       ~Settled(position)
  /\ pc \in {"start", "convert"} => position # "completed"
  /\ position = "deposit_pending" \/ pc = "poll" \/ run.observing
       \/ run.result = "deposit_pending" => Deposited
  /\ run.result = "completed" => deposit = "success"
  /\ deposit # "none" => Done(Len(Legs))

IInv == Types /\ IntentInv /\ CheckInv /\ PlaceInv /\ OutcomeInv

-----------------------------------------------------------------------------
(* The legs of a position.                                                 *)

LEMMA LegFacts ==
  /\ Len(Legs) \in 1 .. 3
  /\ \A n \in 1 .. Len(Legs) :
       /\ Legs[n] \in {"bridge", "unwrap", "direct", "swap", "hop"}
       /\ Legs[n] \in {"bridge", "direct"} <=> n = Len(Legs)
       /\ Legs[n] \in {"hop", "swap"} => n = 1
       /\ Legs[n] = "unwrap" => n \in 1 .. 2 /\ Legs[n + 1] = "direct"
       /\ Legs[n] = "direct" => n > 1 /\ Legs[n - 1] = "unwrap"
  /\ Converts <=> Legs[1] = "swap"
<1>1. CASE entry.shape = "bridge"
  <2>1. Legs = <<"bridge">>
    BY <1>1 DEF Legs, Converts
  <2>2. Len(Legs) = 1 /\ Legs[1] = "bridge"
    BY <2>1
  <2>3. 1 .. Len(Legs) = {1}
    BY <2>2
  <2> QED
    BY <1>1, <2>2, <2>3 DEF Converts
<1>2. CASE entry.shape = "unwrap"
  <2>1. Legs = <<"unwrap", "direct">>
    BY <1>2 DEF Legs, Converts
  <2>2. Len(Legs) = 2 /\ Legs[1] = "unwrap" /\ Legs[2] = "direct"
    BY <2>1
  <2>3. 1 .. Len(Legs) = {1, 2}
    BY <2>2
  <2> QED
    BY <1>2, <2>2, <2>3 DEF Converts
<1>3. CASE Converts
  <2>1. Legs = <<"swap", "bridge">>
    BY <1>3 DEF Legs, Converts
  <2>2. Len(Legs) = 2 /\ Legs[1] = "swap" /\ Legs[2] = "bridge"
    BY <2>1
  <2>3. 1 .. Len(Legs) = {1, 2}
    BY <2>2
  <2> QED
    BY <1>3, <2>2, <2>3
<1>4. CASE ~Converts /\ entry.shape \notin {"bridge", "unwrap"}
  <2>1. Legs = <<"hop", "unwrap", "direct">> \/ Legs = <<"hop", "bridge">>
    BY <1>4 DEF Legs, Converts
  <2>2. CASE Legs = <<"hop", "unwrap", "direct">>
    <3>1. /\ Len(Legs) = 3 /\ Legs[1] = "hop" /\ Legs[2] = "unwrap"
          /\ Legs[3] = "direct"
      BY <2>2
    <3>2. 1 .. Len(Legs) = {1, 2, 3}
      BY <3>1
    <3> QED
      BY <1>4, <3>1, <3>2
  <2>3. CASE Legs = <<"hop", "bridge">>
    <3>1. Len(Legs) = 2 /\ Legs[1] = "hop" /\ Legs[2] = "bridge"
      BY <2>3
    <3>2. 1 .. Len(Legs) = {1, 2}
      BY <3>1
    <3> QED
      BY <1>4, <3>1, <3>2
  <2> QED
    BY <2>1, <2>2, <2>3
<1> QED
  BY <1>1, <1>2, <1>3, <1>4

\* The legs change only when the hop's delivery is to be withdrawn.
LEMMA LegsMove ==
  ASSUME entry' = entry, saved.migrated => saved'.migrated,
         saved.migrated \in BOOLEAN, saved'.migrated \in BOOLEAN
  PROVE  /\ Converts' = Converts
         /\ \/ Legs' = Legs
            \/ /\ ~saved.migrated /\ saved'.migrated
               /\ Len(Legs) = 2 /\ Legs[1] = "hop" /\ Legs[2] = "bridge"
               /\ Len(Legs)' = 3 /\ Legs[1]' = "hop" /\ Legs[2]' = "unwrap"
<1>1. Converts' = Converts
  BY DEF Converts
<1>2. CASE saved'.migrated = saved.migrated
  BY <1>1, <1>2 DEF Legs
<1>3. CASE entry.shape \in {"bridge", "unwrap"} \/ Converts
  BY <1>1, <1>3 DEF Legs
<1>4. CASE ~(entry.shape \in {"bridge", "unwrap"} \/ Converts)
           /\ saved'.migrated # saved.migrated
  <2>1. Legs = <<"hop", "bridge">> /\ Legs' = <<"hop", "unwrap", "direct">>
    BY <1>1, <1>4 DEF Legs
  <2> QED
    BY <1>1, <1>4, <2>1
<1> QED
  BY <1>2, <1>3, <1>4

-----------------------------------------------------------------------------
(* What every step does to the checkpoints.                                *)

LEMMA Savers ==
  ASSUME [Next]_vars
  PROVE  \/ saved' = saved
         \/ Prepare \/ Convert \/ SaveBridge \/ Receipt \/ Progress \/ Requote
         \/ Open \/ Migrate \/ NextLeg
<1>1. CASE Reactivate \/ Begin \/ EnterCompleted \/ EnterPending \/ OverBudget
           \/ Start \/ StartConverted \/ StartBridge \/ BridgeOverBudget
  BY <1>1 DEF Reactivate, Begin, EnterCompleted, EnterPending, OverBudget,
     Start, StartConverted, StartBridge, BridgeOverBudget, journal
<1>2. CASE Continue \/ AfterUnwrap \/ Known \/ NoApproval \/ Approve
           \/ SendApproval \/ LoseApproval \/ Sign \/ Send \/ MarkAwaiting \/ Credit
  BY <1>2 DEF Continue, AfterUnwrap, Known, NoApproval, Approve, SendApproval,
     LoseApproval, Sign, Send, MarkAwaiting, Credit, journal
<1>3. CASE End \/ RunFails \/ Interrupt \/ Mine \/ Bridge \/ Exchange \/ UNCHANGED vars
  BY <1>3 DEF End, DepositCredited, DepositPending, DepositFailed, RecordOutcome,
     CloseGroup, RunFails, Interrupt, Mine, Bridge, Exchange, vars, journal
<1> QED
  BY <1>1, <1>2, <1>3 DEF Next, Run, Leg

LEMMA SavedMoves ==
  ASSUME Types, [Next]_vars
  PROVE  /\ \/ saved'.prepared = saved.prepared
            \/ Prepare /\ ~Frozen /\ ~saved.converted /\ saved'.prepared \in Routes
         /\ \/ saved'.converted = saved.converted
            \/ Convert /\ saved'.converted
         /\ \/ saved'.replacement = saved.replacement
            \/ SaveBridge /\ saved'.replacement = run.route
         /\ \/ saved'.unwrapped = saved.unwrapped
            \/ Receipt /\ Kind = "unwrap" /\ saved'.unwrapped
         /\ \/ saved'.context = saved.context
            \/ Progress /\ saved'.context
         /\ saved'.requoted \in BOOLEAN
<1> DEFINE Goal ==
      /\ \/ saved'.prepared = saved.prepared
         \/ Prepare /\ ~Frozen /\ ~saved.converted /\ saved'.prepared \in Routes
      /\ \/ saved'.converted = saved.converted
         \/ Convert /\ saved'.converted
      /\ \/ saved'.replacement = saved.replacement
         \/ SaveBridge /\ saved'.replacement = run.route
      /\ \/ saved'.unwrapped = saved.unwrapped
         \/ Receipt /\ Kind = "unwrap" /\ saved'.unwrapped
      /\ \/ saved'.context = saved.context
         \/ Progress /\ saved'.context
      /\ saved'.requoted \in BOOLEAN
<1>1. saved \in Checkpoints
  BY DEF Types
<1>2. ASSUME saved' = saved PROVE Goal
  BY <1>1, <1>2 DEF Checkpoints
<1>3. CASE Prepare
  <2>1. \/ saved' = saved
        \/ /\ ~Frozen /\ ~saved.converted
           /\ \E r \in (IF entry.auto THEN Routes ELSE {PlanRoute}) :
                saved' = [saved EXCEPT !.prepared = r]
    BY <1>3 DEF Prepare
  <2>2. ASSUME NEW r \in Routes, saved' = [saved EXCEPT !.prepared = r], ~Frozen,
               ~saved.converted
        PROVE  Goal
    BY <1>1, <1>3, <2>2 DEF Checkpoints
  <2> QED
    BY <1>2, <2>1, <2>2, RouteAssumption
<1>4. CASE Convert
  <2>1. saved' = [saved EXCEPT !.converted = TRUE]
    BY <1>4 DEF Convert
  <2> QED
    BY <1>1, <1>4, <2>1 DEF Checkpoints
<1>5. CASE SaveBridge
  <2>1. saved' = [saved EXCEPT !.replacement = run.route]
    BY <1>5 DEF SaveBridge
  <2> QED
    BY <1>1, <1>5, <2>1 DEF Checkpoints
<1>6. CASE Receipt
  <2>1. saved' = saved \/ (Kind = "unwrap" /\ saved' = [saved EXCEPT !.unwrapped = TRUE])
    BY <1>6 DEF Receipt
  <2> QED
    BY <1>1, <1>2, <1>6, <2>1 DEF Checkpoints
<1>7. CASE Progress
  <2>1. saved' = [saved EXCEPT !.context = TRUE]
    BY <1>7 DEF Progress
  <2> QED
    BY <1>1, <1>7, <2>1 DEF Checkpoints
<1>8. CASE Requote
  <2>1. saved' = saved \/ saved' = [saved EXCEPT !.requoted = TRUE]
    BY <1>8 DEF Requote
  <2> QED
    BY <1>1, <1>2, <2>1 DEF Checkpoints
<1>9. CASE Open
  <2>1. PICK b : saved' = [saved EXCEPT !.baseline = b]
    BY <1>9 DEF Open
  <2> QED
    BY <1>1, <2>1 DEF Checkpoints
<1>10. CASE Migrate \/ NextLeg
  <2>1. \E n \in 2 .. 4 : \E r, m :
          saved' = [saved EXCEPT !.migrated = m, !.continuation[n] = r]
    <3>1. CASE Migrate
      <4>1. 2 \in 2 .. 4
        OBVIOUS
      <4>2. \E r : saved' = [saved EXCEPT !.migrated = TRUE, !.continuation[2] = r]
        BY <3>1 DEF Migrate
      <4> QED
        BY <4>1, <4>2
    <3>2. CASE NextLeg
      <4>1. run.leg + 1 \in 2 .. 4
        BY DEF Types, Runs
      <4>2. PICK r, m : saved' = [saved EXCEPT !.continuation[run.leg + 1] = r,
                                               !.migrated = m]
        BY <3>2 DEF NextLeg
      <4>3. saved' = [saved EXCEPT !.migrated = m, !.continuation[run.leg + 1] = r]
        BY <1>1, <4>2 DEF Checkpoints
      <4> QED
        BY <4>1, <4>3
    <3> QED
      BY <1>10, <3>1, <3>2
  <2> QED
    BY <1>1, <2>1 DEF Checkpoints
<1> QED
  BY <1>2, <1>3, <1>4, <1>5, <1>6, <1>7, <1>8, <1>9, <1>10, Savers
\* The fields of a record, for the steps that change one of them.
LEMMA Fields ==
  ASSUME Types
  PROVE  /\ DOMAIN saved = {"prepared", "converted", "requoted", "replacement",
                            "baseline", "continuation", "migrated", "unwrapped",
                            "context"}
         /\ saved.prepared \in MaybeRoutes /\ saved.replacement \in MaybeRoutes
         /\ saved.converted \in BOOLEAN /\ saved.requoted \in BOOLEAN
         /\ saved.migrated \in BOOLEAN /\ saved.unwrapped \in BOOLEAN
         /\ saved.context \in BOOLEAN
         /\ saved.continuation \in [2 .. 3 -> MaybeRoutes]
         /\ saved.baseline \in SUBSET {0}
<1>1. saved \in Checkpoints
  BY DEF Types
<1> QED
  BY <1>1 DEF Checkpoints

\* What a step leaves of the next leg's route, of the migration and of the
\* measured balance.
LegFieldsKept == /\ saved'.continuation = saved.continuation
                 /\ saved'.migrated = saved.migrated
                 /\ saved'.baseline = saved.baseline

LEMMA LegFieldMoves ==
  ASSUME Types, [Next]_vars
  PROVE  \/ LegFieldsKept
         \/ /\ Open /\ saved'.continuation = saved.continuation
            /\ saved'.migrated = saved.migrated
            /\ saved'.baseline = IF Kind = "hop" /\ saved.baseline = {}
                                 THEN {Balance} ELSE saved.baseline
         \/ /\ Migrate /\ saved'.migrated /\ saved'.baseline = saved.baseline
            /\ \E r \in Routes :
                 saved'.continuation = [saved.continuation EXCEPT ![2] = r]
         \/ /\ NextLeg /\ saved'.baseline = saved.baseline
            /\ \E r \in Routes, native \in BOOLEAN :
                 /\ native => Kind = "hop" /\ entry.auto /\ entry.weth
                 /\ saved'.migrated = (saved.migrated \/ native)
                 /\ saved'.continuation = [saved.continuation EXCEPT ![run.leg + 1] =
                                             IF Kind = "unwrap" THEN PlanRoute ELSE r]
<1>1. saved \in Checkpoints
  BY DEF Types
<1>3. CASE saved' = saved
  BY <1>3 DEF LegFieldsKept
<1>4. ASSUME NEW r, \/ saved' = [saved EXCEPT !.prepared = r]
                    \/ saved' = [saved EXCEPT !.converted = r]
                    \/ saved' = [saved EXCEPT !.replacement = r]
      PROVE  LegFieldsKept
  BY <1>1, <1>4 DEF LegFieldsKept, Checkpoints
<1>5. ASSUME NEW r, \/ saved' = [saved EXCEPT !.unwrapped = r]
                    \/ saved' = [saved EXCEPT !.context = r]
                    \/ saved' = [saved EXCEPT !.requoted = r]
      PROVE  LegFieldsKept
  BY <1>1, <1>5 DEF LegFieldsKept, Checkpoints
<1>6. CASE Prepare
  <2>1. saved' = saved \/ \E r : saved' = [saved EXCEPT !.prepared = r]
    BY <1>6 DEF Prepare
  <2> QED
    BY <2>1, <1>3, <1>4
<1>7. CASE Convert
  BY <1>7, <1>4 DEF Convert
<1>8. CASE SaveBridge
  BY <1>8, <1>4 DEF SaveBridge
<1>9. CASE Receipt
  <2>1. saved' = saved \/ saved' = [saved EXCEPT !.unwrapped = TRUE]
    BY <1>9 DEF Receipt
  <2> QED
    BY <2>1, <1>3, <1>5
<1>10. CASE Progress
  BY <1>10, <1>5 DEF Progress
<1>11. CASE Requote
  <2>1. saved' = saved \/ saved' = [saved EXCEPT !.requoted = TRUE]
    BY <1>11 DEF Requote
  <2> QED
    BY <2>1, <1>3, <1>5
<1>12. CASE Open
  <2>1. saved' = [saved EXCEPT !.baseline =
                    IF Kind = "hop" /\ @ = {} THEN {Balance} ELSE @]
    BY <1>12 DEF Open
  <2>2. saved'.baseline = IF Kind = "hop" /\ saved.baseline = {}
                          THEN {Balance} ELSE saved.baseline
    BY <1>1, <2>1 DEF Checkpoints
  <2>3. saved'.continuation = saved.continuation
    BY <1>1, <2>1 DEF Checkpoints
  <2>4. saved'.migrated = saved.migrated
    BY <1>1, <2>1 DEF Checkpoints
  <2> QED
    BY <1>12, <2>2, <2>3, <2>4
<1>13. CASE Migrate
  <2>1. PICK r \in Routes :
          saved' = [saved EXCEPT !.migrated = TRUE, !.continuation[2] = r]
    BY <1>13 DEF Migrate
  <2>2. saved'.continuation = [saved.continuation EXCEPT ![2] = r]
    BY <1>1, <2>1 DEF Checkpoints
  <2>3. saved'.migrated /\ saved'.baseline = saved.baseline
    BY <1>1, <2>1 DEF Checkpoints
  <2> QED
    BY <1>13, <2>2, <2>3
<1>14. CASE NextLeg
  <2>1. PICK r \in Routes, native \in BOOLEAN :
          LET route == IF Kind = "unwrap" THEN PlanRoute ELSE r IN
          /\ native => Kind = "hop" /\ entry.auto /\ entry.weth
          /\ saved' = [saved EXCEPT !.continuation[run.leg + 1] = route,
                                    !.migrated = @ \/ native]
    BY <1>14 DEF NextLeg
  <2> DEFINE route == IF Kind = "unwrap" THEN PlanRoute ELSE r
             n == run.leg + 1
  <2>2. saved' = [saved EXCEPT !.continuation[n] = route, !.migrated = @ \/ native]
    BY <2>1
  <2>3. native => Kind = "hop" /\ entry.auto /\ entry.weth
    BY <2>1
  <2> HIDE DEF route, n
  <2>4. saved'.continuation = [saved.continuation EXCEPT ![n] = route]
    BY <1>1, <2>2 DEF Checkpoints
  <2>5. saved'.baseline = saved.baseline
    BY <1>1, <2>2 DEF Checkpoints
  <2>6. saved'.migrated = (saved.migrated \/ native)
    BY <1>1, <2>2 DEF Checkpoints
  <2> QED
    BY <1>14, <2>3, <2>4, <2>5, <2>6 DEF route, n
<1> QED
  BY <1>3, <1>6, <1>7, <1>8, <1>9, <1>10, <1>11, <1>12, <1>13, <1>14, Savers
     DEF LegFieldsKept
-----------------------------------------------------------------------------
(* What every step does to the journal's rows and to the network.          *)

\* The executor has a real transfer in hand when it works on a leg.
LEMMA CurrentIsTx ==
  ASSUME Types, PlaceInv, pc \in LegPlaces
  PROVE  Current \in Tx
<1>1. run.leg \in 1 .. 3 /\ run.route \in MaybeRoutes
  BY DEF Types, Runs
<1>2. run.route # NoRoute
  BY DEF PlaceInv
<1> QED
  BY <1>1, <1>2 DEF Current, Tx, MaybeRoutes

LEMMA RowWriters ==
  ASSUME [Next]_vars
  PROVE  row' = row \/ Sign \/ MarkAwaiting \/ Credit \/ DepositCredited
<1>1. CASE Reactivate \/ Begin \/ EnterCompleted \/ EnterPending \/ OverBudget
           \/ Start \/ StartConverted \/ StartBridge \/ BridgeOverBudget
  BY <1>1 DEF Reactivate, Begin, EnterCompleted, EnterPending, OverBudget,
     Start, StartConverted, StartBridge, BridgeOverBudget, journal
<1>2. CASE Continue \/ AfterUnwrap \/ Known \/ NoApproval \/ Approve
           \/ SendApproval \/ LoseApproval \/ Send
  BY <1>2 DEF Continue, AfterUnwrap, Known, NoApproval, Approve, SendApproval,
     LoseApproval, Send, journal
<1>3. CASE Prepare \/ Convert \/ SaveBridge \/ Receipt \/ Progress \/ Requote
           \/ Open \/ Migrate \/ NextLeg
  BY <1>3 DEF Prepare, Convert, SaveBridge, Receipt, Progress, Requote, Open,
     Migrate, NextLeg, journal
<1>4. CASE DepositPending \/ DepositFailed \/ RecordOutcome \/ CloseGroup
           \/ RunFails \/ Interrupt \/ Mine \/ Bridge \/ Exchange \/ UNCHANGED vars
  BY <1>4 DEF DepositPending, DepositFailed, RecordOutcome, CloseGroup, RunFails,
     Interrupt, Mine, Bridge, Exchange, vars, journal
<1> QED
  BY <1>1, <1>2, <1>3, <1>4 DEF Next, Run, Leg, End

\* A row is made by a signature and never removed.
LEMMA RowMoves ==
  ASSUME Types, [Next]_vars
  PROVE  /\ row' \in [Tx -> StepStates \union {"none"}]
         /\ \A t \in Tx : Intent(t)' <=> (Intent(t) \/ (Sign /\ t = Current))
<1> DEFINE Goal ==
      /\ row' \in [Tx -> StepStates \union {"none"}]
      /\ \A t \in Tx : Intent(t)' <=> (Intent(t) \/ (Sign /\ t = Current))
<1>1. row \in [Tx -> StepStates \union {"none"}]
  BY DEF Types, TypeOK
<1>2. {"submitted", "confirmed", "awaiting_bridge", "credited"} \subseteq StepStates
  BY DEF StepStates
<1>3. CASE Sign
  <2>1. row' = [row EXCEPT ![Current] = "submitted"]
    BY <1>3 DEF Sign
  <2> QED
    BY <1>1, <1>2, <1>3, <2>1 DEF Intent
<1>4. CASE ~Sign
  <2>1. CASE row' = row
    BY <1>1, <1>4, <2>1 DEF Intent
  <2>2. CASE MarkAwaiting
    <3>1. row[Current] \in {"submitted", "confirmed"}
      BY <2>2 DEF MarkAwaiting
    <3>2. PICK s \in {"confirmed", "awaiting_bridge"} :
            row' = [row EXCEPT ![Current] = s]
      BY <2>2 DEF MarkAwaiting
    <3> QED
      BY <1>1, <1>2, <1>4, <3>1, <3>2 DEF Intent
  <2>3. CASE Credit
    <3>1. row[Current] \in {"awaiting_bridge", "credited"}
      BY <2>3 DEF Credit
    <3>2. row' = [row EXCEPT ![Current] = "credited"]
      BY <2>3 DEF Credit
    <3> QED
      BY <1>1, <1>2, <1>4, <3>1, <3>2 DEF Intent
  <2>4. CASE DepositCredited
    <3>1. row' = [t \in Tx |-> IF t.leg = run.leg /\ Intent(t)
                               THEN "credited" ELSE row[t]]
      BY <2>4 DEF DepositCredited
    <3>2. \A t \in Tx : row'[t] = IF t.leg = run.leg /\ Intent(t)
                                  THEN "credited" ELSE row[t]
      BY <3>1
    <3>3. \A t \in Tx : row'[t] \in StepStates \union {"none"}
      BY <1>1, <1>2, <3>2
    <3>4. row' \in [Tx -> StepStates \union {"none"}]
      BY <3>1, <3>2, <3>3
    <3> QED
      BY <1>4, <3>2, <3>4 DEF Intent
  <2> QED
    BY <1>4, <2>1, <2>2, <2>3, <2>4, RowWriters
<1> QED
  BY <1>3, <1>4

LEMMA NetworkWriters ==
  ASSUME [Next]_vars
  PROVE  UNCHANGED network \/ Known \/ Send \/ Mine \/ Bridge \/ Exchange
<1>1. CASE Reactivate \/ Begin \/ EnterCompleted \/ EnterPending \/ OverBudget
           \/ Start \/ StartConverted \/ StartBridge \/ BridgeOverBudget
  BY <1>1 DEF Reactivate, Begin, EnterCompleted, EnterPending, OverBudget,
     Start, StartConverted, StartBridge, BridgeOverBudget
<1>2. CASE Continue \/ AfterUnwrap \/ NoApproval \/ Approve \/ SendApproval
           \/ LoseApproval \/ Sign \/ MarkAwaiting \/ Credit
  BY <1>2 DEF Continue, AfterUnwrap, NoApproval, Approve, SendApproval,
     LoseApproval, Sign, MarkAwaiting, Credit
<1>3. CASE Prepare \/ Convert \/ SaveBridge \/ Receipt \/ Progress \/ Requote
           \/ Open \/ Migrate \/ NextLeg
  BY <1>3 DEF Prepare, Convert, SaveBridge, Receipt, Progress, Requote, Open,
     Migrate, NextLeg
<1>4. CASE DepositCredited \/ DepositPending \/ DepositFailed \/ RecordOutcome
           \/ CloseGroup \/ RunFails \/ Interrupt \/ UNCHANGED vars
  BY <1>4 DEF DepositCredited, DepositPending, DepositFailed, RecordOutcome,
     CloseGroup, RunFails, Interrupt, vars
<1> QED
  BY <1>1, <1>2, <1>3, <1>4 DEF Next, Run, Leg, End

LEMMA EntryKept ==
  ASSUME [Next]_vars
  PROVE  entry' = entry
<1>1. CASE Reactivate \/ Begin \/ EnterCompleted \/ EnterPending \/ OverBudget
           \/ Start \/ StartConverted \/ StartBridge \/ BridgeOverBudget
  BY <1>1 DEF Reactivate, Begin, EnterCompleted, EnterPending, OverBudget,
     Start, StartConverted, StartBridge, BridgeOverBudget
<1>2. CASE Continue \/ AfterUnwrap \/ Known \/ NoApproval \/ Approve
           \/ SendApproval \/ LoseApproval \/ Sign \/ Send \/ MarkAwaiting \/ Credit
  BY <1>2 DEF Continue, AfterUnwrap, Known, NoApproval, Approve, SendApproval,
     LoseApproval, Sign, Send, MarkAwaiting, Credit
<1>3. CASE Prepare \/ Convert \/ SaveBridge \/ Receipt \/ Progress \/ Requote
           \/ Open \/ Migrate \/ NextLeg
  BY <1>3 DEF Prepare, Convert, SaveBridge, Receipt, Progress, Requote, Open,
     Migrate, NextLeg
<1>4. CASE End \/ RunFails \/ Interrupt \/ Mine \/ Bridge \/ Exchange \/ UNCHANGED vars
  BY <1>4 DEF End, DepositCredited, DepositPending, DepositFailed, RecordOutcome,
     CloseGroup, RunFails, Interrupt, Mine, Bridge, Exchange, vars
<1> QED
  BY <1>1, <1>2, <1>3, <1>4 DEF Next, Run, Leg

\* Only the transfer in hand is sent; what was delivered stays delivered.
LEMMA NetworkMoves ==
  ASSUME Types, PlaceInv, [Next]_vars
  PROVE  /\ sent' = sent \/ ((Send \/ Known) /\ sent' = sent \union {Current})
         /\ sent' \subseteq Tx /\ IsFiniteSet(sent')
         /\ mined \subseteq mined' /\ arrived \subseteq arrived'
         /\ mined' \union reverted' \subseteq sent'
         /\ arrived' \union reported' \union refunded' \subseteq mined'
         /\ deposit' \in Deposits
<1>1. /\ sent \subseteq Tx /\ mined \union reverted \subseteq sent
      /\ arrived \union reported \union refunded \subseteq mined
      /\ deposit \in Deposits /\ IsFiniteSet(sent)
  BY DEF Types, TypeOK
<1>2. CASE UNCHANGED network
  BY <1>1, <1>2 DEF network
<1>3. CASE Known \/ Send
  <2>1. pc \in LegPlaces
    BY <1>3 DEF Known, Send, Opens, LegPlaces, Opened
  <2>2. Current \in Tx
    BY <2>1, CurrentIsTx
  <2>3. UNCHANGED <<mined, reverted, arrived, reported, refunded, deposit>>
    BY <1>3 DEF Known, Send
  <2>4. sent' = sent \/ sent' = sent \union {Current}
    BY <1>3 DEF Known, Send
  <2>5. IsFiniteSet(sent \union {Current})
    BY <1>1, FS_AddElement
  <2> QED
    BY <1>1, <1>3, <2>2, <2>3, <2>4, <2>5
<1>4. CASE Mine
  <2>1. UNCHANGED <<sent, arrived, reported, refunded, deposit>>
    BY <1>4 DEF Mine
  <2>2. /\ mined' = mined \/ \E t \in sent : mined' = mined \union {t}
        /\ reverted' = reverted \/ \E t \in sent : reverted' = reverted \union {t}
    BY <1>4 DEF Mine
  <2> QED
    BY <1>1, <2>1, <2>2
<1>5. CASE Bridge
  <2>1. UNCHANGED <<sent, mined, reverted, deposit>>
    BY <1>5 DEF Bridge
  <2>2. PICK t \in mined : /\ arrived' = arrived \/ arrived' = arrived \union {t}
                           /\ reported' = reported \/ reported' = reported \union {t}
                           /\ refunded' = refunded \/ refunded' = refunded \union {t}
    BY <1>5 DEF Bridge, Bridged
  <2> QED
    BY <1>1, <2>1, <2>2
<1>6. CASE Exchange
  <2>1. UNCHANGED <<sent, mined, reverted, arrived, reported, refunded>>
    BY <1>6 DEF Exchange
  <2>2. deposit' \in Deposits
    BY <1>6 DEF Exchange, Deposits
  <2> QED
    BY <1>1, <2>1, <2>2
<1> QED
  BY <1>2, <1>3, <1>4, <1>5, <1>6, NetworkWriters
-----------------------------------------------------------------------------
(* What a leg delivered is never lost, although the legs may change.       *)

LEMMA CheckpointMoves ==
  ASSUME Types, [Next]_vars
  PROVE  /\ saved'.continuation \in [2 .. 3 -> MaybeRoutes]
         /\ \A n \in 2 .. 3 :
              \/ saved'.continuation[n] = saved.continuation[n]
              \/ NextLeg /\ n = run.leg + 1 /\ (Kind = "unwrap" =>
                                                  saved'.continuation[n] = PlanRoute)
              \/ Migrate /\ n = 2
         /\ saved'.migrated \in BOOLEAN /\ (saved.migrated => saved'.migrated)
         /\ \/ saved'.migrated = saved.migrated
            \/ NextLeg /\ Kind = "hop"
            \/ Migrate
<1>1. /\ saved.continuation \in [2 .. 3 -> MaybeRoutes]
      /\ saved.migrated \in BOOLEAN /\ Routes \subseteq MaybeRoutes
      /\ PlanRoute \in MaybeRoutes
  BY Fields, RouteAssumption DEF MaybeRoutes
<1>2. CASE saved'.continuation = saved.continuation
           /\ saved'.migrated = saved.migrated
  BY <1>1, <1>2
<1>3. CASE /\ Migrate /\ saved'.migrated /\ saved'.baseline = saved.baseline
           /\ \E r \in Routes :
                saved'.continuation = [saved.continuation EXCEPT ![2] = r]
  <2>1. saved'.migrated = TRUE
    <3>1. PICK r \in Routes :
            saved' = [saved EXCEPT !.migrated = TRUE, !.continuation[2] = r]
      BY <1>3 DEF Migrate
    <3>2. saved \in Checkpoints
      BY DEF Types
    <3> QED
      BY <3>1, <3>2 DEF Checkpoints
  <2>2. PICK r \in Routes : saved'.continuation = [saved.continuation EXCEPT ![2] = r]
    BY <1>3
  <2>3. saved'.continuation \in [2 .. 3 -> MaybeRoutes]
    BY <1>1, <2>2
  <2>4. \A n \in 2 .. 3 : saved'.continuation[n] = saved.continuation[n] \/ n = 2
    BY <1>1, <2>2
  <2> QED
    BY <1>3, <2>1, <2>3, <2>4
<1>4. CASE /\ NextLeg /\ saved'.baseline = saved.baseline
           /\ \E r \in Routes, native \in BOOLEAN :
                /\ native => Kind = "hop" /\ entry.auto /\ entry.weth
                /\ saved'.migrated = (saved.migrated \/ native)
                /\ saved'.continuation = [saved.continuation EXCEPT ![run.leg + 1] =
                                            IF Kind = "unwrap" THEN PlanRoute ELSE r]
  <2>1. PICK r \in Routes, native \in BOOLEAN :
          /\ native => Kind = "hop"
          /\ saved'.migrated = (saved.migrated \/ native)
          /\ saved'.continuation = [saved.continuation EXCEPT ![run.leg + 1] =
                                      IF Kind = "unwrap" THEN PlanRoute ELSE r]
    BY <1>4
  <2>2. saved'.continuation \in [2 .. 3 -> MaybeRoutes]
    BY <1>1, <2>1
  <2>3. \A n \in 2 .. 3 : \/ saved'.continuation[n] = saved.continuation[n]
                          \/ n = run.leg + 1 /\ (Kind = "unwrap" =>
                                                   saved'.continuation[n] = PlanRoute)
    BY <1>1, <2>1
  <2>4. /\ saved'.migrated \in BOOLEAN /\ (saved.migrated => saved'.migrated)
        /\ saved'.migrated = saved.migrated \/ Kind = "hop"
    BY <1>1, <2>1
  <2> QED
    BY <1>4, <2>2, <2>3, <2>4
<1> QED
  BY <1>2, <1>3, <1>4, LegFieldMoves DEF LegFieldsKept

\* The legs, or the one change of plan: the delivery of a hop, of which nothing
\* but the first leg is recorded, is to be withdrawn.
LEMMA LegsChange ==
  ASSUME Types, IntentInv, PlaceInv, [Next]_vars
  PROVE  /\ Converts' = Converts
         /\ \/ Legs' = Legs
            \/ /\ NextLeg \/ Migrate
               /\ Len(Legs) = 2 /\ Legs[1] = "hop" /\ Legs[2] = "bridge"
               /\ Len(Legs)' = 3 /\ Legs[1]' = "hop" /\ Legs[2]' = "unwrap"
               /\ \A t \in Tx : Intent(t) => t.leg = 1
<1>1. /\ saved.migrated \in BOOLEAN /\ saved'.migrated \in BOOLEAN
      /\ saved.migrated => saved'.migrated
      /\ saved'.migrated = saved.migrated \/ (NextLeg /\ Kind = "hop") \/ Migrate
  BY Fields, CheckpointMoves
<1>2. entry' = entry
  BY EntryKept
<1>3. /\ Converts' = Converts
      /\ \/ Legs' = Legs
         \/ /\ ~saved.migrated /\ saved'.migrated
            /\ Len(Legs) = 2 /\ Legs[1] = "hop" /\ Legs[2] = "bridge"
            /\ Len(Legs)' = 3 /\ Legs[1]' = "hop" /\ Legs[2]' = "unwrap"
  BY <1>1, <1>2, LegsMove
<1>4. CASE Legs' = Legs
  BY <1>3, <1>4
<1>5. CASE Legs' # Legs
  <2>1. (NextLeg /\ Kind = "hop") \/ Migrate
    BY <1>1, <1>3, <1>5
  <2>2. ASSUME NEW t \in Tx, Intent(t) PROVE t.leg = 1
    <3>1. CASE Migrate
      BY <3>1, <2>2 DEF Migrate, UnsignedDelivery
    <3>2. CASE NextLeg /\ Kind = "hop"
      <4>1. pc = "next"
        BY <3>2 DEF NextLeg
      <4>2. run.leg <= Len(Legs) /\ saved.continuation[run.leg + 1] = NoRoute
        BY <4>1 DEF PlaceInv
      <4>3. run.leg = 1
        BY <3>2, <4>2, LegFacts DEF Kind, Types, Runs
      <4>4. saved.continuation[2] = NoRoute /\ ~Converts
        BY <1>3, <1>5, <4>2, <4>3, LegFacts
      <4>5. t.leg <= 2 /\ t.leg \in 1 .. 3 /\ t.route \in Routes
        BY <1>3, <1>5, <2>2 DEF IntentInv, Tx
      <4>6. t.leg = 2 => t.route = saved.continuation[2]
        BY <2>2, <4>4, <4>5 DEF IntentInv, IntentMatchesPreparation
      <4> QED
        BY <4>4, <4>5, <4>6, RouteAssumption
    <3> QED
      BY <2>1, <3>1, <3>2
  <2> QED
    BY <1>3, <1>5, <2>1, <2>2
<1> QED
  BY <1>4, <1>5

LEMMA DoneKept ==
  ASSUME Types, IntentInv, PlaceInv, [Next]_vars
  PROVE  \A n \in 1 .. 3 : Done(n) => Done(n)'
<1> SUFFICES ASSUME NEW n \in 1 .. 3, NEW t \in sent, t.leg = n, Delivers(t)
             PROVE  \E u \in sent' : u.leg = n /\ Delivers(u)'
  BY DEF Done
<1>1. t \in sent' /\ mined \subseteq mined' /\ arrived \subseteq arrived'
  BY NetworkMoves
<1>2. CASE Legs' = Legs
  <2>1. Delivers(t)'
    BY <1>1, <1>2 DEF Delivers
  <2> QED
    BY <1>1, <2>1
<1>3. CASE Legs' # Legs
  <2>1. t \in Tx /\ Intent(t)
    BY DEF Types, TypeOK, IntentInv
  <2>2. n = 1 /\ Legs[1] = "hop" /\ Legs[1]' = "hop"
    BY <1>3, <2>1, LegsChange
  <2>3. Delivers(t)'
    BY <1>1, <2>2 DEF Delivers
  <2> QED
    BY <1>1, <2>3
<1> QED
  BY <1>2, <1>3

\* The balance a hop will add to is empty before the hop is signed.
LEMMA BalanceIsZero ==
  ASSUME Types, IntentInv, PlaceInv, CheckInv, Open, Kind = "hop"
  PROVE  Balance = 0
<1>1. pc = "leg" /\ saved.continuation[run.leg + 1] = NoRoute /\ ~Intent(Current)
  BY DEF Open, Opens
<1>2. run.leg <= Len(Legs) /\ run.route = SavedRoute(run.leg)
  BY <1>1 DEF PlaceInv, LegPlaces
<1>3. run.leg = 1 /\ Legs[1] = "hop" /\ ~Converts
  BY <1>2, LegFacts DEF Kind, Types, Runs
<1>4. run.route = saved.prepared /\ saved.continuation[2] = NoRoute
  BY <1>1, <1>2, <1>3 DEF SavedRoute
<1>5. \A t \in sent : t \in Tx /\ Intent(t)
  BY DEF Types, TypeOK, IntentInv
<1>6. ASSUME NEW t \in sent PROVE t.leg # 1
  <2>1. SUFFICES ASSUME t.leg = 1 PROVE FALSE
    OBVIOUS
  <2>2. t \in Tx /\ t.route = saved.prepared
    BY <1>5, <2>1 DEF IntentInv, IntentMatchesPreparation
  <2>3. t = [leg |-> t.leg, route |-> t.route]
    BY <2>2 DEF Tx
  <2>4. t = Current
    BY <1>3, <1>4, <2>1, <2>2, <2>3 DEF Current
  <2> QED
    BY <1>1, <1>5, <2>4
<1>7. ASSUME NEW t \in sent PROVE t.leg # 2
  <2>1. SUFFICES ASSUME t.leg = 2 PROVE FALSE
    OBVIOUS
  <2>2. t \in Tx /\ t.route = saved.continuation[2]
    BY <1>3, <1>5, <2>1 DEF IntentInv, IntentMatchesPreparation
  <2> QED
    BY <1>4, <2>2, RouteAssumption DEF Tx
<1>8. {t \in arrived : t.leg = 1 /\ Legs[1] = "hop"} = {}
  BY <1>6 DEF Types, TypeOK
<1>9. {t \in sent : t.leg = 2 /\ Legs[1] = "hop"} = {}
  BY <1>7
<1> QED
  BY <1>8, <1>9, FS_EmptySet DEF Balance
-----------------------------------------------------------------------------
(* Types.                                                                  *)

LEMMA CheckpointsTyped ==
  ASSUME Types, IntentInv, PlaceInv, CheckInv, [Next]_vars
  PROVE  saved' \in Checkpoints
<1>1. saved \in Checkpoints /\ run.route \in MaybeRoutes /\ run.leg \in 1 .. 3
  BY DEF Types, Runs
<1>2. Routes \subseteq MaybeRoutes /\ PlanRoute \in MaybeRoutes /\ PlanRoute \in Routes
  BY RouteAssumption DEF MaybeRoutes
<1>3. CASE saved' = saved
  BY <1>1, <1>3
<1>4. CASE Prepare
  <2>1. saved' = saved \/ \E r \in Routes : saved' = [saved EXCEPT !.prepared = r]
    BY <1>2, <1>4 DEF Prepare
  <2> QED
    BY <1>1, <1>2, <1>3, <2>1 DEF Checkpoints
<1>5. CASE Convert
  <2>1. saved' = [saved EXCEPT !.converted = TRUE]
    BY <1>5 DEF Convert
  <2> QED
    BY <1>1, <2>1 DEF Checkpoints
<1>6. CASE SaveBridge
  <2>1. saved' = [saved EXCEPT !.replacement = run.route]
    BY <1>6 DEF SaveBridge
  <2> QED
    BY <1>1, <2>1 DEF Checkpoints
<1>7. CASE Receipt
  <2>1. saved' = saved \/ saved' = [saved EXCEPT !.unwrapped = TRUE]
    BY <1>7 DEF Receipt
  <2> QED
    BY <1>1, <1>3, <2>1 DEF Checkpoints
<1>8. CASE Progress
  <2>1. saved' = [saved EXCEPT !.context = TRUE]
    BY <1>8 DEF Progress
  <2> QED
    BY <1>1, <2>1 DEF Checkpoints
<1>9. CASE Requote
  <2>1. saved' = saved \/ saved' = [saved EXCEPT !.requoted = TRUE]
    BY <1>9 DEF Requote
  <2> QED
    BY <1>1, <1>3, <2>1 DEF Checkpoints
<1>10. CASE Open
  <2>1. PICK b : /\ b \in SUBSET {0} \/ (Kind = "hop" /\ b = {Balance})
                 /\ saved' = [saved EXCEPT !.baseline = b]
    BY <1>1, <1>10 DEF Open, Checkpoints
  <2>2. b \in SUBSET {0}
    BY <1>10, <2>1, BalanceIsZero
  <2> QED
    BY <1>1, <2>1, <2>2 DEF Checkpoints
<1>11. CASE Migrate
  <2>1. PICK r \in Routes :
          saved' = [saved EXCEPT !.migrated = TRUE, !.continuation[2] = r]
    BY <1>11 DEF Migrate
  <2>2. [saved.continuation EXCEPT ![2] = r] \in [2 .. 3 -> MaybeRoutes]
    BY <1>1, <1>2 DEF Checkpoints
  <2> DEFINE c == [saved.continuation EXCEPT ![2] = r]
  <2>3. saved' = [saved EXCEPT !.migrated = TRUE, !.continuation = c]
    BY <1>1, <2>1 DEF Checkpoints
  <2> HIDE DEF c
  <2> QED
    BY <1>1, <2>2, <2>3 DEF Checkpoints, c
<1>12. CASE NextLeg
  <2>1. PICK r \in Routes, native \in BOOLEAN :
          LET route == IF Kind = "unwrap" THEN PlanRoute ELSE r IN
          saved' = [saved EXCEPT !.continuation[run.leg + 1] = route,
                                 !.migrated = @ \/ native]
    BY <1>12 DEF NextLeg
  <2> DEFINE route == IF Kind = "unwrap" THEN PlanRoute ELSE r
             n == run.leg + 1
             c == [saved.continuation EXCEPT ![n] = route]
             m == saved.migrated \/ native
  <2>2. saved' = [saved EXCEPT !.continuation[n] = route, !.migrated = @ \/ native]
    BY <2>1
  <2>3. route \in MaybeRoutes
    BY <1>2, <2>1
  <2>4. m \in BOOLEAN
    OBVIOUS
  <2> HIDE DEF n, route
  <2>5. c \in [2 .. 3 -> MaybeRoutes]
    BY <1>1, <2>3 DEF Checkpoints
  <2>6. saved' = [saved EXCEPT !.continuation = c, !.migrated = m]
    BY <1>1, <2>2 DEF Checkpoints
  <2> HIDE DEF c, m
  <2> QED
    BY <1>1, <2>4, <2>5, <2>6 DEF Checkpoints
<1> QED
  BY <1>3, <1>4, <1>5, <1>6, <1>7, <1>8, <1>9, <1>10, <1>11, <1>12, Savers

\* The result and the state of the group a run ends with.
RunTyped == /\ run \in Runs
            /\ pc = "settle" => run.result \in PositionStates
            /\ pc \in {"settle", "close"} => run.closes \in GroupStates

LEMMA EndTyped ==
  ASSUME run \in Runs, NEW r \in PositionStates, NEW c \in GroupStates, Ends(r, c)
  PROVE  RunTyped'
<1>1. pc' = "settle" /\ run' = [run EXCEPT !.result = r, !.closes = c]
  BY DEF Ends
<1> QED
  BY <1>1 DEF RunTyped, Runs

LEMMA FailTyped ==
  ASSUME run \in Runs, Fails
  PROVE  RunTyped'
<1>1. /\ "manual_review_after_swap" \in PositionStates
      /\ "manual_review" \in PositionStates
      /\ "manual_review_group_halted" \in GroupStates
  BY DEF PositionStates, GroupStates, Halts
<1>2. PICK r \in PositionStates : Ends(r, "manual_review_group_halted")
  BY <1>1 DEF Fails
<1> QED
  BY <1>1, <1>2, EndTyped

LEMMA LeaveTyped ==
  ASSUME Leave
  PROVE  RunTyped'
<1>1. pc' = "idle" /\ run' = Idle
  BY DEF Leave
<1>2. NoRoute \in MaybeRoutes
  BY DEF MaybeRoutes
<1> QED
  BY <1>1, <1>2 DEF RunTyped, Runs, Idle

LEMMA RunMovesTyped ==
  ASSUME Types, IntentInv, PlaceInv, CheckInv, [Next]_vars
  PROVE  RunTyped'
<1>1. /\ run \in Runs /\ run.leg \in 1 .. 3 /\ run.route \in MaybeRoutes
      /\ pc = "settle" => run.result \in PositionStates
      /\ pc \in {"settle", "close"} => run.closes \in GroupStates
  BY DEF Types, Runs
<1>2. Routes \subseteq MaybeRoutes /\ PlanRoute \in MaybeRoutes
  BY RouteAssumption DEF MaybeRoutes
<1>3. /\ saved.prepared \in MaybeRoutes /\ saved.replacement \in MaybeRoutes
      /\ saved.continuation \in [2 .. 3 -> MaybeRoutes]
      /\ Len(Legs) \in 1 .. 3
  BY Fields, LegFacts
<1>4. /\ {"completed", "manual_review", "manual_review_group_threshold_exceeded",
          "manual_review_after_swap", "deposit_pending"} \subseteq PositionStates
      /\ {"completed", "manual_review_group_halted", "active", "deposit_pending",
          "manual_review_group_threshold_exceeded"} \subseteq GroupStates
  BY DEF PositionStates, GroupStates, Halts
<1>5. CASE Reactivate \/ Begin \/ StartConverted \/ Convert \/ SaveBridge
  BY <1>1, <1>5 DEF RunTyped, Reactivate, Begin, StartConverted, Convert,
     SaveBridge, process
<1>6. CASE AfterUnwrap \/ Known \/ Open \/ NoApproval \/ Approve \/ SendApproval \/ Sign
  BY <1>1, <1>6 DEF RunTyped, AfterUnwrap, Known, Open, NoApproval, Approve,
     SendApproval, Sign
<1>7. CASE Receipt
  BY <1>1, <1>7 DEF RunTyped, Receipt
<1>8. CASE MarkAwaiting \/ Credit \/ Progress
  BY <1>1, <1>8 DEF RunTyped, MarkAwaiting, Credit, Progress, process
<1>9. CASE Mine \/ Bridge \/ Exchange \/ UNCHANGED vars
  BY <1>1, <1>9 DEF RunTyped, Mine, Bridge, Exchange, vars, process
<1>10. CASE EnterCompleted
  <2>1. pc' = "close" /\ run' = [run EXCEPT !.closes = "completed"]
    BY <1>10 DEF EnterCompleted
  <2> QED
    BY <1>1, <1>4, <2>1 DEF RunTyped, Runs
<1>11. CASE EnterPending
  <2>1. /\ pc' \in {"poll", "leg"}
        /\ run' = [run EXCEPT !.observing = TRUE, !.leg = Len(Legs),
                              !.route = PlanRoute]
    BY <1>11 DEF EnterPending
  <2> QED
    BY <1>1, <1>2, <1>3, <2>1 DEF RunTyped, Runs
<1>12. CASE Prepare
  <2>1. pc' = "start" /\ \E r \in MaybeRoutes : run' = [run EXCEPT !.route = r]
    BY <1>2, <1>3, <1>12 DEF Prepare
  <2> QED
    BY <1>1, <2>1 DEF RunTyped, Runs
<1>13. CASE OverBudget
  <2>1. CASE position \in SettledPositions
    <3>1. pc' = "close" /\ run' = [run EXCEPT !.closes =
                                     "manual_review_group_threshold_exceeded"]
      BY <1>13, <2>1 DEF OverBudget
    <3> QED
      BY <1>1, <1>4, <3>1 DEF RunTyped, Runs
  <2>2. CASE position \notin SettledPositions
    <3>1. Ends("manual_review_group_threshold_exceeded",
               "manual_review_group_threshold_exceeded")
      BY <1>13, <2>2 DEF OverBudget
    <3> QED
      BY <1>1, <1>4, <3>1, EndTyped
  <2> QED
    BY <2>1, <2>2
<1>14. CASE Start
  <2>1. (pc' = "leg" /\ run' = run) \/ Leave \/ Fails
    BY <1>14 DEF Start
  <2>2. CASE pc' = "leg" /\ run' = run
    BY <1>1, <2>2 DEF RunTyped
  <2> QED
    BY <1>1, <2>1, <2>2, LeaveTyped, FailTyped
<1>15. CASE Requote
  <2>1. (pc' = "bridge" /\ \E r \in MaybeRoutes : run' = [run EXCEPT !.route = r])
        \/ Fails
    BY <1>2, <1>3, <1>15 DEF Requote
  <2>2. CASE pc' = "bridge" /\ \E r \in MaybeRoutes : run' = [run EXCEPT !.route = r]
    BY <1>1, <2>2 DEF RunTyped, Runs
  <2> QED
    BY <1>1, <2>1, <2>2, FailTyped
<1>16. CASE StartBridge
  <2>1. pc' = "leg" /\ run' = [run EXCEPT !.leg = 2]
    BY <1>16 DEF StartBridge
  <2> QED
    BY <1>1, <2>1 DEF RunTyped, Runs
<1>17. CASE BridgeOverBudget
  <2>1. Ends("manual_review_after_swap", "manual_review_group_threshold_exceeded")
    BY <1>17 DEF BridgeOverBudget
  <2> QED
    BY <1>1, <1>4, <2>1, EndTyped
<1>18. CASE Continue
  <2> DEFINE k == run.leg + 1
             r == saved.continuation[run.leg + 1]
  <2>1. pc' = "leg" /\ k \in 1 .. 3 /\ run' = [run EXCEPT !.leg = k, !.route = r]
    BY <1>1, <1>18 DEF Continue, Runs
  <2>2. r \in MaybeRoutes
    BY <1>3, <1>18 DEF Continue
  <2> HIDE DEF k, r
  <2> QED
    BY <1>1, <2>1, <2>2 DEF RunTyped, Runs
<1>19. CASE Migrate
  <2> DEFINE k == 2
  <2>1. PICK r \in Routes : run' = [run EXCEPT !.leg = k, !.route = r]
    BY <1>19 DEF Migrate
  <2>2. pc' = "leg" /\ k \in 1 .. 3 /\ r \in MaybeRoutes
    BY <1>2, <1>19 DEF Migrate
  <2> HIDE DEF k
  <2> QED
    BY <1>1, <2>1, <2>2 DEF RunTyped, Runs
<1>20. CASE LoseApproval \/ CloseGroup \/ Interrupt
  BY <1>20, LeaveTyped DEF LoseApproval, CloseGroup, Interrupt
<1>21. CASE Send
  <2>1. (pc' = "receipt" /\ run' = run) \/ Leave
    BY <1>21 DEF Send
  <2>2. CASE pc' = "receipt" /\ run' = run
    BY <1>1, <2>2 DEF RunTyped
  <2> QED
    BY <2>1, <2>2, LeaveTyped
<1>22. CASE NextLeg
  <2>1. pc = "next" /\ pc' = "leg"
    BY <1>22 DEF NextLeg
  <2>2. run.leg + 1 \in 1 .. 3
    BY <1>1, <1>3, <2>1, LegFacts DEF PlaceInv, Kind
  <2>3. PICK r \in MaybeRoutes : run' = [run EXCEPT !.leg = run.leg + 1, !.route = r]
    BY <1>1, <1>2, <1>22 DEF NextLeg, Runs
  <2> QED
    BY <1>1, <2>1, <2>2, <2>3 DEF RunTyped, Runs
<1>23. CASE DepositCredited \/ DepositPending \/ DepositFailed
  <2>1. \/ Fails
        \/ \E r \in PositionStates, c \in GroupStates : Ends(r, c)
    BY <1>4, <1>23 DEF DepositCredited, DepositPending, DepositFailed
  <2> QED
    BY <1>1, <2>1, EndTyped, FailTyped
<1>24. CASE RecordOutcome
  <2>1. pc = "settle" /\ ((pc' = "close" /\ run' = run) \/ Leave)
    BY <1>24 DEF RecordOutcome
  <2>2. CASE pc' = "close" /\ run' = run
    BY <1>1, <2>1, <2>2 DEF RunTyped
  <2> QED
    BY <2>1, <2>2, LeaveTyped
<1>25. CASE RunFails
  <2>1. \/ Fails
        \/ \E r \in PositionStates, c \in GroupStates : Ends(r, c)
    BY <1>4, <1>25 DEF RunFails
  <2> QED
    BY <1>1, <2>1, EndTyped, FailTyped
<1>26. CASE Run
  BY <1>5, <1>10, <1>11, <1>12, <1>13, <1>14, <1>15, <1>16, <1>17, <1>26 DEF Run
<1>27. CASE Leg
  BY <1>6, <1>7, <1>8, <1>18, <1>19, <1>20, <1>21, <1>22, <1>27 DEF Leg
<1> QED
  BY <1>9, <1>20, <1>23, <1>24, <1>25, <1>26, <1>27 DEF Next, End
LEMMA PositionWriters ==
  ASSUME [Next]_vars
  PROVE  \/ position' = position
         \/ Reactivate \/ Start \/ Receipt \/ Convert \/ Requote \/ StartBridge
         \/ RecordOutcome
<1>1. CASE Begin \/ EnterCompleted \/ EnterPending \/ OverBudget \/ StartConverted
           \/ BridgeOverBudget \/ Prepare \/ SaveBridge
  BY <1>1 DEF Begin, EnterCompleted, EnterPending, OverBudget, StartConverted,
     BridgeOverBudget, Prepare, SaveBridge, journal
<1>2. CASE Continue \/ AfterUnwrap \/ Known \/ NoApproval \/ Approve
           \/ SendApproval \/ LoseApproval \/ Sign \/ Send
  BY <1>2 DEF Continue, AfterUnwrap, Known, NoApproval, Approve, SendApproval,
     LoseApproval, Sign, Send, journal
<1>3. CASE MarkAwaiting \/ Credit \/ Progress \/ Open \/ Migrate \/ NextLeg
  BY <1>3 DEF MarkAwaiting, Credit, Progress, Open, Migrate, NextLeg
<1>4. CASE DepositCredited \/ DepositPending \/ DepositFailed \/ CloseGroup
           \/ RunFails \/ Interrupt \/ Mine \/ Bridge \/ Exchange \/ UNCHANGED vars
  BY <1>4 DEF DepositCredited, DepositPending, DepositFailed, CloseGroup, RunFails,
     Interrupt, Mine, Bridge, Exchange, vars, journal
<1> QED
  BY <1>1, <1>2, <1>3, <1>4 DEF Next, Run, Leg, End

LEMMA PositionTyped ==
  ASSUME Types, [Next]_vars
  PROVE  position' \in PositionStates
<1>1. position \in PositionStates /\ (pc = "settle" => run.result \in PositionStates)
  BY DEF Types, TypeOK
<1>2. {"bridge_submitted", "swap_submitted", "source_asset_converted_bridge_pending",
       "requote_required"} \subseteq PositionStates
  BY DEF PositionStates
<1>3. CASE Reactivate \/ Start \/ Receipt
  BY <1>1, <1>2, <1>3 DEF Reactivate, Start, Receipt
<1>4. CASE Convert \/ Requote \/ StartBridge
  BY <1>1, <1>2, <1>4 DEF Convert, Requote, StartBridge
<1>5. CASE RecordOutcome
  BY <1>1, <1>5 DEF RecordOutcome
<1> QED
  BY <1>1, <1>3, <1>4, <1>5, PositionWriters

LEMMA GroupTyped ==
  ASSUME Types, [Next]_vars
  PROVE  group' \in GroupStates
<1>1. group \in GroupStates /\ (pc = "close" => run.closes \in GroupStates)
  BY DEF Types, TypeOK
<1>2. "active" \in GroupStates
  BY DEF GroupStates
<1>3. CASE Reactivate \/ Begin \/ CloseGroup
  BY <1>1, <1>2, <1>3 DEF Reactivate, Begin, CloseGroup
<1>4. CASE EnterCompleted \/ EnterPending \/ OverBudget \/ StartConverted
           \/ BridgeOverBudget \/ Prepare \/ SaveBridge \/ Start \/ Convert \/ Requote
           \/ StartBridge
  BY <1>1, <1>4 DEF EnterCompleted, EnterPending, OverBudget, StartConverted,
     BridgeOverBudget, Prepare, SaveBridge, Start, Convert, Requote, StartBridge,
     journal
<1>5. CASE Continue \/ AfterUnwrap \/ Known \/ NoApproval \/ Approve
           \/ SendApproval \/ LoseApproval \/ Sign \/ Send
  BY <1>1, <1>5 DEF Continue, AfterUnwrap, Known, NoApproval, Approve, SendApproval,
     LoseApproval, Sign, Send, journal
<1>6. CASE Receipt \/ MarkAwaiting \/ Credit \/ Progress \/ Open \/ Migrate \/ NextLeg
  BY <1>1, <1>6 DEF Receipt, MarkAwaiting, Credit, Progress, Open, Migrate, NextLeg
<1>7. CASE DepositCredited \/ DepositPending \/ DepositFailed \/ RecordOutcome
           \/ RunFails \/ Interrupt \/ Mine \/ Bridge \/ Exchange \/ UNCHANGED vars
  BY <1>1, <1>7 DEF DepositCredited, DepositPending, DepositFailed, RecordOutcome,
     RunFails, Interrupt, Mine, Bridge, Exchange, vars, journal
<1> QED
  BY <1>3, <1>4, <1>5, <1>6, <1>7 DEF Next, Run, Leg, End

\* An approval is recorded for the leg in hand, before it is sent.
LEMMA ApprovalMoves ==
  ASSUME Types, [Next]_vars
  PROVE  /\ approval' \in [1 .. 2 -> {"none", "allowed", "recorded", "sent", "ok",
                                     "reverted"}]
         /\ Approved' => Approved \/ pc \in {"approve", "approving"}
<1> DEFINE States == {"none", "allowed", "recorded", "sent", "ok", "reverted"}
           Goal == /\ approval' \in [1 .. 2 -> States]
                   /\ Approved' => Approved \/ pc \in {"approve", "approving"}
<1>1. approval \in [1 .. 2 -> States]
  BY DEF Types, TypeOK
<1>2. CASE approval' = approval
  BY <1>1, <1>2 DEF Approved
<1>3. CASE Approve
  <2>1. approval' = [approval EXCEPT ![run.leg] = "recorded"] /\ pc = "approve"
    BY <1>3 DEF Approve
  <2> QED
    BY <1>1, <2>1
<1>4. CASE SendApproval \/ LoseApproval
  <2>1. \/ approval' = approval
        \/ approval' = [approval EXCEPT ![run.leg] = "sent"] /\ pc = "approving"
    BY <1>4 DEF SendApproval, LoseApproval
  <2>2. CASE approval' = [approval EXCEPT ![run.leg] = "sent"] /\ pc = "approving"
    BY <1>1, <2>2
  <2> QED
    BY <1>2, <2>1, <2>2
<1>5. CASE Mine
  <2>1. \/ approval' = approval
        \/ \E n \in 1 .. 2 : /\ approval[n] = "sent"
                             /\ \/ approval' = [approval EXCEPT ![n] = "ok"]
                                \/ approval' = [approval EXCEPT ![n] = "reverted"]
    BY <1>5 DEF Mine
  <2>2. ASSUME NEW n \in 1 .. 2, approval[n] = "sent",
               \/ approval' = [approval EXCEPT ![n] = "ok"]
               \/ approval' = [approval EXCEPT ![n] = "reverted"]
        PROVE  Goal
    <3>1. Approved
      BY <2>2 DEF Approved
    <3> QED
      BY <1>1, <2>2, <3>1
  <2> QED
    BY <1>2, <2>1, <2>2
<1>6. CASE Begin \/ EnterCompleted \/ EnterPending \/ OverBudget \/ StartConverted
           \/ BridgeOverBudget \/ Prepare \/ SaveBridge \/ Reactivate
  BY <1>2, <1>6 DEF Begin, EnterCompleted, EnterPending, OverBudget, StartConverted,
     BridgeOverBudget, Prepare, SaveBridge, Reactivate, journal
<1>7. CASE Continue \/ AfterUnwrap \/ Known \/ NoApproval \/ Sign \/ Send
           \/ MarkAwaiting \/ Credit \/ Progress \/ Open
  BY <1>2, <1>7 DEF Continue, AfterUnwrap, Known, NoApproval, Sign, Send,
     MarkAwaiting, Credit, Progress, Open, journal
<1>8. CASE Start \/ Receipt \/ Convert \/ Requote \/ StartBridge \/ RecordOutcome
           \/ Migrate \/ NextLeg
  BY <1>2, <1>8 DEF Start, Receipt, Convert, Requote, StartBridge, RecordOutcome,
     Migrate, NextLeg
<1>9. CASE DepositCredited \/ DepositPending \/ DepositFailed \/ CloseGroup
           \/ RunFails \/ Interrupt \/ Bridge \/ Exchange \/ UNCHANGED vars
  BY <1>2, <1>9 DEF DepositCredited, DepositPending, DepositFailed, CloseGroup,
     RunFails, Interrupt, Bridge, Exchange, vars, journal
<1> QED
  BY <1>3, <1>4, <1>5, <1>6, <1>7, <1>8, <1>9 DEF Next, Run, Leg, End

LEMMA TypesStep ==
  ASSUME IInv, [Next]_vars
  PROVE  Types'
<1>1. Types /\ IntentInv /\ CheckInv /\ PlaceInv
  BY DEF IInv
<1>2. saved' \in Checkpoints
  BY <1>1, CheckpointsTyped
<1>3. /\ saved'.prepared \in MaybeRoutes /\ saved'.replacement \in MaybeRoutes
      /\ saved'.baseline \subseteq 0 .. 1
      /\ saved'.continuation \in [2 .. 3 -> MaybeRoutes]
  BY <1>2 DEF Checkpoints
<1>4. RunTyped'
  BY <1>1, RunMovesTyped
<1>5. position' \in PositionStates /\ group' \in GroupStates
  BY <1>1, PositionTyped, GroupTyped
<1>6. row' \in [Tx -> StepStates \union {"none"}]
  BY <1>1, RowMoves
<1>7. approval' \in [1 .. 2 -> {"none", "allowed", "recorded", "sent", "ok",
                                "reverted"}]
  BY <1>1, ApprovalMoves
<1>8. /\ sent' \subseteq Tx /\ IsFiniteSet(sent')
      /\ mined' \union reverted' \subseteq sent'
      /\ arrived' \union reported' \union refunded' \subseteq mined'
      /\ deposit' \in Deposits
  BY <1>1, NetworkMoves
<1>9. TypeOK'
  BY <1>3, <1>5, <1>6, <1>7, <1>8 DEF TypeOK, MaybeRoutes
<1> QED
  BY <1>2, <1>4, <1>8, <1>9 DEF Types, RunTyped

-----------------------------------------------------------------------------
(* The rows and what the checkpoints prove.                                *)

LEMMA IntentStep ==
  ASSUME IInv, [Next]_vars
  PROVE  IntentInv'
<1>1. Types /\ IntentInv /\ CheckInv /\ PlaceInv
  BY DEF IInv
<1>2. \A t \in Tx : Intent(t)' <=> (Intent(t) \/ (Sign /\ t = Current))
  BY <1>1, RowMoves
<1>3. /\ Converts' = Converts
      /\ \/ Legs' = Legs
         \/ Len(Legs) = 2 /\ Len(Legs)' = 3 /\ \A t \in Tx : Intent(t) => t.leg = 1
  BY <1>1, LegsChange
<1>4. CASE Sign
  <2>1. pc = "sign" /\ saved' = saved /\ Legs' = Legs
    BY <1>4, EntryKept DEF Sign, Legs, Converts
  <2>2. run.leg <= Len(Legs) /\ run.route = SavedRoute(run.leg)
    BY <1>1, <2>1 DEF PlaceInv, LegPlaces, Opened
  <2>3. ASSUME NEW t \in Tx, Intent(t)'
        PROVE  /\ t.leg <= Len(Legs)
               /\ t.route = CASE t.leg = 1 -> saved.prepared
                              [] t.leg = 2 /\ Converts -> saved.replacement
                              [] OTHER -> saved.continuation[t.leg]
    <3>1. CASE Intent(t)
      BY <1>1, <3>1 DEF IntentInv, IntentMatchesPreparation
    <3>2. CASE t = Current
      <4>1. t.leg = run.leg /\ t.route = run.route
        BY <3>2 DEF Current
      <4> QED
        BY <2>2, <4>1 DEF SavedRoute
    <3> QED
      BY <1>2, <2>3, <3>1, <3>2
  <2>4. sent' = sent /\ \A t \in sent : t \in Tx
    BY <1>1, <1>4 DEF Sign, network, Types, TypeOK
  <2>5. \A t \in sent' : Intent(t)'
    BY <1>1, <1>2, <2>4 DEF IntentInv
  <2>6. IntentMatchesPreparation'
    BY <1>3, <2>1, <2>3 DEF IntentMatchesPreparation
  <2>7. \A t \in Tx : Intent(t)' => t.leg <= Len(Legs)'
    BY <2>1, <2>3
  <2> QED
    BY <2>5, <2>6, <2>7 DEF IntentInv
<1>5. CASE ~Sign
  <2>1. \A t \in Tx : Intent(t)' <=> Intent(t)
    BY <1>2, <1>5
  <2>2. ASSUME NEW t \in Tx, Intent(t)
        PROVE  t.route = CASE t.leg = 1 -> saved'.prepared
                           [] t.leg = 2 /\ Converts -> saved'.replacement
                           [] OTHER -> saved'.continuation[t.leg]
    <3>1. /\ t.leg \in 1 .. 3 /\ t.route \in Routes
          /\ t.route = CASE t.leg = 1 -> saved.prepared
                         [] t.leg = 2 /\ Converts -> saved.replacement
                         [] OTHER -> saved.continuation[t.leg]
      BY <1>1, <2>2 DEF IntentInv, IntentMatchesPreparation, Tx
    <3>2. CASE t.leg = 1
      <4>1. saved'.prepared = saved.prepared
        BY <1>1, <2>2, SavedMoves DEF Frozen, AssetIntent
      <4> QED
        BY <3>1, <3>2, <4>1
    <3>3. CASE t.leg = 2 /\ Converts
      <4>1. saved.replacement = t.route /\ t.route # NoRoute
        BY <3>1, <3>3, RouteAssumption
      <4>2. saved'.replacement = saved.replacement
        BY <1>1, <4>1, SavedMoves DEF SaveBridge, PlaceInv
      <4> QED
        BY <3>1, <3>3, <4>2
    <3>4. CASE t.leg \in 2 .. 3 /\ ~(t.leg = 2 /\ Converts)
      <4>1. saved.continuation[t.leg] = t.route /\ t.route # NoRoute
        BY <3>1, <3>4, RouteAssumption
      <4>2. ~(NextLeg /\ t.leg = run.leg + 1)
        BY <1>1, <4>1 DEF NextLeg, PlaceInv
      <4>3. ~(Migrate /\ t.leg = 2)
        <5>1. UnsignedDelivery => \A u \in Tx : Intent(u) => u.leg = 1
          BY DEF UnsignedDelivery
        <5>2. Migrate => UnsignedDelivery
          BY DEF Migrate
        <5> QED
          BY <2>2, <5>1, <5>2
      <4>4. saved'.continuation[t.leg] = saved.continuation[t.leg]
        BY <1>1, <3>4, <4>2, <4>3, CheckpointMoves
      <4> QED
        BY <3>1, <3>4, <4>4
    <3> QED
      BY <3>1, <3>2, <3>3, <3>4
  <2>3. IntentMatchesPreparation'
    BY <1>3, <2>1, <2>2 DEF IntentMatchesPreparation
  <2>4. \A t \in Tx : Intent(t)' => t.leg <= Len(Legs)'
    <3> SUFFICES ASSUME NEW t \in Tx, Intent(t) PROVE t.leg <= Len(Legs)'
      BY <2>1
    <3>1. t.leg <= Len(Legs)
      BY <1>1 DEF IntentInv
    <3> QED
      BY <1>3, <3>1
  <2>5. \A t \in sent' : Intent(t)'
    <3> SUFFICES ASSUME NEW t \in sent' PROVE Intent(t)'
      OBVIOUS
    <3>1. t \in Tx /\ (t \in sent \/ ((Send \/ Known) /\ t = Current))
      BY <1>1, NetworkMoves
    <3>2. Intent(t)
      BY <1>1, <3>1 DEF Send, Known, PlaceInv, IntentInv
    <3> QED
      BY <2>1, <3>1, <3>2
  <2> QED
    BY <2>3, <2>4, <2>5 DEF IntentInv
<1> QED
  BY <1>4, <1>5
LEMMA BaselineMoves ==
  ASSUME Types, [Next]_vars
  PROVE  /\ saved.baseline # {} => saved'.baseline = saved.baseline
         /\ saved'.baseline = saved.baseline \/ Open
         /\ Open /\ Kind = "hop" => saved'.baseline # {}
<1>1. Open => saved'.baseline = IF Kind = "hop" /\ saved.baseline = {}
                                THEN {Balance} ELSE saved.baseline
  <2> SUFFICES ASSUME Open
               PROVE  saved'.baseline = IF Kind = "hop" /\ saved.baseline = {}
                                        THEN {Balance} ELSE saved.baseline
    OBVIOUS
  <2>1. saved' = [saved EXCEPT !.baseline =
                    IF Kind = "hop" /\ @ = {} THEN {Balance} ELSE @]
    BY DEF Open
  <2>2. saved \in Checkpoints
    BY DEF Types
  <2> QED
    BY <2>1, <2>2 DEF Checkpoints
<1> QED
  BY <1>1, LegFieldMoves DEF LegFieldsKept

\* A leg whose kind is "hop", "unwrap" or "swap" is not the last one.
LEMMA NotLast ==
  ASSUME Types, run.leg <= Len(Legs)
  PROVE  /\ run.leg \in 1 .. Len(Legs)
         /\ Kind \in {"bridge", "direct", "hop", "unwrap", "swap"}
         /\ Kind \in {"bridge", "direct"} <=> run.leg = Len(Legs)
         /\ Kind \in {"hop", "unwrap", "swap"} => run.leg + 1 \in 2 .. Len(Legs)
         /\ Kind \in {"hop", "swap"} => run.leg = 1
         /\ Kind = "unwrap" => /\ run.leg + 1 = Len(Legs)
                               /\ Legs[run.leg + 1] = "direct"
         /\ Kind \in {"hop", "unwrap"} => ~(run.leg + 1 = 2 /\ Converts)
         /\ Kind = "swap" => Converts /\ Len(Legs) # 1
<1>1. run.leg \in 1 .. 3
  BY DEF Types, Runs
<1>2. run.leg \in 1 .. Len(Legs) /\ Len(Legs) \in 1 .. 3
  BY <1>1, LegFacts
<1>3. /\ Kind \in {"bridge", "unwrap", "direct", "swap", "hop"}
      /\ Kind \in {"bridge", "direct"} <=> run.leg = Len(Legs)
      /\ Kind \in {"hop", "swap"} => run.leg = 1
      /\ Kind = "unwrap" => run.leg \in 1 .. 2 /\ Legs[run.leg + 1] = "direct"
  BY <1>2, LegFacts DEF Kind
<1>4. Kind \in {"hop", "unwrap", "swap"} => run.leg + 1 \in 2 .. Len(Legs)
  BY <1>2, <1>3
<1>5. Kind = "unwrap" => run.leg + 1 = Len(Legs)
  BY <1>3, <1>4, LegFacts
<1>6. run.leg = 1 /\ Kind # "swap" => ~Converts
  BY LegFacts DEF Kind
<1>7. Kind = "swap" => Converts /\ Len(Legs) # 1
  BY <1>2, <1>3, LegFacts DEF Kind
<1> QED
  BY <1>2, <1>3, <1>4, <1>5, <1>6, <1>7

\* A receipt proves that the leg in hand has delivered, unless it is a bridge.
LEMMA ReceiptDelivers ==
  ASSUME Types, PlaceInv, Receipt, Kind \notin {"hop", "bridge"}
  PROVE  Done(run.leg)
<1>1. pc = "receipt" /\ Current \in mined
  BY DEF Receipt
<1>2. Current \in sent
  BY <1>1 DEF PlaceInv
<1>3. Current.leg = run.leg /\ Legs[Current.leg] \notin {"hop", "bridge"}
  BY DEF Current, Kind
<1> QED
  BY <1>1, <1>2, <1>3 DEF Done, Delivers

LEMMA CheckStep ==
  ASSUME IInv, [Next]_vars
  PROVE  CheckInv'
<1>1. Types /\ IntentInv /\ CheckInv /\ PlaceInv
  BY DEF IInv
<1>2. \A n \in 1 .. 3 : Done(n) => Done(n)'
  BY <1>1, DoneKept
<1>3. /\ Converts' = Converts
      /\ \/ Legs' = Legs
         \/ /\ Len(Legs) = 2 /\ Legs[1] = "hop" /\ Legs[2] = "bridge"
            /\ Legs[1]' = "hop"
  BY <1>1, LegsChange
<1>4. Legs[1]' = Legs[1]
  BY <1>3
<1>5. \A n \in 2 .. 3 :
        saved'.continuation[n] # NoRoute /\ ~(n = 2 /\ Converts) => Done(n - 1)'
  <2> SUFFICES ASSUME NEW n \in 2 .. 3, saved'.continuation[n] # NoRoute,
                      ~(n = 2 /\ Converts)
               PROVE  Done(n - 1)'
    OBVIOUS
  <2>0. n - 1 \in 1 .. 3
    OBVIOUS
  <2>1. CASE saved'.continuation[n] = saved.continuation[n]
    <3>1. Done(n - 1)
      BY <1>1, <2>1 DEF CheckInv
    <3> QED
      BY <1>2, <2>0, <3>1
  <2>2. CASE NextLeg /\ n = run.leg + 1
    <3>1. pc = "next"
      BY <2>2 DEF NextLeg
    <3>2. Done(run.leg) /\ run.leg = n - 1
      BY <1>1, <2>2, <3>1 DEF PlaceInv, Types, Runs
    <3> QED
      BY <1>2, <2>0, <3>2
  <2>3. CASE Migrate /\ n = 2
    <3>1. Legs[1] = "hop" /\ saved.continuation[2] # NoRoute
      BY <2>3 DEF Migrate, UnsignedDelivery
    <3>2. Done(1)
      BY <1>1, <2>3, <3>1, LegFacts DEF CheckInv
    <3>3. Done(1)'
      BY <1>2, <3>2
    <3>4. n - 1 = 1
      BY <2>3
    <3> QED
      BY <3>3, <3>4
  <2> QED
    BY <1>1, <2>1, <2>2, <2>3, CheckpointMoves
<1>6. saved'.converted => Converts /\ Done(1)'
  <2>1. CASE saved'.converted = saved.converted
    BY <1>1, <1>2, <2>1 DEF CheckInv
  <2>2. CASE Convert
    BY <1>1, <1>2, <2>2 DEF Convert, PlaceInv
  <2> QED
    BY <1>1, <2>1, <2>2, SavedMoves
<1>7. saved'.replacement # NoRoute => saved'.converted
  <2>1. saved.converted => saved'.converted
    BY <1>1, SavedMoves
  <2>2. CASE saved'.replacement = saved.replacement
    BY <1>1, <2>1, <2>2 DEF CheckInv
  <2>3. CASE SaveBridge
    BY <1>1, <2>1, <2>3 DEF SaveBridge, PlaceInv
  <2> QED
    BY <1>1, <2>2, <2>3, SavedMoves
<1>8. saved'.unwrapped => \E n \in 1 .. 2 : Legs[n]' = "unwrap" /\ Done(n)'
  <2> SUFFICES ASSUME saved'.unwrapped
               PROVE  \E n \in 1 .. 2 : Legs[n]' = "unwrap" /\ Done(n)'
    OBVIOUS
  <2>1. \E n \in 1 .. 2 : Legs[n] = "unwrap" /\ Done(n)
    <3>1. CASE saved'.unwrapped = saved.unwrapped
      BY <1>1, <3>1 DEF CheckInv
    <3>2. CASE Receipt /\ Kind = "unwrap"
      <4>1. run.leg <= Len(Legs) /\ Done(run.leg)
        BY <1>1, <3>2, ReceiptDelivers DEF Receipt, PlaceInv, LegPlaces, Opened
      <4>2. run.leg \in 1 .. 2
        BY <1>1, <3>2, <4>1, NotLast, LegFacts
      <4> QED
        BY <3>2, <4>1, <4>2 DEF Kind
    <3> QED
      BY <1>1, <3>1, <3>2, SavedMoves
  <2>2. PICK n \in 1 .. 2 : Legs[n] = "unwrap" /\ Done(n)
    BY <2>1
  <2>3. Legs[n]' = "unwrap"
    BY <1>3, <2>2
  <2> QED
    BY <1>2, <2>2, <2>3
<1>9. AssetIntent' \/ Approved' \/ saved'.converted => saved'.prepared # NoRoute
  <2>1. CASE saved'.prepared # saved.prepared
    BY <1>1, <2>1, SavedMoves, RouteAssumption
  <2>2. CASE saved'.prepared = saved.prepared
    <3>1. AssetIntent' => AssetIntent \/ pc = "sign"
      <4>1. \A t \in Tx : Intent(t)' => Intent(t) \/ Sign
        BY <1>1, RowMoves
      <4> QED
        BY <4>1 DEF AssetIntent, Sign
    <3>2. Approved' => Approved \/ pc \in {"approve", "approving"}
      BY <1>1, ApprovalMoves
    <3>3. saved'.converted => saved.converted \/ pc = "convert"
      BY <1>1, SavedMoves DEF Convert
    <3>4. pc \in {"sign", "approve", "approving", "convert"} => saved.prepared # NoRoute
      BY <1>1 DEF PlaceInv, LegPlaces, Opened
    <3> QED
      BY <1>1, <2>2, <3>1, <3>2, <3>3, <3>4 DEF CheckInv
  <2> QED
    BY <2>1, <2>2
<1>10. /\ saved'.continuation[3] \in {NoRoute, PlanRoute}
       /\ Legs[1]' = "unwrap" => saved'.continuation[2] \in {NoRoute, PlanRoute}
  <2>1. CASE NextLeg
    <3>1. pc = "next"
      BY <2>1 DEF NextLeg
    <3>2. run.leg <= Len(Legs) /\ Kind \in {"hop", "unwrap"}
      BY <1>1, <3>1 DEF PlaceInv
    <3>3. run.leg + 1 = 3 => Kind = "unwrap"
      BY <1>1, <3>2, NotLast
    <3>4. run.leg + 1 = 2 /\ Legs[1] = "unwrap" => Kind = "unwrap"
      BY <1>1 DEF Kind, Types, Runs
    <3>5. saved'.continuation[3] \in {NoRoute, PlanRoute}
      BY <1>1, <3>3, CheckpointMoves DEF CheckInv
    <3>6. Legs[1] = "unwrap" => saved'.continuation[2] \in {NoRoute, PlanRoute}
      BY <1>1, <2>1, <3>1, <3>4, CheckpointMoves DEF CheckInv, Migrate
    <3> QED
      BY <1>4, <3>5, <3>6
  <2>2. CASE ~NextLeg
    <3>1. Migrate => Legs[1] = "hop"
      BY DEF Migrate, UnsignedDelivery
    <3>2. saved'.continuation[3] = saved.continuation[3]
      BY <1>1, <2>2, CheckpointMoves
    <3>3. saved'.continuation[2] = saved.continuation[2] \/ Migrate
      BY <1>1, <2>2, CheckpointMoves
    <3> QED
      BY <1>1, <1>4, <3>1, <3>2, <3>3 DEF CheckInv
  <2> QED
    BY <2>1, <2>2
<1>11. Legs[1]' = "hop" /\ (\E t \in Tx : t.leg = 1 /\ Intent(t)') =>
         saved'.baseline = {0}
  <2> SUFFICES ASSUME Legs[1] = "hop", NEW t \in Tx, t.leg = 1, Intent(t)'
               PROVE  saved'.baseline = {0}
    BY <1>4
  <2>1. saved.baseline = {0}
    <3>1. CASE Intent(t)
      BY <1>1, <3>1 DEF CheckInv
    <3>2. CASE Sign /\ t = Current
      <4>1. pc \in Opened /\ Kind = "hop"
        BY <3>2 DEF Sign, Opened, Current, Kind
      <4> QED
        BY <1>1, <4>1 DEF PlaceInv
    <3> QED
      BY <1>1, <3>1, <3>2, RowMoves
  <2> QED
    BY <1>1, <2>1, BaselineMoves
<1> QED
  BY <1>3, <1>5, <1>6, <1>7, <1>8, <1>9, <1>10, <1>11 DEF CheckInv
-----------------------------------------------------------------------------
(* The place of the executor.                                              *)

LEMMA SameLegs ==
  ASSUME entry' = entry, saved'.migrated = saved.migrated
  PROVE  Legs' = Legs /\ Converts' = Converts
BY DEF Legs, Converts

LEMMA PlaceNone ==
  ASSUME pc' \in {"settle", "close", "poll"} \/ Leave
  PROVE  PlaceInv'
<1>1. CASE pc' \in {"settle", "close", "poll"}
  BY <1>1 DEF PlaceInv, LegPlaces, Opened
<1>2. CASE Leave
  <2>1. pc' = "idle" /\ run'.leg = 1
    BY <1>2 DEF Leave, Idle
  <2> QED
    BY <2>1 DEF PlaceInv, LegPlaces, Opened
<1> QED
  BY <1>1, <1>2

\* A step of another actor, or one that leaves the executor where it is.
LEMMA PlaceFrame ==
  ASSUME IInv, [Next]_vars, UNCHANGED <<pc, run, saved>>, ~Sign
  PROVE  PlaceInv'
<1>1. Types /\ IntentInv /\ CheckInv /\ PlaceInv
  BY DEF IInv
<1>2. Legs' = Legs /\ Converts' = Converts
  BY EntryKept, SameLegs
<1>3. Kind' = Kind /\ Current' = Current /\ (SavedRoute(run.leg))' = SavedRoute(run.leg)
  BY <1>2 DEF Kind, Current, SavedRoute
<1>4. pc \in {"receipt", "await"} => Current \in sent'
  BY <1>1, NetworkMoves DEF PlaceInv
<1>5. pc = "send" => Intent(Current)'
  <2> SUFFICES ASSUME pc = "send" PROVE Intent(Current)'
    OBVIOUS
  <2>1. Intent(Current) /\ Current \in Tx
    BY <1>1, CurrentIsTx DEF PlaceInv, LegPlaces, Opened
  <2>2. PICK t \in Tx : t = Current
    BY <2>1
  <2>3. Intent(t)'
    BY <1>1, <2>1, <2>2, RowMoves
  <2> QED
    BY <1>3, <2>2, <2>3 DEF Intent
<1>6. pc = "next" => Done(run.leg)'
  <2> SUFFICES ASSUME pc = "next" PROVE Done(run.leg)'
    OBVIOUS
  <2>1. run.leg \in 1 .. 3 /\ Done(run.leg)
    BY <1>1 DEF PlaceInv, Types, Runs
  <2>2. PICK n \in 1 .. 3 : n = run.leg
    BY <2>1
  <2>3. Done(n)'
    BY <1>1, <2>1, <2>2, DoneKept
  <2> QED
    BY <2>2, <2>3
<1>7. pc = "convert" => Done(1)'
  BY <1>1, DoneKept DEF PlaceInv
<1> QED
  BY <1>1, <1>2, <1>3, <1>4, <1>5, <1>6, <1>7 DEF PlaceInv
\* What PlaceInv asks of an executor about to look at a leg.
LEMMA AtLeg ==
  ASSUME pc' = "leg", saved'.prepared # NoRoute, run'.leg <= Len(Legs)',
         run'.route # NoRoute, run'.route = SavedRoute(run.leg)'
  PROVE  PlaceInv'
BY DEF PlaceInv, LegPlaces, Opened

\* A step from a leg in hand to the same leg in hand.
LEMMA OpenedMove ==
  ASSUME IInv, [Next]_vars, pc \in Opened, pc' \in Opened \union {"deliver"},
         run' = run, saved' = saved,
         pc' = "send" => Intent(Current)',
         pc' \in {"receipt", "await"} => Current \in sent',
         pc' = "await" => Kind \in {"hop", "bridge"},
         pc' = "deliver" => Kind = "bridge"
  PROVE  PlaceInv'
<1>1. Types /\ IntentInv /\ CheckInv /\ PlaceInv
  BY DEF IInv
<1>2. Legs' = Legs /\ Converts' = Converts
  BY EntryKept, SameLegs
<1>3. Kind' = Kind /\ Current' = Current /\ (SavedRoute(run.leg))' = SavedRoute(run.leg)
  BY <1>2 DEF Kind, Current, SavedRoute
<1>4. /\ saved.prepared # NoRoute /\ run.leg <= Len(Legs) /\ run.route # NoRoute
      /\ run.route = SavedRoute(run.leg)
      /\ Kind \in {"hop", "unwrap"} => saved.continuation[run.leg + 1] = NoRoute
      /\ Kind = "hop" => saved.baseline = {0}
  BY <1>1 DEF PlaceInv, LegPlaces
<1> QED
  BY <1>2, <1>3, <1>4 DEF PlaceInv, LegPlaces, Opened

LEMMA PlaceOpened ==
  ASSUME IInv, [Next]_vars,
         NoApproval \/ Approve \/ SendApproval \/ Sign
  PROVE  PlaceInv'
<1>1. pc \in Opened /\ pc' \in {"sign", "approving", "approve", "send"}
  BY DEF NoApproval, Approve, SendApproval, Sign, Opened
<1>2. run' = run /\ saved' = saved
  BY DEF NoApproval, Approve, SendApproval, Sign, journal
<1>3. pc' = "send" => Intent(Current)'
  <2> SUFFICES ASSUME pc' = "send" PROVE Intent(Current)'
    OBVIOUS
  <2>1. Sign
    BY DEF NoApproval, Approve, SendApproval
  <2>2. Types /\ PlaceInv
    BY DEF IInv
  <2>3. PICK t \in Tx : t = Current
    BY <1>1, <2>2, CurrentIsTx DEF LegPlaces
  <2>4. Intent(t)'
    BY <2>1, <2>2, <2>3, RowMoves
  <2>5. Current' = Current
    BY <1>2 DEF Current
  <2> QED
    BY <2>3, <2>4, <2>5 DEF Intent
<1> QED
  BY <1>1, <1>2, <1>3, OpenedMove DEF Opened

LEMMA PlaceSend ==
  ASSUME IInv, [Next]_vars, Send
  PROVE  PlaceInv'
<1>1. pc = "send" /\ saved' = saved
  BY DEF Send
<1>2. CASE Leave
  BY <1>2, PlaceNone
<1>3. CASE sent' = sent \union {Current} /\ pc' = "receipt" /\ UNCHANGED run
  <2>1. pc \in Opened /\ pc' \in Opened
    BY <1>1, <1>3 DEF Opened
  <2> QED
    BY <1>1, <1>3, <2>1, OpenedMove
<1> QED
  BY <1>2, <1>3 DEF Send

LEMMA PlaceKnown ==
  ASSUME IInv, [Next]_vars, Known
  PROVE  PlaceInv'
<1>1. Types /\ IntentInv /\ CheckInv /\ PlaceInv
  BY DEF IInv
<1>2. /\ pc = "leg" /\ pc' = "receipt" /\ run' = run /\ saved' = saved
      /\ sent' = sent \union {Current} /\ Intent(Current)
      /\ Kind \in {"hop", "unwrap"} => saved.continuation[run.leg + 1] = NoRoute
  BY DEF Known, Opens, journal
<1>3. Legs' = Legs /\ Converts' = Converts
  BY <1>2, EntryKept, SameLegs
<1>4. Kind' = Kind /\ Current' = Current /\ (SavedRoute(run.leg))' = SavedRoute(run.leg)
  BY <1>2, <1>3 DEF Kind, Current, SavedRoute
<1>5. /\ saved.prepared # NoRoute /\ run.leg <= Len(Legs) /\ run.route # NoRoute
      /\ run.route = SavedRoute(run.leg) /\ Current \in Tx
  BY <1>1, <1>2, CurrentIsTx DEF PlaceInv, LegPlaces
<1>6. Kind = "hop" => saved.baseline = {0}
  <2> SUFFICES ASSUME Kind = "hop" PROVE saved.baseline = {0}
    OBVIOUS
  <2>1. run.leg = 1
    BY <1>1, <1>5, NotLast
  <2>2. Legs[1] = "hop" /\ Current.leg = 1
    BY <2>1 DEF Kind, Current
  <2> QED
    BY <1>1, <1>2, <1>5, <2>2 DEF CheckInv
<1> QED
  BY <1>2, <1>3, <1>4, <1>5, <1>6 DEF PlaceInv, LegPlaces, Opened

LEMMA PlaceOpen ==
  ASSUME IInv, [Next]_vars, Open
  PROVE  PlaceInv'
<1>1. Types /\ IntentInv /\ CheckInv /\ PlaceInv
  BY DEF IInv
<1>2. /\ pc = "leg" /\ pc' = "approve" /\ run' = run
      /\ Kind \in {"hop", "unwrap"} => saved.continuation[run.leg + 1] = NoRoute
  BY DEF Open, Opens
<1>3. /\ saved'.continuation = saved.continuation
      /\ saved'.migrated = saved.migrated /\ saved'.prepared = saved.prepared
      /\ saved'.replacement = saved.replacement
  <2>1. saved' = [saved EXCEPT !.baseline =
                    IF Kind = "hop" /\ @ = {} THEN {Balance} ELSE @]
    BY DEF Open
  <2>2. PICK b : saved' = [saved EXCEPT !.baseline = b]
    BY <2>1
  <2> QED
    BY <1>1, <2>2 DEF Types, Checkpoints
<1>4. Legs' = Legs /\ Converts' = Converts
  BY <1>3, EntryKept, SameLegs
<1>5. Kind' = Kind /\ (SavedRoute(run.leg))' = SavedRoute(run.leg)
  BY <1>2, <1>3, <1>4 DEF Kind, SavedRoute
<1>6. /\ saved.prepared # NoRoute /\ run.leg <= Len(Legs) /\ run.route # NoRoute
      /\ run.route = SavedRoute(run.leg)
  BY <1>1, <1>2 DEF PlaceInv, LegPlaces
<1>7. Kind = "hop" => saved'.baseline = {0}
  <2> SUFFICES ASSUME Kind = "hop" PROVE saved'.baseline = {0}
    OBVIOUS
  <2>1. saved'.baseline \in SUBSET {0}
    BY <1>1, CheckpointsTyped DEF Checkpoints
  <2>2. saved'.baseline # {}
    BY <1>1, BaselineMoves
  <2> QED
    BY <2>1, <2>2
<1> QED
  BY <1>2, <1>3, <1>4, <1>5, <1>6, <1>7 DEF PlaceInv, LegPlaces, Opened
\* A hop whose delivery is recognised has arrived: the wallet holds more than
\* before it was signed.
LEMMA CreditDelivers ==
  ASSUME IInv, Credit, Kind = "hop"
  PROVE  Done(run.leg)
<1>1. Types /\ IntentInv /\ CheckInv /\ PlaceInv
  BY DEF IInv
<1>2. pc = "await" /\ Delivered
  BY DEF Credit
<1>3. saved.baseline = {0} /\ run.leg <= Len(Legs)
  BY <1>1, <1>2 DEF PlaceInv, Opened, LegPlaces
<1>4. run.leg = 1 /\ Legs[1] = "hop"
  BY <1>1, <1>3, NotLast DEF Kind
<1>5. Balance > 0
  BY <1>2, <1>3 DEF Delivered
<1> DEFINE A == {t \in arrived : t.leg = 1 /\ Legs[1] = "hop"}
           B == {t \in sent : t.leg = 2 /\ Legs[1] = "hop"}
<1>6. IsFiniteSet(sent) /\ arrived \subseteq sent
  BY <1>1 DEF Types, TypeOK
<1>7. IsFiniteSet(B)
  BY <1>6, FS_Subset
<1>8. Cardinality(B) \in Nat /\ Cardinality({}) = 0
  BY <1>7, FS_CardinalityType, FS_EmptySet
<1>9. A # {}
  <2>1. Balance = Cardinality(A) - Cardinality(B)
    BY DEF Balance
  <2> HIDE DEF A, B
  <2> QED
    BY <1>5, <1>8, <2>1
<1>10. PICK t \in arrived : t.leg = 1
  BY <1>9
<1>11. t \in sent /\ Delivers(t)
  BY <1>4, <1>6, <1>10 DEF Delivers
<1> QED
  BY <1>4, <1>10, <1>11 DEF Done

LEMMA PlaceReceipt ==
  ASSUME IInv, [Next]_vars, Receipt
  PROVE  PlaceInv'
<1>1. Types /\ IntentInv /\ CheckInv /\ PlaceInv
  BY DEF IInv
<1>2. pc = "receipt" /\ run' = run /\ pc \in Opened
  BY DEF Receipt, Opened
<1>3. /\ run.leg <= Len(Legs) /\ saved.prepared # NoRoute /\ Current \in sent
      /\ Kind = "unwrap" => saved.continuation[run.leg + 1] = NoRoute
  BY <1>1, <1>2 DEF PlaceInv, LegPlaces
<1>4. /\ saved'.prepared = saved.prepared /\ saved'.continuation = saved.continuation
      /\ saved'.migrated = saved.migrated
  <2>1. ~Prepare /\ ~Open /\ ~Migrate /\ ~NextLeg
    BY <1>2 DEF Prepare, Open, Opens, Migrate, NextLeg
  <2> QED
    BY <1>1, <2>1, SavedMoves, LegFieldMoves DEF LegFieldsKept
<1>5. Legs' = Legs /\ Converts' = Converts /\ Kind' = Kind
  BY <1>2, <1>4, EntryKept, SameLegs DEF Kind
<1>6. CASE Kind = "swap"
  <2>1. pc' = "convert" /\ Converts /\ run.leg = 1
    BY <1>1, <1>3, <1>6, NotLast DEF Receipt
  <2>2. Done(1)'
    BY <1>1, <1>6, <2>1, ReceiptDelivers, DoneKept
  <2> QED
    BY <1>3, <1>4, <1>5, <2>1, <2>2 DEF PlaceInv, LegPlaces, Opened
<1>7. CASE Kind = "unwrap"
  <2>1. pc' = "next"
    BY <1>7 DEF Receipt
  <2>2. PICK n \in 1 .. 3 : n = run.leg
    BY <1>1 DEF Types, Runs
  <2>3. Done(n)
    BY <1>1, <1>7, <2>2, ReceiptDelivers
  <2>4. Done(n)'
    BY <1>1, <2>3, DoneKept
  <2>5. Done(run.leg)'
    BY <1>2, <2>2, <2>4
  <2> QED
    BY <1>2, <1>3, <1>4, <1>5, <1>7, <2>1, <2>5 DEF PlaceInv, LegPlaces, Opened
<1>8. CASE Kind = "direct"
  <2>1. pc' = "poll"
    BY <1>8 DEF Receipt
  <2> QED
    BY <2>1, PlaceNone
<1>9. CASE Kind \notin {"swap", "unwrap", "direct"}
  <2>1. pc' = "await" /\ saved' = saved
    BY <1>9 DEF Receipt
  <2>2. Kind \in {"hop", "bridge"}
    BY <1>1, <1>3, <1>9, NotLast
  <2>3. Current \in sent'
    BY <1>1, <1>3, NetworkMoves
  <2>4. Current' = Current
    BY <1>2 DEF Current
  <2> QED
    BY <1>2, <2>1, <2>2, <2>3, <2>4, OpenedMove DEF Opened
<1> QED
  BY <1>6, <1>7, <1>8, <1>9

LEMMA PlaceCredit ==
  ASSUME IInv, [Next]_vars, Credit
  PROVE  PlaceInv'
<1>1. Types /\ IntentInv /\ CheckInv /\ PlaceInv
  BY DEF IInv
<1>2. pc = "await" /\ run' = run /\ saved' = saved /\ pc \in Opened
  BY DEF Credit, Opened
<1>3. Kind \in {"hop", "bridge"}
  BY <1>1, <1>2 DEF PlaceInv
<1>4. CASE Kind = "hop"
  <2>1. pc' = "next"
    BY <1>4 DEF Credit
  <2>2. /\ saved.prepared # NoRoute /\ run.leg <= Len(Legs)
        /\ saved.continuation[run.leg + 1] = NoRoute
    BY <1>1, <1>2, <1>4 DEF PlaceInv, LegPlaces
  <2>3. Legs' = Legs /\ Kind' = Kind
    BY <1>2, EntryKept, SameLegs DEF Kind
  <2>4. PICK n \in 1 .. 3 : n = run.leg
    BY <1>1 DEF Types, Runs
  <2>5. Done(n)
    BY <1>4, <2>4, CreditDelivers
  <2>6. Done(n)'
    BY <1>1, <2>5, DoneKept
  <2>7. Done(run.leg)'
    BY <1>2, <2>4, <2>6
  <2> QED
    BY <1>2, <1>4, <2>1, <2>2, <2>3, <2>7 DEF PlaceInv, LegPlaces, Opened
<1>5. CASE Kind = "bridge"
  <2>1. pc' = "deliver"
    BY <1>5 DEF Credit
  <2> QED
    BY <1>2, <1>5, <2>1, OpenedMove DEF Opened
<1> QED
  BY <1>3, <1>4, <1>5

LEMMA PlaceNextLeg ==
  ASSUME IInv, [Next]_vars, NextLeg
  PROVE  PlaceInv'
<1>1. Types /\ IntentInv /\ CheckInv /\ PlaceInv
  BY DEF IInv
<1>2. pc = "next" /\ pc' = "leg"
  BY DEF NextLeg
<1>3. saved.prepared # NoRoute /\ run.leg <= Len(Legs) /\ Kind \in {"hop", "unwrap"}
  BY <1>1, <1>2 DEF PlaceInv
<1>4. PICK r \in Routes : /\ saved'.continuation = [saved.continuation EXCEPT ![run.leg + 1] = r]
                          /\ run' = [run EXCEPT !.leg = @ + 1, !.route = r]
  <2>1. PICK r \in Routes, native \in BOOLEAN :
          LET route == IF Kind = "unwrap" THEN PlanRoute ELSE r IN
          /\ saved' = [saved EXCEPT !.continuation[run.leg + 1] = route,
                                    !.migrated = @ \/ native]
          /\ run' = [run EXCEPT !.leg = @ + 1, !.route = route]
    BY DEF NextLeg
  <2> DEFINE route == IF Kind = "unwrap" THEN PlanRoute ELSE r
             n == run.leg + 1
  <2>2. /\ saved' = [saved EXCEPT !.continuation[n] = route, !.migrated = @ \/ native]
        /\ run' = [run EXCEPT !.leg = @ + 1, !.route = route]
    BY <2>1
  <2>3. route \in Routes
    BY <2>1, RouteAssumption
  <2> HIDE DEF route, n
  <2>4. saved'.continuation = [saved.continuation EXCEPT ![n] = route]
    BY <1>1, <2>2 DEF Types, Checkpoints
  <2> QED
    BY <2>2, <2>3, <2>4 DEF n
<1>5. run.leg + 1 \in 2 .. Len(Legs) /\ ~(run.leg + 1 = 2 /\ Converts)
      /\ run.leg \in 1 .. 3
  BY <1>1, <1>3, NotLast DEF Types, Runs
<1>6. run'.leg = run.leg + 1 /\ run'.route = r
  BY <1>1, <1>4 DEF Types, Runs
<1>7. Len(Legs) \in 1 .. 3 /\ Len(Legs) <= Len(Legs)' /\ Converts' = Converts
  BY <1>1, LegsChange, LegFacts
<1>8. saved'.continuation[run'.leg] = r
  <2>1. saved.continuation \in [2 .. 3 -> MaybeRoutes]
    BY <1>1, Fields
  <2>2. run.leg + 1 \in 2 .. 3
    BY <1>5, LegFacts
  <2> QED
    BY <1>4, <1>6, <2>1, <2>2
<1>9. SavedRoute(run.leg)' = r
  BY <1>5, <1>6, <1>7, <1>8 DEF SavedRoute
<1>10. saved'.prepared = saved.prepared
  <2>1. ~Prepare
    BY <1>2 DEF Prepare
  <2> QED
    BY <1>1, <2>1, SavedMoves
<1>11. run'.leg <= Len(Legs)' /\ run'.route # NoRoute
  <2>1. Len(Legs)' \in Int
    BY <1>1, <1>7, LegsChange
  <2> QED
    BY <1>5, <1>6, <1>7, <2>1, RouteAssumption
<1> QED
  BY <1>2, <1>3, <1>6, <1>9, <1>10, <1>11, AtLeg

LEMMA PlaceContinue ==
  ASSUME IInv, [Next]_vars, Continue
  PROVE  PlaceInv'
<1>1. Types /\ IntentInv /\ CheckInv /\ PlaceInv
  BY DEF IInv
<1>2. /\ pc = "leg" /\ pc' = "leg" /\ saved' = saved
      /\ Kind \in {"hop", "unwrap"} /\ saved.continuation[run.leg + 1] # NoRoute
      /\ run' = [run EXCEPT !.leg = @ + 1,
                            !.route = saved.continuation[run.leg + 1]]
  BY DEF Continue, journal
<1>3. Legs' = Legs /\ Converts' = Converts
  BY <1>2, EntryKept, SameLegs
<1>4. saved.prepared # NoRoute /\ run.leg <= Len(Legs)
  BY <1>1, <1>2 DEF PlaceInv, LegPlaces
<1>5. run.leg + 1 \in 2 .. Len(Legs) /\ ~(run.leg + 1 = 2 /\ Converts)
      /\ run.leg \in 1 .. 3 /\ Len(Legs) \in 1 .. 3
  BY <1>1, <1>2, <1>4, NotLast, LegFacts DEF Types, Runs
<1>6. run'.leg = run.leg + 1 /\ run'.route = saved.continuation[run.leg + 1]
  BY <1>1, <1>2 DEF Types, Runs
<1>7. SavedRoute(run.leg)' = saved.continuation[run.leg + 1]
  BY <1>2, <1>3, <1>5, <1>6 DEF SavedRoute
<1>8. run'.leg <= Len(Legs)' /\ run'.route # NoRoute
  BY <1>2, <1>3, <1>5, <1>6
<1> QED
  BY <1>2, <1>4, <1>6, <1>7, <1>8, AtLeg

LEMMA PlaceMigrate ==
  ASSUME IInv, [Next]_vars, Migrate
  PROVE  PlaceInv'
<1>1. Types /\ IntentInv /\ CheckInv /\ PlaceInv
  BY DEF IInv
<1>2. pc = "leg" /\ pc' = "leg" /\ Legs[1] = "hop"
  BY DEF Migrate, UnsignedDelivery
<1>3. PICK r \in Routes :
        /\ saved' = [saved EXCEPT !.migrated = TRUE, !.continuation[2] = r]
        /\ run' = [run EXCEPT !.leg = 2, !.route = r]
  BY DEF Migrate
<1>4. saved'.continuation = [saved.continuation EXCEPT ![2] = r]
  BY <1>1, <1>3 DEF Types, Checkpoints
<1>5. saved'.continuation[2] = r /\ saved'.prepared = saved.prepared
  <2>1. saved.continuation \in [2 .. 3 -> MaybeRoutes]
    BY <1>1, Fields
  <2>2. ~Prepare
    BY <1>2 DEF Prepare
  <2> QED
    BY <1>1, <1>4, <2>1, <2>2, SavedMoves
<1>6. run'.leg = 2 /\ run'.route = r
  BY <1>1, <1>3 DEF Types, Runs
<1>7. ~Converts' /\ Len(Legs)' \in 2 .. 3
  <2>1. ~Converts /\ Len(Legs) \in 1 .. 3
    BY <1>2, LegFacts
  <2>2. Len(Legs) # 1
    BY <1>2, LegFacts
  <2> QED
    BY <1>1, <2>1, <2>2, LegsChange
<1>8. SavedRoute(run.leg)' = r
  BY <1>5, <1>6, <1>7 DEF SavedRoute
<1>9. saved.prepared # NoRoute /\ r # NoRoute
  BY <1>1, <1>2, RouteAssumption DEF PlaceInv, LegPlaces
<1>10. run'.leg <= Len(Legs)'
  BY <1>6, <1>7
<1> QED
  BY <1>2, <1>5, <1>6, <1>8, <1>9, <1>10, AtLeg
\* The route of a recorded transfer is the saved one, so it is known.
LEMMA IntentIsSaved ==
  ASSUME IInv, NEW t \in Tx, Intent(t)
  PROVE  /\ t.route = SavedRoute(t.leg) /\ t.leg <= Len(Legs)
         /\ saved.prepared # NoRoute
<1>1. t.leg <= Len(Legs) /\ saved.prepared # NoRoute
  BY DEF IInv, IntentInv, CheckInv, AssetIntent
<1>2. t.route = SavedRoute(t.leg)
  BY DEF IInv, IntentInv, IntentMatchesPreparation, SavedRoute, Tx
<1> QED
  BY <1>1, <1>2

LEMMA PlaceEnter ==
  ASSUME IInv, [Next]_vars, EnterPending
  PROVE  PlaceInv'
<1>1. Types /\ IntentInv /\ CheckInv /\ PlaceInv /\ OutcomeInv
  BY DEF IInv
<1>2. /\ position = "deposit_pending" /\ saved' = saved
      /\ run' = [run EXCEPT !.observing = TRUE, !.leg = Len(Legs),
                            !.route = PlanRoute]
      /\ pc' = IF saved.context THEN "poll" ELSE "leg"
  BY DEF EnterPending, journal
<1>3. CASE saved.context
  BY <1>2, <1>3, PlaceNone
<1>4. CASE ~saved.context
  <2> DEFINE t == [leg |-> Len(Legs), route |-> PlanRoute]
  <2>1. Intent(t)
    BY <1>1, <1>2, <1>4 DEF OutcomeInv, Deposited
  <2>2. t \in Tx /\ t.leg = Len(Legs) /\ t.route = PlanRoute
    BY LegFacts, RouteAssumption DEF Tx
  <2> HIDE DEF t
  <2>3. SavedRoute(Len(Legs)) = PlanRoute /\ saved.prepared # NoRoute
    BY <2>1, <2>2, IntentIsSaved
  <2>4. Legs' = Legs /\ Converts' = Converts
    BY <1>2, EntryKept, SameLegs
  <2>5. run'.leg = Len(Legs) /\ run'.route = PlanRoute
    BY <1>1, <1>2 DEF Types, Runs
  <2>6. SavedRoute(run.leg)' = PlanRoute
    BY <1>2, <2>3, <2>4, <2>5 DEF SavedRoute
  <2>7. run'.leg <= Len(Legs)'
    BY <2>4, <2>5, LegFacts
  <2> QED
    BY <1>2, <1>4, <2>3, <2>5, <2>6, <2>7, RouteAssumption, AtLeg
<1> QED
  BY <1>3, <1>4

LEMMA PlacePrepare ==
  ASSUME IInv, [Next]_vars, Prepare
  PROVE  PlaceInv'
<1>1. Types /\ IntentInv /\ CheckInv /\ PlaceInv
  BY DEF IInv
<1>2. pc = "entry" /\ pc' = "start" /\ run.leg = 1
  BY <1>1 DEF Prepare, PlaceInv
<1>3. /\ run'.leg = 1 /\ run'.route = saved'.prepared /\ saved'.prepared # NoRoute
  <2>1. CASE Frozen \/ saved.converted
    <3>1. run' = [run EXCEPT !.route = saved.prepared] /\ saved' = saved
      BY <2>1 DEF Prepare
    <3>2. saved.prepared # NoRoute
      BY <1>1, <2>1 DEF CheckInv, Frozen
    <3> QED
      BY <1>1, <1>2, <3>1, <3>2 DEF Types, Runs
  <2>2. CASE ~(Frozen \/ saved.converted)
    <3>1. PICK r \in Routes : /\ run' = [run EXCEPT !.route = r]
                              /\ saved' = [saved EXCEPT !.prepared = r]
      BY <2>2, RouteAssumption DEF Prepare
    <3>2. saved'.prepared = r
      BY <1>1, <3>1 DEF Types, Checkpoints
    <3>3. run'.leg = 1 /\ run'.route = r
      BY <1>1, <1>2, <3>1 DEF Types, Runs
    <3> QED
      BY <3>2, <3>3, RouteAssumption
  <2> QED
    BY <2>1, <2>2
<1> QED
  BY <1>2, <1>3 DEF PlaceInv, LegPlaces, Opened

LEMMA PlaceStart ==
  ASSUME IInv, [Next]_vars, Start
  PROVE  PlaceInv'
<1>1. Types /\ IntentInv /\ CheckInv /\ PlaceInv
  BY DEF IInv
<1>2. pc = "start" /\ saved' = saved
  BY DEF Start
<1>3. CASE Leave \/ Fails
  BY <1>3, PlaceNone DEF Fails, Ends
<1>4. CASE pc' = "leg" /\ run' = run
  <2>1. run.leg = 1 /\ run.route = saved.prepared /\ saved.prepared # NoRoute
    BY <1>1, <1>2 DEF PlaceInv
  <2>2. Legs' = Legs
    BY <1>2, EntryKept, SameLegs
  <2>3. run'.leg <= Len(Legs)' /\ SavedRoute(run.leg)' = saved.prepared
    BY <1>2, <1>4, <2>1, <2>2, LegFacts DEF SavedRoute
  <2> QED
    BY <1>2, <1>4, <2>1, <2>3, AtLeg
<1> QED
  BY <1>3, <1>4 DEF Start

LEMMA PlaceConverted ==
  ASSUME IInv, [Next]_vars, StartConverted \/ Convert
  PROVE  PlaceInv'
<1>1. Types /\ IntentInv /\ CheckInv /\ PlaceInv
  BY DEF IInv
<1>2. CASE StartConverted
  <2>1. pc' = "convert" /\ pc = "start" /\ saved.converted /\ saved' = saved
    BY <1>2 DEF StartConverted, journal
  <2>2. Converts /\ Done(1) /\ saved.prepared # NoRoute
    BY <1>1, <2>1 DEF CheckInv, PlaceInv
  <2>3. Done(1)'
    BY <1>1, <2>2, DoneKept
  <2>4. Converts'
    BY <2>1, <2>2, EntryKept, SameLegs
  <2> QED
    BY <2>1, <2>2, <2>3, <2>4 DEF PlaceInv, LegPlaces, Opened
<1>3. CASE Convert
  <2>1. pc' = "requote" /\ saved' = [saved EXCEPT !.converted = TRUE]
    BY <1>3 DEF Convert
  <2>2. saved'.converted
    BY <1>1, <2>1 DEF Types, Checkpoints
  <2> QED
    BY <2>1, <2>2 DEF PlaceInv, LegPlaces, Opened
<1> QED
  BY <1>2, <1>3

LEMMA PlaceRequote ==
  ASSUME IInv, [Next]_vars, Requote
  PROVE  PlaceInv'
<1>1. Types /\ IntentInv /\ CheckInv /\ PlaceInv
  BY DEF IInv
<1>2. pc = "requote" /\ saved.converted
  BY <1>1 DEF Requote, PlaceInv
<1>3. CASE Fails
  BY <1>3, PlaceNone DEF Fails, Ends
<1>4. CASE saved.replacement # NoRoute /\ pc' = "bridge" /\ saved' = saved
           /\ run' = [run EXCEPT !.route = saved.replacement]
  <2>1. run'.route = saved.replacement
    BY <1>1, <1>4 DEF Types, Runs
  <2> QED
    BY <1>2, <1>4, <2>1 DEF PlaceInv, LegPlaces, Opened
<1>5. CASE /\ saved.replacement = NoRoute /\ pc' = "bridge"
           /\ \E r \in Routes : run' = [run EXCEPT !.route = r]
           /\ saved' = [saved EXCEPT !.requoted = TRUE]
  <2>1. run'.route \in Routes
    BY <1>1, <1>5 DEF Types, Runs
  <2>2. saved'.replacement = NoRoute /\ saved'.converted
    BY <1>1, <1>2, <1>5 DEF Types, Checkpoints
  <2> QED
    BY <1>5, <2>1, <2>2, RouteAssumption DEF PlaceInv, LegPlaces, Opened
<1> QED
  BY <1>3, <1>4, <1>5 DEF Requote

LEMMA PlaceBridge ==
  ASSUME IInv, [Next]_vars, SaveBridge \/ StartBridge
  PROVE  PlaceInv'
<1>1. Types /\ IntentInv /\ CheckInv /\ PlaceInv
  BY DEF IInv
<1>2. CASE SaveBridge
  <2>1. /\ pc = "bridge" /\ pc' = "bridged" /\ run' = run
        /\ saved' = [saved EXCEPT !.replacement = run.route]
    BY <1>2 DEF SaveBridge
  <2>2. saved.converted /\ run.route # NoRoute
    BY <1>1, <2>1 DEF PlaceInv
  <2>3. saved'.converted /\ saved'.replacement = run.route
    BY <1>1, <2>1, <2>2 DEF Types, Checkpoints
  <2> QED
    BY <2>1, <2>2, <2>3 DEF PlaceInv, LegPlaces, Opened
<1>3. CASE StartBridge
  <2>1. /\ pc = "bridged" /\ pc' = "leg" /\ saved' = saved
        /\ run' = [run EXCEPT !.leg = 2]
    BY <1>3 DEF StartBridge
  <2>2. /\ saved.converted /\ run.route = saved.replacement /\ run.route # NoRoute
    BY <1>1, <2>1 DEF PlaceInv
  <2>3. Converts /\ saved.prepared # NoRoute
    BY <1>1, <2>2 DEF CheckInv
  <2>4. Legs' = Legs /\ Converts' = Converts
    BY <2>1, EntryKept, SameLegs
  <2>5. run'.leg = 2 /\ run'.route = run.route
    BY <1>1, <2>1 DEF Types, Runs
  <2>6. Len(Legs) \in 2 .. 3
    BY <2>3, LegFacts
  <2>7. SavedRoute(run.leg)' = run.route
    BY <2>1, <2>2, <2>3, <2>4, <2>5 DEF SavedRoute
  <2>8. run'.leg <= Len(Legs)'
    <3>1. Len(Legs)' = Len(Legs)
      BY <2>4
    <3> QED
      BY <2>5, <2>6, <3>1
  <2> QED
    BY <2>1, <2>2, <2>3, <2>5, <2>7, <2>8, AtLeg
<1> QED
  BY <1>2, <1>3

\* An unwrap that was checkpointed is done, and it is the leg in hand.
LEMMA PlaceUnwrapped ==
  ASSUME IInv, [Next]_vars, AfterUnwrap
  PROVE  PlaceInv'
<1>1. Types /\ IntentInv /\ CheckInv /\ PlaceInv
  BY DEF IInv
<1>2. /\ pc = "leg" /\ pc' = "next" /\ Kind = "unwrap" /\ saved.unwrapped
      /\ saved.continuation[run.leg + 1] = NoRoute /\ run' = run /\ saved' = saved
  BY DEF AfterUnwrap, journal
<1>3. saved.prepared # NoRoute /\ run.leg <= Len(Legs)
  BY <1>1, <1>2 DEF PlaceInv, LegPlaces
<1>4. PICK n \in 1 .. 2 : Legs[n] = "unwrap" /\ Done(n)
  BY <1>1, <1>2 DEF CheckInv
<1>5. run.leg \in 1 .. 2 /\ run.leg + 1 = Len(Legs)
  BY <1>1, <1>2, <1>3, NotLast, LegFacts DEF Types, Runs
<1>6. n = run.leg
  <2>1. n \in 1 .. Len(Legs)
    BY <1>5
  <2>2. n # Len(Legs) /\ Legs[n + 1] = "direct"
    BY <1>4, <2>1, LegFacts
  <2>3. n + 1 = Len(Legs)
    <3>1. n + 1 \in 1 .. Len(Legs)
      BY <1>5, <2>1, <2>2
    <3> QED
      BY <2>2, <3>1, LegFacts
  <2> QED
    BY <1>5, <2>3
<1>7. Done(n)'
  BY <1>1, <1>4, DoneKept
<1>8. Done(run.leg)'
  BY <1>2, <1>6, <1>7
<1>9. Legs' = Legs /\ Kind' = Kind
  BY <1>2, EntryKept, SameLegs DEF Kind
<1> QED
  BY <1>2, <1>3, <1>8, <1>9 DEF PlaceInv, LegPlaces, Opened

LEMMA PlaceStep ==
  ASSUME IInv, [Next]_vars
  PROVE  PlaceInv'
<1>1. CASE MarkAwaiting \/ Mine \/ Bridge \/ Exchange \/ Reactivate
  <2>1. UNCHANGED <<pc, run, saved>>
    BY <1>1 DEF MarkAwaiting, Mine, Bridge, Exchange, Reactivate, process, journal
  <2>2. ~Sign
    <3>1. Sign => pc' # pc
      BY DEF Sign
    <3> QED
      BY <2>1, <3>1
  <2> QED
    BY <2>1, <2>2, PlaceFrame
<1>2. CASE UNCHANGED vars
  <2>1. UNCHANGED <<pc, run, saved>>
    BY <1>2 DEF vars, process, journal
  <2>2. ~Sign
    <3>1. Sign => pc' # pc
      BY DEF Sign
    <3> QED
      BY <2>1, <3>1
  <2> QED
    BY <2>1, <2>2, PlaceFrame
<1>3. CASE Begin
  <2>1. pc = "idle" /\ pc' = "entry" /\ run' = run
    BY <1>3 DEF Begin
  <2>2. run.leg = 1
    BY <2>1 DEF IInv, PlaceInv
  <2> QED
    BY <2>1, <2>2 DEF PlaceInv, LegPlaces, Opened
<1>4. CASE EnterCompleted \/ OverBudget \/ BridgeOverBudget \/ Progress
  BY <1>4, PlaceNone DEF EnterCompleted, OverBudget, BridgeOverBudget, Progress,
     Fails, Ends
<1>5. CASE LoseApproval \/ CloseGroup \/ Interrupt
  BY <1>5, PlaceNone DEF LoseApproval, CloseGroup, Interrupt
<1>6. CASE DepositCredited \/ DepositPending \/ DepositFailed \/ RunFails
  BY <1>6, PlaceNone DEF DepositCredited, DepositPending, DepositFailed, RunFails,
     Fails, Ends
<1>7. CASE RecordOutcome
  BY <1>7, PlaceNone DEF RecordOutcome
<1>8. CASE Run
  BY <1>1, <1>3, <1>4, <1>8, PlaceEnter, PlacePrepare, PlaceStart, PlaceConverted,
     PlaceRequote, PlaceBridge DEF Run
<1>9. CASE Leg
  BY <1>1, <1>4, <1>5, <1>9, PlaceOpened, PlaceSend, PlaceKnown, PlaceOpen,
     PlaceReceipt, PlaceCredit, PlaceNextLeg, PlaceContinue, PlaceMigrate,
     PlaceUnwrapped DEF Leg
<1> QED
  BY <1>1, <1>2, <1>5, <1>6, <1>7, <1>8, <1>9 DEF Next, End
-----------------------------------------------------------------------------
(* The state of the position, and what a run ends with.                    *)

OpenPlaces == LegPlaces \union {"next", "poll", "requote", "bridge", "bridged"}

LEMMA PlaceMoves ==
  ASSUME [Next]_vars
  PROVE  /\ pc' \in OpenPlaces => pc \in OpenPlaces \/ EnterPending \/ Start \/ Convert
         /\ pc' \in {"start", "convert"} =>
              pc' = pc \/ Prepare \/ StartConverted \/ Receipt
         /\ pc' = "poll" => pc = "poll" \/ EnterPending \/ Progress
                            \/ (Receipt /\ Kind = "direct")
<1> USE DEF OpenPlaces, LegPlaces, Opened
<1>1. CASE Reactivate \/ Begin \/ EnterCompleted \/ EnterPending \/ Prepare \/ Start
  BY <1>1 DEF Reactivate, Begin, EnterCompleted, EnterPending, Prepare, Start,
     Fails, Ends, Leave, process
<1>2. CASE OverBudget \/ StartConverted \/ Convert \/ Requote \/ SaveBridge
           \/ StartBridge \/ BridgeOverBudget
  BY <1>2 DEF OverBudget, StartConverted, Convert, Requote, SaveBridge, StartBridge,
     BridgeOverBudget, Fails, Ends
<1>3. CASE Continue \/ Migrate \/ AfterUnwrap \/ Known \/ Open \/ NoApproval \/ Approve
  BY <1>3 DEF Continue, Migrate, AfterUnwrap, Known, Open, Opens, NoApproval, Approve
<1>4. CASE SendApproval \/ LoseApproval \/ Sign \/ Send \/ MarkAwaiting \/ Credit
           \/ Progress \/ NextLeg
  BY <1>4 DEF SendApproval, LoseApproval, Sign, Send, MarkAwaiting, Credit, Progress,
     NextLeg, Leave, process
<1>5. CASE Receipt
  <2>1. pc = "receipt" /\ (pc' = "poll" => Kind = "direct")
    BY <1>5 DEF Receipt
  <2> QED
    BY <1>5, <2>1
<1>6. CASE End \/ RunFails \/ Interrupt
  BY <1>6 DEF End, DepositCredited, DepositPending, DepositFailed, RecordOutcome,
     CloseGroup, RunFails, Interrupt, Fails, Ends, Leave
<1>7. CASE Mine \/ Bridge \/ Exchange \/ UNCHANGED vars
  BY <1>7 DEF Mine, Bridge, Exchange, vars, process
<1> QED
  BY <1>1, <1>2, <1>3, <1>4, <1>5, <1>6, <1>7 DEF Next, Run, Leg

\* What a run observes and how it ends: who sets it.
LEMMA ResultMoves ==
  ASSUME Types, [Next]_vars
  PROVE  /\ run'.observing => run.observing \/ EnterPending
         /\ run'.result = "deposit_pending" =>
              run.result = "deposit_pending" \/ pc = "poll" \/ run.observing
         /\ run'.result = "completed" => run.result = "completed" \/ DepositCredited
<1> DEFINE Goal == /\ run'.observing => run.observing \/ EnterPending
                   /\ run'.result = "deposit_pending" =>
                        run.result = "deposit_pending" \/ pc = "poll" \/ run.observing
                   /\ run'.result = "completed" =>
                        run.result = "completed" \/ DepositCredited
<1>1. run \in Runs
  BY DEF Types
<1>2. CASE run' = run
  BY <1>2
<1>3. CASE Leave
  <2>1. run'.observing = FALSE /\ run'.result = "none"
    BY <1>3 DEF Leave, Idle
  <2> QED
    BY <2>1
<1>4. ASSUME NEW r \in PositionStates, NEW c, Ends(r, c),
             r = "deposit_pending" => pc = "poll" \/ run.observing,
             r = "completed" => DepositCredited
      PROVE  Goal
  <2>1. run'.observing = run.observing /\ run'.result = r
    BY <1>1, <1>4 DEF Ends, Runs
  <2> QED
    BY <1>4, <2>1
<1>5. /\ {"completed", "manual_review", "manual_review_group_threshold_exceeded",
          "manual_review_after_swap", "deposit_pending"} \subseteq PositionStates
  BY DEF PositionStates, Halts
<1>6. CASE Fails
  <2>1. \/ Ends("manual_review_after_swap", "manual_review_group_halted")
        \/ Ends("manual_review", "manual_review_group_halted")
    BY <1>6 DEF Fails
  <2> QED
    BY <1>4, <1>5, <2>1
<1>7. ASSUME NEW r, run' = [run EXCEPT !.route = r] \/ run' = [run EXCEPT !.closes = r]
                    \/ run' = [run EXCEPT !.leg = r]
      PROVE  Goal
  <2>1. run'.observing = run.observing /\ run'.result = run.result
    BY <1>1, <1>7 DEF Runs
  <2> QED
    BY <2>1
<1>8. CASE Reactivate \/ Begin \/ StartConverted \/ Convert \/ SaveBridge
  BY <1>2, <1>8 DEF Reactivate, Begin, StartConverted, Convert, SaveBridge, process
<1>9. CASE EnterCompleted \/ Prepare \/ StartBridge
  BY <1>7, <1>9 DEF EnterCompleted, Prepare, StartBridge
<1>10. CASE EnterPending
  <2>1. run' = [run EXCEPT !.observing = TRUE, !.leg = Len(Legs), !.route = PlanRoute]
    BY <1>10 DEF EnterPending
  <2>2. run'.result = run.result
    BY <1>1, <2>1 DEF Runs
  <2> QED
    BY <1>10, <2>2
<1>11. CASE OverBudget
  BY <1>4, <1>5, <1>7, <1>11 DEF OverBudget
<1>12. CASE Start \/ Requote
  BY <1>2, <1>3, <1>6, <1>7, <1>12 DEF Start, Requote
<1>13. CASE BridgeOverBudget
  BY <1>4, <1>5, <1>13 DEF BridgeOverBudget
<1>14. CASE Continue \/ Migrate \/ NextLeg
  <2>1. \E k, r : run' = [run EXCEPT !.leg = k, !.route = r]
    <3>1. CASE Continue
      <4> DEFINE k == run.leg + 1
                 r == saved.continuation[run.leg + 1]
      <4>1. run' = [run EXCEPT !.leg = k, !.route = r]
        BY <1>1, <3>1 DEF Continue, Runs
      <4> HIDE DEF k, r
      <4> QED
        BY <4>1
    <3>2. CASE Migrate
      <4> DEFINE k == 2
      <4>1. \E r : run' = [run EXCEPT !.leg = k, !.route = r]
        BY <3>2 DEF Migrate
      <4> HIDE DEF k
      <4> QED
        BY <4>1
    <3>3. CASE NextLeg
      <4> DEFINE k == run.leg + 1
      <4>1. \E r : run' = [run EXCEPT !.leg = k, !.route = r]
        BY <1>1, <3>3 DEF NextLeg, Runs
      <4> HIDE DEF k
      <4> QED
        BY <4>1
    <3> QED
      BY <1>14, <3>1, <3>2, <3>3
  <2>2. PICK k, r : run' = [run EXCEPT !.leg = k, !.route = r]
    BY <2>1
  <2>3. run'.observing = run.observing /\ run'.result = run.result
    BY <1>1, <2>2 DEF Runs
  <2> QED
    BY <2>3
<1>15. CASE AfterUnwrap \/ Known \/ Open \/ NoApproval \/ Approve \/ SendApproval
            \/ LoseApproval \/ Sign \/ Send
  BY <1>2, <1>3, <1>15 DEF AfterUnwrap, Known, Open, NoApproval, Approve,
     SendApproval, LoseApproval, Sign, Send
<1>16. CASE Receipt \/ MarkAwaiting \/ Credit \/ Progress
  BY <1>2, <1>16 DEF Receipt, MarkAwaiting, Credit, Progress, process
<1>17. CASE DepositCredited
  <2>1. Ends("completed", "completed")
    BY <1>17 DEF DepositCredited
  <2> QED
    BY <1>4, <1>5, <1>17, <2>1
<1>18. CASE DepositPending
  <2>1. pc = "poll" /\ \E c : Ends("deposit_pending", c)
    BY <1>18 DEF DepositPending
  <2> QED
    BY <1>4, <1>5, <2>1
<1>19. CASE DepositFailed
  <2>1. Fails \/ Ends("manual_review", "manual_review_group_halted")
    BY <1>19 DEF DepositFailed
  <2> QED
    BY <1>4, <1>5, <1>6, <2>1
<1>20. CASE RecordOutcome \/ CloseGroup \/ Interrupt
  BY <1>2, <1>3, <1>20 DEF RecordOutcome, CloseGroup, Interrupt
<1>21. CASE RunFails
  <2>1. \/ Fails
        \/ Ends("manual_review", "manual_review_group_halted")
        \/ run.observing /\ Ends("deposit_pending", "deposit_pending")
        \/ Ends("manual_review_group_threshold_exceeded",
                "manual_review_group_threshold_exceeded")
    BY <1>21 DEF RunFails
  <2> QED
    BY <1>4, <1>5, <1>6, <2>1
<1>22. CASE Mine \/ Bridge \/ Exchange \/ UNCHANGED vars
  BY <1>2, <1>22 DEF Mine, Bridge, Exchange, vars, process
<1>23. CASE Run
  BY <1>8, <1>9, <1>10, <1>11, <1>12, <1>13, <1>23 DEF Run
<1>24. CASE Leg
  BY <1>14, <1>15, <1>16, <1>24 DEF Leg
<1> QED
  BY <1>17, <1>18, <1>19, <1>20, <1>21, <1>22, <1>23, <1>24 DEF Next, End
\* The transfer whose deposit is looked for is never forgotten.
LEMMA DepositedKept ==
  ASSUME IInv, [Next]_vars, Deposited
  PROVE  Deposited'
<1>1. Types /\ IntentInv /\ CheckInv /\ PlaceInv
  BY DEF IInv
<1>2. CASE saved.context
  BY <1>1, <1>2, SavedMoves DEF Deposited
<1>3. CASE ~saved.context
  <2>1. [leg |-> Len(Legs), route |-> PlanRoute] \in Tx
    BY LegFacts, RouteAssumption DEF Tx
  <2>2. PICK t \in Tx : t = [leg |-> Len(Legs), route |-> PlanRoute]
    BY <2>1
  <2>3. Legs[Len(Legs)] = "direct" /\ Intent(t)
    BY <1>3, <2>2 DEF Deposited
  <2>4. Legs' = Legs
    BY <1>1, <2>3, LegsChange
  <2>5. Intent(t)'
    BY <1>1, <2>3, RowMoves
  <2>6. [leg |-> Len(Legs'), route |-> PlanRoute] = t
    BY <2>2, <2>4
  <2> QED
    BY <2>3, <2>4, <2>5, <2>6 DEF Deposited, Intent
<1> QED
  BY <1>2, <1>3

\* What was sent as the last leg, of the route the plan holds.
LEMMA DirectIsDeposited ==
  ASSUME IInv, pc = "receipt", Kind = "direct"
  PROVE  Deposited
<1>1. Types /\ IntentInv /\ CheckInv /\ PlaceInv
  BY DEF IInv
<1>2. /\ run.leg <= Len(Legs) /\ run.route # NoRoute /\ Current \in sent
      /\ run.route = SavedRoute(run.leg)
  BY <1>1 DEF PlaceInv, LegPlaces, Opened
<1>3. run.leg = Len(Legs) /\ run.leg \in 1 .. 3 /\ Legs[run.leg] = "direct"
  BY <1>1, <1>2, NotLast DEF Types, Runs, Kind
<1>4. run.leg > 1 /\ Legs[run.leg - 1] = "unwrap"
  BY <1>3, LegFacts
<1>5. saved.continuation[run.leg] \in {NoRoute, PlanRoute}
  BY <1>1, <1>3, <1>4 DEF CheckInv
<1>6. ~(run.leg = 2 /\ Converts)
  BY <1>4, LegFacts
<1>7. run.route = PlanRoute
  BY <1>2, <1>4, <1>5, <1>6 DEF SavedRoute
<1>8. Current = [leg |-> Len(Legs), route |-> PlanRoute] /\ Intent(Current)
  BY <1>1, <1>2, <1>3, <1>7 DEF Current, IntentInv
<1> QED
  BY <1>3, <1>8 DEF Deposited

LEMMA OutcomeStep ==
  ASSUME IInv, [Next]_vars
  PROVE  OutcomeInv'
<1>1. Types /\ IntentInv /\ CheckInv /\ PlaceInv /\ OutcomeInv
  BY DEF IInv
<1>2. /\ pc \in OpenPlaces => ~Settled(position)
      /\ pc \in {"start", "convert"} => position # "completed"
      /\ position = "deposit_pending" \/ pc = "poll" \/ run.observing
           \/ run.result = "deposit_pending" => Deposited
      /\ run.result = "completed" => deposit = "success"
      /\ deposit # "none" => Done(Len(Legs))
  BY <1>1 DEF OutcomeInv, OpenPlaces
<1>3. /\ "completed" \in SettledPositions
      /\ {"swap_submitted", "bridge_submitted", "requote_required",
          "source_asset_converted_bridge_pending", "deposit_pending"}
           \cap SettledPositions = {}
  BY DEF SettledPositions, Halts
<1>4. pc' \in OpenPlaces => ~Settled(position)'
  <2> SUFFICES ASSUME pc' \in OpenPlaces PROVE position' \notin SettledPositions
    BY DEF Settled
  <2>1. CASE position' = position
    <3>1. CASE pc \in OpenPlaces
      BY <1>2, <2>1, <3>1 DEF Settled
    <3>2. CASE EnterPending
      BY <1>3, <2>1, <3>2 DEF EnterPending
    <3>3. CASE Start \/ Convert
      <4>1. position' \in {"swap_submitted", "bridge_submitted",
                           "source_asset_converted_bridge_pending"}
        BY <3>3 DEF Start, Convert, Leave, Fails, Ends, OpenPlaces, LegPlaces, Opened
      <4> QED
        BY <1>3, <4>1
    <3> QED
      BY <3>1, <3>2, <3>3, PlaceMoves
  <2>2. CASE Start \/ Convert
    <3>1. position' \in {"swap_submitted", "bridge_submitted",
                         "source_asset_converted_bridge_pending"}
      BY <2>2 DEF Start, Convert, Leave, Fails, Ends, OpenPlaces, LegPlaces, Opened
    <3> QED
      BY <1>3, <3>1
  <2>3. CASE Requote \/ Receipt
    <3>1. \/ position' \in {"requote_required", "source_asset_converted_bridge_pending"}
          \/ position' = position /\ pc \in {"requote", "receipt"}
      BY <2>3 DEF Requote, Receipt
    <3>2. pc \in {"requote", "receipt"} => pc \in OpenPlaces
      BY DEF OpenPlaces, LegPlaces, Opened
    <3> QED
      BY <1>2, <1>3, <3>1, <3>2 DEF Settled
  <2>4. CASE StartBridge
    BY <1>3, <2>4 DEF StartBridge
  <2>5. ~Reactivate /\ ~RecordOutcome
    BY DEF Reactivate, RecordOutcome, Leave, process, OpenPlaces, LegPlaces, Opened
  <2> QED
    BY <2>1, <2>2, <2>3, <2>4, <2>5, PositionWriters
<1>5. pc' \in {"start", "convert"} => position' # "completed"
  <2> SUFFICES ASSUME pc' \in {"start", "convert"} PROVE position' # "completed"
    OBVIOUS
  <2>1. CASE pc' = pc
    <3>1. ~Reactivate /\ ~Start /\ ~Receipt /\ ~Convert /\ ~Requote /\ ~StartBridge
          /\ ~RecordOutcome
      BY <2>1 DEF Reactivate, Start, Receipt, Convert, Requote, StartBridge,
         RecordOutcome, Leave, Fails, Ends
    <3>2. position' = position
      BY <3>1, PositionWriters
    <3> QED
      BY <1>2, <2>1, <3>2
  <2>2. CASE Prepare
    BY <2>2 DEF Prepare
  <2>3. CASE StartConverted
    BY <1>2, <2>3 DEF StartConverted, journal
  <2>4. CASE Receipt
    <3>1. pc = "receipt" /\ (position' = position
                             \/ position' = "source_asset_converted_bridge_pending")
      BY <2>4 DEF Receipt
    <3>2. pc \in OpenPlaces
      BY <3>1 DEF OpenPlaces, LegPlaces, Opened
    <3> QED
      BY <1>2, <1>3, <3>1, <3>2 DEF Settled
  <2> QED
    BY <2>1, <2>2, <2>3, <2>4, PlaceMoves
<1>6. position' = "deposit_pending" \/ pc' = "poll" \/ run'.observing
        \/ run'.result = "deposit_pending" => Deposited'
  <2>1. position' = "deposit_pending" => Deposited
    <3>1. CASE position' = position
      BY <1>2, <3>1
    <3>2. CASE Reactivate \/ Start \/ Receipt
      BY <1>2, <3>2 DEF Reactivate, Start, Receipt
    <3>3. CASE Convert \/ Requote \/ StartBridge
      BY <1>2, <3>3 DEF Convert, Requote, StartBridge
    <3>4. CASE RecordOutcome
      BY <1>2, <3>4 DEF RecordOutcome
    <3> QED
      BY <3>1, <3>2, <3>3, <3>4, PositionWriters
  <2>2. EnterPending => Deposited
    BY <1>2 DEF EnterPending
  <2>3. pc' = "poll" => Deposited \/ Progress
    <3>1. Receipt /\ Kind = "direct" => Deposited
      BY DirectIsDeposited DEF Receipt
    <3> QED
      BY <1>2, <2>2, <3>1, PlaceMoves
  <2>4. Progress => Deposited'
    <3> SUFFICES ASSUME Progress PROVE Deposited'
      OBVIOUS
    <3>1. saved' = [saved EXCEPT !.context = TRUE]
      BY DEF Progress
    <3>2. saved'.context
      BY <1>1, <3>1 DEF Types, Checkpoints
    <3> QED
      BY <3>2 DEF Deposited
  <2>5. run'.observing => Deposited
    BY <1>1, <1>2, <2>2, ResultMoves
  <2>6. run'.result = "deposit_pending" => Deposited
    BY <1>1, <1>2, ResultMoves
  <2> QED
    BY <2>1, <2>3, <2>4, <2>5, <2>6, DepositedKept
<1>7. deposit = "success" => deposit' = "success"
  <2>1. ~(Exchange /\ deposit = "success")
    BY DEF Exchange
  <2>2. deposit' = deposit \/ Exchange
    BY NetworkWriters DEF network, Known, Send, Mine, Bridge
  <2> QED
    BY <2>1, <2>2
<1>8. run'.result = "completed" => deposit' = "success"
  <2>1. DepositCredited => deposit = "success"
    BY DEF DepositCredited
  <2> QED
    BY <1>1, <1>2, <1>7, <2>1, ResultMoves
<1>9. deposit' # "none" => Done(Len(Legs))'
  <2> SUFFICES ASSUME deposit' # "none" PROVE Done(Len(Legs))'
    OBVIOUS
  <2>1. deposit' = deposit \/ Exchange
    BY NetworkWriters DEF network, Known, Send, Mine, Bridge
  <2>2. Done(Len(Legs))
    <3>1. CASE deposit' = deposit
      BY <1>2, <3>1
    <3>2. CASE Exchange
      <4>1. PICK t \in Tx : /\ t.leg = Len(Legs)
                            /\ t \in IF Legs[t.leg] = "direct" THEN mined ELSE arrived
        BY <3>2 DEF Exchange
      <4>2. t \in sent
        BY <1>1, <4>1 DEF Types, TypeOK
      <4>3. Delivers(t)
        BY <4>1, LegFacts DEF Delivers
      <4> QED
        BY <4>1, <4>2, <4>3 DEF Done
    <3> QED
      BY <2>1, <3>1, <3>2
  <2>3. PICK n \in 1 .. 3 : n = Len(Legs)
    BY LegFacts
  <2>4. Legs' = Legs
    <3>1. SUFFICES ASSUME Legs' # Legs PROVE FALSE
      OBVIOUS
    <3>2. Len(Legs) = 2 /\ \A t \in Tx : Intent(t) => t.leg = 1
      BY <1>1, <3>1, LegsChange
    <3>3. \A t \in sent : t \in Tx /\ Intent(t)
      BY <1>1 DEF Types, TypeOK, IntentInv
    <3> QED
      BY <2>2, <3>2, <3>3 DEF Done
  <2>5. Done(n)'
    BY <1>1, <2>2, <2>3, DoneKept
  <2>6. Len(Legs)' = n
    BY <2>3, <2>4
  <2> QED
    BY <2>5, <2>6
<1> QED
  BY <1>4, <1>5, <1>6, <1>8, <1>9 DEF OutcomeInv, OpenPlaces

-----------------------------------------------------------------------------
LEMMA InitInv ==
  ASSUME Init
  PROVE  IInv
<1>1. /\ position = "planned" /\ group = "planned" /\ row = [t \in Tx |-> "none"]
      /\ approval \in [1 .. 2 -> {"none", "allowed"}] /\ saved = NothingSaved
      /\ pc = "idle" /\ run = Idle /\ sent = {} /\ mined = {} /\ reverted = {}
      /\ arrived = {} /\ reported = {} /\ refunded = {} /\ deposit = "none"
  BY DEF Init
<1>2. NoRoute \in MaybeRoutes
  BY DEF MaybeRoutes
<1>3. saved \in Checkpoints
  BY <1>1, <1>2 DEF NothingSaved, Checkpoints
<1>4. /\ saved.prepared = NoRoute /\ ~saved.converted /\ saved.replacement = NoRoute
      /\ ~saved.unwrapped /\ ~saved.context
      /\ \A n \in 2 .. 3 : saved.continuation[n] = NoRoute
  BY <1>1 DEF NothingSaved
<1>5. run \in Runs /\ run.leg = 1 /\ ~run.observing /\ run.result = "none"
  BY <1>1, <1>2 DEF Idle, Runs
<1>6. \A t \in Tx : ~Intent(t)
  BY <1>1 DEF Intent
<1>7. TypeOK
  <2>1. position \in PositionStates /\ group \in GroupStates
    BY <1>1 DEF PositionStates, GroupStates
  <2>2. row \in [Tx -> StepStates \union {"none"}]
    BY <1>1
  <2>3. /\ saved.prepared \in Routes \union {NoRoute}
        /\ saved.replacement \in Routes \union {NoRoute}
        /\ saved.baseline \subseteq 0 .. 1
        /\ saved.continuation \in [2 .. 3 -> Routes \union {NoRoute}]
    BY <1>3 DEF Checkpoints, MaybeRoutes
  <2>4. approval \in [1 .. 2 -> {"none", "allowed", "recorded", "sent", "ok", "reverted"}]
    BY <1>1
  <2>5. /\ sent \subseteq Tx /\ mined \union reverted \subseteq sent
        /\ arrived \union reported \union refunded \subseteq mined
    BY <1>1
  <2> QED
    BY <2>1, <2>2, <2>3, <2>4, <2>5 DEF TypeOK
<1>8. IsFiniteSet(sent)
  BY <1>1, FS_EmptySet
<1>9. Types
  BY <1>1, <1>3, <1>5, <1>7, <1>8 DEF Types, Deposits
<1>10. IntentInv
  BY <1>1, <1>6 DEF IntentInv, IntentMatchesPreparation
<1>11. CheckInv
  <2>1. ~AssetIntent
    BY <1>6 DEF AssetIntent
  <2>2. ~Approved
    BY <1>1 DEF Approved
  <2> QED
    BY <1>4, <1>6, <2>1, <2>2 DEF CheckInv
<1>12. PlaceInv
  BY <1>1, <1>5 DEF PlaceInv, LegPlaces, Opened
<1>13. OutcomeInv
  BY <1>1, <1>5 DEF OutcomeInv, LegPlaces, Opened
<1> QED
  BY <1>9, <1>10, <1>11, <1>12, <1>13 DEF IInv

\* The inductive invariant: what the rows, the checkpoints, the place of the
\* executor and the network say of one another.
THEOREM Invariant == Spec => []IInv
<1>1. Init => IInv
  BY InitInv
<1>2. IInv /\ [Next]_vars => IInv'
  BY TypesStep, IntentStep, CheckStep, PlaceStep, OutcomeStep DEF IInv
<1> QED
  BY <1>1, <1>2, PTL DEF Spec

\* Types; what the journal's tables admit.
THEOREM TypeCorrect == Spec => []TypeOK
<1>1. IInv => TypeOK
  BY DEF IInv, Types
<1> QED
  BY <1>1, Invariant, PTL

\* Every recorded transfer has the route the checkpoints hold for its leg, so
\* a restart finds it and never prepares another.
THEOREM IntentIsFound == Spec => []IntentMatchesPreparation
<1>1. IInv => IntentMatchesPreparation
  BY DEF IInv, IntentInv
<1> QED
  BY <1>1, Invariant, PTL
-----------------------------------------------------------------------------
(* The promise of FundsPath, step by step.                                 *)

\* A leg whose route is saved is paid with what the legs before it delivered.
LEMMA SavedIsFunded ==
  ASSUME IInv, NEW n \in 1 .. 3, SavedRoute(n) # NoRoute
  PROVE  \A k \in 1 .. (n - 1) : Done(k)
<1>1. Types /\ IntentInv /\ CheckInv
  BY DEF IInv
<1>2. SavedRoute(2) # NoRoute => Done(1)
  <2>1. CASE Converts
    BY <1>1, <2>1 DEF SavedRoute, CheckInv
  <2>2. CASE ~Converts
    BY <1>1, <2>2 DEF SavedRoute, CheckInv
  <2> QED
    BY <2>1, <2>2
<1>3. Done(2) => Done(1)
  <2> SUFFICES ASSUME NEW t \in sent, t.leg = 2 PROVE Done(1)
    BY DEF Done
  <2>1. t \in Tx /\ Intent(t)
    BY <1>1 DEF Types, TypeOK, IntentInv
  <2>2. t.route = SavedRoute(2) /\ t.route # NoRoute
    BY <2>1, IntentIsSaved, RouteAssumption DEF Tx
  <2> QED
    BY <1>2, <2>2
<1>4. SavedRoute(3) # NoRoute => Done(2)
  <2>1. SavedRoute(3) # NoRoute => saved.continuation[3] # NoRoute
    BY DEF SavedRoute
  <2>2. \A m \in 2 .. 3 :
          saved.continuation[m] # NoRoute /\ ~(m = 2 /\ Converts) => Done(m - 1)
    BY <1>1 DEF CheckInv
  <2>3. saved.continuation[3] # NoRoute => Done(3 - 1)
    BY <2>2
  <2> QED
    BY <2>1, <2>3
<1>5. CASE n = 1
  BY <1>5
<1>6. CASE n = 2
  <2>1. 1 .. (n - 1) = {1}
    BY <1>6
  <2> QED
    BY <1>2, <1>6, <2>1
<1>7. CASE n = 3
  <2>1. 1 .. (n - 1) = {1, 2}
    BY <1>7
  <2> QED
    BY <1>3, <1>4, <1>7, <2>1
<1> QED
  BY <1>5, <1>6, <1>7

\* What was sent was recorded with the route the checkpoints hold, so at most
\* one transfer was sent for a leg.
LEMMA SentIsSaved ==
  ASSUME IInv, NEW t \in sent
  PROVE  /\ t \in Tx /\ t.leg \in 1 .. 3 /\ t.leg <= Len(Legs)
         /\ t = [leg |-> t.leg, route |-> SavedRoute(t.leg)]
         /\ \A k \in 1 .. (t.leg - 1) : Done(k)
<1>1. t \in Tx /\ Intent(t)
  BY DEF IInv, Types, TypeOK, IntentInv
<1>2. t.leg \in 1 .. 3 /\ t = [leg |-> t.leg, route |-> t.route] /\ t.route # NoRoute
  BY <1>1, RouteAssumption DEF Tx
<1>3. t.route = SavedRoute(t.leg) /\ t.leg <= Len(Legs)
  BY <1>1, IntentIsSaved
<1> QED
  BY <1>1, <1>2, <1>3, SavedIsFunded

LEMMA OnePerLeg ==
  ASSUME IInv, NEW t \in sent, NEW u \in sent, t.leg = u.leg
  PROVE  t = u
<1>1. /\ t = [leg |-> t.leg, route |-> SavedRoute(t.leg)]
      /\ u = [leg |-> u.leg, route |-> SavedRoute(u.leg)]
  BY SentIsSaved
<1> QED
  BY <1>1

\* A leg is sent out of funds that have arrived: everything sent before it
\* has delivered, and nothing after it was sent.
LEMMA LegIsFunded ==
  ASSUME IInv, pc \in LegPlaces, Current \notin sent
  PROVE  /\ \A t \in sent : Delivers(t)
         /\ Cardinality(sent) = run.leg - 1
         /\ deposit = "none"
<1>1. Types /\ PlaceInv /\ OutcomeInv
  BY DEF IInv
<1>2. /\ run.leg \in 1 .. 3 /\ run.leg <= Len(Legs)
      /\ run.route = SavedRoute(run.leg) /\ run.route # NoRoute
  BY <1>1 DEF PlaceInv, Types, Runs
<1>3. \A t \in sent : t.leg # run.leg
  <2> SUFFICES ASSUME NEW t \in sent, t.leg = run.leg PROVE FALSE
    OBVIOUS
  <2>1. t = [leg |-> t.leg, route |-> SavedRoute(t.leg)]
    BY SentIsSaved
  <2>2. t = Current
    BY <1>2, <2>1 DEF Current
  <2> QED
    BY <2>2
<1>4. ASSUME NEW t \in sent PROVE t.leg \in 1 .. (run.leg - 1)
  <2>1. t.leg \in 1 .. 3 /\ \A k \in 1 .. (t.leg - 1) : Done(k)
    BY SentIsSaved
  <2>2. ~Done(run.leg)
    BY <1>3 DEF Done
  <2>3. run.leg \notin 1 .. (t.leg - 1)
    BY <2>1, <2>2
  <2> QED
    BY <1>2, <1>3, <2>1, <2>3
<1>5. \A k \in 1 .. (run.leg - 1) : Done(k)
  BY <1>2, SavedIsFunded
<1>6. ASSUME NEW t \in sent PROVE Delivers(t)
  <2>1. Done(t.leg)
    BY <1>4, <1>5
  <2>2. PICK u \in sent : u.leg = t.leg /\ Delivers(u)
    BY <2>1 DEF Done
  <2>3. u = t
    BY <2>2, OnePerLeg
  <2> QED
    BY <2>2, <2>3
<1>7. Cardinality(sent) = run.leg - 1
  <2>1. CASE run.leg = 1
    <3>1. sent = {}
      BY <1>4, <2>1
    <3> QED
      BY <2>1, <3>1, FS_EmptySet
  <2>2. CASE run.leg = 2
    <3>1. Done(1)
      BY <1>5, <2>2
    <3>2. PICK t \in sent : t.leg = 1
      BY <3>1 DEF Done
    <3>3. \A u \in sent : u.leg = 1
      BY <1>4, <2>2
    <3>4. sent = {t}
      BY <3>2, <3>3, OnePerLeg
    <3> QED
      BY <2>2, <3>4, FS_Singleton
  <2>3. CASE run.leg = 3
    <3>1. Done(1) /\ Done(2)
      BY <1>5, <2>3
    <3>2. PICK t \in sent : t.leg = 1
      BY <3>1 DEF Done
    <3>3. PICK u \in sent : u.leg = 2
      BY <3>1 DEF Done
    <3>4. \A v \in sent : v.leg = 1 \/ v.leg = 2
      BY <1>4, <2>3
    <3>5. \A v \in sent : v = t \/ v = u
      BY <3>2, <3>3, <3>4, OnePerLeg
    <3>6. sent = {t} \union {u} /\ u \notin {t}
      BY <3>2, <3>3, <3>5
    <3>7. IsFiniteSet({t}) /\ Cardinality({t}) = 1
      BY FS_Singleton
    <3>8. Cardinality({t} \union {u}) = 2
      BY <3>6, <3>7, FS_AddElement
    <3> QED
      BY <2>3, <3>6, <3>8
  <2> QED
    BY <1>2, <2>1, <2>2, <2>3
<1>8. deposit = "none"
  <2> SUFFICES ASSUME deposit # "none" PROVE FALSE
    OBVIOUS
  <2>1. PICK t \in sent : t.leg = Len(Legs)
    BY <1>1 DEF OutcomeInv, Done
  <2>2. t.leg \in 1 .. (run.leg - 1)
    BY <1>4
  <2> QED
    BY <1>2, <2>1, <2>2
<1> QED
  BY <1>6, <1>7, <1>8

\* The exchange credits only what was delivered by every leg.
LEMMA DepositIsFunded ==
  ASSUME IInv, NEW t \in sent, t.leg = Len(Legs), Delivers(t)
  PROVE  \A u \in sent : Delivers(u)
<1> SUFFICES ASSUME NEW u \in sent PROVE Delivers(u)
  OBVIOUS
<1>1. /\ u.leg \in 1 .. 3 /\ u.leg <= Len(Legs) /\ t.leg \in 1 .. 3
      /\ \A k \in 1 .. (t.leg - 1) : Done(k)
  BY SentIsSaved
<1>2. CASE u.leg = t.leg
  <2>1. u = t
    BY <1>2, OnePerLeg
  <2> QED
    BY <2>1
<1>3. CASE u.leg # t.leg
  <2>1. u.leg \in 1 .. (t.leg - 1)
    BY <1>1, <1>3
  <2>2. PICK v \in sent : v.leg = u.leg /\ Delivers(v)
    BY <1>1, <2>1 DEF Done
  <2>3. v = u
    BY <2>2, OnePerLeg
  <2> QED
    BY <2>2, <2>3
<1> QED
  BY <1>2, <1>3
\* What FundsPath sees of a route.
Landed == {t \in sent : Delivers(t)}
Outcome == IF position = "completed" THEN "completed"
           ELSE IF Settled(position) THEN "review" ELSE "open"

LEMMA LandedMoves ==
  ASSUME IInv, [Next]_vars
  PROVE  \/ Landed' = Landed
         \/ /\ Mine \/ Bridge
            /\ mined' # mined \/ arrived' # arrived
            /\ sent' = sent /\ \E t \in sent \ Landed : Landed' = Landed \union {t}
<1>1. Types /\ IntentInv /\ CheckInv /\ PlaceInv
  BY DEF IInv
<1>2. arrived \subseteq sent /\ mined \subseteq sent
  BY <1>1 DEF Types, TypeOK
<1>3. CASE Legs' # Legs
  <2>1. /\ NextLeg \/ Migrate
        /\ Legs[1] = "hop" /\ Legs[1]' = "hop" /\ \A t \in Tx : Intent(t) => t.leg = 1
    BY <1>1, <1>3, LegsChange
  <2>2. \A t \in sent : t.leg = 1
    BY <1>1, <2>1 DEF Types, TypeOK, IntentInv
  <2>3. sent' = sent /\ arrived' = arrived
    BY <2>1 DEF NextLeg, Migrate, network
  <2>4. \A t \in sent : Delivers(t)' <=> Delivers(t)
    BY <2>1, <2>2, <2>3 DEF Delivers
  <2> QED
    BY <2>3, <2>4 DEF Landed
<1>4. CASE Legs' = Legs
  <2>1. CASE UNCHANGED network \/ Exchange
    BY <1>4, <2>1 DEF Exchange, network, Landed, Delivers
  <2>2. CASE Known \/ Send
    <3>1. /\ mined' = mined /\ arrived' = arrived
          /\ sent' = sent \/ sent' = sent \union {Current}
      BY <2>2 DEF Known, Send
    <3>2. \A t \in sent' : Delivers(t)' => t \in sent
      BY <1>2, <3>1, <1>4 DEF Delivers
    <3>3. \A t \in sent : t \in sent' /\ (Delivers(t)' <=> Delivers(t))
      BY <1>4, <3>1 DEF Delivers
    <3> QED
      BY <3>2, <3>3 DEF Landed
  <2>3. CASE Mine
    <3>1. sent' = sent /\ arrived' = arrived
      BY <2>3 DEF Mine
    <3>2. mined' = mined \/ \E t \in sent \ mined : mined' = mined \union {t}
      BY <2>3 DEF Mine
    <3>3. CASE mined' = mined
      BY <1>4, <3>1, <3>3 DEF Landed, Delivers
    <3>4. ASSUME NEW t \in sent \ mined, mined' = mined \union {t}
          PROVE  \/ Landed' = Landed
                 \/ mined' # mined /\ \E u \in sent \ Landed : Landed' = Landed \union {u}
      <4>1. \A u \in sent : u # t => (Delivers(u)' <=> Delivers(u))
        BY <1>4, <3>1, <3>4 DEF Delivers
      <4>2. CASE Legs[t.leg] \in {"hop", "bridge"}
        <5>1. Delivers(t)' <=> Delivers(t)
          BY <1>4, <3>1, <4>2 DEF Delivers
        <5> QED
          BY <3>1, <4>1, <5>1 DEF Landed
      <4>3. CASE Legs[t.leg] \notin {"hop", "bridge"}
        <5>1. ~Delivers(t) /\ Delivers(t)'
          BY <1>4, <3>4, <4>3 DEF Delivers
        <5>2. Landed' = Landed \union {t} /\ t \in sent \ Landed /\ mined' # mined
          BY <3>1, <3>4, <4>1, <5>1 DEF Landed
        <5> QED
          BY <5>2
      <4> QED
        BY <4>2, <4>3
    <3> QED
      BY <2>3, <3>1, <3>2, <3>3, <3>4
  <2>4. CASE Bridge
    <3>1. sent' = sent /\ mined' = mined
      BY <2>4 DEF Bridge
    <3>2. arrived' = arrived
          \/ \E t \in Bridged \ arrived : arrived' = arrived \union {t}
      BY <2>4 DEF Bridge
    <3>3. CASE arrived' = arrived
      BY <1>4, <3>1, <3>3 DEF Landed, Delivers
    <3>4. ASSUME NEW t \in Bridged \ arrived, arrived' = arrived \union {t}
          PROVE  arrived' # arrived /\ \E u \in sent \ Landed : Landed' = Landed \union {u}
      <4>1. \A u \in sent : u # t => (Delivers(u)' <=> Delivers(u))
        BY <1>4, <3>1, <3>4 DEF Delivers
      <4>2. t \in sent /\ Legs[t.leg] \in {"hop", "bridge"}
        BY <1>2 DEF Bridged
      <4>3. ~Delivers(t) /\ Delivers(t)'
        BY <1>4, <3>4, <4>2 DEF Delivers
      <4>4. Landed' = Landed \union {t} /\ t \in sent \ Landed /\ arrived' # arrived
        BY <3>1, <3>4, <4>1, <4>2, <4>3 DEF Landed
      <4> QED
        BY <4>4
    <3> QED
      BY <2>4, <3>1, <3>2, <3>3, <3>4
  <2> QED
    BY <2>1, <2>2, <2>3, <2>4, NetworkWriters
<1> QED
  BY <1>3, <1>4

\* A position is completed when its deposit is credited, and never reopened.
LEMMA OutcomeMoves ==
  ASSUME IInv, [Next]_vars
  PROVE  \/ Outcome' = Outcome
         \/ UNCHANGED network /\ \/ Outcome = "open" /\ Outcome' = "completed" /\ deposit = "success"
                                 \/ Outcome = "open" /\ Outcome' = "review"
                                 \/ Outcome = "review" /\ Outcome' = "open"
<1>1. Types /\ PlaceInv /\ OutcomeInv
  BY DEF IInv
<1>2. /\ "completed" \in SettledPositions
      /\ {"swap_submitted", "bridge_submitted", "requote_required",
          "source_asset_converted_bridge_pending", "deposit_pending"}
           \cap SettledPositions = {}
  BY DEF SettledPositions, Halts
<1>3. \A p \in SettledPositions : p \in PositionStates /\ PositionTransitions[p] = {}
  <2> SUFFICES ASSUME NEW p \in SettledPositions
               PROVE  p \in PositionStates /\ PositionTransitions[p] = {}
    OBVIOUS
  <2>1. p \in PositionStates
    BY DEF SettledPositions, PositionStates
  <2>2. p \notin {"planned", "swap_submitted", "source_asset_converted_bridge_pending",
                  "requote_required", "bridge_submitted", "bridge_timeout",
                  "direct_deposit_submitted", "deposit_pending", "gas_deferred"}
    BY DEF SettledPositions, Halts
  <2> QED
    BY <2>1, <2>2 DEF PositionTransitions
<1>4. CASE position' = position
  BY <1>4 DEF Outcome, Settled
<1>5. CASE Reactivate
  <2>1. position = "manual_review" /\ position' = "bridge_submitted" /\ UNCHANGED network
    BY <1>5 DEF Reactivate
  <2>2. "manual_review" \in SettledPositions
    BY DEF SettledPositions
  <2> QED
    BY <1>2, <2>1, <2>2 DEF Outcome, Settled
<1>6. CASE Start
  <2>1. position' = position
        \/ /\ position' \in {"swap_submitted", "bridge_submitted"}
           /\ PositionMayBecome(position, position')
    BY <1>6 DEF Start
  <2>2. CASE /\ position' \in {"swap_submitted", "bridge_submitted"}
             /\ PositionMayBecome(position, position')
    <3>1. position \notin SettledPositions
      BY <1>2, <1>3, <2>2 DEF PositionMayBecome
    <3> QED
      BY <1>2, <2>2, <3>1 DEF Outcome, Settled
  <2> QED
    BY <1>4, <2>1, <2>2
<1>7. CASE Receipt \/ Requote \/ StartBridge
  <2>1. /\ \/ position' = position
           \/ position' \in {"source_asset_converted_bridge_pending",
                             "requote_required", "bridge_submitted"}
        /\ pc \in {"receipt", "requote", "bridged"}
    BY <1>7 DEF Receipt, Requote, StartBridge
  <2>2. position \notin SettledPositions
    BY <1>1, <2>1 DEF OutcomeInv, Settled, LegPlaces, Opened
  <2> QED
    BY <1>2, <1>4, <2>1, <2>2 DEF Outcome, Settled
<1>8. CASE Convert
  <2>1. pc = "convert" /\ position' = "source_asset_converted_bridge_pending"
        /\ UNCHANGED network
    BY <1>8 DEF Convert
  <2>2. position # "completed"
    BY <1>1, <2>1 DEF OutcomeInv
  <2> QED
    BY <1>2, <2>1, <2>2 DEF Outcome, Settled
<1>9. CASE RecordOutcome
  <2>1. UNCHANGED network /\ pc = "settle"
        /\ (position' = position
            \/ (position' = run.result /\ PositionMayBecome(position, run.result)))
    BY <1>9 DEF RecordOutcome
  <2>2. CASE position' # position
    <3>1. position \notin SettledPositions
      BY <1>3, <2>1, <2>2 DEF PositionMayBecome
    <3>2. position' = "completed" => deposit = "success"
      BY <1>1, <2>1, <2>2 DEF OutcomeInv
    <3> QED
      BY <1>2, <2>1, <3>1, <3>2 DEF Outcome, Settled
  <2> QED
    BY <1>4, <2>2
<1> QED
  BY <1>4, <1>5, <1>6, <1>7, <1>8, <1>9, PositionWriters

LEMMA PathInit ==
  ASSUME Init
  PROVE  Promise!Init
<1>1. position = "planned" /\ sent = {} /\ deposit = "none"
  BY DEF Init
<1>2. Cardinality({}) = 0
  BY FS_EmptySet
<1>3. ~Settled("planned")
  BY DEF Settled, SettledPositions, Halts
<1> QED
  BY <1>1, <1>2, <1>3 DEF Promise!Init

\* The cardinality FundsPath counts with is the one of FiniteSets.
LEMMA SameCardinality ==
  ASSUME NEW S
  PROVE  Promise!Cardinality(S) = Cardinality(S)
BY DEF Promise!Cardinality, Cardinality

LEMMA PathStep ==
  ASSUME IInv, [Next]_vars
  PROVE  [Promise!Next]_(Promise!path)
<1>1. Types /\ PlaceInv /\ OutcomeInv /\ IntentInv
  BY DEF IInv
<1>2. IsFiniteSet(sent) /\ Landed \subseteq sent
  BY <1>1 DEF Types, Landed
<1>3. IsFiniteSet(Landed) /\ Cardinality(Landed) \in Nat
  BY <1>2, FS_Subset, FS_CardinalityType
<1>4. Landed = {t \in sent : IF Legs[t.leg] \in {"hop", "bridge"} THEN t \in arrived
                                                               ELSE t \in mined}
  BY DEF Landed, Delivers
<1>5. Landed' = {t \in sent' : IF Legs[t.leg]' \in {"hop", "bridge"} THEN t \in arrived'
                                                                 ELSE t \in mined'}
  BY DEF Landed, Delivers
<1>0. Promise!Cardinality(sent) = Cardinality(sent)
  BY SameCardinality
<1>6. ASSUME sent' = sent, Landed' = Landed, (deposit = "success")' <=> deposit = "success",
             Outcome' = Outcome
      PROVE  UNCHANGED Promise!path
  BY <1>4, <1>5, <1>6 DEF Promise!path, Outcome
<1>7. CASE UNCHANGED network
  <2>1. sent' = sent /\ deposit' = deposit /\ arrived' = arrived /\ mined' = mined
    BY <1>7 DEF network
  <2>2. Landed' = Landed
    BY <2>1, LandedMoves
  <2>3. CASE Outcome' = Outcome
    BY <1>6, <2>1, <2>2, <2>3
  <2>4. CASE Outcome = "open" /\ Outcome' = "completed" /\ deposit = "success"
    <3>1. Promise!Complete
      BY <1>4, <1>5, <2>1, <2>2, <2>4 DEF Promise!Complete, Outcome
    <3> QED
      BY <3>1 DEF Promise!Next
  <2>5. CASE Outcome = "open" /\ Outcome' = "review"
    <3>1. Promise!Review
      BY <1>4, <1>5, <2>1, <2>2, <2>5 DEF Promise!Review, Outcome
    <3> QED
      BY <3>1 DEF Promise!Next
  <2>6. CASE Outcome = "review" /\ Outcome' = "open"
    <3>1. Promise!Reopen
      BY <1>4, <1>5, <2>1, <2>2, <2>6 DEF Promise!Reopen, Outcome
    <3> QED
      BY <3>1 DEF Promise!Next
  <2> QED
    BY <2>3, <2>4, <2>5, <2>6, OutcomeMoves
<1>8. CASE ~UNCHANGED network
  <2>1. Outcome' = Outcome
    BY <1>8, OutcomeMoves
  <2>2. CASE Known \/ Send
    <3>1. /\ deposit' = deposit /\ pc \in LegPlaces
          /\ sent' = sent \/ sent' = sent \union {Current}
      BY <2>2 DEF Known, Send, Opens, LegPlaces, Opened
    <3>2. Landed' = Landed
      <4>1. mined' = mined /\ arrived' = arrived
        BY <2>2 DEF Known, Send
      <4> QED
        BY <4>1, LandedMoves
    <3>3. CASE sent' = sent
      BY <1>6, <2>1, <3>1, <3>2, <3>3
    <3>4. CASE sent' = sent \union {Current} /\ Current \notin sent
      <4>1. /\ \A t \in sent : Delivers(t)
            /\ Cardinality(sent) = run.leg - 1 /\ deposit = "none"
        BY <3>1, <3>4, LegIsFunded
      <4>2. Landed = sent
        BY <4>1 DEF Landed
      <4>3. ~Settled(position) /\ position # "completed"
        BY <1>1, <3>1 DEF OutcomeInv, Settled, SettledPositions
      <4>4. run.route \in Routes /\ run.leg \in 1 .. 3
        BY <1>1, <3>1 DEF PlaceInv, Types, Runs, MaybeRoutes
      <4>5. Current = [leg |-> Cardinality(sent) + 1, route |-> run.route]
        BY <4>1, <4>4 DEF Current
      <4>6. Promise!Send(run.route)
        BY <1>0, <1>4, <1>5, <2>1, <3>1, <3>2, <3>4, <4>1, <4>2, <4>3, <4>5
           DEF Promise!Send, Outcome
      <4> QED
        BY <4>4, <4>6 DEF Promise!Next
    <3> QED
      BY <3>1, <3>3, <3>4
  <2>3. CASE Mine \/ Bridge
    <3>1. sent' = sent /\ deposit' = deposit
      BY <2>3 DEF Mine, Bridge
    <3>2. CASE Landed' = Landed
      BY <1>6, <2>1, <3>1, <3>2
    <3>3. ASSUME NEW t \in sent \ Landed, Landed' = Landed \union {t}
          PROVE  Promise!Receive
      <4>1. Cardinality(Landed') = Cardinality(Landed) + 1
        BY <1>3, <3>3, FS_AddElement
      <4>2. Cardinality(Landed) < Cardinality(sent)
        <5>1. /\ Cardinality(Landed) <= Cardinality(sent)
              /\ Cardinality(Landed) = Cardinality(sent) => Landed = sent
          BY <1>2, FS_Subset
        <5>2. Cardinality(sent) \in Nat
          BY <1>2, FS_CardinalityType
        <5> QED
          BY <1>3, <3>3, <5>1, <5>2
      <4> QED
        BY <1>0, <1>4, <1>5, <2>1, <3>1, <4>1, <4>2 DEF Promise!Receive, Outcome
    <3> QED
      BY <3>2, <3>3, LandedMoves DEF Promise!Next
  <2>4. CASE Exchange
    <3>1. /\ sent' = sent /\ mined' = mined /\ arrived' = arrived
          /\ deposit # "success"
      BY <2>4 DEF Exchange
    <3>2. Landed' = Landed
      BY <3>1, LandedMoves
    <3>3. CASE deposit' # "success"
      BY <1>6, <2>1, <3>1, <3>2, <3>3
    <3>4. CASE deposit' = "success"
      <4>1. PICK t \in Tx : /\ t.leg = Len(Legs)
                            /\ t \in IF Legs[t.leg] = "direct" THEN mined ELSE arrived
        BY <2>4 DEF Exchange
      <4>2. t \in sent
        BY <1>1, <4>1 DEF Types, TypeOK
      <4>3. Delivers(t)
        BY <4>1, LegFacts DEF Delivers
      <4>4. \A u \in sent : Delivers(u)
        BY <4>1, <4>2, <4>3, DepositIsFunded
      <4>5. Landed = sent
        BY <4>4 DEF Landed
      <4>6. Cardinality(sent) > 0
        <5>1. Cardinality(sent) \in Nat /\ Cardinality(sent) # 0
          BY <1>2, <4>2, FS_CardinalityType, FS_EmptySet
        <5> QED
          BY <5>1
      <4>7. Promise!Credit
        BY <1>0, <1>4, <1>5, <2>1, <3>1, <3>2, <3>4, <4>5, <4>6 DEF Promise!Credit, Outcome
      <4> QED
        BY <4>7 DEF Promise!Next
    <3> QED
      BY <3>3, <3>4
  <2> QED
    BY <1>8, <2>2, <2>3, <2>4, NetworkWriters
<1> QED
  BY <1>7, <1>8

\* RouteLegs implements FundsPath: every leg is sent once and paid with what
\* the leg before it delivered, and a route is completed only when the exchange
\* has credited it.
THEOREM PathIsKept == Spec => PathPromise
<1>1. IInv /\ [Next]_vars => [Promise!Next]_(Promise!path)
  BY PathStep
<1>2. Init => Promise!Init
  BY PathInit
<1> QED
  BY <1>1, <1>2, Invariant, PTL DEF Spec, PathPromise, Promise!Spec
=============================================================================
