---------------------------- MODULE QuoteProofs ----------------------------
(***************************************************************************)
(* The two tables of the quotes.  The safety properties of LifiQuota for   *)
(* every number of callers and every limit, window, reserve and cooldown:  *)
(* IInv adds what the store guarantees by writing the times of             *)
(* reservations in order, by keeping the latest cooldown and the smallest  *)
(* count, whatever clock the callers have read.                            *)
(* The safety properties of QuoteJobs for any number of invocations, any   *)
(* lease and any delay between a clock read and the write it decides:      *)
(* JobInv  adds what the compare-and-set of the row rests on: attempts are *)
(* fresh, and no clock that was read is ahead.                             *)
(***************************************************************************)
EXTENDS LifiQuota, QuoteJobs, FiniteSetTheorems, TLAPS

\* Reservations are written in the order of their times, never after the
\* last one the store remembers, and no caller's clock is ahead.
ReservationsOK ==
  /\ IsFiniteSet(requests)
  /\ \A r \in requests : r.at <= lastReserve
  /\ \A c \in Callers : pc[c] \in {"reserve", "answer"} => at[c] \in 1 .. now

\* The store remembers every cooldown asked for; who is past the last check
\* was so when the 429 was recorded, or came when its cooldown was over.
CooldownOK ==
  /\ \A s \in starts : s.id \in marked /\ s.at \in Nat
  /\ \A c \in Callers : pc[c] = "marked" => attempt[c] \in marked
  /\ \A q \in asked : q.until \in Nat /\ q.until <= blocked
  /\ \A q \in asked, c \in Callers :
       pc[c] = "marked" => attempt[c] \in q.marked \/ q.until <= now

\* Until its reset a count the provider said bounds what a quota has left.
Outstanding(p, left) ==
  /\ p.until <= left.reset /\ left.remaining # Unknown
  /\ left.remaining = 0 \/ p.behind + p.since + left.remaining <= p.remaining

CountOK ==
  \A p \in promises :
    /\ p \in [remaining : Nat, behind : Nat, since : Nat, until : Nat]
    /\ now < p.until => Outstanding(p, quota)

IInv == /\ TypeOK /\ ReservationsOK /\ CooldownOK /\ CountOK
        /\ WindowKept /\ ReserveKept /\ CooldownHonoured /\ ProviderCountKept

-----------------------------------------------------------------------------
(* Types.                                                                  *)

\* Init gives every variable a value of its type.
LEMMA TypeInit == Init => TypeOK
  BY QuotaAssumption DEF Init, TypeOK, NoQuota, Unknown, Never

\* Some requests are reserved later than a caller's.
LEMMA LaterType ==
  ASSUME IsFiniteSet(requests), NEW c \in Callers PROVE Later(c) \in Nat
  BY FS_CardinalityType, FS_Subset DEF Later

\* An observation keeps the quota in its range: a count never falls below
\* zero, a reset is never further than the provider's furthest.
LEMMA ObservedType ==
  ASSUME TypeOK, IsFiniteSet(requests), NEW c \in Callers,
         at[c] \in 1 .. MaxTime,
         NEW remaining \in Counts \union {Unknown},
         NEW limit \in (Counts \ {0}) \union {Unknown}, NEW ahead \in 0 .. Ahead
  PROVE  Observed(c, remaining, limit, at[c] + ahead) \in
           [remaining : 0 .. Unknown, reset : 0 .. MaxTime + Ahead,
            limit : 1 .. Unknown]
<1>1. Later(c) \in Nat
  BY LaterType
<1>2. /\ remaining \in 0 .. Unknown /\ limit \in 1 .. Unknown
      /\ at[c] + ahead \in 0 .. MaxTime + Ahead
  BY QuotaAssumption DEF Unknown
<1>3. QED
  BY <1>1, <1>2, QuotaAssumption, Z3
     DEF Observed, TypeOK, Unknown, FreshQuota, Least, Greatest

\* Every action keeps the types.
LEMMA TypeStep == ASSUME TypeOK, ReservationsOK, [Next]_vars PROVE TypeOK'
<1> USE QuotaAssumption DEF store, ledger, history, Goto, Leave
<1>1. CASE Tick
  BY <1>1 DEF Tick, TypeOK
<1>2. ASSUME NEW c \in Callers, TakeTurn(c) PROVE TypeOK'
  BY <1>2 DEF TakeTurn, TypeOK, Greatest
<1>3. ASSUME NEW c \in Callers, ReadClock(c) PROVE TypeOK'
  BY <1>3 DEF ReadClock, TypeOK
<1>4. ASSUME NEW c \in Callers, Refuse(c) PROVE TypeOK'
  BY <1>4 DEF Refuse, TypeOK, Never
<1>5. ASSUME NEW c \in Callers, Defer(c) PROVE TypeOK'
  BY <1>5 DEF Defer, TypeOK
<1>6. ASSUME NEW c \in Callers, ReserveRequest(c) PROVE TypeOK'
  <2>1. Cardinality(requests) \in Nat
    BY FS_CardinalityType DEF ReservationsOK
  <2>2. at[c] \in 1 .. now
    BY <1>6 DEF ReserveRequest, ReservationsOK
  <2>3. quota' \in [remaining : 0 .. Unknown, reset : 0 .. MaxTime + Ahead,
                    limit : 1 .. Unknown]
    BY <1>6, <2>2 DEF ReserveRequest, TypeOK, Admitted, Kept, Unknown
  <2>4. requests' \in SUBSET [id : 1 .. MaxRequests, at : 1 .. MaxTime,
                              planning : BOOLEAN]
    <3>1. Cardinality(requests) + 1 \in 1 .. MaxRequests
      BY <1>6, <2>1 DEF ReserveRequest
    <3>2. at[c] \in 1 .. MaxTime
      BY <2>2 DEF TypeOK
    <3>3. (c \in Planners) \in BOOLEAN
      OBVIOUS
    <3>4. [id |-> Cardinality(requests) + 1, at |-> at[c],
           planning |-> c \in Planners]
            \in [id : 1 .. MaxRequests, at : 1 .. MaxTime, planning : BOOLEAN]
      BY <3>1, <3>2, <3>3, Zenon
    <3>5. QED
      BY <1>6, <3>4 DEF ReserveRequest, TypeOK
  <2>5. QED
    BY <1>6, <2>1, <2>2, <2>3, <2>4 DEF ReserveRequest, TypeOK
<1>7. ASSUME NEW c \in Callers, MarkStarted(c) \/ SendRequest(c) PROVE TypeOK'
  <2>1. UNCHANGED <<requests, quota, blocked, dispatch, lastReserve, now, at,
                    attempt>>
    BY <1>7 DEF MarkStarted, SendRequest
  <2>2. attempt[c] \in 0 .. MaxRequests
    BY DEF TypeOK
  <2>3. marked' \in SUBSET (0 .. MaxRequests)
    <3>1. marked' = marked \/ marked' = marked \union {attempt[c]}
      BY <1>7 DEF MarkStarted, SendRequest
    <3>2. QED
      BY <2>2, <3>1 DEF TypeOK
  <2>4. lastStart' \in 0 .. MaxTime
    BY <1>7 DEF MarkStarted, SendRequest, TypeOK
  <2>5. pc' \in [Callers -> {"idle", "queued", "reserve", "reserved", "marked",
                            "sent", "answer"}]
    BY <1>7 DEF MarkStarted, SendRequest, TypeOK
  <2>6. QED
    BY <2>1, <2>3, <2>4, <2>5 DEF TypeOK
<1>8. ASSUME NEW c \in Callers, GiveUp(c) PROVE TypeOK'
  BY <1>8 DEF GiveUp, TypeOK, Never
<1>9. ASSUME NEW c \in Callers, AnswerArrives(c) PROVE TypeOK'
  BY <1>9 DEF AnswerArrives, TypeOK
<1>10. ASSUME NEW c \in Callers, Observe(c) PROVE TypeOK'
  <2>1. at[c] \in 1 .. MaxTime
    BY <1>10 DEF Observe, ReservationsOK, TypeOK
  <2>2. quota' \in [remaining : 0 .. Unknown, reset : 0 .. MaxTime + Ahead,
                    limit : 1 .. Unknown]
    BY <1>10, <2>1, ObservedType DEF Observe, ReservationsOK
  <2>3. blocked' \in 0 .. MaxTime + Retry
    BY <1>10, <2>1 DEF Observe, TypeOK, BlockUntil, Greatest
  <2>4. QED
    BY <1>10, <2>2, <2>3 DEF Observe, TypeOK, Never
<1>11. CASE UNCHANGED vars
  BY <1>11 DEF vars, TypeOK
<1> QED
  BY <1>1, <1>2, <1>3, <1>4, <1>5, <1>6, <1>7, <1>8, <1>9, <1>10, <1>11
     DEF Next, Step

-----------------------------------------------------------------------------
(* The order of reservations, the cooldowns and the provider's counts.     *)

\* A reservation is made at a time its caller has read, a whole tick after
\* the last one, so the store's times never go back.
LEMMA ReservationsStep ==
  ASSUME TypeOK, ReservationsOK, [Next]_vars PROVE ReservationsOK'
<1> USE QuotaAssumption DEF store, ledger, history, Goto, Leave, ReservationsOK
<1>1. CASE Tick
  BY <1>1 DEF Tick, TypeOK
<1>2. ASSUME NEW c \in Callers, ReadClock(c) PROVE ReservationsOK'
  BY <1>2 DEF ReadClock, TypeOK
<1>3. ASSUME NEW c \in Callers, ReserveRequest(c) PROVE ReservationsOK'
  <2>1. IsFiniteSet(requests')
    BY <1>3, FS_AddElement DEF ReserveRequest
  <2>2. lastReserve' = at[c] /\ lastReserve <= lastReserve'
    BY <1>3 DEF ReserveRequest, TypeOK, Never
  <2>3. \A r \in requests' : r.at <= lastReserve'
    BY <1>3, <2>2 DEF ReserveRequest, TypeOK
  <2>4. QED
    BY <1>3, <2>1, <2>3 DEF ReserveRequest, TypeOK
<1>4. ASSUME NEW c \in Callers, AnswerArrives(c) PROVE ReservationsOK'
  BY <1>4 DEF AnswerArrives, TypeOK
<1>5. ASSUME NEW c \in Callers,
             \/ TakeTurn(c) \/ Refuse(c) \/ Defer(c) \/ MarkStarted(c)
             \/ SendRequest(c) \/ GiveUp(c) \/ Observe(c)
      PROVE  ReservationsOK'
  BY <1>5 DEF TakeTurn, Refuse, Defer, MarkStarted, SendRequest, GiveUp, Observe,
     TypeOK
<1>6. CASE UNCHANGED vars
  BY <1>6 DEF vars
<1> QED
  BY <1>1, <1>2, <1>3, <1>4, <1>5, <1>6 DEF Next, Step

\* A mark is made after every cooldown the store knows, and the store knows
\* all of them: answers only lengthen what it keeps.
LEMMA CooldownStep ==
  ASSUME TypeOK, ReservationsOK, CooldownOK, CooldownHonoured, [Next]_vars
  PROVE  CooldownOK' /\ CooldownHonoured'
<1> USE DEF CooldownOK, CooldownHonoured, store, ledger, history, Goto, Leave
<1>1. CASE Tick
  BY <1>1, QuotaAssumption DEF Tick, TypeOK
<1>2. ASSUME NEW c \in Callers, MarkStarted(c)
      PROVE  CooldownOK' /\ CooldownHonoured'
  <2>1. \A q \in asked : q.until <= now
    BY <1>2, QuotaAssumption DEF MarkStarted, Cooldown, TypeOK
  <2>2. QED
    BY <1>2, <2>1 DEF MarkStarted, TypeOK
<1>3. ASSUME NEW c \in Callers, SendRequest(c)
      PROVE  CooldownOK' /\ CooldownHonoured'
  <2> DEFINE new == [id |-> attempt[c], at |-> now]
  <2>1. /\ new.id \in marked /\ new.at \in Nat
        /\ \A q \in asked : new.id \in q.marked \/ q.until <= new.at
    BY <1>3 DEF SendRequest, TypeOK
  <2>2. starts' = starts \union {new} /\ UNCHANGED <<marked, asked, blocked, now>>
    BY <1>3 DEF SendRequest
  <2>3. CooldownHonoured'
    BY <2>1, <2>2
  <2>4. CooldownOK'
    BY <1>3, <2>1, <2>2 DEF SendRequest, TypeOK
  <2>5. QED
    BY <2>3, <2>4
<1>4. ASSUME NEW c \in Callers, Observe(c)
      PROVE  CooldownOK' /\ CooldownHonoured'
  <2>1. CASE UNCHANGED <<blocked, asked>>
    BY <1>4, <2>1 DEF Observe, TypeOK
  <2>2. ASSUME NEW wait \in 1 .. Retry,
               blocked' = BlockUntil(at[c] + wait),
               asked' = asked \union
                          {[until |-> at[c] + wait, marked |-> marked]}
        PROVE  CooldownOK' /\ CooldownHonoured'
    <3>1. /\ at[c] + wait \in Nat /\ at[c] + wait <= blocked'
          /\ blocked <= blocked'
      BY <1>4, <2>2, QuotaAssumption
         DEF Observe, TypeOK, ReservationsOK, BlockUntil, Greatest
    <3>2. UNCHANGED <<starts, marked, now>>
      BY <1>4 DEF Observe
    <3>3. \A d \in Callers : pc'[d] = "marked" =>
                               pc[d] = "marked" /\ attempt'[d] = attempt[d]
      BY <1>4 DEF Observe, TypeOK
    <3> DEFINE new == [until |-> at[c] + wait, marked |-> marked]
    <3>4. \A q \in asked' :
            q \in asked \/ (q.until = at[c] + wait /\ q.marked = marked)
      <4>1. asked' = asked \union {new}
        BY <2>2, Zenon
      <4>2. new.until = at[c] + wait /\ new.marked = marked
        OBVIOUS
      <4> HIDE DEF new
      <4>3. QED
        BY <4>1, <4>2
    <3>5. CooldownHonoured'
      BY <3>2, <3>4
    <3>6. /\ \A s \in starts' : s.id \in marked' /\ s.at \in Nat
          /\ \A d \in Callers : pc'[d] = "marked" => attempt'[d] \in marked'
      BY <3>2, <3>3
    <3>7. ASSUME NEW q \in asked' PROVE q.until \in Nat /\ q.until <= blocked'
      <4>1. blocked \in Nat /\ blocked' \in Nat
        BY <2>2, <3>1, QuotaAssumption DEF TypeOK, BlockUntil, Greatest
      <4>2. CASE q \in asked
        BY <3>1, <4>1, <4>2
      <4>3. CASE q.until = at[c] + wait
        BY <3>1, <4>3
      <4>4. QED
        BY <3>4, <4>2, <4>3
    <3>8. \A q \in asked', d \in Callers :
            pc'[d] = "marked" => attempt'[d] \in q.marked \/ q.until <= now'
      BY <3>2, <3>3, <3>4
    <3>9. QED
      BY <3>5, <3>6, <3>7, <3>8
  <2>3. QED
    BY <1>4, <2>1, <2>2 DEF Observe
<1>5. ASSUME NEW c \in Callers,
             \/ TakeTurn(c) \/ ReadClock(c) \/ Refuse(c) \/ Defer(c)
             \/ ReserveRequest(c) \/ GiveUp(c) \/ AnswerArrives(c)
      PROVE  CooldownOK' /\ CooldownHonoured'
  <2>1. UNCHANGED <<starts, marked, asked, blocked, now>>
    BY <1>5 DEF TakeTurn, ReadClock, Refuse, Defer, ReserveRequest, GiveUp,
       AnswerArrives
  <2>2. \A d \in Callers : pc'[d] = "marked" =>
                             pc[d] = "marked" /\ attempt'[d] = attempt[d]
    BY <1>5 DEF TakeTurn, ReadClock, Refuse, Defer, ReserveRequest, GiveUp,
       AnswerArrives, TypeOK
  <2>3. QED
    BY <2>1, <2>2
<1>6. CASE UNCHANGED vars
  BY <1>6 DEF vars
<1> QED
  BY <1>1, <1>2, <1>3, <1>4, <1>5, <1>6 DEF Next, Step

\* What is recorded of an answer bounds the count that was said and lowers,
\* never raises, what an earlier answer has left until its reset.
LEMMA ObservedCount ==
  ASSUME TypeOK, ReservationsOK, CountOK, NEW c \in Callers, pc[c] = "answer",
         NEW remaining \in Counts \union {Unknown},
         NEW limit \in (Counts \ {0}) \union {Unknown}, NEW ahead \in 0 .. Ahead,
         quota' = Observed(c, remaining, limit, at[c] + ahead),
         promises' = Promised(c, remaining, at[c] + ahead), now' = now
  PROVE  CountOK'
<1>1. Later(c) \in Nat
  BY LaterType DEF ReservationsOK
<1>2. at[c] \in 1 .. now /\ now \in Nat /\ at[c] + ahead \in Nat
  BY QuotaAssumption DEF ReservationsOK, TypeOK
<1>3. /\ remaining \in 0 .. Unknown /\ limit \in 1 .. Unknown /\ Unknown \in Nat
      /\ (remaining # Unknown => remaining \in Nat)
      /\ quota.remaining \in 0 .. Unknown /\ quota.reset \in Nat
  BY QuotaAssumption DEF Unknown, TypeOK
<1>4. ASSUME NEW p \in promises, now < p.until PROVE Outstanding(p, quota')
  <2>1. Outstanding(p, quota) /\ FreshQuota(at[c]) /\ p.until \in Nat
    BY <1>2, <1>3, <1>4 DEF CountOK, Outstanding, FreshQuota
  <2>2. \/ quota' = quota
        \/ /\ quota'.remaining \in 0 .. quota.remaining
           /\ quota.reset <= quota'.reset
    BY <1>1, <1>2, <1>3, <2>1, Z3 DEF Observed, Least, Greatest
  <2>3. p \in [remaining : Nat, behind : Nat, since : Nat, until : Nat]
    BY DEF CountOK
  <2>4. CASE quota' = quota
    BY <2>1, <2>4 DEF Outstanding, Unknown
  <2>5. CASE /\ quota'.remaining \in 0 .. quota.remaining
             /\ quota.reset <= quota'.reset
    <3>1. quota'.reset \in Nat
      BY <1>1, <1>2, <1>3, <2>1, Z3 DEF Observed, Least, Greatest
    <3>2. QED
      BY <1>3, <2>1, <2>3, <2>5, <3>1 DEF Outstanding, Unknown
  <2>6. QED
    BY <2>2, <2>4, <2>5
<1>5. ASSUME remaining # Unknown, at[c] < at[c] + ahead
      PROVE  /\ at[c] + ahead <= quota'.reset
             /\ quota'.remaining \in Nat /\ quota'.remaining # Unknown
             /\ \/ quota'.remaining = 0
                \/ Later(c) + quota'.remaining <= remaining
  BY <1>1, <1>2, <1>3, <1>5, Z3 DEF Observed, FreshQuota, Least, Greatest
<1>6. ASSUME NEW p \in promises', p \notin promises
      PROVE  /\ p \in [remaining : Nat, behind : Nat, since : Nat, until : Nat]
             /\ Outstanding(p, quota')
  <2>1. /\ remaining # Unknown /\ at[c] < at[c] + ahead
        /\ p = [remaining |-> remaining, behind |-> Later(c), since |-> 0,
                until |-> at[c] + ahead]
    BY <1>2, <1>6 DEF Promised
  <2>2. /\ p.remaining = remaining /\ p.behind = Later(c) /\ p.since = 0
        /\ p.until = at[c] + ahead
    BY <2>1
  <2>3. p \in [remaining : Nat, behind : Nat, since : Nat, until : Nat]
    BY <1>1, <1>2, <1>3, <2>1
  <2>4. Outstanding(p, quota')
    BY <1>1, <1>2, <1>3, <1>5, <2>1, <2>2 DEF Outstanding, Unknown
  <2>5. QED
    BY <2>3, <2>4
<1>7. QED
  BY <1>4, <1>6 DEF CountOK

\* A reservation before the reset takes one of what is left.
LEMMA CountStep ==
  ASSUME TypeOK, ReservationsOK, CountOK, ProviderCountKept, [Next]_vars
  PROVE  CountOK' /\ ProviderCountKept'
<1>1. ASSUME NEW c \in Callers, ReserveRequest(c)
      PROVE  CountOK' /\ ProviderCountKept'
  <2> DEFINE Counted(p) == IF now < p.until THEN [p EXCEPT !.since = @ + 1]
                           ELSE p
  <2>1. promises' = {Counted(p) : p \in promises} /\ now' = now
    BY <1>1 DEF ReserveRequest
  <2>2. at[c] \in 1 .. now /\ now \in Nat
    BY <1>1 DEF ReserveRequest, ReservationsOK, TypeOK
  <2>3. /\ quota.remaining \in 0 .. Unknown /\ quota.reset \in Nat
        /\ Kept(c) \in Nat /\ Unknown \in Nat
    BY QuotaAssumption DEF TypeOK, Kept, Unknown
  <2>4. ASSUME NEW p \in promises
        PROVE  /\ Counted(p) \in [remaining : Nat, behind : Nat, since : Nat,
                                  until : Nat]
               /\ now < Counted(p).until => Outstanding(Counted(p), quota')
               /\ \/ Counted(p).since = 0
                  \/ Counted(p).behind + Counted(p).since <= Counted(p).remaining
    <3>1. p \in [remaining : Nat, behind : Nat, since : Nat, until : Nat]
      BY DEF CountOK
    <3>2. CASE now < p.until
      <4>1. Outstanding(p, quota) /\ FreshQuota(at[c])
        BY <2>2, <2>3, <3>1, <3>2 DEF CountOK, Outstanding, FreshQuota
      <4>2. quota.remaining > 0
        BY <1>1, <2>3, <4>1 DEF ReserveRequest, Admitted, Outstanding
      <4>3. quota' = [quota EXCEPT !.remaining = @ - 1]
        BY <1>1, <4>1 DEF ReserveRequest, Outstanding
      <4>4. /\ quota'.remaining = quota.remaining - 1
            /\ quota'.reset = quota.reset
        BY <4>3 DEF TypeOK
      <4>5. p.behind + p.since + quota.remaining <= p.remaining
        BY <2>3, <4>1, <4>2 DEF Outstanding
      <4>6. /\ Counted(p) \in [remaining : Nat, behind : Nat, since : Nat,
                               until : Nat]
            /\ Counted(p).remaining = p.remaining /\ Counted(p).behind = p.behind
            /\ Counted(p).since = p.since + 1 /\ Counted(p).until = p.until
        BY <3>1, <3>2
      <4> HIDE DEF Counted
      <4>7. Outstanding(Counted(p), quota')
        BY <2>3, <3>1, <4>1, <4>2, <4>4, <4>5, <4>6 DEF Outstanding, Unknown
      <4>8. Counted(p).behind + Counted(p).since <= Counted(p).remaining
        BY <2>3, <3>1, <4>2, <4>5, <4>6
      <4>9. QED
        BY <4>6, <4>7, <4>8
    <3>3. CASE ~(now < p.until)
      BY <3>1, <3>3 DEF ProviderCountKept
    <3>4. QED
      BY <3>2, <3>3
  <2> HIDE DEF Counted
  <2>5. QED
    BY <2>1, <2>4 DEF CountOK, ProviderCountKept
<1>2. ASSUME NEW c \in Callers, Observe(c)
      PROVE  CountOK' /\ ProviderCountKept'
  <2>1. PICK remaining \in Counts \union {Unknown},
             limit \in (Counts \ {0}) \union {Unknown}, ahead \in 0 .. Ahead :
               /\ quota' = Observed(c, remaining, limit, at[c] + ahead)
               /\ promises' = Promised(c, remaining, at[c] + ahead)
    BY <1>2 DEF Observe
  <2>2. pc[c] = "answer" /\ now' = now
    BY <1>2 DEF Observe
  <2>3. CountOK'
    BY <2>1, <2>2, ObservedCount
  <2>4. \A p \in promises' : p \in promises \/ p.since = 0
    BY <2>1 DEF Promised
  <2>5. QED
    BY <2>3, <2>4 DEF ProviderCountKept
<1>3. CASE Tick
  BY <1>3 DEF Tick, TypeOK, CountOK, ProviderCountKept,
     store, history
<1>4. CASE UNCHANGED <<promises, quota, now>>
  BY <1>4 DEF CountOK, ProviderCountKept
<1>5. ASSUME NEW c \in Callers,
             \/ TakeTurn(c) \/ ReadClock(c) \/ Refuse(c) \/ Defer(c)
             \/ MarkStarted(c) \/ SendRequest(c) \/ GiveUp(c)
             \/ AnswerArrives(c)
      PROVE  UNCHANGED <<promises, quota, now>>
  BY <1>5 DEF store, history, TakeTurn, ReadClock, Refuse, Defer, MarkStarted,
     SendRequest, GiveUp, AnswerArrives
<1>6. CASE UNCHANGED vars
  BY <1>4, <1>6 DEF vars, store, history
<1> QED
  BY <1>1, <1>2, <1>3, <1>4, <1>5, <1>6 DEF Next, Step

-----------------------------------------------------------------------------
(* The windows.                                                            *)

\* One reservation adds at most one to what a set of them counts.
LEMMA AtMostOneMore ==
  ASSUME NEW was, IsFiniteSet(was), NEW new, NEW some,
         some \subseteq was \union {new}, NEW n \in Nat, Cardinality(was) <= n
  PROVE  Cardinality(some) \in Nat /\ Cardinality(some) <= n + 1
<1>1. IsFiniteSet(was \union {new})
  BY FS_AddElement, Zenon
<1>2. IsFiniteSet(some) /\ Cardinality(some) <= Cardinality(was \union {new})
  BY <1>1, FS_Subset, Zenon
<1>3. /\ Cardinality(some) \in Nat /\ Cardinality(was) \in Nat
      /\ Cardinality(was \union {new}) \in Nat
  BY <1>1, <1>2, FS_CardinalityType, Zenon
<1>4. Cardinality(was \union {new}) \in {Cardinality(was), Cardinality(was) + 1}
  BY FS_AddElement
<1> QED
  BY <1>2, <1>3, <1>4

\* What an admitted request finds in its window, and may add to any other:
\* the windows it is in hold nothing but itself and what it counted.
LEMMA WindowsMeet ==
  ASSUME TypeOK, ReservationsOK, NEW time \in Int, NEW start \in Int,
         start <= time, NEW some \in SUBSET requests
  PROVE  /\ IsFiniteSet(During(some, time)) /\ IsFiniteSet(InWindow(start))
         /\ Cardinality(During(some, time)) <= Cardinality(InWindow(start))
         /\ Cardinality(During(some, time)) \in Nat
         /\ Cardinality(InWindow(start)) \in Nat
<1>1. During(some, time) \subseteq InWindow(start)
  BY QuotaAssumption DEF During, InWindow, TypeOK
<1>2. InWindow(start) \subseteq requests
  BY DEF InWindow
<1>3. IsFiniteSet(InWindow(start))
  BY <1>2, FS_Subset DEF ReservationsOK
<1> QED
  BY <1>1, <1>3, FS_Subset, FS_CardinalityType

\* An admitted request leaves room for itself below the limit, a planning
\* one below the limit less the reserve.
LEMMA AdmittedFits ==
  ASSUME TypeOK, NEW c \in Callers, NEW time, Admitted(c, time),
         Cardinality(InWindow(time)) \in Nat
  PROVE  /\ Cardinality(InWindow(time)) + 1 <= Limit
         /\ c \in Planners =>
              Cardinality(InWindow(time)) + 1 <= Limit - Reserve
<1>1. Ceiling(time) \in Nat /\ Ceiling(time) <= Limit
  BY QuotaAssumption DEF Ceiling, Least, TypeOK, Unknown
<1> QED
  BY <1>1, QuotaAssumption DEF Admitted, Kept

\* No reservation takes a window over its limit or planning into the reserve.
LEMMA WindowsStep ==
  ASSUME TypeOK, ReservationsOK, WindowKept, ReserveKept, [Next]_vars
  PROVE  WindowKept' /\ ReserveKept'
<1> DEFINE Planning(some) == {r \in some : r.planning}
<1>1. ASSUME NEW c \in Callers, ReserveRequest(c)
      PROVE  WindowKept' /\ ReserveKept'
  <2> SUFFICES ASSUME NEW time \in 1 .. MaxTime
               PROVE  /\ Cardinality(During(requests', time)) <= Limit
                      /\ Cardinality(Planning(During(requests', time)))
                           <= Limit - Reserve
    BY DEF WindowKept, ReserveKept, During
  <2> DEFINE new == [id |-> Cardinality(requests) + 1, at |-> at[c],
                     planning |-> c \in Planners]
             was == During(requests, time)
  <2>1. requests' = requests \union {new}
    BY <1>1 DEF ReserveRequest
  <2>2. at[c] \in 1 .. MaxTime
    <3>1. at[c] \in 1 .. now
      BY <1>1 DEF ReserveRequest, ReservationsOK
    <3>2. QED
      BY <3>1, QuotaAssumption DEF TypeOK
  <2>3. IsFiniteSet(was) /\ Cardinality(was) <= Limit
    <3>1. was \in SUBSET requests
      BY DEF During
    <3>2. IsFiniteSet(was)
      BY <3>1, FS_Subset, Zenon DEF ReservationsOK
    <3>3. QED
      BY <3>2 DEF WindowKept
  <2>4. Cardinality(Planning(was)) <= Limit - Reserve
    BY DEF ReserveKept
  <2>5. CASE time < at[c]
    <3>1. During(requests', time) = was
      BY <2>1, <2>2, <2>5 DEF During
    <3>2. QED
      BY <3>1, <2>3, <2>4
  <2>6. CASE at[c] <= time
    <3> DEFINE counted == Cardinality(InWindow(at[c]))
    <3>1. /\ Cardinality(was) \in Nat /\ Cardinality(was) <= counted
          /\ counted \in Nat
      BY <2>2, <2>6, WindowsMeet
    <3>2. /\ counted + 1 <= Limit
          /\ c \in Planners => counted + 1 <= Limit - Reserve
      BY <1>1, <3>1, AdmittedFits DEF ReserveRequest
    <3>3. ASSUME NEW some, some \subseteq was \union {new}
          PROVE  Cardinality(some) \in Nat /\ Cardinality(some) <= counted + 1
      BY <2>3, <3>1, <3>3, AtMostOneMore
    <3>4. During(requests', time) \subseteq was \union {new}
      BY <2>1 DEF During
    <3>5. Cardinality(During(requests', time)) <= Limit
      BY <3>1, <3>2, <3>3, <3>4, QuotaAssumption
    <3>6. CASE c \in Planners
      <4>1. Planning(During(requests', time)) \subseteq was \union {new}
        BY <3>4
      <4>2. QED
        BY <3>1, <3>2, <3>3, <3>5, <3>6, <4>1, QuotaAssumption
    <3>7. CASE c \notin Planners
      <4>1. ~new.planning
        BY <3>7
      <4>2. Planning(During(requests', time)) = Planning(was)
        BY <2>1, <4>1 DEF During
      <4>3. QED
        BY <2>4, <3>5, <4>2
    <3> QED
      BY <3>6, <3>7
  <2> QED
    BY <2>2, <2>5, <2>6
<1>2. CASE UNCHANGED requests
  BY <1>2 DEF WindowKept, ReserveKept, During
<1> QED
  BY <1>1, <1>2 DEF Next, Step, vars, store, ledger, history, Tick,
     TakeTurn, ReadClock, Refuse, Defer, MarkStarted, SendRequest, GiveUp,
     AnswerArrives, Observe

-----------------------------------------------------------------------------
(* The theorems about LifiQuota.                                             *)

\* IInv is inductive.
LEMMA InvInit == Init => IInv
<1> SUFFICES ASSUME Init PROVE IInv
  OBVIOUS
<1>1. TypeOK
  BY TypeInit
<1>2. ReservationsOK /\ CooldownOK /\ CountOK /\ CooldownHonoured /\ ProviderCountKept
  BY FS_EmptySet
     DEF Init, ReservationsOK, CooldownOK, CountOK, CooldownHonoured,
         ProviderCountKept
<1>3. \A time \in 1 .. MaxTime :
        During(requests, time) = {} /\ {r \in During(requests, time) : r.planning} = {}
  BY DEF Init, During
<1>4. WindowKept /\ ReserveKept
  BY <1>3, FS_EmptySet, QuotaAssumption DEF WindowKept, ReserveKept
<1> QED
  BY <1>1, <1>2, <1>4 DEF IInv

LEMMA InvStep == IInv /\ [Next]_vars => IInv'
  BY TypeStep, ReservationsStep, CooldownStep, CountStep, WindowsStep DEF IInv

LEMMA Invariant == Spec => []IInv
  BY InvInit, InvStep, PTL DEF Spec

\* Every variable has its type: in particular no count of the quota ever
\* falls below zero, however the answers arrive (observe, reserve_request).
THEOREM TypeCorrect == Spec => []TypeOK
<1>1. IInv => TypeOK
  BY DEF IInv
<1> QED
  BY <1>1, Invariant, PTL

\* No window of any length holds more reservations than its limit, whatever
\* clock its callers have read before they got the lock (reserve_request).
THEOREM WindowIsKept == Spec => []WindowKept
<1>1. IInv => WindowKept
  BY DEF IInv
<1> QED
  BY <1>1, Invariant, PTL

\* Planning never uses the reserve of execution (reserve_request).
THEOREM ReserveIsKept == Spec => []ReserveKept
<1>1. IInv => ReserveKept
  BY DEF IInv
<1> QED
  BY <1>1, Invariant, PTL

\* No more requests are reserved before a provider's reset than what was
\* left of the count it said when its answer was recorded (observe).
THEOREM ProviderCountIsKept == Spec => []ProviderCountKept
<1>1. IInv => ProviderCountKept
  BY DEF IInv
<1> QED
  BY <1>1, Invariant, PTL

\* A request not yet marked as started when a 429 was recorded is not sent
\* before its cooldown is over: mark_started looks again under the lock, and
\* observe keeps the latest end.
THEOREM CooldownIsHonoured == Spec => []CooldownHonoured
<1>1. IInv => CooldownHonoured
  BY DEF IInv
<1> QED
  BY <1>1, Invariant, PTL

-----------------------------------------------------------------------------
(* QuoteJobs.                                                              *)

\* A clock that was read is not ahead of the clock.
JobClockOK == \A o \in Owners : seen[o] <= clock /\ beat[o] <= clock

\* Attempts are fresh: no two invocations hold the same.
TokenOK ==
  /\ \A o \in Owners : token[o] <= attempts
  /\ \A o \in Owners : phase[o] \in Sending => token[o] # 0
  /\ \A o, p \in Owners : token[o] = token[p] /\ token[o] # 0 => o = p

\* An invocation waiting for its answer has the row as it left it, or its
\* lease has run out.
LeaseOK ==
  \A o \in Owners : phase[o] \in {"sent", "finish"} =>
    \/ held[o] <= clock
    \/ row.state = "inflight" /\ row.attempt = token[o] /\ row.lease = held[o]

JobInv == /\ JobTypeOK /\ JobClockOK /\ TokenOK /\ LeaseOK
        /\ AnswerOfLastClaim /\ spoiled \subseteq failures

JobRows == [state : {"none", "inflight", "expired"} \union Answered,
         attempt : 0 .. MaxAttempts, owner : Owners \union {"none"},
         lease : 0 .. MaxClock + Lease, expires : 0 .. MaxClock + Ttl,
         retry : 0 .. MaxClock + Wait, bad : BOOLEAN, of : 0 .. MaxAttempts]

-----------------------------------------------------------------------------
(* Types and clocks.                                                       *)

\* Init gives every variable a value of its type, and nothing is under way.
LEMMA JobInvInit == JobInit => JobInv
  BY JobAssumption DEF JobInit, JobInv, JobTypeOK, JobClockOK, TokenOK, LeaseOK,
     AnswerOfLastClaim, NoRow, NoTime, Times, Answered, Sending

\* What the row becomes is a row, whoever writes it.
LEMMA RowStep ==
  ASSUME JobTypeOK, NEW o \in Owners PROVE
    /\ Claim(o) => row' \in JobRows
    /\ Renew(o) => row' \in JobRows
    /\ Finish(o) => row' \in JobRows
    /\ Fail(o) => row' \in JobRows
<1>1. /\ row \in JobRows /\ attempts \in 0 .. MaxAttempts
      /\ token[o] \in 0 .. MaxAttempts
      /\ seen[o] \in 0 .. MaxClock /\ beat[o] \in 0 .. MaxClock
      /\ clock \in 0 .. MaxClock
  BY DEF JobTypeOK, JobRows, Times
<1>2. /\ seen[o] + Lease \in 0 .. MaxClock + Lease /\ 0 \in 0 .. MaxClock + Lease
      /\ beat[o] + Lease \in 0 .. MaxClock + Lease
      /\ seen[o] + Ttl \in 0 .. MaxClock + Ttl /\ 0 \in 0 .. MaxClock + Ttl
      /\ clock + Wait \in 0 .. MaxClock + Wait /\ 0 \in 0 .. MaxClock + Wait
      /\ 0 \in 0 .. MaxAttempts
  BY <1>1, JobAssumption
<1>3. ASSUME Claim(o) PROVE row' \in JobRows
  <2>1. attempts' \in 0 .. MaxAttempts
    BY <1>1, <1>3, JobAssumption DEF Claim
  <2>2. row' = [state |-> "inflight", attempt |-> attempts', owner |-> o,
                lease |-> seen[o] + Lease, expires |-> 0, retry |-> 0,
                bad |-> FALSE, of |-> 0]
    BY <1>3 DEF Claim, NoRow, NoTime
  <2>3. QED
    BY <1>2, <2>1, <2>2 DEF JobRows
<1>4. ASSUME Renew(o) PROVE row' \in JobRows
  <2>1. row' \in {row, [row EXCEPT !.lease = beat[o] + Lease]}
    BY <1>4 DEF Renew
  <2>2. QED
    BY <1>1, <1>2, <2>1 DEF JobRows
<1>5. ASSUME Finish(o) PROVE row' \in JobRows
  <2>1. row' \in {row, [row EXCEPT !.state = "complete", !.lease = 0,
                                   !.expires = seen[o] + Ttl, !.of = token[o]]}
    BY <1>5 DEF Finish, NoTime
  <2>2. QED
    BY <1>1, <1>2, <2>1 DEF JobRows, Answered
<1>6. ASSUME Fail(o) PROVE row' \in JobRows
  <2>1. PICK state \in {"error", "quota_wait"}, bad \in BOOLEAN,
             retry \in {0, clock + Wait} :
          row' \in {row, [row EXCEPT !.state = state, !.bad = bad,
                                     !.retry = retry, !.lease = 0,
                                     !.of = token[o]]}
    BY <1>6 DEF Fail, NoTime
  <2>2. retry \in 0 .. MaxClock + Wait
    BY <1>2
  <2>3. QED
    BY <1>1, <1>2, <2>1, <2>2 DEF JobRows, Answered
<1> QED
  BY <1>3, <1>4, <1>5, <1>6

\* Every action keeps the types, the clocks and what follows from them.
LEMMA JobTypeStep ==
  ASSUME JobTypeOK, JobClockOK, [JobNext]_jobVars
  PROVE  JobTypeOK' /\ JobClockOK'
<1> USE JobAssumption DEF worker, ghost, Enter, NoteTime, JobTypeOK, JobClockOK,
        Times, Sending, NoTime
<1>1. CASE JobTick
  BY <1>1 DEF JobTick
<1>2. ASSUME NEW o \in Owners, Look(o) PROVE JobTypeOK' /\ JobClockOK'
  BY <1>2 DEF Look
<1>3. ASSUME NEW o \in Owners, Read(o) PROVE JobTypeOK' /\ JobClockOK'
  BY <1>3 DEF Read
<1>4. ASSUME NEW o \in Owners, LookAgain(o) PROVE JobTypeOK' /\ JobClockOK'
  BY <1>4 DEF LookAgain
<1>5. ASSUME NEW o \in Owners, ClaimRefused(o) PROVE JobTypeOK' /\ JobClockOK'
  BY <1>5 DEF ClaimRefused
<1>6. ASSUME NEW o \in Owners, Claim(o) PROVE JobTypeOK' /\ JobClockOK'
  <2>1. row' \in JobRows
    BY <1>6, RowStep
  <2>2. QED
    BY <1>6, <2>1 DEF Claim, JobRows
<1>7. ASSUME NEW o \in Owners, Beat(o) PROVE JobTypeOK' /\ JobClockOK'
  BY <1>7 DEF Beat
<1>8. ASSUME NEW o \in Owners, Renew(o) PROVE JobTypeOK' /\ JobClockOK'
  <2>1. row' \in JobRows
    BY <1>8, RowStep
  <2>2. QED
    <3>1. held' \in [Owners -> 0 .. MaxClock + Lease]
      BY <1>8 DEF Renew
    <3>2. beat' \in [Owners -> Times] /\ \A p \in Owners : beat'[p] <= clock
      BY <1>8 DEF Renew
    <3>3. beating' \in {beating, [beating EXCEPT ![o] = FALSE]}
      BY <1>8 DEF Renew
    <3>4. beating' \in [Owners -> BOOLEAN]
      BY <3>3
    <3>5. QED
      BY <1>8, <2>1, <3>1, <3>2, <3>4 DEF Renew, JobRows
<1>9. ASSUME NEW o \in Owners, ProviderAnswers(o)
      PROVE  JobTypeOK' /\ JobClockOK'
  BY <1>9 DEF ProviderAnswers
<1>10. ASSUME NEW o \in Owners, RequestFails(o) PROVE JobTypeOK' /\ JobClockOK'
  BY <1>10 DEF RequestFails
<1>11. ASSUME NEW o \in Owners, Finish(o) PROVE JobTypeOK' /\ JobClockOK'
  <2>1. row' \in JobRows
    BY <1>11, RowStep
  <2>2. QED
    BY <1>11, <2>1 DEF Finish, JobRows
<1>12. ASSUME NEW o \in Owners, FailLater(o) PROVE JobTypeOK' /\ JobClockOK'
  BY <1>12 DEF FailLater
<1>13. ASSUME NEW o \in Owners, Fail(o) PROVE JobTypeOK' /\ JobClockOK'
  <2>1. row' \in JobRows
    BY <1>13, RowStep
  <2>2. QED
    BY <1>13, <2>1 DEF Fail, JobRows
<1>14. ASSUME NEW o \in Owners, Crash(o) PROVE JobTypeOK' /\ JobClockOK'
  BY <1>14 DEF Crash
<1>15. CASE UNCHANGED jobVars
  BY <1>15 DEF jobVars
<1> QED
  BY <1>1, <1>2, <1>3, <1>4, <1>5, <1>6, <1>7, <1>8, <1>9, <1>10, <1>11,
     <1>12, <1>13, <1>14, <1>15 DEF JobNext, JobStep

-----------------------------------------------------------------------------
(* Attempts, leases and answers.                                           *)

\* A claim takes an attempt nobody holds; no other action hands one out.
LEMMA TokenStep ==
  ASSUME JobTypeOK, TokenOK, [JobNext]_jobVars PROVE TokenOK'
<1> USE DEF Enter, Sending, JobTypeOK, TokenOK
<1>1. ASSUME NEW o \in Owners, Claim(o) PROVE TokenOK'
  <2>1. \A p \in Owners : token[p] # attempts'
    BY <1>1 DEF Claim
  <2>2. QED
    BY <1>1, <2>1 DEF Claim
<1>2. ASSUME NEW o \in Owners,
             \/ Look(o) \/ Read(o) \/ LookAgain(o) \/ ClaimRefused(o)
             \/ Crash(o) \/ Fail(o)
      PROVE  TokenOK'
  <2>1. UNCHANGED <<token, attempts>>
    BY <1>2 DEF ghost, Look, Read, LookAgain, ClaimRefused, Crash, Fail
  <2>2. \A p \in Owners : phase'[p] \in Sending => phase[p] \in Sending
    BY <1>2 DEF Look, Read, LookAgain, ClaimRefused, Crash, Fail
  <2>3. QED
    BY <2>1, <2>2
<1>3. ASSUME NEW o \in Owners, Beat(o) \/ Renew(o) PROVE TokenOK'
  <2>1. UNCHANGED <<phase, token, attempts>>
    BY <1>3 DEF Beat, Renew, ghost
  <2>2. QED
    BY <2>1
<1>4. ASSUME NEW o \in Owners,
             \/ ProviderAnswers(o) \/ RequestFails(o) \/ Finish(o)
             \/ FailLater(o)
      PROVE  TokenOK'
  BY <1>4 DEF worker, ghost, NoteTime, ProviderAnswers, RequestFails, Finish,
     FailLater
<1>5. CASE JobTick \/ UNCHANGED jobVars
  BY <1>5 DEF JobTick, jobVars, worker, ghost
<1> QED
  BY <1>1, <1>2, <1>3, <1>4, <1>5 DEF JobNext, JobStep

\* Whoever changes the row of an invocation that still waits has seen its
\* lease run out; what the invocation changes itself, it is granted.
LEMMA LeaseStep ==
  ASSUME JobTypeOK, JobClockOK, TokenOK, LeaseOK, [JobNext]_jobVars
  PROVE  LeaseOK'
<1> USE JobAssumption DEF Enter, NoteTime, worker, ghost, LeaseOK
<1>1. CASE JobTick
  BY <1>1 DEF JobTick, JobTypeOK, Times
<1>2. ASSUME NEW o \in Owners, Read(o) PROVE LeaseOK'
  BY <1>2 DEF Read, JobTypeOK
<1>3. ASSUME NEW o \in Owners, Claim(o) PROVE LeaseOK'
  <2> SUFFICES ASSUME NEW p \in Owners, phase'[p] \in {"sent", "finish"}
               PROVE  \/ held'[p] <= clock'
                      \/ /\ row'.state = "inflight" /\ row'.attempt = token'[p]
                         /\ row'.lease = held'[p]
    OBVIOUS
  <2>1. ~(row.state = "inflight" /\ row.lease > seen[o])
    BY <1>3 DEF Claim, Refused
  <2>2. CASE p = o
    BY <1>3, <2>2 DEF Claim, JobTypeOK, NoRow
  <2>3. CASE p # o
    <3>1. /\ phase[p] \in {"sent", "finish"} /\ held'[p] = held[p]
          /\ clock' = clock
      BY <1>3, <2>3 DEF Claim, JobTypeOK
    <3>2. held[p] <= clock
      BY <2>1, <3>1 DEF JobTypeOK, JobClockOK, Times
    <3>3. QED
      BY <3>1, <3>2
  <2>4. QED
    BY <2>2, <2>3
<1>4. ASSUME NEW o \in Owners, Renew(o) PROVE LeaseOK'
  <2>1. CASE Holds(o, beat[o])
    BY <1>4, <2>1 DEF Renew, Holds, JobTypeOK, TokenOK, Sending
  <2>2. CASE ~Holds(o, beat[o])
    BY <1>4, <2>2 DEF Renew
  <2>3. QED
    BY <2>1, <2>2
<1>5. ASSUME NEW o \in Owners, Finish(o) \/ Fail(o) PROVE LeaseOK'
  <2>1. row' # row => row.state = "inflight" /\ row.attempt = token[o]
    BY <1>5 DEF Finish, Fail, Holds
  <2>2. /\ UNCHANGED <<held, clock, token>>
        /\ \A p \in Owners : phase'[p] \in {"sent", "finish"} =>
              p # o /\ phase[p] \in {"sent", "finish"}
    BY <1>5 DEF Finish, Fail, JobTypeOK
  <2>3. QED
    BY <2>1, <2>2 DEF TokenOK, Sending
<1>6. ASSUME NEW o \in Owners,
             \/ Look(o) \/ LookAgain(o) \/ ClaimRefused(o) \/ Beat(o)
             \/ ProviderAnswers(o) \/ RequestFails(o) \/ FailLater(o)
             \/ Crash(o)
      PROVE  LeaseOK'
  BY <1>6 DEF Look, LookAgain, ClaimRefused, Beat, ProviderAnswers, RequestFails,
     FailLater, Crash, JobTypeOK
<1>7. CASE UNCHANGED jobVars
  BY <1>7 DEF jobVars
<1> QED
  BY <1>1, <1>2, <1>3, <1>4, <1>5, <1>6, <1>7 DEF JobNext, JobStep

\* An answer is written under the attempt the row was claimed with.
LEMMA AnswerStep ==
  ASSUME JobTypeOK, AnswerOfLastClaim, spoiled \subseteq failures,
         [JobNext]_jobVars
  PROVE  AnswerOfLastClaim' /\ (spoiled \subseteq failures)'
<1> USE DEF AnswerOfLastClaim, Answered
<1>1. ASSUME NEW o \in Owners,
             Read(o) \/ Claim(o) \/ Renew(o) \/ Finish(o) \/ Fail(o)
      PROVE  AnswerOfLastClaim' /\ (spoiled \subseteq failures)'
  BY <1>1 DEF Read, Claim, Renew, Finish, Fail, Holds, NoRow, JobTypeOK, ghost
<1>2. CASE UNCHANGED <<row, spoiled, failures>>
  BY <1>2
<1>3. ASSUME NEW o \in Owners,
             \/ Look(o) \/ LookAgain(o) \/ ClaimRefused(o) \/ Beat(o)
             \/ ProviderAnswers(o) \/ RequestFails(o) \/ FailLater(o)
             \/ Crash(o)
      PROVE  UNCHANGED <<row, spoiled, failures>>
  BY <1>3 DEF Look, LookAgain, ClaimRefused, Beat, ProviderAnswers, RequestFails,
     FailLater, Crash, ghost
<1>4. CASE JobTick \/ UNCHANGED jobVars
  BY <1>2, <1>4 DEF JobTick, jobVars, worker, ghost
<1> QED
  BY <1>1, <1>2, <1>3, <1>4 DEF JobNext, JobStep

-----------------------------------------------------------------------------
(* The theorems about QuoteJobs.                                             *)

\* JobInv is inductive.
LEMMA JobInvStep == JobInv /\ [JobNext]_jobVars => JobInv'
  BY JobTypeStep, TokenStep, LeaseStep, AnswerStep DEF JobInv

LEMMA JobInvariant == JobSpec => []JobInv
  BY JobInvInit, JobInvStep, PTL DEF JobSpec

\* Every variable has its type.
THEOREM JobTypeCorrect == JobSpec => []JobTypeOK
<1>1. JobInv => JobTypeOK
  BY DEF JobInv
<1> QED
  BY <1>1, JobInvariant, PTL

\* While the lease an invocation was granted lasts, the job stays its own
\* (claim, renew), however old the clocks the others decide on.
THEOREM LeaseIsHonoured == JobSpec => []LeaseHonoured
<1>1. JobInv => LeaseHonoured
  BY DEF JobInv, LeaseOK, LeaseHonoured, Holds, JobTypeOK, Times
<1> QED
  BY <1>1, JobInvariant, PTL

\* A late answer never replaces what a later claim has put into the row
\* (_cas in complete, fail and wait_quota).
THEOREM AnswerIsOfLastClaim == JobSpec => []AnswerOfLastClaim
<1>1. JobInv => AnswerOfLastClaim
  BY DEF JobInv
<1> QED
  BY <1>1, JobInvariant, PTL

\* An invocation that failed a job never claims it again (claim looks into
\* its own memory, fail writes it whatever the row says).
THEOREM FailsOncePerRun == JobSpec => OneFailurePerRun
<1>1. JobInv /\ [JobNext]_jobVars =>
        [\A o \in spoiled : token'[o] = token[o]]_jobVars
  <2> SUFFICES ASSUME JobInv, JobNext, NEW o \in spoiled
               PROVE  token'[o] = token[o]
    OBVIOUS
  <2>1. CASE JobTick
    BY <2>1 DEF JobTick, worker
  <2>2. ASSUME NEW p \in Owners, Claim(p) PROVE token'[o] = token[o]
    BY <2>2 DEF Claim, Refused, JobInv, JobTypeOK
  <2>3. ASSUME NEW p \in Owners, JobStep(p), ~Claim(p) PROVE UNCHANGED token
    BY <2>3 DEF JobStep, Look, Read, LookAgain, ClaimRefused, Beat, Renew,
       ProviderAnswers, RequestFails, Finish, FailLater, Fail, Crash
  <2>4. QED
    BY <2>1, <2>2, <2>3 DEF JobNext
<1> QED
  BY <1>1, JobInvariant, PTL DEF JobSpec, OneFailurePerRun
=============================================================================
