----------------------------- MODULE LifiQuota -----------------------------
(***************************************************************************)
(* The quota of one LI.FI key or proxy for one kind of request, shared by  *)
(* every process through SQLite (LifiQuotaStore), and the dispatch of a    *)
(* request through it (LifiHttpClient._request_once).  reserve_request and *)
(* observe read the clock before they get the write lock; mark_started     *)
(* reads it under the lock, but the request is sent after the lock is      *)
(* released.  One tick is one second, the pace of starts.                  *)
(***************************************************************************)
EXTENDS Integers, FiniteSets

CONSTANTS
  Callers,     (* requests that may be under way at once                   *)
  Planners,    (* those that plan; the others execute                      *)
  Limit, Window, Reserve,   (* limits                                      *)
  Retry,       (* the longest wait a 429 asks for                          *)
  Counts,      (* counts a provider may say remain, or be its limit        *)
  Ahead,       (* how far ahead the reset of a provider window may be      *)
  MaxTime,     (* bound: the clock                                         *)
  MaxRequests  (* bound: reservations                                      *)

ASSUME QuotaAssumption ==
  /\ Planners \subseteq Callers
  /\ Limit \in Nat \ {0} /\ Window \in Nat \ {0} /\ Reserve \in 0 .. Limit
  /\ Retry \in Nat \ {0} /\ Counts \subseteq 0 .. Limit /\ Ahead \in Nat \ {0}
  /\ MaxTime \in Nat \ {0} /\ MaxRequests \in Nat

VARIABLES
  requests,    (* lifi_requests with lifi_attempts: [id, at, planning]     *)
  marked,      (* attempts with a started_at                               *)
  quota,       (* lifi_quota_state: remaining, reset, limit                *)
  blocked,     (* lifi_limits.blocked_until                                *)
  dispatch,    (* lifi_dispatch.next_at                                    *)
  lastReserve, (* lifi_starts.last_at                                      *)
  lastStart,   (* lifi_actual_starts.last_at                               *)
  now, pc,
  at,          (* the clock as the caller last read it, or its turn        *)
  attempt,     (* the caller's reservation                                 *)
  starts,      (* history: [id, at] of every request sent                  *)
  asked,       (* history: [until, marked] of every 429 recorded           *)
  promises     (* history: every count a provider said remains             *)

ledger == <<requests, marked, dispatch, lastReserve, lastStart>>
store == <<ledger, quota, blocked>>
history == <<starts, asked, promises>>
vars == <<store, now, pc, at, attempt, history>>

Unknown == Limit + 1
Never == 0
NoQuota == [remaining |-> Unknown, reset |-> Never, limit |-> Unknown]

Init ==
  /\ requests = {} /\ marked = {} /\ quota = NoQuota /\ blocked = Never /\ dispatch = Never
  /\ lastReserve = Never /\ lastStart = Never
  /\ now = 1 /\ pc = [c \in Callers |-> "idle"]
  /\ at = [c \in Callers |-> Never] /\ attempt = [c \in Callers |-> 0]
  /\ starts = {} /\ asked = {} /\ promises = {}

Goto(c, label) == pc' = [pc EXCEPT ![c] = label]
Leave(c) == /\ Goto(c, "idle")
            /\ at' = [at EXCEPT ![c] = Never]
            /\ attempt' = [attempt EXCEPT ![c] = 0]
Least(a, b) == IF a < b THEN a ELSE b
Greatest(a, b) == IF a > b THEN a ELSE b

-----------------------------------------------------------------------------
(* _state: what the store knows at a time.                                 *)

InWindow(time) == {r \in requests : r.at + Window > time}
FreshQuota(time) == quota.reset > time
Ceiling(time) == IF FreshQuota(time) THEN Least(Limit, quota.limit) ELSE Limit
Cooldown(time) == blocked > time

\* Mutated form: planning may use the reserve of execution.
NoneKept(c) == 0

\* What a caller leaves to others.
Kept(c) == IF c \in Planners THEN Reserve ELSE 0

\* Mutated form: a request at the limit is admitted.
AtCapacity(c, time) ==
  /\ ~Cooldown(time)
  /\ Cardinality(InWindow(time)) <= Ceiling(time)
  /\ FreshQuota(time) /\ quota.remaining # Unknown => quota.remaining > Kept(c)

\* reserve_request admits the request.
Admitted(c, time) ==
  /\ ~Cooldown(time)
  /\ Cardinality(InWindow(time)) + Kept(c) < Ceiling(time)
  /\ FreshQuota(time) /\ quota.remaining # Unknown => quota.remaining > Kept(c)

-----------------------------------------------------------------------------
(* One request, from the queue to the answer.                              *)

\* reserve_dispatch_time: turns are a second apart.
TakeTurn(c) ==
  /\ pc[c] = "idle"
  /\ LET turn == Greatest(now, dispatch) IN
     /\ turn <= MaxTime
     /\ at' = [at EXCEPT ![c] = turn] /\ dispatch' = turn + 1
  /\ Goto(c, "queued")
  /\ UNCHANGED <<requests, marked, quota, blocked, lastReserve, lastStart, now,
                 attempt, history>>

\* The turn has come: the clock is read, the lock is waited for.
ReadClock(c) ==
  /\ pc[c] = "queued" /\ at[c] <= now
  /\ at' = [at EXCEPT ![c] = now] /\ Goto(c, "reserve")
  /\ UNCHANGED <<store, now, attempt, history>>

Refuse(c) ==
  /\ pc[c] = "reserve" /\ ~Admitted(c, at[c])
  /\ Leave(c)
  /\ UNCHANGED <<store, now, history>>

\* DispatchWait: another start is too near.
Defer(c) ==
  /\ pc[c] = "reserve" /\ Admitted(c, at[c])
  /\ lastReserve # Never /\ lastReserve + 1 > at[c]
  /\ at' = [at EXCEPT ![c] = lastReserve + 1] /\ Goto(c, "queued")
  /\ UNCHANGED <<store, now, attempt, history>>

ReserveRequest(c) ==
  /\ pc[c] = "reserve" /\ Admitted(c, at[c])
  /\ lastReserve = Never \/ lastReserve + 1 <= at[c]
  /\ Cardinality(requests) < MaxRequests
  /\ LET id == Cardinality(requests) + 1 IN
     /\ requests' = requests \union
          {[id |-> id, at |-> at[c], planning |-> c \in Planners]}
     /\ attempt' = [attempt EXCEPT ![c] = id]
  /\ quota' = IF FreshQuota(at[c]) /\ quota.remaining # Unknown
                THEN [quota EXCEPT !.remaining = @ - 1] ELSE quota
  /\ lastReserve' = at[c] /\ Goto(c, "reserved")
  /\ promises' = {IF now < p.until THEN [p EXCEPT !.since = @ + 1] ELSE p :
                   p \in promises}
  /\ UNCHANGED <<marked, blocked, dispatch, lastStart, now, at, starts, asked>>

\* Mutated form: a cooldown is looked at before the reservation only.
MarkInCooldown(c) ==
  /\ pc[c] = "reserved"
  /\ lastStart = Never \/ lastStart + 1 <= now
  /\ lastStart' = now /\ marked' = marked \union {attempt[c]}
  /\ Goto(c, "marked")
  /\ UNCHANGED <<requests, quota, blocked, dispatch, lastReserve, now, at,
                 attempt, history>>

\* mark_started.
MarkStarted(c) ==
  /\ pc[c] = "reserved" /\ ~Cooldown(now)
  /\ lastStart = Never \/ lastStart + 1 <= now
  /\ lastStart' = now /\ marked' = marked \union {attempt[c]}
  /\ Goto(c, "marked")
  /\ UNCHANGED <<requests, quota, blocked, dispatch, lastReserve, now, at,
                 attempt, history>>

\* The request goes out; the lock has been released since the mark.
SendRequest(c) ==
  /\ pc[c] = "marked" /\ Goto(c, "sent")
  /\ starts' = starts \union {[id |-> attempt[c], at |-> now]}
  /\ UNCHANGED <<store, now, at, attempt, asked, promises>>

\* A cooldown found at the start, a deadline or a crash: the reservation stays.
GiveUp(c) ==
  /\ pc[c] \in {"queued", "reserve", "reserved", "marked", "sent", "answer"}
  /\ Leave(c)
  /\ UNCHANGED <<store, now, history>>

AnswerArrives(c) ==
  /\ pc[c] = "sent" /\ Goto(c, "answer")
  /\ at' = [at EXCEPT ![c] = now]
  /\ UNCHANGED <<store, now, attempt, history>>

\* Requests reserved after the caller's.
Later(c) == Cardinality({r \in requests : r.id > attempt[c]})

\* Mutated form: the count may fall below zero.
ObservedBelowZero(c, remaining, limit, reset) ==
  IF remaining = Unknown \/ reset <= at[c] THEN quota
  ELSE [remaining |-> remaining - Later(c), reset |-> reset, limit |-> limit]

\* Mutated form: the count is taken as the provider said it.
ObservedAsSaid(c, remaining, limit, reset) ==
  IF remaining = Unknown \/ reset <= at[c] THEN quota
  ELSE IF FreshQuota(at[c])
    THEN [remaining |-> Least(remaining, quota.remaining),
          reset |-> Greatest(reset, quota.reset),
          limit |-> Least(limit, quota.limit)]
  ELSE [remaining |-> remaining, reset |-> reset, limit |-> limit]

\* observe: a remaining count is reduced by the requests reserved later, and
\* within one provider window the smaller count and the later reset are kept.
Observed(c, remaining, limit, reset) ==
  LET said == IF remaining # Unknown THEN remaining
              ELSE IF limit # Unknown THEN limit - 1 ELSE Unknown
      adjusted == IF said = Unknown THEN Unknown
                  ELSE IF said > Later(c) THEN said - Later(c) ELSE 0 IN
  IF (remaining = Unknown /\ limit = Unknown) \/ reset <= at[c] THEN quota
  ELSE IF FreshQuota(at[c])
    THEN [remaining |-> Least(adjusted, quota.remaining),
          reset |-> Greatest(reset, quota.reset),
          limit |-> Least(limit, quota.limit)]
  ELSE [remaining |-> adjusted, reset |-> reset, limit |-> limit]

BlockUntil(until) == Greatest(blocked, until)

\* What a recorded count promises: of those the provider said remain, behind
\* were reserved by then; since counts those reserved from then to the reset.
Promised(c, remaining, reset) ==
  IF remaining = Unknown \/ reset <= at[c] THEN promises
  ELSE promises \union {[remaining |-> remaining, behind |-> Later(c),
                         since |-> 0, until |-> reset]}

Observe(c) ==
  /\ pc[c] = "answer" /\ Leave(c)
  /\ \E remaining \in Counts \union {Unknown},
       limit \in (Counts \ {0}) \union {Unknown}, ahead \in 0 .. Ahead :
       /\ quota' = Observed(c, remaining, limit, at[c] + ahead)
       /\ promises' = Promised(c, remaining, at[c] + ahead)
  /\ \/ UNCHANGED <<blocked, asked>>
     \/ \E wait \in 1 .. Retry :
          /\ blocked' = BlockUntil(at[c] + wait)
          /\ asked' = asked \union {[until |-> at[c] + wait, marked |-> marked]}
  /\ UNCHANGED <<ledger, now, starts>>

Tick == /\ now < MaxTime /\ now' = now + 1
        /\ UNCHANGED <<store, pc, at, attempt, history>>

Step(c) ==
  \/ TakeTurn(c) \/ ReadClock(c) \/ Refuse(c) \/ Defer(c) \/ ReserveRequest(c)
  \/ MarkStarted(c) \/ SendRequest(c) \/ GiveUp(c) \/ AnswerArrives(c)
  \/ Observe(c)

Next == Tick \/ \E c \in Callers : Step(c)

Spec == Init /\ [][Next]_vars
-----------------------------------------------------------------------------
(* Properties.                                                             *)

\* Every variable has its type; counts never fall below zero.
TypeOK ==
  /\ requests \in SUBSET [id : 1 .. MaxRequests, at : 1 .. MaxTime,
                          planning : BOOLEAN]
  /\ marked \in SUBSET (0 .. MaxRequests)
  /\ quota \in [remaining : 0 .. Unknown, reset : 0 .. MaxTime + Ahead,
                limit : 1 .. Unknown]
  /\ blocked \in 0 .. MaxTime + Retry /\ dispatch \in 0 .. MaxTime + 1
  /\ lastReserve \in 0 .. MaxTime /\ lastStart \in 0 .. MaxTime
  /\ now \in 1 .. MaxTime
  /\ pc \in [Callers -> {"idle", "queued", "reserve", "reserved", "marked",
                         "sent", "answer"}]
  /\ at \in [Callers -> 0 .. MaxTime + 1] /\ attempt \in [Callers -> 0 .. MaxRequests]

During(some, time) == {r \in some : r.at <= time /\ r.at + Window > time}

\* No window holds more reservations than the limit, although a caller may
\* have read its clock long before it got the lock.
WindowKept ==
  \A time \in 1 .. MaxTime : Cardinality(During(requests, time)) <= Limit

\* Planning leaves the reserve of every window to execution.
ReserveKept ==
  \A time \in 1 .. MaxTime :
    Cardinality({r \in During(requests, time) : r.planning}) <= Limit - Reserve

\* Of the requests a provider said remain, no more are reserved before its
\* reset than those that had been reserved behind the answered one have left,
\* be the answers recorded out of order or the clocks old.
ProviderCountKept ==
  \A p \in promises : p.since = 0 \/ p.behind + p.since <= p.remaining

\* A 429 stops every request that was not yet marked as started when it was
\* recorded: it is not sent before the cooldown is over, although it may have
\* been reserved before, and a shorter cooldown may have been recorded since.
\* (One already marked is past its last check and goes out.)
CooldownHonoured ==
  \A q \in asked, s \in starts : s.id \in q.marked \/ q.until <= s.at
=============================================================================
