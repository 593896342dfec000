----------------------------- MODULE QuoteJobs -----------------------------
(***************************************************************************)
(* One row of the quote_jobs table: a quote every invocation of the        *)
(* program that needs it looks up, claims under a lease, asks the provider *)
(* for and records (QuoteJobs, used by _read_routes).  Invocations share   *)
(* the SQLite file; each reads its clock before it gets the write lock, so *)
(* it may decide on an old time.  Inside an invocation a lock admits one   *)
(* caller per job.                                                         *)
(***************************************************************************)
EXTENDS Naturals

CONSTANTS
  Owners,      (* invocations, each with a lease_owner of its own          *)
  Lease,       (* lease_seconds                                            *)
  Ttl,         (* how long an answer may be used again                     *)
  Wait,        (* how far a quota wait is away                             *)
  MaxClock,    (* bound: the clock                                         *)
  MaxAttempts  (* bound: claims                                            *)

ASSUME JobAssumption ==
  /\ Lease \in Nat \ {0} /\ Ttl \in Nat \ {0} /\ Wait \in Nat
  /\ MaxClock \in Nat \ {0} /\ MaxAttempts \in Nat

VARIABLES
  row,         (* the job's row                                            *)
  clock,       (* the clock                                                *)
  seen,        (* the clock as an invocation's caller last read it         *)
  phase, token,   (* where the caller is; the attempt it claimed, 0 none   *)
  beat,        (* the clock as the heartbeat read it, NoTime between beats *)
  beating,     (* the heartbeat has not been refused yet                   *)
  attempted, failures,   (* the invocation's memory of the job             *)
  attempts,    (* claims so far: attempt ids are fresh                     *)
  held,        (* history: the lease the invocation was last granted       *)
  spoiled      (* history: invocations whose attempt has failed            *)

worker == <<seen, phase, token, beat, beating, attempted, failures>>
ghost == <<attempts, held, spoiled>>
jobVars == <<row, clock, worker, ghost>>

NoTime == 0
Answered == {"complete", "error", "quota_wait"}
Sending == {"sent", "finish", "fail", "record"}

\* `of' is a history field: the attempt whose answer the row holds.
NoRow == [state |-> "none", attempt |-> 0, owner |-> "none", lease |-> NoTime,
          expires |-> NoTime, retry |-> NoTime, bad |-> FALSE, of |-> 0]

JobInit ==
  /\ row = NoRow /\ clock = 1
  /\ seen = [o \in Owners |-> NoTime] /\ phase = [o \in Owners |-> "idle"]
  /\ token = [o \in Owners |-> 0]
  /\ beat = [o \in Owners |-> NoTime]
  /\ beating = [o \in Owners |-> FALSE]
  /\ attempted = {} /\ failures = {}
  /\ attempts = 0 /\ held = [o \in Owners |-> NoTime] /\ spoiled = {}

-----------------------------------------------------------------------------
(* Looking the job up and claiming it.                                     *)

Enter(o, label) == phase' = [phase EXCEPT ![o] = label]
NoteTime(o) == seen' = [seen EXCEPT ![o] = clock]

Look(o) ==
  /\ phase[o] = "idle" /\ beat[o] = NoTime
  /\ Enter(o, "read") /\ NoteTime(o)
  /\ UNCHANGED <<row, clock, token, beat, beating, attempted, failures, ghost>>

\* read: an answer is served while it is fresh, marked expired afterwards.
Read(o) ==
  /\ phase[o] = "read"
  /\ IF row.state = "complete" /\ row.expires > seen[o]
       THEN Enter(o, "idle") /\ UNCHANGED row
     ELSE /\ Enter(o, "clock")
          /\ row' = IF row.state = "complete"
                      THEN [row EXCEPT !.state = "expired"] ELSE row
  /\ UNCHANGED <<clock, seen, token, beat, beating, attempted, failures,
                 ghost>>

LookAgain(o) ==
  /\ phase[o] = "clock"
  /\ Enter(o, "claim") /\ NoteTime(o)
  /\ UNCHANGED <<row, clock, token, beat, beating, attempted, failures, ghost>>

\* Mutated form: the lease of another invocation is ignored.
RefusedByAnswer(o, recheck) ==
  \/ o \in failures
  \/ row.state = "complete" /\ row.expires > seen[o]
  \/ row.state = "error" /\ (row.bad \/ o \in attempted)
  \/ row.state \in {"quota_wait", "error"} /\ ~recheck /\ row.retry > seen[o]

\* Mutated form: the row alone tells whether this invocation failed before.
RefusedByRow(o, recheck) ==
  \/ row.state = "inflight" /\ row.lease > seen[o]
  \/ row.state = "complete" /\ row.expires > seen[o]
  \/ row.state = "error" /\ (row.bad \/ o \in attempted \/ row.owner = o)
  \/ row.state = "quota_wait" /\ ~recheck /\ row.retry > seen[o]
  \/ row.state = "error" /\ row.retry > seen[o]

\* claim raises JobInProgress; `recheck' is what the quota says of a wait.
Refused(o, recheck) ==
  \/ o \in failures
  \/ row.state = "inflight" /\ row.lease > seen[o]
  \/ row.state = "complete" /\ row.expires > seen[o]
  \/ row.state = "error" /\ (row.bad \/ o \in attempted \/ row.owner = o)
  \/ row.state = "quota_wait" /\ ~recheck /\ row.retry > seen[o]
  \/ row.state = "error" /\ row.retry > seen[o]

ClaimRefused(o) ==
  /\ phase[o] = "claim" /\ \E recheck \in BOOLEAN : Refused(o, recheck)
  /\ Enter(o, "idle")
  /\ UNCHANGED <<row, clock, seen, token, beat, beating, attempted, failures,
                 ghost>>

Claim(o) ==
  /\ phase[o] = "claim" /\ \E recheck \in BOOLEAN : ~Refused(o, recheck)
  /\ attempts < MaxAttempts
  /\ attempts' = attempts + 1
  /\ token' = [token EXCEPT ![o] = attempts']
  /\ row' = [NoRow EXCEPT !.state = "inflight", !.attempt = attempts',
                          !.owner = o, !.lease = seen[o] + Lease]
  /\ held' = [held EXCEPT ![o] = seen[o] + Lease]
  /\ attempted' = attempted \union {o}
  /\ beating' = [beating EXCEPT ![o] = TRUE]
  /\ Enter(o, "sent")
  /\ UNCHANGED <<clock, seen, beat, failures, spoiled>>

-----------------------------------------------------------------------------
(* The lease, its heartbeat and the answer.                                *)

\* Mutated form: the row is updated by its key.
HoldsAny(o, time) == token[o] # 0

\* The condition of _cas.
Holds(o, time) ==
  row.state = "inflight" /\ row.attempt = token[o] /\ row.lease > time

Beat(o) ==
  /\ phase[o] \in {"sent", "finish"} /\ beating[o] /\ beat[o] = NoTime
  /\ beat' = [beat EXCEPT ![o] = clock]
  /\ UNCHANGED <<row, clock, seen, phase, token, beating, attempted, failures,
                 ghost>>

\* renew; a heartbeat that is refused stops.
Renew(o) ==
  /\ beat[o] # NoTime
  /\ beat' = [beat EXCEPT ![o] = NoTime]
  /\ IF Holds(o, beat[o])
       THEN /\ row' = [row EXCEPT !.lease = beat[o] + Lease]
            /\ held' = [held EXCEPT ![o] = beat[o] + Lease]
            /\ UNCHANGED beating
       ELSE /\ beating' = [beating EXCEPT ![o] = FALSE]
            /\ UNCHANGED <<row, held>>
  /\ UNCHANGED <<clock, seen, phase, token, attempted, failures, attempts,
                 spoiled>>

ProviderAnswers(o) ==
  /\ phase[o] = "sent" /\ Enter(o, "finish") /\ NoteTime(o)
  /\ UNCHANGED <<row, clock, token, beat, beating, attempted, failures, ghost>>

RequestFails(o) ==
  /\ phase[o] = "sent" /\ Enter(o, "fail")
  /\ UNCHANGED <<row, clock, seen, token, beat, beating, attempted, failures,
                 ghost>>

\* An answer keeps the time it was observed at.
Finish(o) ==
  /\ phase[o] = "finish"
  /\ IF Holds(o, seen[o])
       THEN /\ row' = [row EXCEPT !.state = "complete", !.lease = NoTime,
                                  !.expires = seen[o] + Ttl, !.of = token[o]]
            /\ Enter(o, "idle")
       ELSE Enter(o, "fail") /\ UNCHANGED row
  /\ UNCHANGED <<clock, seen, token, beat, beating, attempted, failures,
                 ghost>>

\* The heartbeat is joined before the failure is recorded.
FailLater(o) ==
  /\ phase[o] = "fail" /\ beat[o] = NoTime
  /\ Enter(o, "record") /\ NoteTime(o)
  /\ UNCHANGED <<row, clock, token, beat, beating, attempted, failures, ghost>>

\* fail: a failure is remembered whether or not the row takes it.
Fail(o) ==
  /\ phase[o] = "record" /\ Enter(o, "idle")
  /\ \E state \in {"error", "quota_wait"}, bad \in BOOLEAN,
        retry \in {NoTime, clock + Wait} :
       /\ state = "quota_wait" => ~bad /\ retry # NoTime
       /\ row' = IF Holds(o, seen[o])
                   THEN [row EXCEPT !.state = state, !.bad = bad,
                                    !.retry = retry, !.lease = NoTime,
                                    !.of = token[o]]
                   ELSE row
       /\ failures' = IF state = "error" THEN failures \union {o} ELSE failures
       /\ spoiled' = IF state = "error" THEN spoiled \union {o} ELSE spoiled
  /\ UNCHANGED <<clock, seen, token, beat, beating, attempted, attempts, held>>

-----------------------------------------------------------------------------
Crash(o) ==
  /\ phase[o] \notin {"idle", "dead"} /\ Enter(o, "dead")
  /\ beat' = [beat EXCEPT ![o] = NoTime]
  /\ UNCHANGED <<row, clock, seen, token, beating, attempted, failures, ghost>>

JobTick ==
  clock < MaxClock /\ clock' = clock + 1 /\ UNCHANGED <<row, worker, ghost>>

JobStep(o) ==
  \/ Look(o) \/ Read(o) \/ LookAgain(o) \/ ClaimRefused(o) \/ Claim(o)
  \/ Beat(o) \/ Renew(o) \/ ProviderAnswers(o) \/ RequestFails(o) \/ Finish(o)
  \/ FailLater(o) \/ Fail(o) \/ Crash(o)

JobNext == JobTick \/ \E o \in Owners : JobStep(o)

JobSpec == JobInit /\ [][JobNext]_jobVars

-----------------------------------------------------------------------------
(* Properties.                                                             *)

Times == 0 .. MaxClock

\* Every variable has its type.
JobTypeOK ==
  /\ row \in [state : {"none", "inflight", "expired"} \union Answered,
              attempt : 0 .. MaxAttempts, owner : Owners \union {"none"},
              lease : 0 .. MaxClock + Lease, expires : 0 .. MaxClock + Ttl,
              retry : 0 .. MaxClock + Wait, bad : BOOLEAN,
              of : 0 .. MaxAttempts]
  /\ clock \in Times /\ seen \in [Owners -> Times]
  /\ phase \in [Owners ->
               {"idle", "read", "clock", "claim", "dead"} \union Sending]
  /\ token \in [Owners -> 0 .. MaxAttempts]
  /\ beat \in [Owners -> Times] /\ beating \in [Owners -> BOOLEAN]
  /\ attempted \subseteq Owners /\ failures \subseteq Owners
  /\ attempts \in 0 .. MaxAttempts
  /\ held \in [Owners -> 0 .. MaxClock + Lease] /\ spoiled \subseteq Owners

\* Two invocations ask the provider at once only after the lease of the first
\* has run out: while the lease it was granted lasts, the job is its own,
\* however late the others read their clocks.
LeaseHonoured ==
  \A o \in Owners :
    phase[o] \in {"sent", "finish"} /\ clock < held[o]
      => Holds(o, clock)

\* A late answer never replaces what a later claim has put there: the row
\* holds the answer of the attempt that claimed it last.
AnswerOfLastClaim ==
  row.state \in Answered \union {"expired"} => row.of = row.attempt

\* An invocation whose attempt failed does not send the request again, even
\* when other invocations have changed the row since.
OneFailurePerRun ==
  [][\A o \in spoiled : token'[o] = token[o]]_jobVars
=============================================================================
