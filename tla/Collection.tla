----------------------------- MODULE Collection -----------------------------
(***************************************************************************)
(* collect_wallets for one wallet: scan, plan, execute what is planned     *)
(* while the rest waits for its quotes, settle.  The plan is a row of      *)
(* collection_runs; what was signed is in the journal, under keys that     *)
(* contain the quote (or, for Relay, the run) a position belongs to, so    *)
(* the same asset planned again has another key.  An invocation may die or *)
(* run out of time anywhere and the next one, perhaps under another        *)
(* policy, starts from these two tables.                                   *)
(*                                                                         *)
(* A position is executed as its executor promises: signed once per key,   *)
(* then credited or left for review.                                       *)
(***************************************************************************)
EXTENDS Integers, FiniteSets, Sequences

CONSTANTS
  Assets, Natives,
  ChainOf(_),
  EnabledTargets,   (* networks of the search scope's targets              *)
  Offers(_),     (* entries a quote may give an asset                      *)
  Digests,       (* recipient and policy: request_digest                   *)
  MaxRuns,          (* bounds: rows of collection_runs, quotes of each,    *)
  MaxQuotes,
  MaxInterruptions  (* deaths and exceeded deadlines                       *)

ASSUME CollectionAssumption ==
  /\ Natives \subseteq Assets /\ Assets # {}
  /\ \A a \in Assets : Offers(a) \subseteq
       [status : {"ready", "retry", "never", "skip"}, relay : BOOLEAN, via : Nat]
  /\ MaxRuns \in Nat /\ MaxQuotes \in Nat /\ MaxInterruptions \in Nat

VARIABLES
  \* the database
  runs,       (* collection_runs, the row updated last at the end          *)
  position,   (* the journal: state of a key's position                    *)
  \* the invocation
  pc,
  cur,        (* its run: id, policy, --execute, status it resumed     *)
              (* from, quotes made (quoted_at of the next group)       *)
  plan,
  frozen,     (* assets whose position has a broadcast                     *)
  stage,      (* executing while planning, or at the end                   *)
  round,      (* what the round in hand may sign and observe               *)
  late,       (* 0, 1: planning_until has passed, 2: until has             *)
  interruptions

database == <<runs, position>>
process == <<pc, cur, plan, frozen, stage, round, late>>
vars == <<database, process, interruptions>>

NoPlan == <<>>
Idle == [id |-> 0, digest |-> 0, execute |-> FALSE, resumed |-> "none",
         quotes |-> 0]
NoRound == [sign |-> {}, observe |-> {}, held |-> FALSE]
NoGroup == <<"none", 0, 0, 0>>
Chains == {ChainOf(a) : a \in Assets}
Groups == ({"quote"} \X (1 .. MaxRuns) \X (1 .. MaxQuotes) \X Chains)
            \union ({"run"} \X (1 .. MaxRuns) \X {0} \X {0})

Leave == /\ pc' = "idle" /\ cur' = Idle /\ plan' = NoPlan /\ frozen' = {}
         /\ stage' = "planning" /\ round' = NoRound /\ late' = 0

Ready(e) == e.status = "ready"
Unresolved(e) == e.status \in {"retry", "never"}

\* A key never seen is a planned position.
State(a, p) == position[<<a, p[a].group>>]
Broadcast(s) == s \in {"sent", "unverified", "completed", "failed"}
Reviewed(s) == s \in {"review", "failed"}
InFlight(s) == s \in {"sent", "unverified", "failed"}
HasBroadcast(p) == {a \in Assets : p[a].group # NoGroup /\ Broadcast(State(a, p))}

Init ==
  /\ runs = <<>>
  /\ position = [k \in Assets \X (Groups \union {NoGroup}) |-> "planned"]
  /\ pc = "idle" /\ cur = Idle /\ plan = NoPlan /\ frozen = {}
  /\ stage = "planning" /\ round = NoRound /\ late = 0
  /\ interruptions = 0

-----------------------------------------------------------------------------
(* The runs.                                                               *)

\* _save_run: updated_at makes the row the last one.
Place(rows, id) == CHOOSE i \in 1 .. Len(rows) : rows[i].id = id
Updated(rows, row) ==
  [i \in 1 .. Len(rows) |->
     IF i = Len(rows) THEN row
     ELSE rows[IF i < Place(rows, row.id) THEN i ELSE i + 1]]
Row(id) == CHOOSE r \in {runs[i] : i \in 1 .. Len(runs)} : r.id = id
Saved(status, p) == Updated(runs, [Row(cur.id) EXCEPT !.status = status, !.plan = p,
                                                     !.quotes = cur.quotes])

\* The run to resume: the last unfinished one, or one that was superseded
\* and asked for again with no other plan since.
Resumable(d) ==
  {i \in 1 .. Len(runs) :
     /\ runs[i].plan # NoPlan
     /\ \/ runs[i].status \in {"executing", "incomplete", "planned"}
        \/ /\ runs[i].status = "superseded" /\ runs[i].digest = d
           /\ \A j \in i + 1 .. Len(runs) : runs[j].plan = NoPlan}

Previous(d) == LET found == Resumable(d) IN
  IF found = {} THEN <<>>
  ELSE <<runs[CHOOSE i \in found : \A j \in found : j <= i]>>

KeysOf(p) == {<<a, p[a].group>> : a \in Assets}

\* Journal positions with a hash that a saved plan does not know.
Foreign(known) == {k \in DOMAIN position :
                     position[k] \in {"sent", "failed"} /\ k \notin known}

Invoke(d, execute) ==
  /\ pc = "idle"
  /\ LET previous == Previous(d)
         pending == previous # <<>> /\
           \E k \in KeysOf(previous[1].plan) : InFlight(position[k])
         superseded == previous # <<>> /\ previous[1].digest # d /\ ~pending
         resumed == previous # <<>> /\ previous[1].digest = d
         known == IF resumed THEN KeysOf(previous[1].plan) ELSE {}
         id == IF resumed THEN previous[1].id ELSE Len(runs) + 1 IN
     /\ resumed \/ previous = <<>> \/ superseded
     /\ Foreign(known) = {}
     /\ id <= MaxRuns
     /\ LET rows == IF superseded
                      THEN Updated(runs, [previous[1] EXCEPT !.status = "superseded"])
                      ELSE runs IN
        runs' = IF resumed THEN rows
                ELSE Append(rows, [id |-> id, digest |-> d,
                                   status |-> "scanning", plan |-> NoPlan,
                                   quotes |-> 0])
     /\ cur' = [id |-> id, digest |-> d, execute |-> execute,
                resumed |-> IF resumed THEN previous[1].status ELSE "none",
               quotes |-> IF resumed THEN previous[1].quotes ELSE 0]
     /\ plan' = IF resumed THEN previous[1].plan ELSE NoPlan
     /\ pc' = IF resumed THEN "enter" ELSE "scan"
  /\ stage' = "planning" /\ round' = NoRound /\ late' = 0 /\ frozen' = {}
  /\ UNCHANGED <<position, interruptions>>

ScanFails ==
  /\ pc = "scan"
  /\ runs' = Saved("scan_failed", NoPlan)
  /\ Leave
  /\ UNCHANGED <<position, interruptions>>

\* create_live_plan: the entries of one quote on one chain form a group; a
\* provider that answers at last ends the search.
Quoted(a) == {e \in Offers(a) : cur.quotes + 1 = MaxQuotes => e.status # "retry"}
Answer(a) == {[status |-> e.status, relay |-> e.relay, via |-> e.via,
               group |-> IF Ready(e) /\ ~e.relay
                           THEN <<"quote", cur.id, cur.quotes + 1, ChainOf(a)>>
                           ELSE NoGroup] : e \in Quoted(a)}
Asks == cur.quotes < MaxQuotes /\ cur' = [cur EXCEPT !.quotes = @ + 1]

\* _assign_collection_identities: a Relay entry belongs to its run.
Identified(p) == [a \in Assets |->
  IF p[a].relay /\ p[a].group = NoGroup /\ a \notin frozen
    THEN [p[a] EXCEPT !.group = <<"run", cur.id, 0, 0>>] ELSE p[a]]

QuotePlan ==
  /\ pc = "scan" /\ Asks
  /\ \E p \in [Assets -> UNION {Answer(a) : a \in Assets}] :
       /\ \A a \in Assets : p[a] \in Answer(a)
       /\ plan' = Identified(p)
  /\ pc' = "enter"
  /\ UNCHANGED <<database, frozen, stage, round, late, interruptions>>

\* Halted groups none of whose unfinished members were signed are taken up
\* again (_resume_unsigned_retry_groups); migrations are saved at once.
Retriable == {g \in Groups :
  /\ \E a \in Assets : position[<<a, g>>] = "review"
  /\ \A a \in Assets : position[<<a, g>>] \in {"planned", "review", "completed"}}

Enter ==
  /\ pc = "enter"
  /\ \E again \in IF cur.execute THEN SUBSET Retriable ELSE {{}} :
       position' = [k \in DOMAIN position |->
         IF k[2] \in again /\ position[k] = "review" THEN "planned" ELSE position[k]]
  /\ \/ UNCHANGED runs
     \/ cur.execute /\ cur.resumed # "none" /\ runs' = Saved("executing", plan)
  /\ frozen' = HasBroadcast(plan)
  /\ pc' = "plan"
  /\ UNCHANGED <<cur, plan, stage, round, late, interruptions>>

-----------------------------------------------------------------------------
(* recover_planning, with advance_ready_groups on every turn.              *)

BlockedChains(p) == {ChainOf(a) : a \in {b \in Assets : Unresolved(p[b])}}

ReadyGroups == {a \in Assets : /\ Ready(plan[a])
                               /\ ChainOf(a) \notin BlockedChains(plan) \/ a \in frozen}

\* Mutated form: the plan is saved when planning is over.
AdvanceUnsaved ==
  /\ pc = "plan" /\ cur.execute /\ late = 0 /\ ReadyGroups # {}
  /\ plan' = Identified(plan)
  /\ pc' = "drive" /\ stage' = "planning"
  /\ UNCHANGED <<database, cur, frozen, round, late, interruptions>>

\* A crash after the first broadcast must resume this exact plan.
Advance ==
  /\ pc = "plan" /\ cur.execute /\ late = 0 /\ ReadyGroups # {}
  /\ plan' = Identified(plan)
  /\ runs' = Saved("executing", plan')
  /\ pc' = "drive" /\ stage' = "planning"
  /\ UNCHANGED <<position, cur, frozen, round, late, interruptions>>

Retries == {a \in Assets : plan[a].status = "retry" /\ a \notin frozen}

\* The assets whose retry is due are quoted again; the others keep their
\* entries.
Requote ==
  /\ pc \in {"plan", "wait"} /\ late = 0 /\ Asks
  /\ \E due \in IF cur'.quotes = MaxQuotes THEN {Retries} \ {{}}
                                              ELSE SUBSET Retries \ {{}} :
       \E p \in [Assets -> UNION {Answer(a) : a \in due} \union
                           {plan[a] : a \in Assets}] :
         /\ \A a \in Assets : p[a] \in IF a \in due THEN Answer(a) ELSE {plan[a]}
         /\ plan' = p
  /\ pc' = "plan"
  /\ UNCHANGED <<database, frozen, stage, round, late, interruptions>>

\* The plan is saved and kept as an artifact whether or not it is executed.
Planned ==
  /\ pc \in {"plan", "wait"}
  /\ pc = "plan" /\ cur.execute => ReadyGroups = {} \/ late > 0
  /\ late > 0 \/ Retries = {}
  /\ runs' = Saved(IF cur.resumed # "none" /\ ~cur.execute THEN cur.resumed
                   ELSE IF cur.execute THEN "executing"
                   ELSE IF Retries # {} THEN "incomplete" ELSE "planned",
                   Identified(plan))
  /\ IF cur.execute
       THEN /\ plan' = Identified(plan) /\ pc' = "drive" /\ stage' = "final"
            /\ UNCHANGED <<cur, frozen, round, late>>
       ELSE Leave
  /\ UNCHANGED <<position, interruptions>>

-----------------------------------------------------------------------------
(* drive_execution: rounds of the executor over the same plan.             *)

\* While groups are planned only the ready ones are driven.
Driven == {a \in Assets : /\ Ready(plan[a])
                          /\ stage = "planning" => a \in ReadyGroups}
Pending == {a \in Driven : State(a, plan) \in {"planned", "sent", "unverified"}}
Failure == \E a \in Driven : Reviewed(State(a, plan))
Eligible(a) == \/ stage = "planning" \/ ChainOf(a) \notin BlockedChains(plan)
               \/ Broadcast(State(a, plan))

\* Members of an active group come along.
Active == LET some == {a \in Pending : Eligible(a)} IN
  {a \in Driven : Eligible(a) /\ \E b \in some : plan[b].group = plan[a].group}

\* Native assets pay for the tokens of their chain.
SourceHeld(a) ==
  /\ a \in Natives /\ ~Broadcast(State(a, plan))
  /\ \E t \in Assets \ Natives :
       /\ Ready(plan[t]) /\ ChainOf(t) = ChainOf(a)
       /\ State(t, plan) # "completed"
       /\ plan[t].group # plan[a].group \/ plan[a].relay

\* Mutated form: a completed route keeps its reserve.
OwnersEver(c) == {b \in Assets : \/ plan[b].status = "retry" /\ c \in EnabledTargets
                                 \/ Ready(plan[b]) /\ plan[b].via = c}

\* Mutated form: a search not finished reserves nothing.
OwnersFound(c) ==
  {b \in Assets : Ready(plan[b]) /\ State(b, plan) # "completed" /\ plan[b].via = c}

\* Mutated form: nothing is reserved on a network that is no target.
OwnersOfTargets(c) ==
  {b \in Assets : /\ c \in EnabledTargets
                  /\ \/ plan[b].status = "retry"
                     \/ /\ Ready(plan[b]) /\ State(b, plan) # "completed"
                        /\ plan[b].via = c}

\* And for what other routes still have to do on it: a search not finished
\* reserves every target network, a route found the networks it signs on.
Owners(c) ==
  {b \in Assets :
     \/ plan[b].status = "retry" /\ c \in EnabledTargets
     \/ Ready(plan[b]) /\ State(b, plan) # "completed" /\ plan[b].via = c}
DestinationHeld(a) == /\ a \in Natives /\ a \in Pending
                      /\ ~Broadcast(State(a, plan))
                      /\ Owners(ChainOf(a)) \ {a} # {}

Held(a) == SourceHeld(a) \/ DestinationHeld(a)

\* Unsigned native assets each of which waits for another of them.
GasCycle(p) == \E members \in SUBSET {a \in Natives : Ready(p[a]) /\ State(a, p) = "planned"} :
  /\ members # {}
  /\ \A a \in members : \E b \in members \ {a} : p[b].via = ChainOf(a)

BeginRound ==
  /\ pc = "drive" /\ late < 2 /\ Active # {}
  /\ round' = [sign |-> {a \in Active : ~Held(a)}, observe |-> Active,
               held |-> \A a \in Active \intersect Pending : Held(a)]
  /\ pc' = "round"
  /\ UNCHANGED <<database, cur, plan, frozen, stage, late, interruptions>>

EndRound ==
  /\ pc = "round"
  /\ round' = NoRound
  /\ pc' = IF round.held THEN "driven" ELSE "drive"
  /\ UNCHANGED <<database, cur, plan, frozen, stage, late, interruptions>>

\* Nothing is pending or may go on; the deadline; while planning, the 90
\* seconds of one turn.
EndDrive ==
  /\ pc = "drive"
  /\ Active = {} \/ late = 2 \/ stage = "planning"
  /\ pc' = "driven"
  /\ UNCHANGED <<database, cur, plan, frozen, stage, round, late, interruptions>>

Return ==
  /\ pc = "driven" /\ stage = "planning"
  /\ frozen' = frozen \union {a \in Driven : Broadcast(State(a, plan))}
  /\ pc' = "wait"
  /\ UNCHANGED <<database, cur, plan, stage, round, late, interruptions>>

\* The wait for the next quote ends with another turn of the ready groups.
Again ==
  /\ pc = "wait" /\ late = 0 /\ Retries # {}
  /\ pc' = "plan"
  /\ UNCHANGED <<database, cur, plan, frozen, stage, round, late, interruptions>>

Report ==
  /\ pc = "driven" /\ stage = "final"
  /\ runs' = Saved(IF Pending # {} \/ Failure \/ \E a \in Assets : Unresolved(plan[a])
                     THEN "incomplete" ELSE "completed", plan)
  /\ Leave
  /\ UNCHANGED <<position, interruptions>>

-----------------------------------------------------------------------------
(* The executor's part of a round, as it promises.                         *)

\* Tokens go before the native asset of their group.
Sign(a) ==
  /\ pc = "round" /\ a \in round.sign /\ State(a, plan) = "planned"
  /\ a \in Natives => \A t \in Assets \ Natives :
       plan[t].group = plan[a].group => State(t, plan) # "planned"
  /\ position' = [position EXCEPT ![<<a, plan[a].group>>] = "sent"]
  /\ UNCHANGED <<runs, process, interruptions>>

\* Credited; a bridge's position may be completed before the exchange says
\* so.
Settle(a) ==
  /\ pc = "round" /\ a \in round.observe
  /\ \/ State(a, plan) = "sent"
        /\ \E s \in {"unverified", "completed"} :
             position' = [position EXCEPT ![<<a, plan[a].group>>] = s]
     \/ State(a, plan) = "unverified"
        /\ position' = [position EXCEPT ![<<a, plan[a].group>>] = "completed"]
  /\ UNCHANGED <<runs, process, interruptions>>

\* A failure halts the group; a sibling whose deposit is known is still
\* observed.
Fail(a) ==
  /\ pc = "round" /\ a \in round.observe /\ State(a, plan) \in {"planned", "sent"}
  /\ State(a, plan) = "planned" => a \in round.sign
  /\ \E lost \in SUBSET {b \in Assets : State(b, plan) = "sent"} :
       /\ State(a, plan) = "sent" => a \in lost
       /\ position' = [k \in DOMAIN position |->
            IF k[2] # plan[a].group THEN position[k]
            ELSE IF position[k] = "planned" /\ Ready(plan[k[1]])
                   /\ plan[k[1]].group = k[2] THEN "review"
            ELSE IF k[1] \in lost /\ plan[k[1]].group = k[2] THEN "failed"
            ELSE position[k]]
  /\ UNCHANGED <<runs, process, interruptions>>

-----------------------------------------------------------------------------

Interrupts == /\ pc # "idle" /\ interruptions < MaxInterruptions
              /\ interruptions' = interruptions + 1

\* Time passes: the planning's part of it, or all of it.
Tick ==
  /\ Interrupts /\ late < 2
  /\ late' \in late + 1 .. 2
  /\ UNCHANGED <<database, pc, cur, plan, frozen, stage, round>>

Crash == Interrupts /\ Leave /\ UNCHANGED database

Steps == \/ ScanFails \/ QuotePlan \/ Enter \/ Advance \/ Requote \/ Planned
         \/ BeginRound \/ EndRound \/ EndDrive \/ Return \/ Again \/ Report
Next == \/ \E d \in Digests, x \in BOOLEAN : Invoke(d, x)
        \/ Steps \/ Tick \/ Crash
        \/ \E a \in Assets : Sign(a) \/ Settle(a) \/ Fail(a)

Spec == Init /\ [][Next]_vars

\* The wallet's unfinished run is taken up again under its policy; rounds
\* make progress.
Continue == \E d \in Digests : /\ Previous(d) # <<>> /\ Previous(d)[1].digest = d
                               /\ Invoke(d, TRUE)
Progress == Requote \/ \E a \in Assets : Sign(a) \/ Settle(a)
Fairness == WF_vars(Steps) /\ SF_vars(Continue) /\ SF_vars(Progress)
FairSpec == Spec /\ Fairness

-----------------------------------------------------------------------------
(* Properties                                                              *)

Entry == [status : {"ready", "retry", "never", "skip"}, relay : BOOLEAN,
          via : Nat, group : Groups \union {NoGroup}]

\* What each variable of the collection holds: the plan, the wallets it names
\* and the routes saved for them.
TypeOK ==
  /\ \A i \in 1 .. Len(runs) :
       /\ runs[i].status \in {"scanning", "scan_failed", "planned", "executing",
                              "incomplete", "superseded", "completed"}
       /\ runs[i].plan = NoPlan \/ runs[i].plan \in [Assets -> Entry]
  /\ \A k \in DOMAIN position :
       position[k] \in {"planned", "sent", "unverified", "completed", "review", "failed"}
  /\ plan = NoPlan \/ plan \in [Assets -> Entry]
  /\ frozen \subseteq Assets /\ round.sign \subseteq round.observe
  /\ cur.quotes \in 0 .. MaxQuotes /\ late \in 0 .. 2

\* What was signed and is not finished is in the plan the next invocation
\* resumes, whatever policy it runs under: it is observed again, and no
\* other plan gives its asset another key.
InFlightIsResumable ==
  \A k \in DOMAIN position, d \in Digests : InFlight(position[k]) =>
    Previous(d) # <<>> /\ k \in KeysOf(Previous(d)[1].plan)

\* Gas is never sent away before it is needed: in the plan being executed, a
\* token that is ready but not signed finds the native asset of its chain
\* unsigned, and so does a route that has to sign on a target network, also
\* one that was found only after other positions were sent.  (A route found
\* later through a network that is no target may find its gas gone.)
Unsigned(a) == Ready(plan[a]) /\ State(a, plan) = "planned"
GasIsKept ==
  plan # NoPlan /\ pc # "idle" =>
    \A n \in Natives : Ready(plan[n]) /\ Broadcast(State(n, plan)) =>
      \A a \in Assets \ {n} : Unsigned(a) =>
        /\ a \in Natives \/ ChainOf(a) # ChainOf(n)
        /\ ChainOf(n) \in EnabledTargets => plan[a].via # ChainOf(n)

\* On any network the coin goes last of what is known: it is not signed while
\* a route that was found arrives there and is not completed, although the
\* round decided what to hold before its other positions were signed.
KnownRoutesKeepGas ==
  [][\A n \in Natives, a \in Assets :
       Sign(n) /\ a # n /\ Ready(plan[a]) /\ State(a, plan) # "completed" =>
         plan[a].via # ChainOf(n)]_vars

\* Everything that may keep a run open.
Explained(p) ==
  \/ \E a \in Assets : p[a].status = "never"
  \/ \E a \in Assets : Ready(p[a]) /\ Reviewed(State(a, p))
  \/ GasCycle(p)

\* A wallet's collection comes to its end, again and again: no position is
\* held or waited for forever, unless one failed, has no route at all, or two
\* native assets wait for each other's gas.
CollectionSettles ==
  []<>(\A d \in Digests : Previous(d) # <<>> => Explained(Previous(d)[1].plan))
=============================================================================
