--------------------------- MODULE ParallelStage ---------------------------
(***************************************************************************)
(* run_parallel under a hard Deadline: daemon threads take jobs from a     *)
(* queue, the caller collects their answers until all are in or the        *)
(* deadline has passed, and leaves the threads that have not answered to   *)
(* themselves.  What a job does is the module's that extends this one.     *)
(***************************************************************************)
EXTENDS Naturals, FiniteSets

CONSTANTS
  JobCount,  (* jobs, numbered in the order of the queue                   *)
  Workers

ASSUME StageAssumption == JobCount \in Nat \ {0} /\ Workers \in 1 .. 32

Jobs == 1 .. JobCount

VARIABLES
  wait,      (* where the caller is in run_parallel                        *)
  expired,   (* deadline.expired: it never comes back                      *)
  place      (* of each job: in the queue, with a thread, in the output    *)
             (* with an early or a late time stamp, counted (completed or  *)
             (* errors) or dropped                                         *)

stage == <<wait, expired, place>>

StageInit ==
  /\ wait = "off" /\ expired = FALSE
  /\ place = [j \in Jobs |-> "none"]

Running == {j \in Jobs : place[j] = "thread"}
Output == {j \in Jobs : place[j] \in {"early", "late"}}
Stopped == wait \in {"drain", "returned", "raised"}

-----------------------------------------------------------------------------
(* The deadline and the threads.                                           *)

Expire == wait # "off" /\ ~expired /\ expired' = TRUE
          /\ UNCHANGED <<wait, place>>

Take(j) ==
  /\ place[j] = "queue" /\ ~Stopped /\ ~expired
  /\ \A i \in 1 .. j - 1 : place[i] # "queue"
  /\ Cardinality(Running) < Workers
  /\ place' = [place EXCEPT ![j] = "thread"]
  /\ UNCHANGED <<wait, expired>>

\* A result or an exception: its time stamp tells whether it is late.
Answer(j) ==
  /\ place[j] = "thread"
  /\ place' = [place EXCEPT ![j] = IF expired THEN "late" ELSE "early"]
  /\ UNCHANGED <<wait, expired>>

-----------------------------------------------------------------------------
(* The caller.                                                             *)

Goto(next) == wait' = next
Collect(j) == IF place[j] = "late" THEN "dropped" ELSE "counted"
AllIn(places) == \A j \in Jobs : places[j] = "counted"

\* while some answer is missing and the deadline has not passed ...
Again(places) == Goto(IF AllIn(places) \/ expired THEN "drain" ELSE "check")

\* The deadline has been running since before the jobs were made.
Launch(late) ==
  /\ Goto(IF late THEN "drain" ELSE "check") /\ expired' = late
  /\ place' = [j \in Jobs |-> "queue"]

\* ... deadline.check(), which reads the clock again and raises.
Check ==
  /\ wait = "check"
  /\ Goto(IF expired THEN "raised" ELSE "get")
  /\ UNCHANGED <<expired, place>>

Get(j) ==
  /\ wait = "get" /\ j \in Output
  /\ place' = [place EXCEPT ![j] = Collect(j)]
  /\ Again(place') /\ UNCHANGED expired

\* Mutated form: output.get without a timeout.
WaitsForever == FALSE

GetTimesOut ==
  /\ wait = "get" /\ expired /\ Output = {}
  /\ Goto("drain") /\ UNCHANGED <<expired, place>>

\* get_nowait until the output is empty.
Drain ==
  /\ wait = "drain"
  /\ place' = [j \in Jobs |-> IF j \in Output THEN Collect(j) ELSE place[j]]
  /\ Goto("returned") /\ UNCHANGED expired

Waiting == Check \/ (\E j \in Jobs : Get(j)) \/ GetTimesOut \/ Drain

StageTypeOK ==
  /\ wait \in {"off", "check", "get", "drain", "returned", "raised"}
  /\ expired \in BOOLEAN
  /\ place \in [Jobs -> {"none", "queue", "thread", "early", "late",
                         "counted", "dropped"}]
=============================================================================
