----------------------------- MODULE FundsPath -----------------------------
(***************************************************************************)
(* What a route of several legs promises: every leg is sent at most once,  *)
(* and only after the leg before it has delivered the funds it spends; the *)
(* route is called completed only after the exchange has credited it, and  *)
(* that is never taken back.                                               *)
(***************************************************************************)
EXTENDS Naturals, FiniteSets

CONSTANT Routes

VARIABLES
  spent,     (* transfers sent: leg and the route that was quoted for it   *)
  received,  (* how many of them have delivered their funds                *)
  credited,  (* the exchange has credited the deposit                      *)
  outcome    (* "open", "completed" or "review"                            *)

path == <<spent, received, credited, outcome>>

Init == spent = {} /\ received = 0 /\ ~credited /\ outcome = "open"

Send(r) == /\ outcome = "open" /\ received = Cardinality(spent) /\ ~credited
           /\ spent' = spent \union {[leg |-> received + 1, route |-> r]}
           /\ UNCHANGED <<received, credited, outcome>>

Receive == /\ received < Cardinality(spent)
           /\ received' = received + 1
           /\ UNCHANGED <<spent, credited, outcome>>

Credit == /\ received = Cardinality(spent) /\ received > 0 /\ ~credited
          /\ credited'
          /\ UNCHANGED <<spent, received, outcome>>

Complete == /\ outcome = "open" /\ credited
            /\ outcome' = "completed"
            /\ UNCHANGED <<spent, received, credited>>

\* A route under review may be taken up again; a completed one may not.
Review == /\ outcome = "open" /\ outcome' = "review"
          /\ UNCHANGED <<spent, received, credited>>
Reopen == /\ outcome = "review" /\ outcome' = "open"
          /\ UNCHANGED <<spent, received, credited>>

Next == \/ \E r \in Routes : Send(r)
        \/ Receive \/ Credit \/ Complete \/ Review \/ Reopen

Spec == Init /\ [][Next]_path
=============================================================================
