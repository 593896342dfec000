---------------------------- MODULE OneTransfer ----------------------------
(***************************************************************************)
(* What a position promises its operator: its asset is sent at most once;  *)
(* it is called completed only after the exchange has credited it, and is  *)
(* put under review only after something was sent; neither is taken back.  *)
(***************************************************************************)
CONSTANT Transfers

VARIABLES
  sent,      (* transfers that have reached the network                    *)
  credited,  (* the exchange has credited a deposit of the position        *)
  outcome    (* "open", "completed" or "review"                            *)

promise == <<sent, credited, outcome>>

Init == sent = {} /\ ~credited /\ outcome = "open"

Send(t) ==
  /\ outcome = "open" /\ sent = {}
  /\ sent' = {t}
  /\ UNCHANGED <<credited, outcome>>

Credit ==
  /\ sent # {} /\ ~credited
  /\ credited'
  /\ UNCHANGED <<sent, outcome>>

Close(result) ==
  /\ outcome = "open"
  /\ \/ result = "completed" /\ credited
     \/ result = "review" /\ sent # {}
  /\ outcome' = result
  /\ UNCHANGED <<sent, credited>>

Next == \/ \E t \in Transfers : Send(t)
        \/ Credit
        \/ \E result \in {"completed", "review"} : Close(result)

Spec == Init /\ [][Next]_promise
=============================================================================
