---------------------------- MODULE LossBudget ----------------------------
(***************************************************************************)
(* What a route group promises its operator: of the positions it may send, *)
(* each is sent at most once, at a loss fixed when it is sent; together    *)
(* they never lose more than the budget; once one needs a review, none is  *)
(* sent any more.                                                          *)
(***************************************************************************)
EXTENDS Naturals, Functions

CONSTANTS Positions, Losses, Budget

VARIABLES
  spent,     (* loss of each position sent, 0 when it was not              *)
  stopped    (* some position needs a review                               *)

budget == <<spent, stopped>>

Init == spent = [i \in Positions |-> 0] /\ ~stopped

Send(i, loss) ==
  /\ ~stopped /\ spent[i] = 0
  /\ SumFunctionOnSet(spent, Positions) + loss <= Budget
  /\ spent' = [spent EXCEPT ![i] = loss]
  /\ UNCHANGED stopped

Stop == ~stopped /\ stopped' /\ UNCHANGED spent

Next == Stop \/ \E i \in Positions, loss \in Losses \ {0} : Send(i, loss)

Spec == Init /\ [][Next]_budget
=============================================================================
