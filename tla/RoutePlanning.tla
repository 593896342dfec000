--------------------------- MODULE RoutePlanning ---------------------------
(***************************************************************************)
(* The read-only plan of one wallet on one network (live_plan.py,          *)
(* consolidation.py): every position is quoted towards every way out, the  *)
(* routes are compared by what they lose, and the group is admitted only   *)
(* if what its positions lose together stays within the limit.             *)
(*                                                                         *)
(* The quotes of a position are taken over time, each from evidence with   *)
(* an expiry of its own; `clock' counts time in units shorter than the     *)
(* life of a quote.  A route quoted without gas is a bound of its cost;    *)
(* preparing it (gas, approvals, the native reserve) gives the cost.  The  *)
(* routes of one target are represented by one; the ways of a position     *)
(* are asked in a fixed order, because the code sorts what it is given.    *)
(***************************************************************************)
EXTENDS Integers, Sequences, FiniteSetsExt

CONSTANTS
  Items,        \* the group's positions that the policy allows to move
  Native,       \* those in the coin that pays the gas
  HasDirect,    \* those whose asset the exchange takes on this network
  HasUnwrap,    \* those that are the network's wrapped coin
  Targets,      \* the enabled destinations, in order: a sequence
  Worth,        \* Items -> Nat \ {0}: the value of each position, in USD
  Limit,        \* the largest loss allowed, in percent
  Losses,       \* what a quoted route may lose, in USD
  Gas,          \* what its gas may cost, in USD
  Life,         \* how long a quote or a price stays valid
  MaxClock      \* bound: the time at which the plan is over

ASSUME PlanAssumption ==
  /\ Native \subseteq Items /\ HasDirect \subseteq Items /\ HasUnwrap \subseteq Items
  /\ Targets \in Seq(STRING)
  /\ Worth \in [Items -> Nat \ {0}]
  /\ Losses \subseteq Nat /\ Gas \subseteq Nat
  /\ Limit \in 1..100 /\ Life \in Nat /\ MaxClock \in Nat

VARIABLES
  clock,
  policy,       \* "complete" compares everything, "partial" takes what will do
  phase,        \* "listed", "searching", "admitted", "finished"
  kept,         \* the positions worth quoting
  search,       \* per position, its search
  outcome,      \* per position, the status of its entry
  requote       \* the group must be quoted again before it is executed

planVars == <<clock, policy, phase, kept, search, outcome, requote>>

NoOffer == [way |-> "none", loss |-> 0, firm |-> FALSE, expires |-> 0]

Ways(i) == (IF i \in HasDirect THEN <<"direct">> ELSE <<>>)
           \o (IF i \in HasUnwrap THEN <<"unwrap">> ELSE <<>>) \o Targets

WithinLimit(i, loss) == loss * 100 <= Limit * Worth[i]

Least(a, b) == IF a <= b THEN a ELSE b

(* A price about to expire, or one observed now. *)
Expiries == {clock, clock + Life}

Started(i) ==
  [next |-> 1, offers |-> {}, todo |-> {}, best |-> NoOffer, done |-> FALSE,
   complete |-> Ways(i) # <<>>, expires |-> clock + Life]

PlanInit ==
  /\ clock = 0
  /\ policy \in {"complete", "partial"}
  /\ phase = "listed"
  /\ kept = {}
  /\ search = [i \in Items |-> Started(i)]
  /\ outcome = [i \in Items |-> "none"]
  /\ requote = FALSE

(* _prepare_group: what is worth less than the floor, or has no deposit    *)
(* address, is not quoted.                                                 *)
PrepareGroup ==
  /\ phase = "listed"
  /\ kept' \in SUBSET Items
  /\ outcome' = [i \in Items |-> IF i \in kept' THEN "none" ELSE "left"]
  /\ search' = [i \in Items |-> Started(i)]
  /\ phase' = IF kept' = {} THEN "admitted" ELSE "searching"
  /\ UNCHANGED <<clock, policy, requote>>

Searching(i) == phase = "searching" /\ i \in kept /\ ~search[i].done

Asking(i) == Searching(i) /\ search[i].next <= Len(Ways(i))

Way(i) == Ways(i)[search[i].next]

ToTarget(i) == Way(i) \notin {"direct", "unwrap"}

(* Best available: a direct transfer within the limit ends the search.     *)
DirectWillDo(i) ==
  /\ policy = "partial"
  /\ ToTarget(i)
  /\ \E o \in search[i].offers : o.way = "direct" /\ WithinLimit(i, o.loss)

Defer(i) ==
  /\ Asking(i) /\ DirectWillDo(i)
  /\ search' = [search EXCEPT ![i].next = Len(Ways(i)) + 1, ![i].complete = FALSE]
  /\ UNCHANGED <<clock, policy, phase, kept, outcome, requote>>

(* A native position is quoted again for what its gas leaves, so any loss  *)
(* may come back.                                                          *)
Requoted == Losses

(* What preparing a route makes of its quoted loss.                        *)
FirmLosses(i, loss) == IF i \in Native THEN Requoted ELSE {loss + g : g \in Gas}

(* A way answers with a route that can be valued.  A direct transfer is    *)
(* priced with its gas; best available prepares each target's route at     *)
(* once and stops at one within the limit.                                 *)
Offered(i) ==
  /\ Asking(i) /\ ~DirectWillDo(i)
  /\ \E loss \in Losses, e \in Expiries :
       LET firm == Way(i) = "direct" \/ (policy = "partial" /\ ToTarget(i))
           sure == IF firm /\ Way(i) # "direct" THEN FirmLosses(i, loss) ELSE {loss}
       IN \E cost \in sure :
            LET stops == firm /\ ToTarget(i) /\ WithinLimit(i, cost)
                last == search[i].next = Len(Ways(i))
            IN search' = [search EXCEPT
                 ![i].offers = @ \cup {[way |-> Way(i), loss |-> cost, firm |-> firm,
                                        expires |-> e]},
                 ![i].expires = Least(@, e),
                 ![i].next = IF stops THEN Len(Ways(i)) + 1 ELSE @ + 1,
                 ![i].complete = @ /\ (stops => last)]
  /\ UNCHANGED <<clock, policy, phase, kept, outcome, requote>>

(* A way offers nothing: no route, or one under the deposit minimum, is an *)
(* answer; a failed request, a missing or old price is not.                *)
NotOffered(i) ==
  /\ Asking(i) /\ ~DirectWillDo(i)
  /\ \E answered \in BOOLEAN :
       /\ Way(i) = "unwrap" => ~answered
       /\ search' = [search EXCEPT ![i].next = @ + 1, ![i].complete = @ /\ answered]
  /\ UNCHANGED <<clock, policy, phase, kept, outcome, requote>>

Asked(i) == Searching(i) /\ search[i].next > Len(Ways(i))

Cheapest(offers) ==
  {o \in offers : \A p \in offers : o.loss <= p.loss}

(* A complete comparison that lacks an answer keeps its best quote only    *)
(* for the report.                                                         *)
Provisional(i) ==
  /\ Asked(i) /\ policy = "complete" /\ ~search[i].complete /\ search[i].best = NoOffer
  /\ search[i].todo = {}
  /\ \E o \in (IF search[i].offers = {} THEN {NoOffer} ELSE Cheapest(search[i].offers)) :
       search' = [search EXCEPT ![i].best = o, ![i].done = TRUE]
  /\ UNCHANGED <<clock, policy, phase, kept, outcome, requote>>

(* Otherwise what was quoted is prepared, the cheapest quote first.        *)
StartComparing(i) ==
  /\ Asked(i) /\ (search[i].complete \/ policy = "partial")
  /\ search[i].todo = {} /\ search[i].best = NoOffer
  /\ search' = [search EXCEPT ![i].todo = search[i].offers,
                              ![i].next = Len(Ways(i)) + 2,
                              ![i].done = search[i].offers = {}]
  /\ UNCHANGED <<clock, policy, phase, kept, outcome, requote>>

Better(new, best) == best = NoOffer \/ new.loss < best.loss

PrunesTheRest(best, offer) == best # NoOffer

(* A quote that loses more than a prepared route is not prepared.          *)
Pruned(best, offer) == best # NoOffer /\ best.loss < offer.loss

Compare(i) ==
  /\ Searching(i) /\ search[i].todo # {}
  /\ \E o \in Cheapest(search[i].todo) :
       LET left == search[i].todo \ {o} IN
       \/ /\ Pruned(search[i].best, o)
          /\ search' = [search EXCEPT ![i].todo = left, ![i].done = left = {}]
       \/ /\ ~Pruned(search[i].best, o)
          /\ \E cost \in (IF o.firm THEN {o.loss} ELSE FirmLosses(i, o.loss)),
                e \in Expiries :
               LET new == [o EXCEPT !.loss = cost, !.firm = TRUE,
                                    !.expires = IF o.firm THEN @ ELSE Least(@, e)]
               IN search' = [search EXCEPT
                    ![i].todo = left,
                    ![i].done = left = {},
                    ![i].offers = (@ \ {o}) \cup {new},
                    ![i].best = IF Better(new, @) THEN new ELSE @,
                    ![i].expires = IF o.firm THEN @ ELSE Least(@, e)]
       \/ /\ ~Pruned(search[i].best, o) /\ ~o.firm
          /\ search' = [search EXCEPT ![i].todo = left,
                                      ![i].done = left = {},
                                      ![i].offers = @ \ {o},
                                      ![i].complete = FALSE]
  /\ UNCHANGED <<clock, policy, phase, kept, outcome, requote>>

(* The stage ends, or a request is refused by the quota, in the middle of  *)
(* the fan-out: the whole group is left for review.                        *)
GroupFails ==
  /\ phase = "searching"
  /\ outcome' = [i \in Items |-> IF i \in kept THEN "review" ELSE outcome[i]]
  /\ search' = [i \in Items |-> [search[i] EXCEPT !.complete = FALSE]]
  /\ phase' = "admitted"
  /\ UNCHANGED <<clock, policy, kept, requote>>

Total(f, S) == MapThenSumSet(LAMBDA i : f[i], S)

(* The positions whose routes the admission adds up.                       *)
AddedUp ==
  IF policy = "partial" THEN {i \in kept : search[i].best # NoOffer} ELSE kept

(* The selected evidence is checked again after every comparison.          *)
StillFresh(i) == search[i].best = NoOffer \/ clock <= search[i].best.expires

AdmitsByWholeGroup(S) ==
  LET loss == [i \in S |-> search[i].best.loss] IN
  /\ S # {}
  /\ \A i \in S : search[i].best # NoOffer
  /\ Total(loss, S) * 100 <= Limit * Total(Worth, kept)

(* admit_group: the sum of the losses against the sum of the values.       *)
AdmitGroup(S) ==
  LET loss == [i \in S |-> search[i].best.loss] IN
  /\ S # {}
  /\ \A i \in S : search[i].best # NoOffer
  /\ Total(loss, S) * 100 <= Limit * Total(Worth, S)

PlanGroup ==
  /\ phase = "searching"
  /\ \A i \in kept : search[i].done
  /\ LET fresh == [i \in Items |-> search[i].complete /\ StillFresh(i)]
         accepted == /\ policy = "partial" \/ \A i \in kept : fresh[i]
                     /\ AdmitGroup(AddedUp)
     IN /\ search' = [i \in Items |->
                        IF i \in kept THEN [search[i] EXCEPT !.complete = fresh[i]]
                        ELSE search[i]]
        /\ outcome' = [i \in Items |->
                         IF i \notin kept THEN outcome[i]
                         ELSE IF accepted /\ i \in AddedUp THEN "ready" ELSE "review"]
  /\ phase' = "admitted"
  /\ UNCHANGED <<clock, policy, kept, requote>>

(* _invalidate_expired_comparisons, once all groups are planned.           *)
SelectedExpired == \E i \in kept : outcome[i] = "ready" /\ ~StillFresh(i)

Expired == \E i \in kept : /\ outcome[i] = "ready" \/ search[i].complete
                           /\ clock > search[i].expires

Finish ==
  /\ phase = "admitted"
  /\ requote' = (Expired /\ policy = "partial")
  /\ outcome' = IF Expired /\ policy = "complete"
                THEN [i \in Items |-> IF i \in kept THEN "review" ELSE outcome[i]]
                ELSE outcome
  /\ phase' = "finished"
  /\ UNCHANGED <<clock, policy, kept, search>>

PlanTick ==
  /\ phase \in {"searching", "admitted"} /\ clock < MaxClock
  /\ clock' = clock + 1
  /\ UNCHANGED <<policy, phase, kept, search, outcome, requote>>

PlanNext ==
  \/ PrepareGroup \/ GroupFails \/ PlanGroup \/ Finish \/ PlanTick
  \/ \E i \in Items : \/ Defer(i) \/ Offered(i) \/ NotOffered(i)
                      \/ Provisional(i) \/ StartComparing(i) \/ Compare(i)

PlanSpec == PlanInit /\ [][PlanNext]_planVars
-----------------------------------------------------------------------------
(***************************************************************************)
(* Properties                                                              *)
(***************************************************************************)

Admitted == {i \in Items : outcome[i] = "ready"}

(* No route that was quoted can cost less than the selected one: pruning   *)
(* by quotes without gas never drops the cheapest route, and a complete    *)
(* comparison is admitted only if every way was answered.  A native        *)
(* position is quoted again when it is prepared, so for it only the        *)
(* prepared routes are compared.                                           *)
CheapestIsSelected ==
  \A i \in Admitted :
    /\ \A o \in search[i].offers :
         (o.firm \/ i \notin Native) => search[i].best.loss <= o.loss
    /\ policy = "complete" => search[i].complete

(* What the ready positions lose together is within the limit of what they *)
(* are worth together, whichever positions were left for review.           *)
ReadyWithinLimit ==
  Total([i \in Admitted |-> search[i].best.loss], Admitted) * 100 <= Limit * Total(Worth, Admitted)

(* In the plan that is returned, every quote a ready position was compared *)
(* with was still valid when the plan was finished, in its whole group, or *)
(* the group is marked to be quoted again before it is executed.           *)
ComparedWithLiveQuotes ==
  [][phase' = "finished" =>
       \A i \in Items : outcome'[i] = "ready" =>
         \/ requote'
         \/ \A j \in kept : \A o \in search[j].offers :
              outcome'[j] = "ready" => clock <= o.expires]_planVars
=============================================================================
