-------------------------- MODULE CollectionProofs --------------------------
(***************************************************************************)
(* A wallet's plan and its collection, for every wallet, policy, number of *)
(* runs, quotes and interruptions.                                         *)
(*                                                                         *)
(* The plan of a network, for any positions, targets, prices, losses and   *)
(* lives of quotes: PlanInv follows a search from its first question to    *)
(* its last comparison, and says of an admitted group that exactly the     *)
(* positions that were added up are ready.                                 *)
(*                                                                         *)
(* The collection: a key of the journal that is not as it was at first is  *)
(* a ready entry of the saved plan of its run; if it is in flight, that    *)
(* run is the one updated last and still open.  And the gas of a native    *)
(* asset that something found, or to be found, has reserved is not sent    *)
(* before that is signed or done.                                          *)
(***************************************************************************)
EXTENDS RoutePlanning, Collection, FiniteSetTheorems, TLAPS

-----------------------------------------------------------------------------
(* The plan of a network: the shapes of its state and its invariant.       *)

WayNames == {"none", "direct", "unwrap"} \union {Targets[n] : n \in DOMAIN Targets}

Offer == [way : WayNames, loss : Nat, firm : BOOLEAN, expires : Nat]

Search == [next : Nat \ {0}, offers : SUBSET Offer, todo : SUBSET Offer, best : Offer,
           done : BOOLEAN, complete : BOOLEAN, expires : Nat]

PlanTypes ==
  /\ clock \in Nat
  /\ policy \in {"complete", "partial"}
  /\ phase \in {"listed", "searching", "admitted", "finished"}
  /\ kept \subseteq Items
  /\ search \in [Items -> Search]
  /\ outcome \in [Items -> {"none", "left", "review", "ready"}]
  /\ requote \in BOOLEAN

\* A route that was prepared, or whose quote bounds what preparing it gives.
Comparable(i, o) == o.firm \/ i \notin Native

\* Nothing is compared while the ways are asked, and what has been compared
\* loses no less than the best.  No quote outlives the search's expiry.
SearchOK(i, s) ==
  /\ s.todo \subseteq s.offers
  /\ \A o \in s.offers : s.expires <= o.expires
  /\ s.next <= Len(Ways(i)) + 1 /\ ~s.done => s.best = NoOffer /\ s.todo = {}
  /\ s.done => /\ s.todo = {}
               /\ \/ s.next > Len(Ways(i)) + 1
                  \/ policy = "complete" /\ ~s.complete
  /\ s.next > Len(Ways(i)) + 1 =>
       \A o \in s.offers \ s.todo :
         Comparable(i, o) => s.best # NoOffer /\ s.best.loss <= o.loss

SearchesOK == \A i \in Items : SearchOK(i, search[i])

\* What is ready is what the admission added up, when every search was done.
AdmittedOK ==
  Admitted # {} =>
    /\ phase \in {"admitted", "finished"}
    /\ Admitted = AddedUp
    /\ AdmitGroup(AddedUp)
    /\ \A i \in Admitted : /\ i \in kept /\ search[i].done
                           /\ policy = "complete" => search[i].complete

PlanInv == PlanTypes /\ SearchesOK /\ AdmittedOK

-----------------------------------------------------------------------------
(* The ways of a position, its quotes and its searches.                    *)

LEMMA WaysType == ASSUME NEW i PROVE Ways(i) \in Seq(WayNames)
<1>1. Targets \in Seq(WayNames)
  BY PlanAssumption DEF PlanAssumption, WayNames
<1>2. "direct" \in WayNames /\ "unwrap" \in WayNames
  BY DEF WayNames
<1>3. ASSUME NEW way \in WayNames PROVE <<way>> \in Seq(WayNames)
  OBVIOUS
<1>4. ASSUME NEW a \in Seq(WayNames), NEW b \in Seq(WayNames)
      PROVE  a \o b \o Targets \in Seq(WayNames)
  BY <1>1
<1>5. <<>> \in Seq(WayNames)
  OBVIOUS
<1> QED
  BY <1>2, <1>3, <1>4, <1>5 DEF Ways

LEMMA WayType ==
  ASSUME PlanTypes, NEW i \in Items, Asking(i)  PROVE Way(i) \in WayNames
<1>1. search[i].next \in 1..Len(Ways(i))
  BY DEF PlanTypes, Search, Asking
<1>2. Ways(i) \in Seq(WayNames)
  BY WaysType
<1> QED
  BY <1>1, <1>2 DEF Way

LEMMA LengthType == ASSUME NEW i PROVE Len(Ways(i)) \in Nat
  BY WaysType

LEMMA NoOfferType == NoOffer \in Offer /\ NoOffer.firm = FALSE
<1>1. NoOffer \in Offer
  BY DEF NoOffer, Offer, WayNames
<1>2. NoOffer.firm = FALSE
  BY DEF NoOffer
<1> QED
  BY <1>1, <1>2

LEMMA ExpiryType == ASSUME PlanTypes, NEW e \in Expiries PROVE e \in Nat
  BY PlanAssumption DEF PlanAssumption, PlanTypes, Expiries

LEMMA LeastType == ASSUME NEW a \in Nat, NEW b \in Nat
  PROVE Least(a, b) \in Nat /\ Least(a, b) <= a /\ Least(a, b) <= b
  BY DEF Least

LEMMA LeastMonotone ==
  ASSUME NEW a \in Nat, NEW b \in Nat, NEW c \in Nat, a <= b
  PROVE  Least(a, c) <= Least(b, c)
  BY DEF Least

LEMMA FirmLossType ==
  ASSUME NEW i, NEW loss \in Nat, NEW cost \in FirmLosses(i, loss)
  PROVE  cost \in Nat
<1>1. Losses \subseteq Nat /\ Gas \subseteq Nat
  BY PlanAssumption DEF PlanAssumption
<1> QED
  BY <1>1 DEF FirmLosses, Requoted

\* A search that has just started.
LEMMA StartedIsOK ==
  ASSUME PlanTypes, NEW i \in Items
  PROVE  Started(i) \in Search /\ SearchOK(i, Started(i))
<1>1. clock + Life \in Nat
  BY PlanAssumption DEF PlanAssumption, PlanTypes
<1>2. Started(i) \in Search
  BY <1>1, NoOfferType DEF Started, Search
<1>3. SearchOK(i, Started(i))
  BY LengthType DEF SearchOK, Started
<1> QED
  BY <1>2, <1>3

\* An action of one search replaces its record and nothing else.
Replaced(i, new) ==
  /\ search' = [search EXCEPT ![i] = new]
  /\ UNCHANGED <<clock, policy, phase, kept, outcome, requote>>

LEMMA OneSearchMoves ==
  ASSUME PlanInv, NEW i \in Items, phase = "searching",
         NEW new, Replaced(i, new), new \in Search, SearchOK(i, new)
  PROVE  PlanInv'
<1>1. PlanTypes'
  BY DEF PlanInv, PlanTypes, Replaced
<1>2. SearchesOK'
  <2>1. ASSUME NEW j \in Items PROVE SearchOK(j, search'[j])
    BY DEF PlanInv, PlanTypes, SearchesOK, Replaced
  <2> QED
    BY <2>1 DEF SearchesOK, SearchOK, Replaced
<1>3. AdmittedOK'
  <2>1. Admitted = {}
    BY DEF PlanInv, AdmittedOK
  <2>2. Admitted' = {}
    BY <2>1 DEF Admitted, Replaced
  <2> QED
    BY <2>2 DEF AdmittedOK
<1> QED
  BY <1>1, <1>2, <1>3 DEF PlanInv

-----------------------------------------------------------------------------
(* The steps of one search.                                                *)

\* The fields of a search while its ways are asked.
LEMMA AskingFields ==
  ASSUME PlanInv, NEW i \in Items, Asking(i)
  PROVE  /\ search[i] \in Search /\ SearchOK(i, search[i])
         /\ search[i].next \in 1..Len(Ways(i)) /\ Len(Ways(i)) \in Nat
         /\ search[i].best = NoOffer /\ search[i].todo = {}
         /\ search[i].done = FALSE /\ phase = "searching"
<1>1. search[i] \in Search /\ SearchOK(i, search[i])
  BY DEF PlanInv, PlanTypes, SearchesOK
<1>2. search[i].next \in 1..Len(Ways(i)) /\ Len(Ways(i)) \in Nat
  BY <1>1, LengthType DEF Search, Asking
<1>3. search[i].done = FALSE /\ phase = "searching"
  BY <1>1 DEF Search, Asking, Searching
<1>4. search[i].best = NoOffer /\ search[i].todo = {}
  BY <1>1, <1>2, <1>3 DEF SearchOK
<1> QED
  BY <1>1, <1>2, <1>3, <1>4

\* A search that goes on asking: it may gain a quote, and it has compared none.
LEMMA AskedOn ==
  ASSUME PlanInv, NEW i \in Items, Asking(i), NEW new \in Search,
         Replaced(i, new),
         new.next <= Len(Ways(i)) + 1, new.done = FALSE,
         new.best = NoOffer, new.todo = {},
         \A o \in new.offers : new.expires <= o.expires
  PROVE  PlanInv'
<1>1. SearchOK(i, new)
  BY LengthType DEF SearchOK, Search
<1> QED
  BY <1>1, OneSearchMoves, AskingFields

LEMMA DeferKeeps ==
  ASSUME PlanInv, NEW i \in Items, Defer(i)  PROVE PlanInv'
<1> DEFINE s == search[i]
           next == Len(Ways(i)) + 1
           new == [s EXCEPT !.next = next, !.complete = FALSE]
<1>1. Asking(i)
  BY DEF Defer
<1>2. s \in Search /\ Len(Ways(i)) \in Nat /\ s.best = NoOffer /\ s.todo = {}
      /\ s.done = FALSE /\ SearchOK(i, s)
  BY <1>1, AskingFields
<1>3. Replaced(i, new)
  BY DEF Defer, Replaced, PlanInv, PlanTypes
<1>4. next \in Nat \ {0} /\ next <= Len(Ways(i)) + 1
  BY <1>2
<1> HIDE DEF next
<1>5. new \in Search /\ new.next = next
  <2>1. new \in Search
    BY <1>2, <1>4 DEF Search
  <2>2. new.next = next
    BY <1>2 DEF Search
  <2> QED
    BY <2>1, <2>2
<1>6. new.done = s.done /\ new.best = s.best /\ new.todo = s.todo
  BY <1>2 DEF Search
<1>7. new.offers = s.offers /\ new.expires = s.expires
  BY <1>2 DEF Search
<1>8. \A o \in s.offers : s.expires <= o.expires
  BY <1>2 DEF SearchOK
<1> HIDE DEF new
<1>9. new.next <= Len(Ways(i)) + 1 /\ \A o \in new.offers : new.expires <= o.expires
  BY <1>4, <1>5, <1>7, <1>8
<1> QED
  BY <1>1, <1>2, <1>3, <1>5, <1>6, <1>9, AskedOn

LEMMA NotOfferedKeeps ==
  ASSUME PlanInv, NEW i \in Items, NotOffered(i)  PROVE PlanInv'
<1>1. Asking(i)
  BY DEF NotOffered
<1>2. PICK answered \in BOOLEAN :
        search' = [search EXCEPT ![i].next = @ + 1, ![i].complete = @ /\ answered]
  BY DEF NotOffered
<1> DEFINE s == search[i]
           next == s.next + 1
           complete == s.complete /\ answered
           new == [s EXCEPT !.next = next, !.complete = complete]
<1>3. s \in Search /\ Len(Ways(i)) \in Nat /\ s.best = NoOffer /\ s.todo = {}
      /\ s.done = FALSE /\ SearchOK(i, s) /\ s.next \in 1..Len(Ways(i))
  BY <1>1, AskingFields
<1>4. Replaced(i, new)
  BY <1>2 DEF NotOffered, Replaced, PlanInv, PlanTypes
<1>5. next \in Nat \ {0} /\ next <= Len(Ways(i)) + 1 /\ complete \in BOOLEAN
  BY <1>3 DEF Search
<1> HIDE DEF next, complete
<1>6. new \in Search /\ new.next = next
  <2>1. new \in Search
    BY <1>3, <1>5 DEF Search
  <2>2. new.next = next
    BY <1>3 DEF Search
  <2> QED
    BY <2>1, <2>2
<1>7. new.done = s.done /\ new.best = s.best /\ new.todo = s.todo
  BY <1>3 DEF Search
<1>8. new.offers = s.offers /\ new.expires = s.expires
  BY <1>3 DEF Search
<1>9. \A o \in s.offers : s.expires <= o.expires
  BY <1>3 DEF SearchOK
<1> HIDE DEF new
<1>10. new.next <= Len(Ways(i)) + 1 /\ \A o \in new.offers : new.expires <= o.expires
  BY <1>5, <1>6, <1>8, <1>9
<1> QED
  BY <1>1, <1>3, <1>4, <1>6, <1>7, <1>10, AskedOn

LEMMA OfferedKeeps ==
  ASSUME PlanInv, NEW i \in Items, Offered(i)  PROVE PlanInv'
<1>1. Asking(i)
  BY DEF Offered
<1> DEFINE s == search[i]
           Firm == Way(i) = "direct" \/ (policy = "partial" /\ ToTarget(i))
           Offering(cost, e) == [way |-> Way(i), loss |-> cost, firm |-> Firm,
                                 expires |-> e]
<1> DEFINE Stops(cost) == Firm /\ ToTarget(i) /\ WithinLimit(i, cost)
           last == s.next = Len(Ways(i))
<1>2. PICK loss \in Losses, e \in Expiries :
        \E cost \in (IF Firm /\ Way(i) # "direct" THEN FirmLosses(i, loss) ELSE {loss}) :
            search' = [search EXCEPT
               ![i].offers = @ \cup {Offering(cost, e)},
               ![i].expires = Least(@, e),
               ![i].next = IF Stops(cost) THEN Len(Ways(i)) + 1 ELSE @ + 1,
               ![i].complete = @ /\ (Stops(cost) => last)]
  BY Zenon DEF Offered
<1>3. PICK cost \in (IF Firm /\ Way(i) # "direct" THEN FirmLosses(i, loss) ELSE {loss}) :
            search' = [search EXCEPT
               ![i].offers = @ \cup {Offering(cost, e)},
               ![i].expires = Least(@, e),
               ![i].next = IF Stops(cost) THEN Len(Ways(i)) + 1 ELSE @ + 1,
               ![i].complete = @ /\ (Stops(cost) => last)]
  BY <1>2, Zenon
<1> DEFINE o == Offering(cost, e)
           next == IF Stops(cost) THEN Len(Ways(i)) + 1 ELSE s.next + 1
           complete == s.complete /\ (Stops(cost) => last)
           offers == s.offers \union {o}
           expires == Least(s.expires, e)
           new == [s EXCEPT !.offers = offers, !.expires = expires,
                            !.next = next, !.complete = complete]
<1>4. s \in Search /\ Len(Ways(i)) \in Nat /\ s.best = NoOffer /\ s.todo = {}
      /\ s.done = FALSE /\ SearchOK(i, s) /\ s.next \in 1..Len(Ways(i))
  BY <1>1, AskingFields
<1>5. Replaced(i, new)
  <2>1. search' = [search EXCEPT ![i] = new]
    BY <1>3 DEF PlanInv, PlanTypes
  <2> QED
    BY <2>1 DEF Offered, Replaced
<1>6. e \in Nat /\ cost \in Nat
  <2>1. loss \in Nat
    BY PlanAssumption DEF PlanAssumption
  <2>2. cost \in Nat
    BY <2>1, <1>3, FirmLossType
  <2> QED
    BY <2>2, ExpiryType DEF PlanInv
<1>7. o \in Offer /\ o.expires = e
  BY <1>1, <1>6, WayType DEF Offer, PlanInv
<1>8. next \in Nat \ {0} /\ next <= Len(Ways(i)) + 1
  BY <1>4
<1>9. /\ expires \in Nat
      /\ expires <= s.expires /\ expires <= e /\ s.expires \in Nat
  BY <1>4, <1>6, LeastType DEF Search
<1>10. offers \in SUBSET Offer /\ complete \in BOOLEAN
  BY <1>4, <1>7 DEF Search
<1>11. \A p \in offers : expires <= p.expires
  <2>1. \A p \in s.offers : s.expires <= p.expires /\ p.expires \in Nat
    BY <1>4 DEF SearchOK, Search, Offer
  <2> QED
    BY <2>1, <1>7, <1>9
<1> HIDE DEF o, next, complete, offers, expires
<1>12. new \in Search
  BY <1>4, <1>8, <1>9, <1>10 DEF Search
<1>13. new.next = next /\ new.offers = offers
  BY <1>4 DEF Search
<1>14. new.expires = expires
  BY <1>4 DEF Search
<1>15. new.done = s.done /\ new.best = s.best /\ new.todo = s.todo
  BY <1>4 DEF Search
<1> HIDE DEF new
<1> QED
  BY <1>1, <1>4, <1>5, <1>8, <1>11, <1>12, <1>13, <1>14, <1>15, AskedOn

\* A search that lacks an answer ends with its best quote, for the report only.
LEMMA ProvisionalKeeps ==
  ASSUME PlanInv, NEW i \in Items, Provisional(i)  PROVE PlanInv'
<1> DEFINE s == search[i]
<1>1. /\ s \in Search /\ SearchOK(i, s) /\ phase = "searching"
      /\ s.best = NoOffer /\ s.todo = {} /\ policy = "complete" /\ ~s.complete
  BY DEF PlanInv, PlanTypes, SearchesOK, Provisional, Asked, Searching
<1>2. PICK o \in (IF s.offers = {} THEN {NoOffer} ELSE Cheapest(s.offers)) :
        search' = [search EXCEPT ![i].best = o, ![i].done = TRUE]
  BY DEF Provisional
<1>3. o \in Offer
  BY <1>1, <1>2, NoOfferType DEF Cheapest, Search
<1> DEFINE new == [s EXCEPT !.best = o, !.done = TRUE]
<1>4. Replaced(i, new)
  <2>1. search' = [search EXCEPT ![i] = new]
    BY <1>2 DEF PlanInv, PlanTypes
  <2> QED
    BY <2>1 DEF Provisional, Replaced
<1>5. new \in Search
  BY <1>1, <1>3 DEF Search
<1>6. new.best = o
  BY <1>1 DEF Search
<1>7. new.next = s.next /\ new.offers = s.offers /\ new.todo = s.todo
  BY <1>1 DEF Search
<1>8. new.expires = s.expires /\ new.complete = s.complete /\ new.done = TRUE
  BY <1>1 DEF Search
<1> HIDE DEF new
<1>9. SearchOK(i, new)
  <2>1. \A p \in s.offers : s.expires <= p.expires
    BY <1>1 DEF SearchOK
  <2>2. s.next > Len(Ways(i)) + 1 => \A p \in s.offers : ~Comparable(i, p)
    BY <1>1 DEF SearchOK
  <2> QED
    BY <1>1, <1>7, <1>8, <2>1, <2>2 DEF SearchOK
<1> QED
  BY <1>1, <1>4, <1>5, <1>9, OneSearchMoves

\* The comparison starts with every quote to be looked at.
LEMMA StartComparingKeeps ==
  ASSUME PlanInv, NEW i \in Items, StartComparing(i)  PROVE PlanInv'
<1> DEFINE s == search[i]
           next == Len(Ways(i)) + 2
           done == s.offers = {}
           new == [s EXCEPT !.todo = s.offers, !.next = next, !.done = done]
<1>1. /\ s \in Search /\ SearchOK(i, s) /\ phase = "searching"
  BY DEF PlanInv, PlanTypes, SearchesOK, StartComparing, Asked, Searching
<1>2. Replaced(i, new)
  <2>1. search' = [search EXCEPT ![i] = new]
    BY DEF PlanInv, PlanTypes, StartComparing
  <2> QED
    BY <2>1 DEF StartComparing, Replaced
<1>3. next \in Nat \ {0} /\ next > Len(Ways(i)) + 1 /\ ~(next <= Len(Ways(i)) + 1)
  BY LengthType
<1>4. done \in BOOLEAN /\ s.offers \in SUBSET Offer
  BY <1>1 DEF Search
<1>5. done => s.offers = {}
  OBVIOUS
<1> HIDE DEF next, done
<1>6. new \in Search
  BY <1>1, <1>3, <1>4 DEF Search
<1>7. new.next = next /\ new.offers = s.offers /\ new.todo = s.offers
  BY <1>1 DEF Search
<1>8. new.expires = s.expires /\ new.done = done
  BY <1>1 DEF Search
<1> HIDE DEF new
<1>9. SearchOK(i, new)
  <2>1. \A p \in s.offers : s.expires <= p.expires
    BY <1>1 DEF SearchOK
  <2> QED
    BY <1>3, <1>5, <1>7, <1>8, <2>1 DEF SearchOK
<1> QED
  BY <1>1, <1>2, <1>6, <1>9, OneSearchMoves

\* What Compare makes of a search: one quote less to look at.
Compared(i, o, new) ==
  LET s == search[i] IN
  /\ new.next = s.next
  /\ new.todo = s.todo \ {o}
  /\ new.done = (s.todo \ {o} = {})
  /\ new.todo \subseteq new.offers
  /\ \A p \in new.offers : new.expires <= p.expires
  /\ \A p \in new.offers \ new.todo :
       Comparable(i, p) => new.best # NoOffer /\ new.best.loss <= p.loss

LEMMA ComparedKeeps ==
  ASSUME PlanInv, NEW i \in Items, Searching(i), NEW o \in search[i].todo,
         NEW new \in Search, Replaced(i, new), Compared(i, o, new)
  PROVE  PlanInv'
<1> DEFINE s == search[i]
<1>1. s \in Search /\ SearchOK(i, s) /\ phase = "searching" /\ ~s.done
  BY DEF PlanInv, PlanTypes, SearchesOK, Searching
<1>2. Len(Ways(i)) \in Nat /\ s.next \in Nat
  BY <1>1, LengthType DEF Search
<1>3. s.next > Len(Ways(i)) + 1 /\ ~(s.next <= Len(Ways(i)) + 1)
  <2>1. s.todo # {}
    OBVIOUS
  <2>2. ~(s.next <= Len(Ways(i)) + 1)
    BY <1>1, <2>1 DEF SearchOK
  <2> QED
    BY <1>2, <2>2
<1>4. SearchOK(i, new)
  BY <1>3 DEF SearchOK, Compared
<1> QED
  BY <1>1, <1>4, OneSearchMoves

\* What a search knows while it compares.
LEMMA ComparingFields ==
  ASSUME PlanInv, NEW i \in Items, Searching(i), search[i].todo # {}
  PROVE  LET s == search[i] IN
         /\ s \in Search /\ s.todo \subseteq s.offers /\ s.offers \subseteq Offer
         /\ \A p \in s.offers : s.expires <= p.expires
         /\ \A p \in s.offers \ s.todo :
              Comparable(i, p) => s.best # NoOffer /\ s.best.loss <= p.loss
<1> DEFINE s == search[i]
<1>1. s \in Search /\ SearchOK(i, s) /\ ~s.done
  BY DEF PlanInv, PlanTypes, SearchesOK, Searching
<1>2. Len(Ways(i)) \in Nat /\ s.next \in Nat /\ s.offers \subseteq Offer
  BY <1>1, LengthType DEF Search
<1>3. s.next > Len(Ways(i)) + 1
  BY <1>1, <1>2 DEF SearchOK
<1> QED
  BY <1>1, <1>2, <1>3 DEF SearchOK

\* A quote that cannot beat the best is left as it was quoted.
LEMMA PrunedKeeps ==
  ASSUME PlanInv, NEW i \in Items, Searching(i), NEW o \in search[i].todo,
         Pruned(search[i].best, o),
         search' = [search EXCEPT ![i].todo = search[i].todo \ {o},
                                  ![i].done = search[i].todo \ {o} = {}],
         UNCHANGED <<clock, policy, phase, kept, outcome, requote>>
  PROVE  PlanInv'
<1> DEFINE s == search[i]
           left == s.todo \ {o}
           done == left = {}
           new == [s EXCEPT !.todo = left, !.done = done]
<1>1. /\ s \in Search /\ s.todo \subseteq s.offers /\ s.offers \subseteq Offer
      /\ \A p \in s.offers : s.expires <= p.expires
      /\ \A p \in s.offers \ s.todo :
           Comparable(i, p) => s.best # NoOffer /\ s.best.loss <= p.loss
  BY ComparingFields, Zenon
<1>2. Replaced(i, new)
  <2>1. search' = [search EXCEPT ![i] = new]
    BY DEF PlanInv, PlanTypes
  <2> QED
    BY <2>1 DEF Replaced
<1>3. left \in SUBSET Offer /\ left \subseteq s.offers /\ done \in BOOLEAN
  BY <1>1
<1>4. s.best # NoOffer /\ s.best.loss <= o.loss
  <2>1. s.best.loss \in Nat /\ o.loss \in Nat
    BY <1>1 DEF Search, Offer
  <2> QED
    BY <2>1 DEF Pruned
<1>5. left = s.todo \ {o} /\ done = (s.todo \ {o} = {})
  OBVIOUS
<1> HIDE DEF left, done
<1>6. new \in Search
  BY <1>1, <1>3 DEF Search
<1>7. new.next = s.next /\ new.offers = s.offers /\ new.todo = left
  BY <1>1 DEF Search
<1>8. new.expires = s.expires /\ new.best = s.best /\ new.done = done
  BY <1>1 DEF Search
<1> HIDE DEF new
<1>9. Compared(i, o, new)
  <2>1. \A p \in s.offers \ left :
          Comparable(i, p) => s.best # NoOffer /\ s.best.loss <= p.loss
    BY <1>1, <1>4, <1>5
  <2> QED
    BY <1>1, <1>3, <1>5, <1>7, <1>8, <2>1 DEF Compared
<1> QED
  BY <1>2, <1>6, <1>9, ComparedKeeps

\* A quote that could not be prepared is not compared any more.
LEMMA DroppedKeeps ==
  ASSUME PlanInv, NEW i \in Items, Searching(i), NEW o \in search[i].todo,
         search' = [search EXCEPT ![i].todo = search[i].todo \ {o},
                                  ![i].done = search[i].todo \ {o} = {},
                                  ![i].offers = @ \ {o},
                                  ![i].complete = FALSE],
         UNCHANGED <<clock, policy, phase, kept, outcome, requote>>
  PROVE  PlanInv'
<1> DEFINE s == search[i]
           left == s.todo \ {o}
           done == left = {}
           offers == s.offers \ {o}
           new == [s EXCEPT !.todo = left, !.done = done, !.offers = offers,
                            !.complete = FALSE]
<1>1. /\ s \in Search /\ s.todo \subseteq s.offers /\ s.offers \subseteq Offer
      /\ \A p \in s.offers : s.expires <= p.expires
      /\ \A p \in s.offers \ s.todo :
           Comparable(i, p) => s.best # NoOffer /\ s.best.loss <= p.loss
  BY ComparingFields, Zenon
<1>2. Replaced(i, new)
  <2>1. search' = [search EXCEPT ![i] = new]
    BY DEF PlanInv, PlanTypes
  <2> QED
    BY <2>1 DEF Replaced
<1>3. left \in SUBSET Offer /\ offers \in SUBSET Offer /\ done \in BOOLEAN
  BY <1>1
<1>4. left = s.todo \ {o} /\ done = (s.todo \ {o} = {}) /\ offers = s.offers \ {o}
  OBVIOUS
<1> HIDE DEF left, done, offers
<1>5. new \in Search
  BY <1>1, <1>3 DEF Search
<1>6. new.next = s.next /\ new.offers = offers /\ new.todo = left
  BY <1>1 DEF Search
<1>7. new.expires = s.expires /\ new.best = s.best /\ new.done = done
  BY <1>1 DEF Search
<1> HIDE DEF new
<1>8. Compared(i, o, new)
  <2>1. left \subseteq offers /\ offers \ left \subseteq s.offers \ s.todo
    BY <1>1, <1>4
  <2> QED
    BY <1>1, <1>4, <1>6, <1>7, <2>1 DEF Compared
<1> QED
  BY <1>2, <1>5, <1>8, ComparedKeeps

\* A prepared route takes the place of its quote, and of the best it beats.
Prepared(i, o, cost, e, route) ==
  /\ route = [o EXCEPT !.loss = cost, !.firm = TRUE,
                       !.expires = IF o.firm THEN @ ELSE Least(@, e)]
  /\ search' = [search EXCEPT
                  ![i].todo = search[i].todo \ {o},
                  ![i].done = search[i].todo \ {o} = {},
                  ![i].offers = (@ \ {o}) \cup {route},
                  ![i].best = IF Better(route, @) THEN route ELSE @,
                  ![i].expires = IF o.firm THEN @ ELSE Least(@, e)]
  /\ UNCHANGED <<clock, policy, phase, kept, outcome, requote>>

LEMMA PreparedKeeps ==
  ASSUME PlanInv, NEW i \in Items, Searching(i), NEW o \in search[i].todo,
         NEW cost \in Nat, NEW e \in Nat, NEW route, Prepared(i, o, cost, e, route)
  PROVE  PlanInv'
<1> DEFINE s == search[i]
           left == s.todo \ {o}
           done == left = {}
           offers == (s.offers \ {o}) \cup {route}
           best == IF Better(route, s.best) THEN route ELSE s.best
           expires == IF o.firm THEN s.expires ELSE Least(s.expires, e)
           routeExpires == IF o.firm THEN o.expires ELSE Least(o.expires, e)
           new == [s EXCEPT !.todo = left, !.done = done, !.offers = offers,
                            !.best = best, !.expires = expires]
<1>1. /\ s \in Search /\ s.todo \subseteq s.offers /\ s.offers \subseteq Offer
      /\ \A p \in s.offers : s.expires <= p.expires
      /\ \A p \in s.offers \ s.todo :
           Comparable(i, p) => s.best # NoOffer /\ s.best.loss <= p.loss
  BY ComparingFields, Zenon
<1>2. Replaced(i, new)
  <2>1. search' = [search EXCEPT ![i] = new]
    BY DEF PlanInv, PlanTypes, Prepared
  <2> QED
    BY <2>1 DEF Replaced, Prepared
<1>3. o \in Offer /\ s.expires \in Nat /\ o.expires \in Nat /\ s.expires <= o.expires
  BY <1>1 DEF Search, Offer
<1>4. /\ routeExpires \in Nat /\ expires \in Nat
      /\ expires <= s.expires /\ expires <= routeExpires
  <2>1. CASE o.firm
    BY <1>3, <2>1
  <2>2. CASE ~o.firm
    <3>1. expires = Least(s.expires, e) /\ routeExpires = Least(o.expires, e)
      BY <2>2
    <3>2. Least(s.expires, e) <= Least(o.expires, e)
      BY <1>3, LeastMonotone
    <3> HIDE DEF expires, routeExpires
    <3> QED
      BY <1>3, <3>1, <3>2, LeastType
  <2> QED
    BY <2>1, <2>2
<1>5. route = [o EXCEPT !.loss = cost, !.firm = TRUE, !.expires = routeExpires]
  BY DEF Prepared
<1> HIDE DEF routeExpires
<1>6. route \in Offer
  BY <1>3, <1>4, <1>5 DEF Offer
<1>7. route.loss = cost
  BY <1>3, <1>5 DEF Offer
<1>8. route.expires = routeExpires
  BY <1>3, <1>5 DEF Offer
<1>9. route # NoOffer
  <2>1. route.firm = TRUE
    BY <1>3, <1>5 DEF Offer
  <2> QED
    BY <2>1, NoOfferType
<1>10. s.best \in Offer /\ s.best.loss \in Nat
  BY <1>1 DEF Search, Offer
<1>11. /\ best \in Offer /\ best # NoOffer /\ best.loss <= route.loss
       /\ s.best # NoOffer => best.loss <= s.best.loss
  <2>1. route.loss \in Nat
    BY <1>7
  <2>2. CASE Better(route, s.best)
    <3>1. best = route
      BY <2>2
    <3>2. s.best # NoOffer => route.loss < s.best.loss
      BY <2>2 DEF Better
    <3> HIDE DEF best
    <3> QED
      BY <1>6, <1>9, <1>10, <2>1, <3>1, <3>2
  <2>3. CASE ~Better(route, s.best)
    <3>1. best = s.best
      BY <2>3
    <3>2. s.best # NoOffer /\ ~(route.loss < s.best.loss)
      BY <2>3 DEF Better
    <3> HIDE DEF best
    <3> QED
      BY <1>10, <2>1, <3>1, <3>2
  <2> QED
    BY <2>2, <2>3
<1>12. left \in SUBSET Offer /\ offers \in SUBSET Offer /\ done \in BOOLEAN
  BY <1>1, <1>6
<1>13. /\ left = s.todo \ {o} /\ done = (s.todo \ {o} = {})
       /\ offers = (s.offers \ {o}) \cup {route}
  OBVIOUS
<1> HIDE DEF left, done, offers, best, expires
<1>14. new \in Search
  BY <1>1, <1>4, <1>11, <1>12 DEF Search
<1>15. new.next = s.next /\ new.offers = offers /\ new.todo = left
  BY <1>1 DEF Search
<1>16. new.expires = expires /\ new.best = best /\ new.done = done
  BY <1>1 DEF Search
<1> HIDE DEF new
<1>17. Compared(i, o, new)
  <2>1. left \subseteq offers
    BY <1>1, <1>13
  <2>2. \A p \in offers : expires <= p.expires
    <3>1. \A p \in s.offers : s.expires <= p.expires /\ p.expires \in Nat
      BY <1>1 DEF Offer
    <3>2. TAKE p \in offers
    <3>3. CASE p = route
      BY <1>4, <1>8, <3>3
    <3>4. CASE p # route
      <4>1. s.expires <= p.expires /\ p.expires \in Nat
        BY <1>13, <3>1, <3>2, <3>4
      <4> QED
        BY <1>3, <1>4, <4>1
    <3> QED
      BY <3>3, <3>4
  <2>3. \A p \in offers \ left :
          Comparable(i, p) => best # NoOffer /\ best.loss <= p.loss
    <3>1. TAKE p \in offers \ left
    <3>2. CASE p = route
      BY <1>11, <3>2
    <3>3. CASE p # route
      <4>1. p \in s.offers \ s.todo /\ p.loss \in Nat
        BY <1>1, <1>13, <3>1, <3>3 DEF Offer
      <4>2. Comparable(i, p) => s.best # NoOffer /\ s.best.loss <= p.loss
        BY <1>1, <4>1
      <4>3. best.loss \in Nat
        BY <1>11 DEF Offer
      <4>4. best # NoOffer /\ (s.best # NoOffer => best.loss <= s.best.loss)
        BY <1>11
      <4>5. SUFFICES ASSUME Comparable(i, p) PROVE best.loss <= p.loss
        BY <4>4
      <4>6. s.best.loss <= p.loss /\ best.loss <= s.best.loss
        BY <4>2, <4>4, <4>5
      <4> QED
        BY <1>10, <4>1, <4>3, <4>6
    <3> QED
      BY <3>2, <3>3
  <2> QED
    BY <1>13, <1>15, <1>16, <2>1, <2>2, <2>3 DEF Compared
<1> QED
  BY <1>2, <1>14, <1>17, ComparedKeeps

LEMMA CompareKeeps ==
  ASSUME PlanInv, NEW i \in Items, Compare(i)  PROVE PlanInv'
<1>1. /\ Searching(i)
      /\ UNCHANGED <<clock, policy, phase, kept, outcome, requote>>
  BY DEF Compare
<1>2. PICK o \in Cheapest(search[i].todo) :
       LET left == search[i].todo \ {o} IN
       \/ /\ Pruned(search[i].best, o)
          /\ search' = [search EXCEPT ![i].todo = left, ![i].done = left = {}]
       \/ /\ ~Pruned(search[i].best, o)
          /\ \E cost \in (IF o.firm THEN {o.loss} ELSE FirmLosses(i, o.loss)),
                e \in Expiries :
               LET new == [o EXCEPT !.loss = cost, !.firm = TRUE,
                                    !.expires = IF o.firm THEN @ ELSE Least(@, e)]
               IN search' = [search EXCEPT
                    ![i].todo = left,
                    ![i].done = left = {},
                    ![i].offers = (@ \ {o}) \cup {new},
                    ![i].best = IF Better(new, @) THEN new ELSE @,
                    ![i].expires = IF o.firm THEN @ ELSE Least(@, e)]
       \/ /\ ~Pruned(search[i].best, o) /\ ~o.firm
          /\ search' = [search EXCEPT ![i].todo = left,
                                      ![i].done = left = {},
                                      ![i].offers = @ \ {o},
                                      ![i].complete = FALSE]
  BY Zenon DEF Compare
<1>3. o \in search[i].todo
  BY DEF Cheapest
<1>4. CASE /\ Pruned(search[i].best, o)
           /\ search' = [search EXCEPT ![i].todo = search[i].todo \ {o},
                                       ![i].done = search[i].todo \ {o} = {}]
  BY <1>1, <1>3, <1>4, PrunedKeeps
<1>5. ASSUME NEW cost \in (IF o.firm THEN {o.loss} ELSE FirmLosses(i, o.loss)),
             NEW e \in Expiries,
             NEW new,
             new = [o EXCEPT !.loss = cost, !.firm = TRUE,
                             !.expires = IF o.firm THEN @ ELSE Least(@, e)],
             search' = [search EXCEPT
                    ![i].todo = search[i].todo \ {o},
                    ![i].done = search[i].todo \ {o} = {},
                    ![i].offers = (@ \ {o}) \cup {new},
                    ![i].best = IF Better(new, @) THEN new ELSE @,
                    ![i].expires = IF o.firm THEN @ ELSE Least(@, e)]
      PROVE  PlanInv'
  <2>1. e \in Nat
    BY ExpiryType DEF PlanInv
  <2>2. o \in Offer /\ o.loss \in Nat
    BY <1>3 DEF PlanInv, PlanTypes, Search, Offer
  <2>3. cost \in Nat
    BY <2>2, FirmLossType
  <2> QED
    BY <1>1, <1>3, <1>5, <2>1, <2>3, PreparedKeeps DEF Prepared
<1>6. CASE search' = [search EXCEPT ![i].todo = search[i].todo \ {o},
                                    ![i].done = search[i].todo \ {o} = {},
                                    ![i].offers = @ \ {o},
                                    ![i].complete = FALSE]
  BY <1>1, <1>3, <1>6, DroppedKeeps
<1> QED
  BY <1>2, <1>4, <1>5, <1>6, Zenon

-----------------------------------------------------------------------------
(* The steps of the group.                                                 *)

\* An answer found to be missing, or too old, leaves a search what it was.
LEMMA Incomplete ==
  ASSUME PlanTypes, NEW i \in Items, NEW s \in Search, SearchOK(i, s),
         NEW complete \in BOOLEAN, complete => s.complete
  PROVE  LET new == [s EXCEPT !.complete = complete] IN
         /\ new \in Search /\ SearchOK(i, new) /\ new.complete = complete
         /\ new.best = s.best /\ new.done = s.done
<1> DEFINE new == [s EXCEPT !.complete = complete]
<1>1. new \in Search
  BY DEF Search
<1>2. new.next = s.next /\ new.offers = s.offers /\ new.todo = s.todo
  BY DEF Search
<1>3. new.best = s.best /\ new.done = s.done /\ new.expires = s.expires
  BY DEF Search
<1>4. new.complete = complete
  BY DEF Search
<1> HIDE DEF new
<1>5. SearchOK(i, new)
  BY <1>2, <1>3, <1>4 DEF SearchOK
<1> QED
  BY <1>1, <1>3, <1>4, <1>5 DEF new

\* What was selected decides who is eligible and what the admission says.
LEMMA AdmissionStands ==
  ASSUME kept \subseteq Items, kept' = kept, policy' = policy,
         \A i \in Items : search'[i].best = search[i].best
  PROVE  AddedUp' = AddedUp /\ (AdmitGroup(AddedUp) => AdmitGroup(AddedUp)')
<1>1. AddedUp' = AddedUp
  BY DEF AddedUp
<1>2. AddedUp \subseteq Items
  BY DEF AddedUp
<1> DEFINE loss == [i \in AddedUp |-> search[i].best.loss]
<1>3. loss' = loss
  BY <1>1, <1>2
<1>4. AdmitGroup(AddedUp) <=>
        /\ AddedUp # {}
        /\ \A i \in AddedUp : search[i].best # NoOffer
        /\ Total(loss, AddedUp) * 100 <= Limit * Total(Worth, AddedUp)
  BY Zenon DEF AdmitGroup
<1>5. AdmitGroup(AddedUp)' <=>
        /\ AddedUp' # {}
        /\ \A i \in AddedUp' : search'[i].best # NoOffer
        /\ Total(loss', AddedUp') * 100 <= Limit * Total(Worth, AddedUp')
  BY Zenon DEF AdmitGroup
<1> HIDE DEF loss
<1>6. AdmitGroup(AddedUp) => AdmitGroup(AddedUp)'
  BY <1>1, <1>2, <1>3, <1>4, <1>5
<1> QED
  BY <1>1, <1>6

\* Before the admission nothing is ready.
LEMMA NoneReadyYet ==
  ASSUME PlanInv, phase \in {"listed", "searching"}
  PROVE  \A i \in Items : outcome[i] # "ready"
  BY DEF PlanInv, AdmittedOK, Admitted

LEMMA PrepareGroupKeeps ==
  ASSUME PlanInv, PrepareGroup  PROVE PlanInv'
<1>1. PlanTypes
  BY DEF PlanInv
<1>2. \A i \in Items : search'[i] = Started(i)
  BY DEF PrepareGroup
<1>3. PlanTypes'
  <2>1. search' \in [Items -> Search]
    BY <1>1, StartedIsOK DEF PrepareGroup
  <2>2. outcome' \in [Items -> {"none", "left", "review", "ready"}]
    BY DEF PrepareGroup
  <2> QED
    BY <1>1, <2>1, <2>2 DEF PlanTypes, PrepareGroup
<1>4. SearchesOK'
  <2>1. ASSUME NEW i \in Items PROVE SearchOK(i, Started(i))
    BY <1>1, StartedIsOK
  <2>2. policy' = policy
    BY DEF PrepareGroup
  <2> QED
    BY <1>2, <2>1, <2>2 DEF SearchesOK, SearchOK
<1>5. AdmittedOK'
  <2>1. Admitted' = {}
    BY DEF Admitted, PrepareGroup
  <2> QED
    BY <2>1 DEF AdmittedOK
<1> QED
  BY <1>3, <1>4, <1>5 DEF PlanInv

LEMMA GroupFailsKeeps ==
  ASSUME PlanInv, GroupFails  PROVE PlanInv'
<1>1. PlanTypes /\ SearchesOK /\ phase = "searching"
  BY DEF PlanInv, GroupFails
<1>2. ASSUME NEW i \in Items
      PROVE  search'[i] \in Search /\ SearchOK(i, search'[i])
  <2>1. search[i] \in Search /\ SearchOK(i, search[i])
    BY <1>1 DEF PlanTypes, SearchesOK
  <2>2. search'[i] = [search[i] EXCEPT !.complete = FALSE]
    BY DEF GroupFails
  <2> QED
    BY <1>1, <2>1, <2>2, Incomplete
<1>3. PlanTypes'
  <2>1. search' \in [Items -> Search]
    BY <1>2 DEF GroupFails
  <2>2. outcome' \in [Items -> {"none", "left", "review", "ready"}]
    BY <1>1 DEF GroupFails, PlanTypes
  <2> QED
    BY <1>1, <2>1, <2>2 DEF PlanTypes, GroupFails
<1>4. SearchesOK'
  <2>1. policy' = policy
    BY DEF GroupFails
  <2> QED
    BY <1>2, <2>1 DEF SearchesOK, SearchOK
<1>5. AdmittedOK'
  <2>1. \A i \in Items : outcome[i] # "ready"
    BY <1>1, NoneReadyYet
  <2>2. Admitted' = {}
    BY <2>1 DEF Admitted, GroupFails
  <2> QED
    BY <2>2 DEF AdmittedOK
<1> QED
  BY <1>3, <1>4, <1>5 DEF PlanInv

LEMMA PlanGroupKeeps ==
  ASSUME PlanInv, PlanGroup  PROVE PlanInv'
<1> DEFINE fresh == [i \in Items |-> search[i].complete /\ StillFresh(i)]
           accepted == /\ policy = "partial" \/ \A i \in kept : fresh[i]
                       /\ AdmitGroup(AddedUp)
<1>1. PlanTypes /\ SearchesOK /\ phase = "searching"
  BY DEF PlanInv, PlanGroup
<1>2. \A i \in kept : search[i].done
  BY DEF PlanGroup
<1>3. /\ search' = [i \in Items |->
                      IF i \in kept THEN [search[i] EXCEPT !.complete = fresh[i]]
                      ELSE search[i]]
      /\ outcome' = [i \in Items |->
                       IF i \notin kept THEN outcome[i]
                       ELSE IF accepted /\ i \in AddedUp THEN "ready" ELSE "review"]
  BY Zenon DEF PlanGroup
<1>4. phase' = "admitted" /\ UNCHANGED <<clock, policy, kept, requote>>
  BY DEF PlanGroup
<1>5. ASSUME NEW i \in Items
      PROVE  fresh[i] \in BOOLEAN /\ (fresh[i] => search[i].complete)
  <2>1. search[i].complete \in BOOLEAN
    BY <1>1 DEF PlanTypes, Search
  <2>2. StillFresh(i) \in BOOLEAN
    BY DEF StillFresh
  <2> QED
    BY <2>1, <2>2
<1> HIDE DEF fresh
<1>6. ASSUME NEW i \in Items
      PROVE  /\ search'[i] \in Search /\ SearchOK(i, search'[i])
             /\ search'[i].best = search[i].best /\ search'[i].done = search[i].done
             /\ i \in kept => search'[i].complete = fresh[i]
  <2>1. search[i] \in Search /\ SearchOK(i, search[i])
    BY <1>1 DEF PlanTypes, SearchesOK
  <2>2. CASE i \in kept
    <3>1. search'[i] = [search[i] EXCEPT !.complete = fresh[i]]
      BY <1>3, <2>2
    <3> QED
      BY <1>1, <1>5, <2>1, <3>1, Incomplete
  <2>3. CASE i \notin kept
    BY <1>3, <2>1, <2>3
  <2> QED
    BY <2>2, <2>3
<1>7. PlanTypes'
  <2>1. search' \in [Items -> Search]
    BY <1>3, <1>6
  <2>2. outcome' \in [Items -> {"none", "left", "review", "ready"}]
    BY <1>1, <1>3 DEF PlanTypes
  <2> QED
    BY <1>1, <1>4, <2>1, <2>2 DEF PlanTypes
<1>8. SearchesOK'
  BY <1>4, <1>6 DEF SearchesOK, SearchOK
<1>9. AdmittedOK'
  <2>1. \A i \in Items : outcome[i] # "ready"
    BY <1>1, NoneReadyYet
  <2>2. kept \subseteq Items /\ AddedUp \subseteq kept
    BY <1>1 DEF PlanTypes, AddedUp
  <2> HIDE DEF accepted
  <2>3. \A i \in Items : outcome'[i] = "ready" <=> accepted /\ i \in AddedUp
    BY <1>3, <2>1, <2>2
  <2>4. CASE ~accepted
    BY <2>3, <2>4 DEF AdmittedOK, Admitted
  <2>5. CASE accepted
    <3>1. Admitted' = AddedUp
      BY <2>2, <2>3, <2>5 DEF Admitted
    <3>2. AddedUp' = AddedUp /\ AdmitGroup(AddedUp)'
      <4>1. AdmitGroup(AddedUp)
        BY <2>5 DEF accepted
      <4> QED
        BY <1>4, <1>6, <2>2, <4>1, AdmissionStands
    <3>3. ASSUME NEW i \in AddedUp
          PROVE  /\ i \in kept' /\ search'[i].done
                 /\ policy' = "complete" => search'[i].complete
      <4>1. i \in kept /\ i \in Items /\ search[i].done
        BY <1>2, <2>2
      <4>2. policy = "complete" => fresh[i]
        BY <2>5, <4>1 DEF accepted
      <4> QED
        BY <1>4, <1>6, <4>1, <4>2
    <3> QED
      BY <1>4, <3>1, <3>2, <3>3 DEF AdmittedOK
  <2> QED
    BY <2>4, <2>5
<1> QED
  BY <1>7, <1>8, <1>9 DEF PlanInv

LEMMA FinishKeeps ==
  ASSUME PlanInv, Finish  PROVE PlanInv'
<1>1. PlanTypes /\ SearchesOK /\ AdmittedOK /\ phase = "admitted" /\ phase' = "finished"
      /\ UNCHANGED <<clock, policy, kept, search>>
  BY DEF PlanInv, Finish
<1>2. \/ outcome' = outcome
      \/ outcome' = [i \in Items |-> IF i \in kept THEN "review" ELSE outcome[i]]
  BY DEF Finish
<1>3. PlanTypes'
  <2>1. outcome' \in [Items -> {"none", "left", "review", "ready"}]
    BY <1>1, <1>2 DEF PlanTypes
  <2>2. requote' \in BOOLEAN
    BY DEF Finish
  <2> QED
    BY <1>1, <2>1, <2>2 DEF PlanTypes
<1>4. SearchesOK'
  BY <1>1 DEF SearchesOK, SearchOK
<1>5. AdmittedOK'
  <2>1. CASE outcome' = outcome
    <3>1. Admitted' = Admitted
      BY <2>1 DEF Admitted
    <3>2. AddedUp' = AddedUp /\ (AdmitGroup(AddedUp) => AdmitGroup(AddedUp)')
      BY <1>1, AdmissionStands DEF PlanTypes
    <3> QED
      BY <1>1, <3>1, <3>2 DEF AdmittedOK
  <2>2. CASE outcome' = [i \in Items |-> IF i \in kept THEN "review" ELSE outcome[i]]
    <3>1. ASSUME NEW i \in Items, outcome[i] = "ready" PROVE i \in kept
      <4>1. i \in Admitted
        BY <3>1 DEF Admitted
      <4> QED
        BY <1>1, <4>1 DEF AdmittedOK
    <3>2. Admitted' = {}
      BY <2>2, <3>1 DEF Admitted
    <3> QED
      BY <3>2 DEF AdmittedOK
  <2> QED
    BY <1>2, <2>1, <2>2
<1> QED
  BY <1>3, <1>4, <1>5 DEF PlanInv

LEMMA StandsStill ==
  ASSUME PlanInv, clock' \in Nat,
         UNCHANGED <<policy, phase, kept, search, outcome, requote>>
  PROVE  PlanInv'
<1>1. PlanTypes'
  BY DEF PlanInv, PlanTypes
<1>2. SearchesOK'
  BY DEF PlanInv, SearchesOK, SearchOK
<1>3. AdmittedOK'
  <2>1. Admitted' = Admitted
    BY DEF Admitted
  <2>2. AddedUp' = AddedUp /\ (AdmitGroup(AddedUp) => AdmitGroup(AddedUp)')
    BY AdmissionStands DEF PlanInv, PlanTypes
  <2> QED
    BY <2>1, <2>2 DEF PlanInv, AdmittedOK
<1> QED
  BY <1>1, <1>2, <1>3 DEF PlanInv

-----------------------------------------------------------------------------

LEMMA PlanInitially == ASSUME PlanInit PROVE PlanInv
<1>1. PlanTypes
  <2>1. ASSUME NEW i \in Items PROVE Started(i) \in Search
    <3>1. clock + Life \in Nat
      BY PlanAssumption DEF PlanInit, PlanAssumption
    <3> QED
      BY <3>1, NoOfferType DEF Started, Search
  <2> QED
    BY <2>1 DEF PlanInit, PlanTypes
<1>2. SearchesOK
  BY <1>1, StartedIsOK DEF PlanInit, SearchesOK
<1>3. AdmittedOK
  BY DEF PlanInit, AdmittedOK, Admitted
<1> QED
  BY <1>1, <1>2, <1>3 DEF PlanInv

LEMMA PlanPreserved == ASSUME PlanInv, [PlanNext]_planVars PROVE PlanInv'
<1>1. CASE PrepareGroup
  BY <1>1, PrepareGroupKeeps
<1>2. CASE GroupFails
  BY <1>2, GroupFailsKeeps
<1>3. CASE PlanGroup
  BY <1>3, PlanGroupKeeps
<1>4. CASE Finish
  BY <1>4, FinishKeeps
<1>5. CASE PlanTick
  BY <1>5, StandsStill DEF PlanTick, PlanInv, PlanTypes
<1>6. ASSUME NEW i \in Items,
             Defer(i) \/ Offered(i) \/ NotOffered(i)
               \/ Provisional(i) \/ StartComparing(i) \/ Compare(i)
      PROVE  PlanInv'
  BY <1>6, DeferKeeps, OfferedKeeps, NotOfferedKeeps, ProvisionalKeeps,
     StartComparingKeeps, CompareKeeps
<1>7. CASE UNCHANGED planVars
  BY <1>7, StandsStill DEF planVars, PlanInv, PlanTypes
<1> QED
  BY <1>1, <1>2, <1>3, <1>4, <1>5, <1>6, <1>7 DEF PlanNext

\* In every reachable state the searches and the admission are as they claim.
THEOREM PlanInvariant == PlanSpec => []PlanInv
<1>1. PlanInit => PlanInv
  BY PlanInitially
<1>2. PlanInv /\ [PlanNext]_planVars => PlanInv'
  BY PlanPreserved
<1> QED
  BY <1>1, <1>2, PTL DEF PlanSpec

LEMMA ReadyIsCheapest == ASSUME PlanInv PROVE CheapestIsSelected
<1> SUFFICES ASSUME NEW i \in Admitted
             PROVE  /\ \A o \in search[i].offers :
                         o.firm \/ i \notin Native => search[i].best.loss <= o.loss
                    /\ policy = "complete" => search[i].complete
  BY DEF CheapestIsSelected
<1>1. i \in Items /\ search[i] \in Search /\ SearchOK(i, search[i])
  BY DEF PlanInv, PlanTypes, SearchesOK, Admitted
<1>2. search[i].done /\ (policy = "complete" => search[i].complete)
  <2>1. Admitted # {} /\ AdmittedOK
    BY DEF PlanInv
  <2> QED
    BY <2>1 DEF AdmittedOK
<1>3. search[i].todo = {} /\ search[i].next > Len(Ways(i)) + 1
  BY <1>1, <1>2 DEF SearchOK
<1> QED
  BY <1>1, <1>2, <1>3 DEF SearchOK, Comparable

\* A selected route loses no more than any route it was compared with: pruning
\* by quotes without gas (_route_choices) drops no cheaper one, and under the
\* complete policy every way of a ready position was answered.
THEOREM CheapestIsChosen == PlanSpec => []CheapestIsSelected
<1>1. PlanInv => CheapestIsSelected
  BY ReadyIsCheapest
<1> QED
  BY <1>1, PlanInvariant, PTL

\* The sum over no positions: the recursive function is over {{}} alone.
LEMMA TotalOfNone == ASSUME NEW f PROVE Total(f, {}) = 0
<1> DEFINE Pick(s) == CHOOSE x \in s : TRUE
           IsSum(sums) == sums = [s \in SUBSET {} |->
                             IF s = {} THEN 0 ELSE f[Pick(s)] + sums[s \ {Pick(s)}]]
<1>1. Total(f, {}) = (CHOOSE sums : IsSum(sums))[{}]
  BY DEF Total, MapThenSumSet, MapThenFoldSet
<1>2. IsSum([s \in SUBSET {} |-> 0])
  <2>1. \A s \in SUBSET {} : s = {}
    OBVIOUS
  <2> QED
    BY <2>1
<1> DEFINE sum == CHOOSE sums : IsSum(sums)
<1>3. IsSum(sum)
  BY <1>2, Zenon
<1>4. sum[{}] = 0
  BY <1>3
<1> QED
  BY <1>1, <1>4

LEMMA ReadyIsAffordable == ASSUME PlanInv PROVE ReadyWithinLimit
<1>1. CASE Admitted = {}
  <2>1. Total([i \in Admitted |-> search[i].best.loss], Admitted) = 0
    BY <1>1, TotalOfNone
  <2>2. Total(Worth, Admitted) = 0
    BY <1>1, TotalOfNone
  <2>3. Limit \in Nat
    BY PlanAssumption DEF PlanAssumption
  <2> QED
    BY <2>1, <2>2, <2>3 DEF ReadyWithinLimit
<1>2. CASE Admitted # {}
  <2>1. Admitted = AddedUp /\ AdmitGroup(AddedUp)
    BY <1>2 DEF PlanInv, AdmittedOK
  <2>2. Total([i \in AddedUp |-> search[i].best.loss], AddedUp) * 100
          <= Limit * Total(Worth, AddedUp)
    BY <2>1, Zenon DEF AdmitGroup
  <2> QED
    BY <2>1, <2>2 DEF ReadyWithinLimit
<1> QED
  BY <1>1, <1>2

\* What the ready positions lose together stays within the limit of what they
\* are worth together: the positions left for review add nothing to the sum
\* that admit_group compares.
THEOREM LimitIsKept == PlanSpec => []ReadyWithinLimit
<1>1. PlanInv => ReadyWithinLimit
  BY ReadyIsAffordable
<1> QED
  BY <1>1, PlanInvariant, PTL

\* The step that finishes a plan.
LEMMA FinishesWithLiveQuotes ==
  ASSUME PlanInv, PlanNext, phase' = "finished",
         NEW i \in Items, outcome'[i] = "ready", ~requote',
         NEW j \in kept, NEW o \in search[j].offers, outcome'[j] = "ready"
  PROVE  clock <= o.expires
<1>1. Finish
  <2>1. ~PrepareGroup /\ ~GroupFails /\ ~PlanGroup
    BY DEF PrepareGroup, GroupFails, PlanGroup
  <2>2. ~PlanTick
    BY DEF PlanTick
  <2>3. ASSUME NEW k \in Items,
               Defer(k) \/ Offered(k) \/ NotOffered(k)
                 \/ Provisional(k) \/ StartComparing(k) \/ Compare(k)
        PROVE  phase = "searching" /\ phase' = phase
    BY <2>3 DEF Defer, Offered, NotOffered, Provisional, StartComparing, Compare,
       Asking, Asked, Searching
  <2> QED
    BY <2>1, <2>2, <2>3 DEF PlanNext
<1>2. j \in Items /\ search[j] \in Search /\ SearchOK(j, search[j]) /\ clock \in Nat
      /\ policy \in {"complete", "partial"}
  BY DEF PlanInv, PlanTypes, SearchesOK
<1>3. ~Expired
  <2>1. policy = "complete"  => ~Expired
    <3>1. SUFFICES ASSUME policy = "complete", Expired PROVE FALSE
      OBVIOUS
    <3>2. outcome'[j] = "review"
      BY <1>1, <1>2, <3>1 DEF Finish
    <3> QED
      BY <3>2
  <2>2. policy = "partial" => ~Expired
    BY <1>1 DEF Finish
  <2> QED
    BY <1>2, <2>1, <2>2
<1>4. outcome[j] = "ready"
  BY <1>1, <1>3 DEF Finish
<1>5. ~(clock > search[j].expires)
  BY <1>3, <1>4 DEF Expired
<1>6. search[j].expires <= o.expires
  BY <1>2 DEF SearchOK
<1>7. search[j].expires \in Nat /\ o.expires \in Nat
  BY <1>2 DEF Search, Offer
<1> QED
  BY <1>2, <1>5, <1>6, <1>7

\* In the plan that is returned, every quote of a ready position, the rejected
\* ones too, was still valid at the end, or the group is to be quoted again:
\* _invalidate_expired_comparisons looks at the earliest expiry a search saw.
THEOREM QuotesAreLive == PlanSpec => ComparedWithLiveQuotes
<1> DEFINE Live == phase' = "finished" =>
             \A i \in Items : outcome'[i] = "ready" =>
               \/ requote'
               \/ \A j \in kept : \A o \in search[j].offers :
                    outcome'[j] = "ready" => clock <= o.expires
<1>1. PlanInv /\ [PlanNext]_planVars => [Live]_planVars
  BY FinishesWithLiveQuotes, Zenon
<1>2. PlanSpec => [][Live]_planVars
  BY <1>1, PlanInvariant, PTL DEF PlanSpec
<1> QED
  BY <1>2 DEF ComparedWithLiveQuotes

-----------------------------------------------------------------------------
(* The collection: the shapes of its state.                                *)

\* The statuses of a run that is resumed whatever the policy.
Open == {"executing", "incomplete", "planned"}
Statuses == Open \union {"scanning", "scan_failed", "superseded", "completed"}
States == {"planned", "sent", "unverified", "completed", "review", "failed"}
Keys == Assets \X (Groups \union {NoGroup})
Plans == [Assets -> Entry]
Run == [id : 1 .. MaxRuns, digest : Digests, status : Statuses,
        plan : {NoPlan} \union Plans, quotes : 0 .. MaxQuotes]
Current == [id : 0 .. MaxRuns, digest : Digests \union {0}, execute : BOOLEAN,
            resumed : Statuses \union {"none"}, quotes : 0 .. MaxQuotes]
Round == [sign : SUBSET Assets, observe : SUBSET Assets, held : BOOLEAN]
Driving == {"drive", "round", "driven"}

Types ==
  /\ runs \in Seq(Run)
  /\ position \in [Keys -> States]
  /\ pc \in {"idle", "scan", "enter", "plan", "wait"} \union Driving
  /\ cur \in Current
  /\ plan \in {NoPlan} \union Plans
  /\ pc \in {"idle", "scan"} <=> plan = NoPlan
  /\ frozen \subseteq Assets
  /\ stage \in {"planning", "final"}
  /\ round \in Round /\ round.sign \subseteq round.observe
  /\ late \in 0 .. 2

-----------------------------------------------------------------------------
(* The inductive invariant.                                                *)

\* The groups of a plan are its run's, one for each quote and chain.
QuoteGroups(id, quotes) == {<<"quote", id, q, c>> : q \in 1 .. quotes, c \in Chains}
RunGroup(id) == <<"run", id, 0, 0>>
Belongs(p, id, quotes) ==
  \A a \in Assets :
    /\ p[a].group \in {NoGroup, RunGroup(id)} \union QuoteGroups(id, quotes)
    /\ Ready(p[a]) /\ ~p[a].relay => p[a].group \in QuoteGroups(id, quotes)

\* Where one member of a quoted group was halted none of them goes on.
Mates(p, a, b) == /\ Ready(p[a]) /\ Ready(p[b]) /\ ~p[b].relay
                  /\ p[a].group = p[b].group
HaltOK(p) ==
  \A a, b \in Assets :
    Mates(p, a, b) /\ State(a, p) = "review" => State(b, p) # "planned"

\* What n's gas was for is done, or at least signed; on a network that is no
\* target a route found later may be too late.
Paid(p, n, a) ==
  /\ p[a].via = ChainOf(n) /\ ChainOf(n) \in EnabledTargets => State(a, p) = "completed"
  /\ a \notin Natives /\ ChainOf(a) = ChainOf(n) => Broadcast(State(a, p))
Unheld(n, a) == ChainOf(n) \notin EnabledTargets /\ ChainOf(a) # ChainOf(n)
GasOK(p) ==
  \A n \in Natives : Ready(p[n]) /\ Broadcast(State(n, p)) =>
    \A a \in Assets \ {n} : /\ p[a].status = "retry" => Unheld(n, a)
                            /\ Ready(p[a]) => Paid(p, n, a)

PlanOK(p, id, quotes) == Belongs(p, id, quotes) /\ HaltOK(p) /\ GasOK(p)

RowsOK ==
  /\ \A i \in 1 .. Len(runs) :
       /\ runs[i].id \in 1 .. Len(runs)
       /\ runs[i].plan # NoPlan =>
            PlanOK(runs[i].plan, runs[i].id, runs[i].quotes)
  /\ \A i, j \in 1 .. Len(runs) : runs[i].id = runs[j].id => i = j

\* A key that was ever used is a ready entry of a saved plan; in flight, of
\* the plan saved last, whose run is open.
Keeps(p, k) == Ready(p[k[1]]) /\ p[k[1]].group = k[2]
InRow(k, i) ==
  /\ runs[i].plan # NoPlan /\ Keeps(runs[i].plan, k)
  /\ InFlight(position[k]) => i = Len(runs) /\ runs[i].status \in Open
UsedOK ==
  \A k \in Keys : position[k] # "planned" =>
    k[2] # NoGroup /\ \E i \in 1 .. Len(runs) : InRow(k, i)

Flying == {k \in Keys : InFlight(position[k])}

\* The invocation's row: the plan in hand keeps what the saved one assigned,
\* and is the saved one while it is executed.
Keyed(p, q) == \A a \in Assets : Ready(q[a]) /\ q[a].group # NoGroup => p[a] = q[a]
IsCur(i) ==
  /\ runs[i].id = cur.id /\ runs[i].quotes <= cur.quotes
  /\ runs[i].plan # NoPlan => plan # NoPlan /\ Keyed(plan, runs[i].plan)
  /\ pc \in Driving => /\ i = Len(runs) /\ runs[i].plan = plan
                       /\ runs[i].status = "executing"
  /\ Flying # {} => i = Len(runs)

CurOK ==
  pc # "idle" =>
    /\ \E i \in 1 .. Len(runs) : IsCur(i)
    /\ plan # NoPlan => PlanOK(plan, cur.id, cur.quotes)
    /\ pc \in Driving =>
         cur.execute /\ \A a \in Assets : Ready(plan[a]) => plan[a].group # NoGroup
    /\ pc \in {"scan", "enter"} => frozen = {}
    /\ \A a \in frozen : plan[a].group # NoGroup
    /\ Flying # {} => cur.execute \/ cur.resumed \in Open

\* A native asset the round may sign pays for nothing any more, but for the
\* tokens of its group.
MaySign(n, a) ==
  /\ plan[a].status = "retry" => Unheld(n, a)
  /\ Ready(plan[a]) =>
       /\ plan[a].via = ChainOf(n) => State(a, plan) = "completed"
       /\ a \notin Natives /\ ChainOf(a) = ChainOf(n) =>
            \/ State(a, plan) = "completed"
            \/ plan[a].group = plan[n].group /\ ~plan[n].relay
RoundOK ==
  pc = "round" =>
    /\ \A a \in round.sign \union round.observe : Ready(plan[a])
    /\ \A n \in round.sign \intersect Natives : State(n, plan) = "planned" =>
         \A a \in Assets \ {n} : MaySign(n, a)

IInv == Types /\ RowsOK /\ UsedOK /\ CurOK /\ RoundOK

\* What drives a group whose chain is blocked was signed before.
FrozenOK == \A a \in frozen : Broadcast(State(a, plan))

-----------------------------------------------------------------------------
(* The rows of collection_runs.                                            *)

\* What the constants are.
LEMMA Shapes ==
  /\ MaxRuns \in Nat /\ MaxQuotes \in Nat /\ Natives \subseteq Assets
  /\ NoPlan \notin Plans /\ Assets # {}
  /\ \A id \in 1 .. MaxRuns :
       /\ RunGroup(id) \in Groups
       /\ \A quotes \in 0 .. MaxQuotes : QuoteGroups(id, quotes) \subseteq Groups
  /\ \A id : NoGroup # RunGroup(id) /\ \A quotes : NoGroup \notin QuoteGroups(id, quotes)
  /\ \A id, quotes : RunGroup(id) \notin QuoteGroups(id, quotes)
<1>1. NoPlan \notin Plans
  BY CollectionAssumption DEF NoPlan, Plans
<1>2. ASSUME NEW id \in 1 .. MaxRuns
      PROVE  /\ RunGroup(id) \in Groups
             /\ \A quotes \in 0 .. MaxQuotes : QuoteGroups(id, quotes) \subseteq Groups
  BY CollectionAssumption DEF RunGroup, QuoteGroups, Groups
<1>3. \A id : NoGroup # RunGroup(id) /\ \A quotes : NoGroup \notin QuoteGroups(id, quotes)
  BY DEF NoGroup, RunGroup, QuoteGroups
<1>4. \A id, quotes : RunGroup(id) \notin QuoteGroups(id, quotes)
  BY DEF RunGroup, QuoteGroups
<1> QED
  BY <1>1, <1>2, <1>3, <1>4, CollectionAssumption

\* A key is its asset and its group, and an entry's key is one.
LEMMA KeyShape ==
  /\ \A k \in Keys : k[1] \in Assets /\ k = <<k[1], k[2]>>
  /\ \A p \in Plans, a \in Assets : p[a] \in Entry /\ <<a, p[a].group>> \in Keys
  /\ \A a \in Assets, g \in Groups \union {NoGroup} : <<a, g>> \in Keys
<1>1. \A k \in Keys : k[1] \in Assets /\ k = <<k[1], k[2]>>
  BY DEF Keys
<1>2. \A p \in Plans, a \in Assets : p[a] \in Entry /\ <<a, p[a].group>> \in Keys
  BY DEF Plans, Entry, Keys
<1> QED
  BY <1>1, <1>2 DEF Keys

\* The row updated last goes to the end, the others keep their order.
Distinct(rows) == \A i, j \in 1 .. Len(rows) : rows[i].id = rows[j].id => i = j
Follows(new, rows, o, row) ==
  /\ new \in Seq(Run) /\ Len(new) = Len(rows)
  /\ new[Len(rows)] = row
  /\ \A i \in 1 .. Len(rows) : i # o =>
       \E j \in 1 .. Len(rows) : j # Len(rows) /\ new[j] = rows[i]
  /\ \A j \in 1 .. Len(rows) : j # Len(rows) =>
       \E i \in 1 .. Len(rows) : i # o /\ new[j] = rows[i]
  /\ Distinct(new)

\* Updated is such a row, in the place of the one with its id.
LEMMA UpdatedRows ==
  ASSUME NEW rows \in Seq(Run), NEW o \in 1 .. Len(rows), NEW row \in Run,
         Distinct(rows), row.id = rows[o].id
  PROVE  Follows(Updated(rows, row), rows, o, row)
<1> DEFINE new == Updated(rows, row)
<1> DEFINE L == Len(rows)
           At(i) == IF i < o THEN i ELSE i + 1
<1>1. L \in Nat \ {0} /\ rows \in [1 .. L -> Run] /\ o \in 1 .. L
  OBVIOUS
<1>2. Place(rows, row.id) = o
  BY <1>1 DEF Place, Distinct
<1>3. new = [i \in 1 .. L |-> IF i = L THEN row ELSE rows[At(i)]]
  BY <1>2 DEF Updated
<1> HIDE DEF new
<1>4. L \in Int /\ o \in Int /\ 1 <= o /\ o <= L
  BY <1>1
<1> HIDE DEF L
<1>5. ASSUME NEW j \in 1 .. L, j # L
      PROVE  At(j) \in 1 .. L /\ At(j) # o
  BY <1>4, <1>5
<1>6. ASSUME NEW i \in 1 .. L, i # o
      PROVE  \E j \in 1 .. L : j # L /\ At(j) = i
  <2>1. CASE i < o
    <3>1. i # L /\ At(i) = i
      BY <1>4, <1>6, <2>1
    <3>2. QED
      BY <3>1
  <2>2. CASE i > o
    <3>1. i - 1 \in 1 .. L /\ i - 1 # L /\ At(i - 1) = i
      BY <1>4, <1>6, <2>2
    <3>2. QED
      BY <3>1
  <2>3. QED
    BY <1>4, <1>6, <2>1, <2>2
<1>7. ASSUME NEW i \in 1 .. L, NEW j \in 1 .. L, i # L, j # L, At(i) = At(j)
      PROVE  i = j
  BY <1>4, <1>7
<1> HIDE DEF At
<1>8. new \in [1 .. L -> Run]
  BY <1>1, <1>3, <1>5
<1>9. new \in Seq(Run) /\ Len(new) = L
  BY <1>1, <1>8
<1>10. new[L] = row /\ \A j \in 1 .. L : j # L => new[j] = rows[At(j)]
  BY <1>1, <1>3
<1>11. ASSUME NEW i \in 1 .. L, i # o
       PROVE  \E j \in 1 .. L : j # L /\ new[j] = rows[i]
  BY <1>6, <1>10, <1>11
<1>12. ASSUME NEW j \in 1 .. L, j # L
       PROVE  \E i \in 1 .. L : i # o /\ new[j] = rows[i]
  BY <1>5, <1>10, <1>12
<1>13. ASSUME NEW i \in 1 .. L, NEW j \in 1 .. L, new[i].id = new[j].id
       PROVE  i = j
  <2>1. CASE i = L /\ j # L
    <3>1. rows[At(j)].id = rows[o].id
      BY <1>10, <1>13, <2>1
    <3>2. QED
      BY <1>1, <1>5, <2>1, <3>1 DEF L, Distinct
  <2>2. CASE j = L /\ i # L
    <3>1. rows[At(i)].id = rows[o].id
      BY <1>10, <1>13, <2>2
    <3>2. QED
      BY <1>1, <1>5, <2>2, <3>1 DEF L, Distinct
  <2>3. CASE i # L /\ j # L
    <3>1. rows[At(i)].id = rows[At(j)].id
      BY <1>10, <1>13, <2>3
    <3>2. At(i) = At(j)
      BY <1>5, <2>3, <3>1 DEF L, Distinct
    <3>3. QED
      BY <1>7, <2>3, <3>2
  <2>4. QED
    BY <2>1, <2>2, <2>3
<1> QED
  BY <1>9, <1>10, <1>11, <1>12, <1>13 DEF L, Follows, Distinct, new

\* The row of an invocation is the one with its id.
LEMMA RowIs ==
  ASSUME RowsOK, NEW i \in 1 .. Len(runs), runs[i].id = cur.id
  PROVE  Row(cur.id) = runs[i]
<1>1. \A r \in {runs[j] : j \in 1 .. Len(runs)} : r.id = cur.id => r = runs[i]
  BY DEF RowsOK
<1>2. runs[i] \in {runs[j] : j \in 1 .. Len(runs)}
  OBVIOUS
<1> QED
  BY <1>1, <1>2 DEF Row

\* Of some numbers up to a bound one is the greatest.
LEMMA Greatest ==
  ASSUME NEW L \in Nat, NEW found \in SUBSET (1 .. L), found # {}
  PROVE  \E i \in found : \A j \in found : j <= i
<1> DEFINE Up(i) == i .. L
           T == {Up(i) : i \in found}
<1>1. IsFiniteSet(1 .. L)
  BY FS_Interval
<1>2. IsWellFoundedOn(StrictSubsetOrdering(1 .. L), SUBSET (1 .. L))
  BY <1>1, FS_StrictSubsetOrderingWellFounded, FS_FiniteSubsetsOfFinite, Zenon
<1>3. T \subseteq SUBSET (1 .. L) /\ T # {}
  <2>1. \A i \in found : Up(i) \subseteq 1 .. L
    OBVIOUS
  <2>2. QED
    BY <2>1
<1> HIDE DEF T
<1>4. \E x \in T : \A y \in T : ~(<<y, x>> \in StrictSubsetOrdering(1 .. L))
  BY <1>2, <1>3, WFMin, Zenon
<1>5. PICK i \in found : \A y \in T : ~(<<y, Up(i)>> \in StrictSubsetOrdering(1 .. L))
  BY <1>4 DEF T
<1>6. ASSUME NEW j \in found PROVE j <= i
  <2>1. Up(j) \in T /\ i \in 1 .. L /\ j \in 1 .. L
    BY DEF T
  <2>2. SUFFICES ASSUME j > i PROVE FALSE
    BY <2>1
  <2>3. /\ Up(j) \subseteq Up(i) /\ Up(j) # Up(i)
        /\ Up(j) \in SUBSET (1 .. L) /\ Up(i) \in SUBSET (1 .. L)
    <3>1. i \in Up(i) /\ i \notin Up(j)
      BY <2>1, <2>2
    <3>2. QED
      BY <2>1, <2>2, <3>1
  <2>4. <<Up(j), Up(i)>> \in StrictSubsetOrdering(1 .. L)
    BY <2>3 DEF StrictSubsetOrdering
  <2>5. QED
    BY <1>5, <2>1, <2>4
<1> QED
  BY <1>6

-----------------------------------------------------------------------------
(* Keys and plans.                                                         *)

\* A used key of the invocation's run is an entry of the plan in hand.
LEMMA OwnKey ==
  ASSUME Types, RowsOK, UsedOK, NEW i \in 1 .. Len(runs), IsCur(i),
         NEW k \in Keys, position[k] # "planned",
         \/ k[2] = RunGroup(cur.id)
         \/ \E q \in Nat, c \in Chains : k[2] = <<"quote", cur.id, q, c>>
  PROVE  /\ plan \in Plans /\ Keeps(plan, k)
         /\ runs[i].plan \in Plans /\ Keeps(runs[i].plan, k)
         /\ k[2] = RunGroup(cur.id) \/ k[2] \in QuoteGroups(cur.id, cur.quotes)
<1>1. k[2] # NoGroup
  BY DEF UsedOK
<1>2. PICK j \in 1 .. Len(runs) : runs[j].plan # NoPlan /\ Keeps(runs[j].plan, k)
  BY DEF UsedOK, InRow
<1>3. runs[j] \in Run /\ runs[j].plan \in Plans /\ k[1] \in Assets
  <2>1. runs[j] \in Run
    BY DEF Types
  <2>2. k[1] \in Assets
    BY KeyShape
  <2>3. runs[j].plan \in {NoPlan} \union Plans
    BY <2>1 DEF Run
  <2>4. QED
    BY <1>2, <2>1, <2>2, <2>3
<1>4. /\ runs[j].plan[k[1]].group = k[2] /\ Ready(runs[j].plan[k[1]])
      /\ k[2] \in {NoGroup, RunGroup(runs[j].id)}
                    \union QuoteGroups(runs[j].id, runs[j].quotes)
  BY <1>2, <1>3 DEF Keeps, RowsOK, PlanOK, Belongs
<1>5. runs[j].id = cur.id
  BY <1>1, <1>4 DEF RunGroup, QuoteGroups
<1>6. j = i
  BY <1>5 DEF RowsOK, IsCur
<1>7. plan \in Plans /\ plan[k[1]] = runs[i].plan[k[1]]
  BY <1>1, <1>2, <1>3, <1>4, <1>6 DEF IsCur, Keyed, Types
<1>8. k[2] = RunGroup(cur.id) \/ k[2] \in QuoteGroups(cur.id, cur.quotes)
  <2>1. runs[i].quotes \in Nat /\ cur.quotes \in Nat /\ runs[i].quotes <= cur.quotes
    BY <1>3, <1>6, CollectionAssumption DEF IsCur, Run, Types, Current
  <2>2. QuoteGroups(cur.id, runs[i].quotes) \subseteq QuoteGroups(cur.id, cur.quotes)
    BY <2>1 DEF QuoteGroups
  <2>3. QED
    BY <1>1, <1>4, <1>5, <1>6, <2>2
<1> QED
  BY <1>2, <1>3, <1>6, <1>4, <1>7, <1>8 DEF Keeps

\* A plan whose positions are as they were is as good as it was.
LEMMA SamePositions ==
  ASSUME NEW p \in Plans,
         \A a \in Assets : position'[<<a, p[a].group>>] = position[<<a, p[a].group>>]
  PROVE  /\ HaltOK(p) => HaltOK(p)'
         /\ GasOK(p) => GasOK(p)'
<1>1. \A a \in Assets : State(a, p)' = State(a, p)
  BY DEF State
<1>2. HaltOK(p) => HaltOK(p)'
  BY <1>1 DEF HaltOK, Mates
<1>3. GasOK(p) => GasOK(p)'
  <2> SUFFICES ASSUME GasOK(p) PROVE GasOK(p)'
    OBVIOUS
  <2>1. \A n \in Natives : n \in Assets
    BY Shapes
  <2>2. \A n \in Natives, a \in Assets : Paid(p, n, a) => Paid(p, n, a)'
    BY <1>1 DEF Paid
  <2>3. QED
    BY <1>1, <2>1, <2>2 DEF GasOK
<1> QED
  BY <1>2, <1>3

\* Identified gives the entries that go to Relay the run's group, and nothing
\* else; no key of them was used.
LEMMA IdentifiedOK ==
  ASSUME Types, cur.id \in 1 .. MaxRuns,
         NEW p \in Plans, NEW quotes \in 0 .. MaxQuotes,
         PlanOK(p, cur.id, quotes),
         \A a \in Assets : p[a].group = NoGroup =>
           /\ position[<<a, NoGroup>>] = "planned"
           /\ position[<<a, RunGroup(cur.id)>>] = "planned",
         \A a \in frozen : p[a].group # NoGroup
  PROVE  LET new == Identified(p) IN
         /\ new \in Plans /\ PlanOK(new, cur.id, quotes)
         /\ \A a \in Assets : /\ p[a].group # NoGroup => new[a] = p[a]
                              /\ new[a].status = p[a].status
                              /\ Ready(new[a]) => new[a].group # NoGroup
<1> DEFINE new == Identified(p)
           g == RunGroup(cur.id)
<1>1. g \in Groups /\ g # NoGroup
  BY Shapes
<1>2. \A a \in Assets : p[a] \in Entry
  BY KeyShape
<1>3. ASSUME NEW a \in Assets
      PROVE  /\ new[a] = IF p[a].relay /\ p[a].group = NoGroup
                           THEN [p[a] EXCEPT !.group = g] ELSE p[a]
             /\ new[a] \in Entry
             /\ new[a].status = p[a].status /\ new[a].via = p[a].via
             /\ new[a].relay = p[a].relay
             /\ new[a].group = IF p[a].relay /\ p[a].group = NoGroup
                                 THEN g ELSE p[a].group
  <2>1. new[a] = IF p[a].relay /\ p[a].group = NoGroup
                   THEN [p[a] EXCEPT !.group = g] ELSE p[a]
    BY DEF Identified, RunGroup
  <2>2. QED
    BY <1>1, <1>2, <2>1 DEF Entry
<1>4. new \in Plans
  BY <1>3 DEF Identified, Plans
<1> HIDE DEF new, g
<1>5. \A a \in Assets : p[a].group # NoGroup => new[a] = p[a]
  BY <1>3
<1>6. \A a \in Assets : State(a, new) = State(a, p)
  BY <1>3 DEF State, g
<1>7. \A a \in Assets : p[a].relay /\ p[a].group = NoGroup => State(a, p) = "planned"
  BY DEF State
<1>8. Belongs(new, cur.id, quotes)
  BY <1>3 DEF PlanOK, Belongs, Ready, g
<1>9. HaltOK(new)
  <2> SUFFICES ASSUME NEW a \in Assets, NEW b \in Assets,
                      Mates(new, a, b), State(a, new) = "review"
               PROVE  State(b, new) # "planned"
    BY DEF HaltOK
  <2>1. new[a].group = p[a].group
    BY <1>3, <1>6, <1>7
  <2>2. new[b].group = p[b].group
    BY <1>3 DEF Mates
  <2>3. Mates(p, a, b)
    BY <1>3, <2>1, <2>2 DEF Mates, Ready
  <2>4. QED
    BY <1>6, <2>3 DEF PlanOK, HaltOK
<1>10. GasOK(new)
  <2> SUFFICES ASSUME NEW n \in Natives, Ready(new[n]), Broadcast(State(n, new)),
                      NEW a \in Assets \ {n}
               PROVE  /\ new[a].status = "retry" => Unheld(n, a)
                      /\ Ready(new[a]) => Paid(new, n, a)
    BY DEF GasOK
  <2>1. n \in Assets
    BY Shapes
  <2>2. Ready(p[n]) /\ Broadcast(State(n, p))
    BY <1>3, <1>6, <2>1 DEF Ready
  <2>3. /\ p[a].status = "retry" => Unheld(n, a)
        /\ Ready(p[a]) => Paid(p, n, a)
    BY <2>2 DEF PlanOK, GasOK
  <2>4. QED
    BY <1>3, <1>6, <2>3 DEF Ready, Paid
<1>11. \A a \in Assets : Ready(new[a]) => new[a].group # NoGroup
  <2> SUFFICES ASSUME NEW a \in Assets, Ready(new[a]) PROVE new[a].group # NoGroup
    OBVIOUS
  <2>1. CASE p[a].relay /\ p[a].group = NoGroup
    BY <1>1, <1>3, <2>1 DEF g
  <2>2. CASE ~p[a].relay
    <3>1. p[a].group \in QuoteGroups(cur.id, quotes)
      BY <1>3, <2>2 DEF PlanOK, Belongs, Ready
    <3>2. QED
      BY <1>3, <2>2, <3>1, Shapes
  <2>3. CASE p[a].group # NoGroup
    BY <1>3, <2>3
  <2>4. QED
    BY <1>2, <2>1, <2>2, <2>3 DEF Entry
<1> QED
  BY <1>3, <1>4, <1>5, <1>8, <1>9, <1>10, <1>11 DEF PlanOK, new

\* The row of the invocation.
LEMMA CurRow ==
  ASSUME IInv, pc # "idle"
  PROVE  \E i \in 1 .. Len(runs) :
           /\ IsCur(i) /\ Row(cur.id) = runs[i] /\ runs[i] \in Run
           /\ cur.id \in 1 .. MaxRuns
<1>1. PICK i \in 1 .. Len(runs) : IsCur(i)
  BY DEF IInv, CurOK
<1>2. Row(cur.id) = runs[i]
  BY <1>1, RowIs DEF IInv, IsCur
<1>3. runs[i] \in Run
  BY DEF IInv, Types
<1>4. cur.id \in 1 .. MaxRuns
  BY <1>1, <1>3 DEF IsCur, Run
<1> QED
  BY <1>1, <1>2, <1>3, <1>4

\* The entries of another quote: what was assigned stays, and what comes in
\* has keys never used.
LEMMA AnswersOK ==
  ASSUME IInv, pc # "idle", cur.quotes < MaxQuotes,
         NEW i \in 1 .. Len(runs), IsCur(i), cur.id \in 1 .. MaxRuns,
         NEW p, p = [a \in Assets |-> p[a]],
         \A a \in Assets :
           \/ /\ p[a] \in Answer(a)
              /\ plan # NoPlan => plan[a].status = "retry" /\ a \notin frozen
           \/ plan # NoPlan /\ p[a] = plan[a]
  PROVE  /\ p \in Plans /\ PlanOK(p, cur.id, cur.quotes + 1)
         /\ cur.quotes + 1 \in 0 .. MaxQuotes
         /\ \A a \in Assets : p[a].group = NoGroup =>
              /\ position[<<a, NoGroup>>] = "planned"
              /\ position[<<a, RunGroup(cur.id)>>] = "planned"
         /\ plan # NoPlan => \A a \in frozen : p[a].group # NoGroup
         /\ runs[i].plan # NoPlan => Keyed(p, runs[i].plan)
<1> DEFINE q == cur.quotes + 1
           g(a) == <<"quote", cur.id, q, ChainOf(a)>>
           New(a) == /\ p[a] \in Answer(a)
                     /\ plan # NoPlan => plan[a].status = "retry" /\ a \notin frozen
           Old(a) == plan # NoPlan /\ p[a] = plan[a]
<1>1. /\ q \in 1 .. MaxQuotes /\ q \in 0 .. MaxQuotes /\ cur.quotes \in Nat
      /\ MaxQuotes \in Nat
  BY Shapes DEF IInv, Types, Current
<1>2. \A a \in Assets : g(a) \in Groups
  BY <1>1 DEF Groups, Chains
<1>3. /\ Types /\ RowsOK /\ UsedOK
      /\ plan # NoPlan => plan \in Plans /\ PlanOK(plan, cur.id, cur.quotes)
      /\ plan # NoPlan => \A a \in frozen : plan[a].group # NoGroup
  BY DEF IInv, CurOK, Types
<1>4. /\ \A a \in Assets : /\ g(a) \notin QuoteGroups(cur.id, cur.quotes)
                           /\ g(a) # RunGroup(cur.id) /\ g(a) # NoGroup
                           /\ g(a) \in QuoteGroups(cur.id, q)
      /\ QuoteGroups(cur.id, cur.quotes) \subseteq QuoteGroups(cur.id, q)
  BY <1>1 DEF QuoteGroups, RunGroup, NoGroup, Chains
<1>5. \A a \in Assets : New(a) \/ Old(a)
  OBVIOUS
<1> HIDE DEF g, q
<1>6. ASSUME NEW a \in Assets, New(a)
      PROVE  /\ p[a] \in Entry
             /\ p[a].group = IF Ready(p[a]) /\ ~p[a].relay THEN g(a) ELSE NoGroup
  <2>1. PICK e \in Offers(a) :
          p[a] = [status |-> e.status, relay |-> e.relay, via |-> e.via,
                  group |-> IF Ready(e) /\ ~e.relay THEN g(a) ELSE NoGroup]
    BY <1>6 DEF Answer, Quoted, g, q
  <2>2. e \in [status : {"ready", "retry", "never", "skip"}, relay : BOOLEAN,
               via : Nat]
    BY CollectionAssumption
  <2>3. QED
    BY <1>2, <2>1, <2>2 DEF Ready, Entry
<1>7. p \in Plans
  <2>1. \A a \in Assets : Old(a) => p[a] \in Entry
    BY <1>3, KeyShape
  <2>2. \A a \in Assets : p[a] \in Entry
    BY <1>5, <1>6, <2>1
  <2>3. QED
    BY <2>2 DEF Plans
<1>8. \A a \in Assets : position[<<a, NoGroup>>] = "planned"
  BY <1>3, KeyShape DEF UsedOK
<1>9. \A a \in Assets : position[<<a, g(a)>>] = "planned"
  <2> SUFFICES ASSUME NEW a \in Assets, position[<<a, g(a)>>] # "planned"
               PROVE  FALSE
    OBVIOUS
  <2>1. <<a, g(a)>> \in Keys
    BY <1>2, KeyShape
  <2>2. q \in Nat /\ ChainOf(a) \in Chains
    BY <1>1 DEF Chains
  <2>3. g(a) = RunGroup(cur.id) \/ g(a) \in QuoteGroups(cur.id, cur.quotes)
    BY <1>3, <2>1, <2>2, OwnKey DEF g
  <2>4. QED
    BY <1>4, <2>3
<1>10. \A a \in Assets : New(a) => State(a, p) = "planned"
  BY <1>6, <1>8, <1>9 DEF State
<1>11. ASSUME NEW a \in Assets, p[a].group = NoGroup
       PROVE  position[<<a, RunGroup(cur.id)>>] = "planned"
  <2> DEFINE k == <<a, RunGroup(cur.id)>>
  <2>1. SUFFICES ASSUME position[k] # "planned" PROVE FALSE
    OBVIOUS
  <2>2. k \in Keys
    BY Shapes, KeyShape
  <2>3. plan \in Plans /\ Keeps(plan, k)
    BY <1>3, <2>1, <2>2, OwnKey
  <2>4. Ready(plan[a]) /\ plan[a].group = RunGroup(cur.id) /\ plan # NoPlan
    BY <2>3, Shapes DEF Keeps
  <2>5. ~New(a)
    BY <2>4 DEF Ready
  <2>6. p[a] = plan[a]
    BY <1>5, <2>5
  <2>7. QED
    BY <1>11, <2>4, <2>6, Shapes
<1>12. Belongs(p, cur.id, q)
  <2> SUFFICES ASSUME NEW a \in Assets
               PROVE  /\ p[a].group \in {NoGroup, RunGroup(cur.id)}
                                          \union QuoteGroups(cur.id, q)
                      /\ Ready(p[a]) /\ ~p[a].relay =>
                           p[a].group \in QuoteGroups(cur.id, q)
    BY DEF Belongs
  <2>1. CASE New(a)
    BY <1>4, <1>6, <2>1
  <2>2. CASE Old(a)
    BY <1>3, <1>4, <2>2 DEF PlanOK, Belongs
  <2>3. QED
    BY <1>5, <2>1, <2>2
<1>13. HaltOK(p)
  <2> SUFFICES ASSUME NEW a \in Assets, NEW b \in Assets, Mates(p, a, b),
                      State(a, p) = "review"
               PROVE  State(b, p) # "planned"
    BY DEF HaltOK
  <2>1. Old(a)
    BY <1>5, <1>10
  <2>2. p[a].group # g(b)
    BY <1>3, <1>4, <2>1 DEF PlanOK, Belongs
  <2>3. ~New(b)
    BY <1>6, <2>2 DEF Mates
  <2>4. Old(b)
    BY <1>5, <2>3
  <2>5. Mates(plan, a, b) /\ State(a, plan) = "review"
        /\ State(b, p) = State(b, plan)
    BY <2>1, <2>4 DEF Mates, State
  <2>6. QED
    BY <1>3, <2>1, <2>5 DEF PlanOK, HaltOK
<1>14. GasOK(p)
  <2> SUFFICES ASSUME NEW n \in Natives, Ready(p[n]), Broadcast(State(n, p)),
                      NEW a \in Assets \ {n}
               PROVE  /\ p[a].status = "retry" => Unheld(n, a)
                      /\ Ready(p[a]) => Paid(p, n, a)
    BY DEF GasOK
  <2>1. n \in Assets
    BY Shapes
  <2>2. Old(n)
    BY <1>5, <1>10, <2>1 DEF Broadcast
  <2>3. Ready(plan[n]) /\ Broadcast(State(n, plan))
    BY <2>2 DEF State
  <2>4. /\ plan[a].status = "retry" => Unheld(n, a)
        /\ Ready(plan[a]) => Paid(plan, n, a)
    BY <1>3, <2>2, <2>3 DEF PlanOK, GasOK
  <2>5. CASE Old(a)
    BY <2>4, <2>5 DEF Paid, State
  <2>6. CASE New(a)
    <3>1. Unheld(n, a)
      BY <2>2, <2>4, <2>6
    <3>2. QED
      BY <3>1 DEF Unheld, Paid
  <2>7. QED
    BY <1>5, <2>5, <2>6
<1>15. plan # NoPlan => \A a \in frozen : p[a].group # NoGroup
  BY <1>3, <1>5 DEF Types
<1>16. runs[i].plan # NoPlan => Keyed(p, runs[i].plan)
  <2> SUFFICES ASSUME runs[i].plan # NoPlan, NEW a \in Assets,
                      Ready(runs[i].plan[a]), runs[i].plan[a].group # NoGroup
               PROVE  p[a] = runs[i].plan[a]
    BY DEF Keyed
  <2>1. plan # NoPlan /\ plan[a] = runs[i].plan[a]
    BY DEF IsCur, Keyed
  <2>2. ~New(a)
    BY <2>1 DEF Ready
  <2>3. QED
    BY <1>5, <2>1, <2>2
<1> QED
  BY <1>1, <1>7, <1>8, <1>11, <1>12, <1>13, <1>14, <1>15, <1>16 DEF PlanOK, q

\* A saved plan is the last row; it keeps what its run had assigned, so every
\* used key is still in its row, and what is in flight is in this one.
LEMMA SavedStep ==
  ASSUME IInv, pc # "idle",
         NEW i \in 1 .. Len(runs), IsCur(i),
         NEW s \in Statuses, NEW p \in {NoPlan} \union Plans,
         p # NoPlan => Belongs(p, cur.id, cur.quotes) /\ HaltOK(p)' /\ GasOK(p)',
         runs[i].plan # NoPlan => p # NoPlan /\ Keyed(p, runs[i].plan),
         Flying # {} => s \in Open,
         position' \in [Keys -> States],
         \A k \in Keys : \/ position'[k] = position[k]
                         \/ position[k] = "review" /\ position'[k] = "planned",
         \A q \in Plans : /\ HaltOK(q) => HaltOK(q)'
                          /\ GasOK(q) => GasOK(q)',
         runs' = Saved(s, p)
  PROVE  /\ runs' \in Seq(Run) /\ RowsOK' /\ UsedOK' /\ Len(runs') = Len(runs)
         /\ runs'[Len(runs)].id = cur.id /\ runs'[Len(runs)].status = s
         /\ runs'[Len(runs)].plan = p /\ runs'[Len(runs)].quotes = cur.quotes
         /\ Flying' = Flying
<1> DEFINE L == Len(runs)
           row == [runs[i] EXCEPT !.status = s, !.plan = p, !.quotes = cur.quotes]
<1>1. runs[i] \in Run /\ Row(cur.id) = runs[i]
  BY RowIs DEF IInv, Types, IsCur
<1>2. /\ row \in Run /\ row.id = runs[i].id /\ row.id = cur.id
      /\ row.status = s /\ row.plan = p /\ row.quotes = cur.quotes
  <2>1. cur.quotes \in 0 .. MaxQuotes
    BY DEF IInv, Types, Current
  <2>2. QED
    BY <1>1, <2>1 DEF Run, IsCur
<1>3. runs' = Updated(runs, row)
  BY <1>1 DEF Saved
<1>4. runs \in Seq(Run) /\ \A j, k \in 1 .. L : runs[j].id = runs[k].id => j = k
  BY DEF IInv, Types, RowsOK
<1> HIDE DEF row
<1>5. /\ runs' \in Seq(Run) /\ Len(runs') = L /\ runs'[L] = row
      /\ \A m \in 1 .. L : m # i => \E j \in 1 .. L : j # L /\ runs'[j] = runs[m]
      /\ \A j \in 1 .. L : j # L => \E m \in 1 .. L : m # i /\ runs'[j] = runs[m]
      /\ \A j, k \in 1 .. L : runs'[j].id = runs'[k].id => j = k
  <2>1. Distinct(runs)
    BY <1>4 DEF Distinct, L
  <2>2. Follows(Updated(runs, row), runs, i, row)
    BY <1>2, <1>4, <2>1, UpdatedRows
  <2>3. QED
    BY <1>3, <2>2 DEF Follows, Distinct, L
<1> HIDE DEF L
<1>6. /\ \A j \in 1 .. L : runs[j].id \in 1 .. L /\ runs[j] \in Run
      /\ \A j \in 1 .. L : runs[j].plan # NoPlan =>
           PlanOK(runs[j].plan, runs[j].id, runs[j].quotes)
      /\ i \in 1 .. L /\ L \in Nat
  <2>1. L \in Nat
    BY DEF IInv, Types, L
  <2>2. QED
    BY <2>1 DEF IInv, Types, RowsOK, L
<1>7. \A j \in 1 .. L : runs'[j].id \in 1 .. L
  <2>1. row.id \in 1 .. L
    BY <1>2, <1>6
  <2>2. ASSUME NEW j \in 1 .. L PROVE runs'[j].id \in 1 .. L
    <3>1. CASE j = L
      BY <1>5, <2>1, <3>1
    <3>2. CASE j # L
      <4>1. PICK m \in 1 .. L : runs'[j] = runs[m]
        BY <1>5, <3>2
      <4>2. QED
        BY <1>6, <4>1
    <3>3. QED
      BY <3>1, <3>2
  <2>3. QED
    BY <2>2
<1>8. ASSUME NEW j \in 1 .. L, runs'[j].plan # NoPlan
      PROVE  PlanOK(runs[j].plan, runs[j].id, runs[j].quotes)'
  <2>1. CASE j = L
    <3>1. runs'[j] = row
      BY <1>5, <2>1
    <3>2. /\ p # NoPlan /\ Belongs(p, cur.id, cur.quotes)
          /\ HaltOK(p)' /\ GasOK(p)'
      BY <1>2, <1>8, <3>1
    <3>3. runs'[j].plan = p /\ runs'[j].id = cur.id /\ runs'[j].quotes = cur.quotes
      BY <1>2, <3>1
    <3>4. QED
      BY <3>2, <3>3 DEF PlanOK, Belongs, HaltOK, GasOK, Mates, Paid, State
  <2>2. CASE j # L
    <3>1. PICK m \in 1 .. L : runs'[j] = runs[m]
      BY <1>5, <2>2
    <3>2. runs[m].plan \in Plans /\ PlanOK(runs[m].plan, runs[m].id, runs[m].quotes)
      BY <1>6, <1>8, <3>1 DEF Run
    <3>3. HaltOK(runs[j].plan)' /\ GasOK(runs[j].plan)'
          /\ Belongs(runs[j].plan, runs[j].id, runs[j].quotes)'
      <4> DEFINE q == runs[m].plan
      <4>1. HaltOK(q) /\ GasOK(q) /\ q \in Plans
            /\ Belongs(q, runs[m].id, runs[m].quotes)
        BY <3>2 DEF PlanOK
      <4>2. PICK r \in Plans : r = q
        BY <4>1
      <4>3. HaltOK(r)' /\ GasOK(r)'
        BY <4>1, <4>2
      <4>4. runs'[j].plan = r
        BY <3>1, <4>2
      <4>5. QED
        BY <3>1, <4>1, <4>3, <4>4 DEF HaltOK, GasOK, Mates, Paid, State
    <3>4. QED
      BY <3>3 DEF PlanOK, Belongs
  <2>3. QED
    BY <2>1, <2>2
<1>9. RowsOK'
  BY <1>5, <1>7, <1>8 DEF RowsOK, L
<1>10. \A k \in Keys : InFlight(position'[k]) <=> InFlight(position[k])
  BY DEF InFlight
<1>11. UsedOK'
  <2> SUFFICES ASSUME NEW k \in Keys, position'[k] # "planned"
               PROVE  k[2] # NoGroup /\ \E j \in 1 .. L : InRow(k, j)'
    BY <1>5 DEF UsedOK
  <2>1. position[k] # "planned" /\ k[1] \in Assets
    BY KeyShape
  <2>2. k[2] # NoGroup
    BY <2>1 DEF IInv, UsedOK
  <2>3. PICK m \in 1 .. L : InRow(k, m)
    BY <2>1 DEF IInv, UsedOK, L
  <2>4. CASE m = i
    <3>1. runs[i].plan # NoPlan /\ Keeps(runs[i].plan, k)
      BY <2>3, <2>4 DEF InRow
    <3>2. p # NoPlan /\ Keeps(p, k)
      BY <2>1, <2>2, <3>1 DEF Keeps, Keyed
    <3>3. InFlight(position'[k]) => s \in Open
      BY <1>10 DEF Flying
    <3>4. L \in 1 .. L
      BY <1>6
    <3>5. PICK e \in 1 .. L : e = L
      BY <3>4
    <3>6. InRow(k, e)'
      BY <1>2, <1>5, <3>2, <3>3, <3>5 DEF InRow, Keeps
    <3>7. QED
      BY <2>2, <3>6
  <2>5. CASE m # i
    <3>1. PICK j \in 1 .. L : runs'[j] = runs[m]
      BY <1>5, <2>5
    <3>2. ~InFlight(position'[k])
      <4>1. InFlight(position[k]) => m = L /\ i = L
        BY <2>3 DEF InRow, Flying, IsCur, L
      <4>2. QED
        BY <1>10, <2>5, <4>1
    <3>3. InRow(k, j)'
      BY <2>3, <3>1, <3>2 DEF InRow, Keeps
    <3>4. QED
      BY <2>2, <3>3
  <2>6. QED
    BY <2>4, <2>5
<1>12. Flying' = Flying
  BY <1>10 DEF Flying
<1> QED
  BY <1>2, <1>5, <1>9, <1>11, <1>12 DEF L

-----------------------------------------------------------------------------
(* What several steps have in common.                                      *)

\* The plan in hand is one unless the invocation is still scanning.
LEMMA PlanInHand ==
  ASSUME IInv, plan # NoPlan
  PROVE  plan \in Plans /\ pc # "idle" /\ PlanOK(plan, cur.id, cur.quotes)
         /\ cur.id \in 0 .. MaxRuns /\ cur.quotes \in 0 .. MaxQuotes
<1>1. plan \in Plans /\ pc # "idle"
  BY DEF IInv, Types
<1>2. cur.id \in 0 .. MaxRuns /\ cur.quotes \in 0 .. MaxQuotes
  BY DEF IInv, Types, Current
<1> QED
  BY <1>1, <1>2 DEF IInv, CurOK

\* An invocation that leaves keeps nothing but the database.
LEMMA LeaveOK ==
  ASSUME Leave, runs' \in Seq(Run), position' \in [Keys -> States], RowsOK', UsedOK'
  PROVE  IInv'
<1>1. Idle \in Current /\ NoRound \in Round
  BY Shapes DEF Idle, Current, NoRound, Round
<1>2. Types'
  BY <1>1 DEF Types, Leave, NoRound
<1>3. CurOK' /\ RoundOK'
  BY DEF CurOK, RoundOK, Leave
<1> QED
  BY <1>2, <1>3 DEF IInv

\* Halted positions may be planned again where no row is saved.
LEMMA KeptRows ==
  ASSUME IInv, runs' = runs, position' \in [Keys -> States],
         \A k \in Keys : \/ position'[k] = position[k]
                         \/ position[k] = "review" /\ position'[k] = "planned",
         \A q \in Plans : /\ HaltOK(q) => HaltOK(q)'
                          /\ GasOK(q) => GasOK(q)'
  PROVE  RowsOK' /\ UsedOK' /\ Flying' = Flying
<1>1. \A k \in Keys : /\ InFlight(position'[k]) <=> InFlight(position[k])
                      /\ position'[k] # "planned" => position[k] # "planned"
  BY DEF InFlight
<1>2. Flying' = Flying
  BY <1>1 DEF Flying
<1>3. UsedOK'
  BY <1>1 DEF IInv, UsedOK, InRow, Keeps
<1>4. RowsOK'
  <2>1. ASSUME NEW j \in 1 .. Len(runs), runs[j].plan # NoPlan
        PROVE  PlanOK(runs[j].plan, runs[j].id, runs[j].quotes)'
    <3>1. PlanOK(runs[j].plan, runs[j].id, runs[j].quotes)
      BY <2>1 DEF IInv, RowsOK
    <3>2. runs[j] \in Run
      BY DEF IInv, Types
    <3>3. runs[j].plan \in Plans
      BY <2>1, <3>2 DEF Run
    <3>4. PICK q \in Plans : q = runs[j].plan
      BY <3>3
    <3>5. HaltOK(q)' /\ GasOK(q)' /\ Belongs(q, runs[j].id, runs[j].quotes)
      BY <3>1, <3>4 DEF PlanOK
    <3>6. runs'[j] = runs[j]
      OBVIOUS
    <3>7. QED
      BY <3>4, <3>5, <3>6 DEF PlanOK, Belongs, HaltOK, GasOK, Mates, Paid, State
  <2>2. QED
    BY <2>1 DEF IInv, RowsOK
<1> QED
  BY <1>2, <1>3, <1>4

\* A step that moves nothing but the invocation's place and its frozen assets.
LEMMA Quiet ==
  ASSUME IInv, Types', pc # "idle", UNCHANGED <<runs, position, cur, plan>>,
         pc' \in Driving => pc \in Driving, RoundOK',
         pc' \in {"scan", "enter"} => frozen' = {},
         \A a \in frozen' : plan[a].group # NoGroup
  PROVE  IInv'
<1>1. RowsOK' /\ UsedOK' /\ Flying' = Flying
  BY DEF IInv, RowsOK, UsedOK, Flying, InRow, PlanOK, Belongs, HaltOK, GasOK,
         Mates, Paid, State, Keeps
<1>2. PICK i \in 1 .. Len(runs) : IsCur(i)
  BY DEF IInv, CurOK
<1>3. IsCur(i)'
  BY <1>1, <1>2 DEF IsCur, Keyed
<1>4. plan # NoPlan => PlanOK(plan, cur.id, cur.quotes)'
  BY DEF IInv, CurOK, PlanOK, Belongs, HaltOK, GasOK, Mates, Paid, State
<1>5. i \in 1 .. Len(runs')
  OBVIOUS
<1>6. CurOK'
  BY <1>1, <1>3, <1>4, <1>5 DEF IInv, CurOK
<1> QED
  BY <1>1, <1>6 DEF IInv

\* Identified as a step of the invocation's plan.
LEMMA IdentifiedRow ==
  ASSUME IInv, plan # NoPlan, NEW i \in 1 .. Len(runs), IsCur(i),
         cur.id \in 1 .. MaxRuns
  PROVE  /\ Identified(plan) \in Plans
         /\ PlanOK(Identified(plan), cur.id, cur.quotes)
         /\ runs[i].plan # NoPlan => Keyed(Identified(plan), runs[i].plan)
         /\ \A a \in Assets : Ready(Identified(plan)[a]) =>
                                Identified(plan)[a].group # NoGroup
         /\ \A a \in frozen : Identified(plan)[a].group # NoGroup
<1> DEFINE new == Identified(plan)
<1>1. /\ plan \in Plans /\ PlanOK(plan, cur.id, cur.quotes) /\ pc # "idle"
      /\ cur.quotes \in 0 .. MaxQuotes /\ Types /\ RowsOK /\ UsedOK
      /\ frozen \subseteq Assets
  BY PlanInHand DEF IInv, Types
<1>2. \A a \in frozen : plan[a].group # NoGroup
  BY <1>1 DEF IInv, CurOK
<1>3. ASSUME NEW a \in Assets, plan[a].group = NoGroup
      PROVE  /\ position[<<a, NoGroup>>] = "planned"
             /\ position[<<a, RunGroup(cur.id)>>] = "planned"
  <2>1. <<a, NoGroup>> \in Keys /\ <<a, RunGroup(cur.id)>> \in Keys
    BY Shapes, KeyShape
  <2>2. position[<<a, NoGroup>>] = "planned"
    BY <1>1, <2>1 DEF UsedOK
  <2>3. position[<<a, RunGroup(cur.id)>>] # "planned" =>
          Keeps(plan, <<a, RunGroup(cur.id)>>)
    BY <1>1, <2>1, OwnKey
  <2>4. QED
    BY <1>3, <2>2, <2>3, Shapes DEF Keeps
<1>4. /\ new \in Plans /\ PlanOK(new, cur.id, cur.quotes)
      /\ \A a \in Assets : /\ plan[a].group # NoGroup => new[a] = plan[a]
                           /\ Ready(new[a]) => new[a].group # NoGroup
  BY <1>1, <1>2, <1>3, IdentifiedOK
<1> HIDE DEF new
<1>5. ASSUME runs[i].plan # NoPlan PROVE Keyed(new, runs[i].plan)
  BY <1>4, <1>5 DEF IsCur, Keyed
<1>6. \A a \in frozen : new[a].group # NoGroup
  BY <1>1, <1>2, <1>4
<1> QED
  BY <1>4, <1>5, <1>6 DEF new

\* The invocation saves its plan as the one it executes and goes on.
LEMMA SavedGoes ==
  ASSUME IInv, Types', pc # "idle", cur.execute, cur' = cur,
         NEW i \in 1 .. Len(runs), IsCur(i), NEW p \in Plans, plan' = p,
         Belongs(p, cur.id, cur.quotes), HaltOK(p)', GasOK(p)',
         runs[i].plan # NoPlan => Keyed(p, runs[i].plan),
         \A k \in Keys : \/ position'[k] = position[k]
                         \/ position[k] = "review" /\ position'[k] = "planned",
         \A q \in Plans : /\ HaltOK(q) => HaltOK(q)'
                          /\ GasOK(q) => GasOK(q)',
         runs' = Saved("executing", p),
         pc' \in {"plan", "drive"},
         pc' = "drive" => \A a \in Assets : Ready(p[a]) => p[a].group # NoGroup,
         \A a \in frozen' : p[a].group # NoGroup
  PROVE  IInv'
<1> DEFINE L == Len(runs)
<1>1. position' \in [Keys -> States] /\ "executing" \in Statuses
      /\ "executing" \in Open /\ p \in {NoPlan} \union Plans
  BY DEF Types, Statuses, Open
<1>2. /\ RowsOK' /\ UsedOK' /\ Len(runs') = L
      /\ runs'[L].id = cur.id /\ runs'[L].status = "executing"
      /\ runs'[L].plan = p /\ runs'[L].quotes = cur.quotes
      /\ Flying' = Flying
  <2>1. p # NoPlan
    BY Shapes
  <2>2. /\ p # NoPlan => Belongs(p, cur.id, cur.quotes) /\ HaltOK(p)' /\ GasOK(p)'
        /\ runs[i].plan # NoPlan => p # NoPlan /\ Keyed(p, runs[i].plan)
        /\ Flying # {} => "executing" \in Open
    BY <1>1, <2>1
  <2>3. PICK s \in Statuses : s = "executing"
    BY <1>1
  <2>4. runs' = Saved(s, p) /\ (Flying # {} => s \in Open)
    BY <2>2, <2>3
  <2>5. QED
    BY <1>1, <2>2, <2>3, <2>4, SavedStep
<1>3. L \in 1 .. Len(runs') /\ cur.quotes \in Int /\ p # NoPlan
  <2>1. L \in Nat /\ i \in 1 .. L
    BY DEF IInv, Types
  <2>2. cur.quotes \in 0 .. MaxQuotes
    BY DEF IInv, Types, Current
  <2>3. QED
    BY <1>2, <2>1, <2>2, Shapes
<1>4. PICK e : e = L
  OBVIOUS
<1>5. IsCur(e)' /\ e \in 1 .. Len(runs')
  BY <1>2, <1>3, <1>4 DEF IsCur, Keyed
<1>6. PlanOK(plan, cur.id, cur.quotes)'
  BY DEF PlanOK, Belongs, HaltOK, GasOK, Mates, Paid, State
<1>7. CurOK'
  BY <1>2, <1>5, <1>6 DEF CurOK, Driving
<1>8. RoundOK'
  BY DEF RoundOK
<1> QED
  BY <1>2, <1>7, <1>8 DEF IInv

-----------------------------------------------------------------------------
(* The steps of an invocation.                                             *)

\* A round may sign only what Held lets go, and remembers why.
LEMMA BeginRoundOK ==
  ASSUME IInv, FrozenOK, BeginRound
  PROVE  IInv'
<1> DEFINE sign == {a \in Active : ~Held(a)}
<1>1. /\ pc = "drive" /\ pc' = "round" /\ UNCHANGED <<runs, position, cur, plan>>
      /\ UNCHANGED <<frozen, stage, late>>
      /\ round'.sign = sign /\ round'.observe = Active
      /\ round' \in Round
  <2>1. Active \subseteq Assets
    BY DEF Active, Driven
  <2>2. (\A a \in Active \intersect Pending : Held(a)) \in BOOLEAN
    OBVIOUS
  <2>3. QED
    BY <2>1, <2>2 DEF BeginRound, database, Round
<1>2. plan \in Plans
  BY <1>1 DEF IInv, Types
<1>3. \A a \in Active : a \in Driven /\ a \in Assets /\ Ready(plan[a])
  BY DEF Active, Driven
<1>4. ASSUME NEW n \in sign \intersect Natives, State(n, plan) = "planned",
             NEW a \in Assets \ {n}
      PROVE  MaySign(n, a)
  <2>1. n \in Driven /\ n \in Natives /\ ~SourceHeld(n) /\ ~DestinationHeld(n)
    BY <1>3 DEF Held
  <2>2. n \in Pending /\ ~Broadcast(State(n, plan))
    BY <1>4, <2>1 DEF Pending, Broadcast
  <2>3. a \notin Owners(ChainOf(n))
    BY <2>1, <2>2 DEF DestinationHeld
  <2>4. /\ plan[a].status = "retry" => ChainOf(n) \notin EnabledTargets
        /\ Ready(plan[a]) /\ plan[a].via = ChainOf(n) => State(a, plan) = "completed"
    BY <2>3 DEF Owners
  <2>5. plan[a].status = "retry" => ChainOf(a) # ChainOf(n)
    <3>1. plan[a].status = "retry" => ChainOf(a) \in BlockedChains(plan)
      BY DEF BlockedChains, Unresolved
    <3>2. CASE stage = "planning"
      <4>1. n \notin frozen
        BY <2>2 DEF FrozenOK
      <4>2. QED
        BY <2>1, <3>1, <3>2, <4>1 DEF Driven, ReadyGroups
    <3>3. CASE stage = "final"
      BY <2>2, <3>1, <3>3, <1>4 DEF Active, Eligible
    <3>4. QED
      BY <3>2, <3>3 DEF IInv, Types
  <2>6. ASSUME Ready(plan[a]), a \notin Natives, ChainOf(a) = ChainOf(n),
               State(a, plan) # "completed"
        PROVE  plan[a].group = plan[n].group /\ ~plan[n].relay
    BY <2>1, <2>2, <2>6 DEF SourceHeld
  <2>7. QED
    BY <2>4, <2>5, <2>6 DEF MaySign, Unheld
<1> HIDE DEF sign
<1>5. RoundOK'
  <2>1. \A a \in sign \union Active : Ready(plan[a])
    BY <1>3 DEF sign
  <2>2. \A a \in (round.sign \union round.observe)' : Ready(plan[a])'
    BY <1>1, <2>1
  <2>3. ASSUME NEW n \in (round.sign \intersect Natives)', State(n, plan)' = "planned",
               NEW a \in Assets \ {n}
        PROVE  MaySign(n, a)'
    <3>1. n \in sign \intersect Natives /\ State(n, plan) = "planned"
      BY <1>1, <2>3 DEF State
    <3>2. MaySign(n, a)
      BY <1>4, <3>1
    <3>3. QED
      BY <1>1, <3>2 DEF MaySign, State
  <2>4. QED
    BY <2>2, <2>3 DEF RoundOK
<1>6. Types'
  BY <1>1 DEF IInv, Types, Driving, sign
<1>7. \A a \in frozen' : plan[a].group # NoGroup
  BY <1>1 DEF IInv, CurOK
<1> QED
  BY <1>1, <1>5, <1>6, <1>7, Quiet DEF Driving

\* Steps that change nothing but where the invocation is.
LEMMA WalkOK ==
  ASSUME IInv, EndRound \/ EndDrive \/ Again \/ Tick
  PROVE  IInv'
<1>1. NoRound \in Round
  BY DEF NoRound, Round
<1>2. \A a \in frozen : pc # "idle" => plan[a].group # NoGroup
  BY DEF IInv, CurOK
<1>3. CASE EndRound
  <2>1. /\ pc = "round" /\ pc' \in {"drive", "driven"}
        /\ UNCHANGED <<runs, position, cur, plan>>
        /\ UNCHANGED <<frozen, stage, late>> /\ round' = NoRound
    BY <1>3 DEF EndRound, database
  <2>2. Types'
    BY <1>1, <2>1 DEF IInv, Types, Driving, NoRound
  <2>3. RoundOK'
    BY <2>1 DEF RoundOK
  <2>4. QED
    BY <1>2, <2>1, <2>2, <2>3, Quiet DEF Driving
<1>4. CASE EndDrive
  <2>1. /\ pc = "drive" /\ pc' = "driven"
        /\ UNCHANGED <<runs, position, cur, plan>>
        /\ UNCHANGED <<frozen, stage, late, round>>
    BY <1>4 DEF EndDrive, database
  <2>2. Types'
    BY <2>1 DEF IInv, Types, Driving
  <2>3. RoundOK'
    BY <2>1 DEF RoundOK
  <2>4. QED
    BY <1>2, <2>1, <2>2, <2>3, Quiet DEF Driving
<1>5. CASE Again
  <2>1. /\ pc = "wait" /\ pc' = "plan"
        /\ UNCHANGED <<runs, position, cur, plan>>
        /\ UNCHANGED <<frozen, stage, late, round>>
    BY <1>5 DEF Again, database
  <2>2. Types'
    BY <2>1 DEF IInv, Types, Driving
  <2>3. RoundOK'
    BY <2>1 DEF RoundOK
  <2>4. QED
    BY <1>2, <2>1, <2>2, <2>3, Quiet DEF Driving
<1>6. CASE Tick
  <2>1. /\ pc # "idle" /\ pc' = pc /\ UNCHANGED <<runs, position, cur, plan>>
        /\ UNCHANGED <<frozen, stage, round>> /\ late < 2 /\ late' \in late + 1 .. 2
    BY <1>6 DEF Tick, Interrupts, database
  <2>2. late' \in 0 .. 2
    BY <2>1 DEF IInv, Types
  <2>3. Types'
    BY <2>1, <2>2 DEF IInv, Types, Driving
  <2>4. RoundOK'
    BY <2>1 DEF IInv, RoundOK, MaySign, State
  <2>5. frozen' = {} \/ pc \notin {"scan", "enter"}
    BY <2>1 DEF IInv, CurOK
  <2>6. QED
    BY <1>2, <2>1, <2>3, <2>4, <2>5, Quiet DEF Driving
<1> QED
  BY <1>3, <1>4, <1>5, <1>6

\* What was signed while planning is frozen: it has a group.
LEMMA ReturnOK ==
  ASSUME IInv, Return
  PROVE  IInv'
<1> DEFINE signed == {a \in Driven : Broadcast(State(a, plan))}
<1>1. /\ pc = "driven" /\ pc' = "wait" /\ UNCHANGED <<runs, position, cur, plan>>
      /\ UNCHANGED <<stage, round, late>> /\ frozen' = frozen \union signed
  BY DEF Return, database
<1>2. signed \subseteq Assets /\ \A a \in signed : Ready(plan[a])
  BY DEF Driven
<1> HIDE DEF signed
<1>3. \A a \in frozen' : plan[a].group # NoGroup
  BY <1>1, <1>2 DEF IInv, CurOK, Driving
<1>4. Types'
  BY <1>1, <1>2 DEF IInv, Types, Driving
<1>5. RoundOK'
  BY <1>1 DEF RoundOK
<1> QED
  BY <1>1, <1>3, <1>4, <1>5, Quiet DEF Driving

\* Where no position changes no plan becomes worse.
LEMMA SameAll ==
  ASSUME position' = position
  PROVE  /\ \A q \in Plans : /\ HaltOK(q) => HaltOK(q)'
                             /\ GasOK(q) => GasOK(q)'
         /\ \A k \in Keys : \/ position'[k] = position[k]
                            \/ position[k] = "review" /\ position'[k] = "planned"
<1>1. ASSUME NEW q \in Plans
      PROVE  (HaltOK(q) => HaltOK(q)') /\ (GasOK(q) => GasOK(q)')
  BY DEF HaltOK, GasOK, Mates, Paid, State
<1> QED
  BY <1>1

\* A death loses the invocation and nothing of the database.
LEMMA CrashOK ==
  ASSUME IInv, Crash
  PROVE  IInv'
<1>1. Leave /\ runs' = runs /\ position' = position
  BY DEF Crash, database
<1>2. runs' \in Seq(Run) /\ position' \in [Keys -> States]
  BY <1>1 DEF IInv, Types
<1>3. RowsOK' /\ UsedOK'
  BY <1>1, <1>2, SameAll, KeptRows
<1> QED
  BY <1>1, <1>2, <1>3, LeaveOK

\* The plan is saved before its ready groups are driven.
LEMMA AdvanceOK ==
  ASSUME IInv, Advance
  PROVE  IInv'
<1>1. /\ pc = "plan" /\ cur.execute /\ plan' = Identified(plan)
      /\ runs' = Saved("executing", Identified(plan))
      /\ pc' = "drive" /\ stage' = "planning"
      /\ UNCHANGED <<position, cur, frozen, round, late>>
  BY DEF Advance, Saved
<1>2. PICK i \in 1 .. Len(runs) : IsCur(i) /\ cur.id \in 1 .. MaxRuns
  BY <1>1, CurRow
<1>3. plan # NoPlan
  BY <1>1 DEF IInv, Types
<1>4. PICK p : p = Identified(plan)
  OBVIOUS
<1>5. /\ p \in Plans /\ PlanOK(p, cur.id, cur.quotes)
      /\ runs[i].plan # NoPlan => Keyed(p, runs[i].plan)
      /\ \A a \in Assets : Ready(p[a]) => p[a].group # NoGroup
      /\ \A a \in frozen : p[a].group # NoGroup
  BY <1>2, <1>3, <1>4, IdentifiedRow
<1>6. Belongs(p, cur.id, cur.quotes) /\ HaltOK(p)' /\ GasOK(p)'
  BY <1>1, <1>5, SameAll DEF PlanOK
<1>7. runs' \in Seq(Run)
  <2>1. /\ p # NoPlan => Belongs(p, cur.id, cur.quotes) /\ HaltOK(p)' /\ GasOK(p)'
        /\ runs[i].plan # NoPlan => p # NoPlan /\ Keyed(p, runs[i].plan)
        /\ p \in {NoPlan} \union Plans
    BY <1>5, <1>6, Shapes
  <2>2. PICK s \in Statuses : s = "executing" /\ s \in Open
    BY DEF Statuses, Open
  <2>3. runs' = Saved(s, p) /\ position' \in [Keys -> States]
    BY <1>1, <1>4, <2>2 DEF IInv, Types
  <2>4. QED
    BY <1>1, <1>2, <2>1, <2>2, <2>3, SameAll, SavedStep
<1>8. Types'
  BY <1>1, <1>4, <1>5, <1>7, Shapes DEF IInv, Types, Driving
<1>9. runs' = Saved("executing", p) /\ plan' = p
  BY <1>1, <1>4
<1> QED
  BY <1>1, <1>2, <1>5, <1>6, <1>8, <1>9, SameAll, SavedGoes

\* The invocation saves its plan and leaves.
LEMMA SavedLeaves ==
  ASSUME IInv, pc # "idle", NEW i \in 1 .. Len(runs), IsCur(i),
         NEW s \in Statuses, NEW p \in {NoPlan} \union Plans,
         p # NoPlan => PlanOK(p, cur.id, cur.quotes),
         runs[i].plan # NoPlan => p # NoPlan /\ Keyed(p, runs[i].plan),
         Flying # {} => s \in Open,
         position' = position, runs' = Saved(s, p), Leave
  PROVE  IInv'
<1>1. position' \in [Keys -> States]
  BY DEF IInv, Types
<1>2. p # NoPlan => Belongs(p, cur.id, cur.quotes) /\ HaltOK(p)' /\ GasOK(p)'
  BY SameAll DEF PlanOK
<1>3. runs' \in Seq(Run) /\ RowsOK' /\ UsedOK'
  BY <1>1, <1>2, SameAll, SavedStep
<1> QED
  BY <1>1, <1>3, LeaveOK

\* A scan that fails had no plan, and nothing was in flight.
LEMMA ScanFailsOK ==
  ASSUME IInv, ScanFails
  PROVE  IInv'
<1>1. /\ pc = "scan" /\ runs' = Saved("scan_failed", NoPlan) /\ Leave
      /\ position' = position
  BY DEF ScanFails
<1>2. PICK i \in 1 .. Len(runs) : IsCur(i)
  BY <1>1, CurRow
<1>3. plan = NoPlan
  BY <1>1 DEF IInv, Types
<1>4. runs[i].plan = NoPlan
  BY <1>2, <1>3 DEF IsCur
<1>5. Flying = {}
  <2> SUFFICES ASSUME NEW k \in Flying PROVE FALSE
    OBVIOUS
  <2>1. k \in Keys /\ InFlight(position[k]) /\ position[k] # "planned"
    BY DEF Flying, InFlight
  <2>2. PICK j \in 1 .. Len(runs) : InRow(k, j)
    BY <2>1 DEF IInv, UsedOK
  <2>3. j = Len(runs) /\ i = Len(runs) /\ runs[j].plan # NoPlan
    BY <1>2, <2>1, <2>2 DEF InRow, IsCur
  <2>4. QED
    BY <1>4, <2>3
<1>6. PICK s \in Statuses : s = "scan_failed"
  BY DEF Statuses
<1>7. PICK p \in {NoPlan} \union Plans : p = NoPlan
  OBVIOUS
<1> QED
  BY <1>1, <1>2, <1>4, <1>5, <1>6, <1>7, SavedLeaves

\* What is in flight belongs to the plan a driven invocation has in hand.
LEMMA FlyingInHand ==
  ASSUME IInv, pc \in Driving, NEW k \in Keys, InFlight(position[k])
  PROVE  Keeps(plan, k)
<1>1. PICK i \in 1 .. Len(runs) : IsCur(i)
  BY DEF IInv, CurOK, Driving
<1>2. position[k] # "planned"
  BY DEF InFlight
<1>3. PICK j \in 1 .. Len(runs) : InRow(k, j)
  BY <1>2 DEF IInv, UsedOK
<1> QED
  BY <1>1, <1>3 DEF InRow, IsCur

\* A run is closed only when nothing of its plan is in flight.
LEMMA ReportOK ==
  ASSUME IInv, Report
  PROVE  IInv'
<1> DEFINE left == Pending # {} \/ Failure \/ \E a \in Assets : Unresolved(plan[a])
<1>1. /\ pc = "driven" /\ stage = "final" /\ Leave /\ position' = position
      /\ runs' = Saved(IF left THEN "incomplete" ELSE "completed", plan)
  BY DEF Report
<1>2. PICK i \in 1 .. Len(runs) : IsCur(i)
  BY <1>1, CurRow
<1>3. plan # NoPlan /\ plan \in Plans /\ PlanOK(plan, cur.id, cur.quotes)
  <2>1. plan # NoPlan
    BY <1>1 DEF IInv, Types
  <2>2. QED
    BY <2>1, PlanInHand
<1>4. ASSUME NEW k \in Flying PROVE left
  <2>1. k \in Keys /\ InFlight(position[k])
    BY DEF Flying
  <2>2. Keeps(plan, k) /\ k[1] \in Assets /\ k = <<k[1], k[2]>>
    BY <1>1, <2>1, FlyingInHand, KeyShape DEF Driving
  <2>3. k[1] \in Driven /\ State(k[1], plan) = position[k]
    BY <1>1, <2>2 DEF Keeps, Driven, State
  <2>4. CASE position[k] = "failed"
    BY <2>3, <2>4 DEF Failure, Reviewed
  <2>5. CASE position[k] \in {"sent", "unverified"}
    BY <2>3, <2>5 DEF Pending
  <2>6. QED
    BY <2>1, <2>4, <2>5 DEF InFlight
<1> HIDE DEF left
<1>5. PICK s \in Statuses : s = IF left THEN "incomplete" ELSE "completed"
  BY DEF Statuses, Open
<1>6. Flying # {} => s \in Open
  BY <1>4, <1>5 DEF Open
<1>7. runs[i].plan # NoPlan => plan # NoPlan /\ Keyed(plan, runs[i].plan)
  BY <1>2 DEF IsCur
<1>8. PICK p \in {NoPlan} \union Plans : p = plan
  BY <1>3
<1>9. /\ p # NoPlan => PlanOK(p, cur.id, cur.quotes)
      /\ runs[i].plan # NoPlan => p # NoPlan /\ Keyed(p, runs[i].plan)
      /\ runs' = Saved(s, p) /\ pc # "idle"
  BY <1>1, <1>3, <1>5, <1>7, <1>8
<1> QED
  BY <1>1, <1>2, <1>6, <1>9, SavedLeaves

\* The plan is saved when planning is over, executed or not.
LEMMA PlannedOK ==
  ASSUME IInv, Planned
  PROVE  IInv'
<1> DEFINE s == IF cur.resumed # "none" /\ ~cur.execute THEN cur.resumed
                ELSE IF cur.execute THEN "executing"
                ELSE IF Retries # {} THEN "incomplete" ELSE "planned"
<1>1. /\ pc \in {"plan", "wait"} /\ position' = position
      /\ runs' = Saved(s, Identified(plan))
      /\ IF cur.execute
           THEN /\ plan' = Identified(plan) /\ pc' = "drive" /\ stage' = "final"
                /\ UNCHANGED <<cur, frozen, round, late>>
           ELSE Leave
  BY DEF Planned
<1>2. PICK i \in 1 .. Len(runs) : IsCur(i) /\ cur.id \in 1 .. MaxRuns
  BY <1>1, CurRow
<1>3. plan # NoPlan
  BY <1>1 DEF IInv, Types
<1>4. PICK p : p = Identified(plan)
  OBVIOUS
<1>5. /\ p \in Plans /\ PlanOK(p, cur.id, cur.quotes)
      /\ runs[i].plan # NoPlan => Keyed(p, runs[i].plan)
      /\ \A a \in Assets : Ready(p[a]) => p[a].group # NoGroup
      /\ \A a \in frozen : p[a].group # NoGroup
  BY <1>2, <1>3, <1>4, IdentifiedRow
<1>6. Belongs(p, cur.id, cur.quotes) /\ HaltOK(p)' /\ GasOK(p)'
  BY <1>1, <1>5, SameAll DEF PlanOK
<1>7. /\ p # NoPlan /\ pc # "idle" /\ p \in {NoPlan} \union Plans
      /\ runs[i].plan # NoPlan => p # NoPlan /\ Keyed(p, runs[i].plan)
  BY <1>1, <1>5, Shapes
<1>8. CASE cur.execute
  <2>1. s = "executing"
    BY <1>8
  <2>2. runs' = Saved("executing", p) /\ plan' = p
    BY <1>1, <1>4, <1>8, <2>1
  <2>3. /\ pc' = "drive" /\ stage' = "final"
        /\ UNCHANGED <<cur, frozen, round, late>>
    BY <1>1, <1>8
  <2>4. runs' \in Seq(Run)
    <3>1. PICK e \in Statuses : e = "executing" /\ e \in Open
      BY DEF Statuses, Open
    <3>2. runs' = Saved(e, p) /\ position' \in [Keys -> States]
      BY <1>1, <2>2, <3>1 DEF IInv, Types
    <3>3. QED
      BY <1>1, <1>2, <1>6, <1>7, <3>1, <3>2, SameAll, SavedStep
  <2>5. Types'
    BY <1>1, <1>5, <1>7, <2>2, <2>3, <2>4 DEF IInv, Types, Driving
  <2> HIDE DEF s
  <2>6. QED
    BY <1>1, <1>2, <1>5, <1>6, <1>7, <1>8, <2>2, <2>3, <2>5, SameAll, SavedGoes
<1>9. CASE ~cur.execute
  <2>1. cur.resumed \in Statuses \union {"none"}
    BY DEF IInv, Types, Current
  <2>2. s \in Statuses
    BY <2>1, <1>9 DEF Statuses, Open
  <2>3. Flying # {} => s \in Open
    <3>1. Flying # {} => cur.resumed \in Open
      BY <1>7, <1>9 DEF IInv, CurOK
    <3>2. "none" \notin Open
      BY DEF Open
    <3>3. QED
      BY <1>9, <3>1, <3>2
  <2>4. runs' = Saved(s, p) /\ Leave
    BY <1>1, <1>4, <1>9
  <2> HIDE DEF s
  <2>5. QED
    BY <1>1, <1>2, <1>5, <1>7, <2>2, <2>3, <2>4, SavedLeaves
<1> QED
  BY <1>8, <1>9

\* The first quote of a run.
LEMMA QuotePlanOK ==
  ASSUME IInv, QuotePlan
  PROVE  IInv'
<1>1. PICK p \in [Assets -> UNION {Answer(a) : a \in Assets}] :
        /\ \A a \in Assets : p[a] \in Answer(a)
        /\ plan' = Identified(p)
  BY DEF QuotePlan
<1>2. /\ pc = "scan" /\ pc' = "enter" /\ cur.quotes < MaxQuotes
      /\ cur' = [cur EXCEPT !.quotes = @ + 1]
      /\ UNCHANGED <<runs, position>> /\ UNCHANGED <<frozen, stage, round, late>>
  BY DEF QuotePlan, Asks, database
<1>3. PICK i \in 1 .. Len(runs) : IsCur(i) /\ cur.id \in 1 .. MaxRuns
  BY <1>2, CurRow
<1>4. plan = NoPlan /\ frozen = {} /\ cur \in Current
  BY <1>2 DEF IInv, Types, CurOK
<1>5. p = [a \in Assets |-> p[a]]
  BY <1>1
<1>6. /\ p \in Plans /\ PlanOK(p, cur.id, cur.quotes + 1)
      /\ cur.quotes + 1 \in 0 .. MaxQuotes
      /\ \A a \in Assets : p[a].group = NoGroup =>
           /\ position[<<a, NoGroup>>] = "planned"
           /\ position[<<a, RunGroup(cur.id)>>] = "planned"
  BY <1>1, <1>2, <1>3, <1>4, <1>5, AnswersOK
<1>7. PICK q \in 0 .. MaxQuotes : q = cur.quotes + 1
  BY <1>6
<1>8. PICK new : new = Identified(p)
  OBVIOUS
<1>9. new \in Plans /\ PlanOK(new, cur.id, q)
  BY <1>3, <1>4, <1>6, <1>7, <1>8, IdentifiedOK DEF IInv
<1>10. /\ cur'.id = cur.id /\ cur'.quotes = q /\ cur'.execute = cur.execute
       /\ cur'.resumed = cur.resumed /\ cur' \in Current
  BY <1>2, <1>4, <1>7 DEF Current
<1>11. Types'
  BY <1>1, <1>2, <1>8, <1>9, <1>10, Shapes DEF IInv, Types, Driving
<1>12. RowsOK' /\ UsedOK' /\ Flying' = Flying
  BY <1>2, <1>11, SameAll, KeptRows DEF Types
<1>13. IsCur(i)'
  <2>1. runs[i].quotes <= cur.quotes /\ runs[i].plan = NoPlan
    BY <1>3, <1>4 DEF IsCur
  <2>2. runs[i].quotes <= q
    <3>1. runs[i] \in Run
      BY DEF IInv, Types
    <3>2. runs[i].quotes \in 0 .. MaxQuotes /\ cur.quotes \in 0 .. MaxQuotes
      BY <1>4, <3>1 DEF Run, Current
    <3>3. runs[i].quotes \in Int /\ cur.quotes \in Int
      BY <3>2, Shapes
    <3>4. QED
      BY <1>7, <2>1, <3>3
  <2>3. QED
    BY <1>2, <1>3, <1>10, <1>12, <2>1, <2>2 DEF IsCur, Driving
<1>14. PlanOK(plan, cur.id, cur.quotes)'
  BY <1>1, <1>2, <1>8, <1>9, <1>10
     DEF PlanOK, Belongs, HaltOK, GasOK, Mates, Paid, State
<1>15. i \in 1 .. Len(runs')
  BY <1>2
<1>16. CurOK'
  BY <1>2, <1>4, <1>10, <1>12, <1>13, <1>14, <1>15 DEF IInv, CurOK, Driving
<1>17. RoundOK'
  BY <1>2 DEF RoundOK
<1> QED
  BY <1>11, <1>12, <1>16, <1>17 DEF IInv

\* Only entries to be retried are quoted again.
LEMMA RequoteOK ==
  ASSUME IInv, Requote
  PROVE  IInv'
<1>1. PICK due \in SUBSET Retries :
        \E p \in [Assets -> UNION {Answer(a) : a \in due} \union
                            {plan[a] : a \in Assets}] :
          /\ \A a \in Assets : p[a] \in IF a \in due THEN Answer(a) ELSE {plan[a]}
          /\ plan' = p
  BY Zenon DEF Requote
<1>2. PICK p : /\ p = [a \in Assets |-> p[a]] /\ plan' = p
               /\ \A a \in Assets : p[a] \in IF a \in due THEN Answer(a) ELSE {plan[a]}
  BY <1>1
<1>3. /\ pc \in {"plan", "wait"} /\ pc' = "plan" /\ cur.quotes < MaxQuotes
      /\ cur' = [cur EXCEPT !.quotes = @ + 1]
      /\ UNCHANGED <<runs, position>> /\ UNCHANGED <<frozen, stage, round, late>>
  BY DEF Requote, Asks, database
<1>4. PICK i \in 1 .. Len(runs) : IsCur(i) /\ cur.id \in 1 .. MaxRuns
  BY <1>3, CurRow
<1>5. plan # NoPlan /\ cur \in Current
  BY <1>3 DEF IInv, Types
<1>6. \A a \in Assets :
        \/ /\ p[a] \in Answer(a)
           /\ plan # NoPlan => plan[a].status = "retry" /\ a \notin frozen
        \/ plan # NoPlan /\ p[a] = plan[a]
  BY <1>1, <1>2, <1>5 DEF Retries
<1>7. /\ p \in Plans /\ PlanOK(p, cur.id, cur.quotes + 1)
      /\ cur.quotes + 1 \in 0 .. MaxQuotes
      /\ \A a \in frozen : p[a].group # NoGroup
      /\ runs[i].plan # NoPlan => Keyed(p, runs[i].plan)
  BY <1>2, <1>3, <1>4, <1>5, <1>6, AnswersOK
<1>8. PICK q \in 0 .. MaxQuotes : q = cur.quotes + 1
  BY <1>7
<1>9. /\ cur'.id = cur.id /\ cur'.quotes = q /\ cur'.execute = cur.execute
      /\ cur'.resumed = cur.resumed /\ cur' \in Current
  BY <1>3, <1>5, <1>8 DEF Current
<1>10. Types'
  BY <1>2, <1>3, <1>7, <1>9, Shapes DEF IInv, Types, Driving
<1>11. RowsOK' /\ UsedOK' /\ Flying' = Flying
  BY <1>3, <1>10, SameAll, KeptRows DEF Types
<1>12. IsCur(i)'
  <2>1. runs[i].quotes <= cur.quotes
    BY <1>4 DEF IsCur
  <2>2. runs[i].quotes <= q
    <3>1. runs[i] \in Run
      BY DEF IInv, Types
    <3>2. runs[i].quotes \in 0 .. MaxQuotes /\ cur.quotes \in 0 .. MaxQuotes
      BY <1>5, <3>1 DEF Run, Current
    <3>3. runs[i].quotes \in Int /\ cur.quotes \in Int
      BY <3>2, Shapes
    <3>4. QED
      BY <1>8, <2>1, <3>3
  <2>3. plan' # NoPlan
    BY <1>2, <1>7, Shapes
  <2>4. (runs[i].plan # NoPlan => Keyed(plan, runs[i].plan))'
    BY <1>2, <1>3, <1>7 DEF Keyed
  <2>5. QED
    BY <1>3, <1>4, <1>9, <1>11, <2>2, <2>3, <2>4 DEF IsCur, Driving
<1>13. PlanOK(plan, cur.id, cur.quotes)'
  BY <1>2, <1>3, <1>7, <1>8, <1>9
     DEF PlanOK, Belongs, HaltOK, GasOK, Mates, Paid, State
<1>14. i \in 1 .. Len(runs')
  BY <1>3
<1>15. Flying # {} => cur.execute \/ cur.resumed \in Open
  BY <1>3 DEF IInv, CurOK
<1>16. CurOK'
  BY <1>2, <1>3, <1>7, <1>9, <1>11, <1>12, <1>13, <1>14, <1>15 DEF CurOK, Driving
<1>17. RoundOK'
  BY <1>3 DEF RoundOK
<1> QED
  BY <1>10, <1>11, <1>16, <1>17 DEF IInv

\* A group taken up again is taken up as a whole.
LEMMA TakenUp ==
  ASSUME IInv, NEW again \in SUBSET Groups,
         position' = [k \in DOMAIN position |->
           IF k[2] \in again /\ position[k] = "review" THEN "planned" ELSE position[k]]
  PROVE  /\ position' \in [Keys -> States]
         /\ \A k \in Keys : \/ position'[k] = position[k]
                            \/ position[k] = "review" /\ position'[k] = "planned"
         /\ \A q \in Plans : /\ HaltOK(q) => HaltOK(q)'
                             /\ GasOK(q) => GasOK(q)'
<1>1. position \in [Keys -> States] /\ DOMAIN position = Keys
  BY DEF IInv, Types
<1>2. \A k \in Keys : position'[k] =
        IF k[2] \in again /\ position[k] = "review" THEN "planned" ELSE position[k]
  BY <1>1
<1>3. position' \in [Keys -> States]
  BY <1>1 DEF States
<1>4. \A k \in Keys : \/ position'[k] = position[k]
                      \/ position[k] = "review" /\ position'[k] = "planned"
  BY <1>2
<1>5. ASSUME NEW q \in Plans
      PROVE  (HaltOK(q) => HaltOK(q)') /\ (GasOK(q) => GasOK(q)')
  <2>1. \A a \in Assets : <<a, q[a].group>> \in Keys
    BY KeyShape
  <2>2. \A a \in Assets : State(a, q)' =
          IF q[a].group \in again /\ State(a, q) = "review" THEN "planned"
          ELSE State(a, q)
    BY <1>2, <2>1 DEF State
  <2>3. \A a \in Assets :
          /\ Broadcast(State(a, q)') <=> Broadcast(State(a, q))
          /\ State(a, q)' = "completed" <=> State(a, q) = "completed"
    BY <2>2 DEF Broadcast
  <2>4. HaltOK(q) => HaltOK(q)'
    <3> SUFFICES ASSUME HaltOK(q), NEW a \in Assets, NEW b \in Assets,
                        Mates(q, a, b), State(a, q)' = "review"
                 PROVE  State(b, q)' # "planned"
      BY DEF HaltOK, Mates
    <3>1. State(a, q) = "review" /\ q[a].group \notin again
      BY <2>2
    <3>2. State(b, q) # "planned" /\ q[b].group = q[a].group
      BY <3>1 DEF HaltOK, Mates
    <3>3. QED
      BY <2>2, <3>1, <3>2
  <2>5. GasOK(q) => GasOK(q)'
    <3>1. Natives \subseteq Assets
      BY Shapes
    <3>2. \A n \in Natives, a \in Assets : Paid(q, n, a) => Paid(q, n, a)'
      BY <2>3 DEF Paid
    <3>3. \A n \in Natives : Broadcast(State(n, q))' => Broadcast(State(n, q))
      BY <2>3, <3>1 DEF Broadcast
    <3>4. QED
      BY <3>2, <3>3 DEF GasOK
  <2>6. QED
    BY <2>4, <2>5
<1> QED
  BY <1>3, <1>4, <1>5

\* Halted groups may be taken up, and the run marked as executed.
LEMMA EnterOK ==
  ASSUME IInv, Enter
  PROVE  IInv'
<1>1. PICK again \in SUBSET Groups :
        position' = [k \in DOMAIN position |->
          IF k[2] \in again /\ position[k] = "review" THEN "planned" ELSE position[k]]
  BY DEF Enter, Retriable
<1>2. /\ pc = "enter" /\ pc' = "plan" /\ frozen' = HasBroadcast(plan)
      /\ UNCHANGED <<cur, plan, stage, round, late>>
      /\ runs' = runs \/ (cur.execute /\ runs' = Saved("executing", plan))
  BY DEF Enter
<1>3. /\ position' \in [Keys -> States]
      /\ \A k \in Keys : \/ position'[k] = position[k]
                         \/ position[k] = "review" /\ position'[k] = "planned"
      /\ \A q \in Plans : /\ HaltOK(q) => HaltOK(q)'
                          /\ GasOK(q) => GasOK(q)'
  BY <1>1, TakenUp
<1>4. PICK i \in 1 .. Len(runs) : IsCur(i)
  BY <1>2, CurRow
<1>5. plan # NoPlan /\ plan \in Plans /\ PlanOK(plan, cur.id, cur.quotes)
  <2>1. plan # NoPlan
    BY <1>2 DEF IInv, Types
  <2>2. QED
    BY <2>1, PlanInHand
<1>6. HasBroadcast(plan) \subseteq Assets
      /\ \A a \in HasBroadcast(plan) : plan[a].group # NoGroup
  BY DEF HasBroadcast
<1>7. Belongs(plan, cur.id, cur.quotes) /\ HaltOK(plan) /\ GasOK(plan)
  BY <1>5 DEF PlanOK
<1>8. PICK p \in Plans : p = plan
  BY <1>5
<1>9. HaltOK(p)' /\ GasOK(p)'
  BY <1>3, <1>7, <1>8
<1>10. runs' \in Seq(Run) => Types'
  BY <1>2, <1>3, <1>6 DEF IInv, Types, Driving
<1>11. CASE runs' = runs
  <2>1. RowsOK' /\ UsedOK' /\ Flying' = Flying
    BY <1>3, <1>11, KeptRows
  <2>2. Types'
    BY <1>10, <1>11 DEF IInv, Types
  <2>3. IsCur(i)'
    BY <1>2, <1>4, <1>11, <2>1 DEF IsCur, Keyed, Driving
  <2>4. PlanOK(plan, cur.id, cur.quotes)'
    BY <1>2, <1>7, <1>8, <1>9
       DEF PlanOK, Belongs, HaltOK, GasOK, Mates, Paid, State
  <2>5. i \in 1 .. Len(runs')
    BY <1>11
  <2>6. CurOK'
    BY <1>2, <1>6, <2>1, <2>3, <2>4, <2>5 DEF IInv, CurOK, Driving
  <2>7. RoundOK'
    BY <1>2 DEF RoundOK
  <2>8. QED
    BY <2>1, <2>2, <2>6, <2>7 DEF IInv
<1>12. CASE cur.execute /\ runs' = Saved("executing", plan)
  <2>1. runs[i].plan # NoPlan => Keyed(p, runs[i].plan)
    BY <1>4, <1>8 DEF IsCur
  <2>2. /\ p # NoPlan => Belongs(p, cur.id, cur.quotes) /\ HaltOK(p)' /\ GasOK(p)'
        /\ runs[i].plan # NoPlan => p # NoPlan /\ Keyed(p, runs[i].plan)
        /\ p \in {NoPlan} \union Plans
    BY <1>5, <1>7, <1>8, <1>9, <2>1
  <2>3. PICK s \in Statuses : s = "executing" /\ s \in Open
    BY DEF Statuses, Open
  <2>4. runs' = Saved(s, p) /\ pc # "idle"
    BY <1>2, <1>8, <1>12, <2>3
  <2>5. runs' \in Seq(Run)
    BY <1>3, <1>4, <2>2, <2>3, <2>4, SavedStep
  <2>6. runs' = Saved("executing", p) /\ plan' = p /\ Belongs(p, cur.id, cur.quotes)
        /\ (\A a \in frozen' : p[a].group # NoGroup) /\ cur' = cur /\ cur.execute
    BY <1>2, <1>6, <1>7, <1>8, <1>12
  <2>7. QED
    BY <1>2, <1>3, <1>4, <1>9, <1>10, <2>1, <2>4, <2>5, <2>6, SavedGoes
<1> QED
  BY <1>2, <1>11, <1>12

-----------------------------------------------------------------------------
(* The next invocation.                                                    *)

\* What is in flight makes its row one that is resumed whatever the policy.
LEMMA Resumed ==
  ASSUME IInv, NEW d
  PROVE  /\ Previous(d) # <<>> =>
              \E m \in Resumable(d) : /\ Previous(d) = <<runs[m]>>
                                      /\ Previous(d)[1] = runs[m]
                                      /\ \A j \in Resumable(d) : j <= m
         /\ \A k \in Flying : /\ Previous(d) # <<>>
                              /\ Previous(d)[1] = runs[Len(runs)]
                              /\ InRow(k, Len(runs)) /\ k \in KeysOf(runs[Len(runs)].plan)
                              /\ Len(runs) \in Resumable(d)
<1> DEFINE found == Resumable(d)
           L == Len(runs)
<1>1. L \in Nat /\ found \subseteq 1 .. L
  BY DEF IInv, Types, Resumable
<1>2. ASSUME found # {}
      PROVE  \E m \in found : /\ Previous(d) = <<runs[m]>>
                              /\ \A j \in found : j <= m
  <2>1. \E m \in found : \A j \in found : j <= m
    BY <1>1, <1>2, Greatest
  <2>2. PICK m : m = CHOOSE i \in found : \A j \in found : j <= i
    OBVIOUS
  <2>3. m \in found /\ \A j \in found : j <= m
    BY <2>1, <2>2
  <2>4. Previous(d) = <<runs[m]>>
    BY <1>2, <2>2 DEF Previous
  <2>5. QED
    BY <2>3, <2>4
<1>3. found = {} => Previous(d) = <<>>
  BY DEF Previous
<1>4. ASSUME NEW k \in Flying
      PROVE  L \in found /\ InRow(k, L) /\ k \in KeysOf(runs[L].plan)
  <2>1. k \in Keys /\ InFlight(position[k]) /\ position[k] # "planned"
    BY DEF Flying, InFlight
  <2>2. PICK j \in 1 .. L : InRow(k, j)
    BY <2>1 DEF IInv, UsedOK
  <2>3. j = L /\ runs[j].status \in Open /\ runs[j].plan # NoPlan
        /\ Keeps(runs[j].plan, k)
    BY <2>1, <2>2 DEF InRow
  <2>4. L \in found
    BY <2>3 DEF Resumable, Open
  <2>5. k[1] \in Assets /\ k = <<k[1], k[2]>>
    BY <2>1, KeyShape
  <2>6. k \in KeysOf(runs[L].plan)
    BY <2>3, <2>5 DEF KeysOf, Keeps
  <2>7. QED
    BY <2>2, <2>3, <2>4, <2>6
<1>5. ASSUME NEW k \in Flying
      PROVE  /\ Previous(d) # <<>> /\ Previous(d)[1] = runs[L]
             /\ InRow(k, L) /\ k \in KeysOf(runs[L].plan) /\ L \in found
  <2>1. L \in found /\ InRow(k, L) /\ k \in KeysOf(runs[L].plan)
    BY <1>4
  <2>2. PICK m \in found : Previous(d) = <<runs[m]>> /\ \A j \in found : j <= m
    BY <1>2, <2>1
  <2>3. m = L
    BY <1>1, <2>1, <2>2
  <2>4. Previous(d) # <<>> /\ Previous(d)[1] = runs[L]
    BY <2>2, <2>3
  <2>5. QED
    BY <2>1, <2>4
<1> HIDE DEF found, L
<1>6. ASSUME Previous(d) # <<>>
      PROVE  \E m \in found : /\ Previous(d) = <<runs[m]>>
                              /\ Previous(d)[1] = runs[m]
                              /\ \A j \in found : j <= m
  <2>1. PICK m \in found : Previous(d) = <<runs[m]>> /\ \A j \in found : j <= m
    BY <1>2, <1>3, <1>6
  <2>2. Previous(d)[1] = runs[m]
    BY <2>1
  <2>3. QED
    BY <2>1, <2>2
<1> QED
  BY <1>5, <1>6 DEF found, L

\* A run of one's policy is taken up with the plan it was saved with.
LEMMA ResumeOK ==
  ASSUME IInv, NEW d \in Digests, NEW x \in BOOLEAN, pc = "idle",
         NEW m \in Resumable(d), runs[m].digest = d,
         \A k \in Flying : m = Len(runs) /\ InRow(k, Len(runs)),
         runs' = runs, position' = position,
         cur' = [id |-> runs[m].id, digest |-> d, execute |-> x,
                 resumed |-> runs[m].status, quotes |-> runs[m].quotes],
         plan' = runs[m].plan, pc' = "enter", stage' = "planning",
         round' = NoRound, late' = 0, frozen' = {}
  PROVE  IInv'
<1>1. m \in 1 .. Len(runs) /\ runs[m].plan # NoPlan
  BY DEF Resumable
<1>2. runs[m] \in Run /\ runs \in Seq(Run)
  BY <1>1 DEF IInv, Types
<1>3. /\ runs[m].id \in 1 .. MaxRuns /\ runs[m].status \in Statuses
      /\ runs[m].quotes \in 0 .. MaxQuotes /\ runs[m].plan \in Plans
  BY <1>1, <1>2 DEF Run
<1>4. runs[m].id \in 0 .. MaxRuns /\ MaxQuotes \in Nat
  BY <1>3, Shapes
<1>5. cur' \in Current
  BY <1>3, <1>4 DEF Current
<1>6. Types'
  BY <1>1, <1>3, <1>5 DEF IInv, Types, Driving, NoRound, Round
<1>7. RowsOK' /\ UsedOK' /\ Flying' = Flying
  BY <1>6, SameAll, KeptRows DEF Types
<1>8. IsCur(m)'
  <2>1. Keyed(plan, runs[m].plan)'
    BY DEF Keyed
  <2>2. /\ runs'[m].id = cur'.id /\ runs'[m].quotes = cur'.quotes
        /\ runs[m].quotes \in Int
    BY <1>3
  <2>3. Flying' # {} => m = Len(runs')
    BY <1>7
  <2>4. QED
    BY <1>1, <2>1, <2>2, <2>3 DEF IsCur, Driving
<1>9. PlanOK(plan, cur.id, cur.quotes)'
  <2>1. PlanOK(runs[m].plan, runs[m].id, runs[m].quotes)
    BY <1>1 DEF IInv, RowsOK
  <2>2. PICK p, i, q : p = runs[m].plan /\ i = runs[m].id /\ q = runs[m].quotes
    OBVIOUS
  <2>3. plan' = p /\ cur'.id = i /\ cur'.quotes = q /\ PlanOK(p, i, q)
    BY <2>1, <2>2
  <2>4. QED
    BY <2>3 DEF PlanOK, Belongs, HaltOK, GasOK, Mates, Paid, State
<1>10. Flying' # {} => cur'.resumed \in Open
  <2> SUFFICES ASSUME NEW k \in Flying PROVE runs[m].status \in Open
    BY <1>7
  <2>1. m = Len(runs) /\ InRow(k, m) /\ InFlight(position[k])
    BY DEF Flying
  <2>2. QED
    BY <2>1 DEF InRow
<1>11. m \in 1 .. Len(runs')
  BY <1>1
<1>12. CurOK'
  BY <1>8, <1>9, <1>10, <1>11 DEF CurOK, Driving
<1>13. RoundOK'
  BY DEF RoundOK
<1> QED
  BY <1>6, <1>7, <1>12, <1>13 DEF IInv

\* Rows that differ from the saved ones in status and order only.
Reordered(rows) ==
  /\ rows \in Seq(Run) /\ Len(rows) = Len(runs) /\ Distinct(rows)
  /\ \A j \in 1 .. Len(runs) : \E i \in 1 .. Len(runs) :
       /\ rows[j].id = runs[i].id /\ rows[j].plan = runs[i].plan
       /\ rows[j].quotes = runs[i].quotes
  /\ \A i \in 1 .. Len(runs) : \E j \in 1 .. Len(runs) :
       rows[j].plan = runs[i].plan

\* A superseded row changes its status and its place.
LEMMA SupersededRows ==
  ASSUME IInv, NEW m \in 1 .. Len(runs)
  PROVE  Reordered(Updated(runs, [runs[m] EXCEPT !.status = "superseded"]))
<1> DEFINE row == [runs[m] EXCEPT !.status = "superseded"]
           rows == Updated(runs, row)
           L == Len(runs)
<1>1. runs \in Seq(Run) /\ Distinct(runs) /\ runs[m] \in Run /\ L \in Nat
  BY DEF IInv, Types, RowsOK, Distinct
<1>2. /\ row \in Run /\ row.id = runs[m].id /\ row.plan = runs[m].plan
      /\ row.quotes = runs[m].quotes
  BY <1>1 DEF Run, Statuses
<1> HIDE DEF row
<1>3. Follows(rows, runs, m, row)
  BY <1>1, <1>2, UpdatedRows
<1> HIDE DEF rows, L
<1>4. /\ rows \in Seq(Run) /\ Len(rows) = L /\ rows[L] = row /\ Distinct(rows)
      /\ \A i \in 1 .. L : i # m => \E j \in 1 .. L : rows[j] = runs[i]
      /\ \A j \in 1 .. L : j # L => \E i \in 1 .. L : rows[j] = runs[i]
  BY <1>3 DEF Follows, L
<1>5. L \in 1 .. L /\ m \in 1 .. L
  BY <1>1 DEF L
<1>6. ASSUME NEW j \in 1 .. L
      PROVE  \E i \in 1 .. L : /\ rows[j].id = runs[i].id
                               /\ rows[j].plan = runs[i].plan
                               /\ rows[j].quotes = runs[i].quotes
  BY <1>2, <1>4, <1>5
<1>7. ASSUME NEW i \in 1 .. L
      PROVE  \E j \in 1 .. L : rows[j].plan = runs[i].plan
  BY <1>2, <1>4, <1>5
<1> QED
  BY <1>4, <1>6, <1>7 DEF Reordered, rows, row, L

\* A new run has a number no row has, and no plan.
LEMMA NewRunOK ==
  ASSUME IInv, NEW d \in Digests, NEW x \in BOOLEAN, pc = "idle", Flying = {},
         Len(runs) + 1 <= MaxRuns, NEW rows, Reordered(rows),
         runs' = Append(rows, [id |-> Len(runs) + 1, digest |-> d,
                               status |-> "scanning", plan |-> NoPlan, quotes |-> 0]),
         position' = position,
         cur' = [id |-> Len(runs) + 1, digest |-> d, execute |-> x,
                 resumed |-> "none", quotes |-> 0],
         plan' = NoPlan, pc' = "scan", stage' = "planning",
         round' = NoRound, late' = 0, frozen' = {}
  PROVE  IInv'
<1> DEFINE L == Len(runs)
           row == [id |-> L + 1, digest |-> d, status |-> "scanning",
                   plan |-> NoPlan, quotes |-> 0]
<1>1. L \in Nat /\ rows \in Seq(Run) /\ Len(rows) = L
  BY DEF IInv, Types, Reordered
<1>2. L + 1 \in 1 .. MaxRuns /\ L + 1 \in 0 .. MaxRuns /\ 0 \in 0 .. MaxQuotes
  BY <1>1, Shapes
<1>3. row \in Run /\ row.id = L + 1 /\ row.plan = NoPlan /\ row.quotes = 0
  BY <1>2 DEF Run, Statuses
<1>4. runs' = Append(rows, row)
  OBVIOUS
<1> HIDE DEF row
<1>5. /\ runs' \in Seq(Run) /\ Len(runs') = L + 1 /\ runs'[L + 1] = row
      /\ \A j \in 1 .. L : runs'[j] = rows[j]
  BY <1>1, <1>3, <1>4
<1>6. cur' \in Current /\ cur'.id = L + 1 /\ cur'.quotes = 0
  BY <1>2 DEF Current
<1>7. Types'
  BY <1>5, <1>6 DEF IInv, Types, Driving, NoRound, Round
<1>8. \A j \in 1 .. L : \E i \in 1 .. L :
        /\ runs'[j].id = runs[i].id /\ runs'[j].plan = runs[i].plan
        /\ runs'[j].quotes = runs[i].quotes
  <2> SUFFICES ASSUME NEW j \in 1 .. L
               PROVE  \E i \in 1 .. L :
                        /\ runs'[j].id = runs[i].id /\ runs'[j].plan = runs[i].plan
                        /\ runs'[j].quotes = runs[i].quotes
    OBVIOUS
  <2>1. PICK i \in 1 .. L :
          /\ rows[j].id = runs[i].id /\ rows[j].plan = runs[i].plan
          /\ rows[j].quotes = runs[i].quotes
    BY DEF Reordered
  <2>2. runs'[j] = rows[j]
    BY <1>5
  <2>3. QED
    BY <2>1, <2>2
<1>9. \A i \in 1 .. L : \E j \in 1 .. L : runs'[j].plan = runs[i].plan
  BY <1>5 DEF Reordered
<1> HIDE DEF L
<1>10. /\ \A i \in 1 .. L : runs[i].id \in 1 .. L
       /\ \A i \in 1 .. L : runs[i].plan # NoPlan =>
            PlanOK(runs[i].plan, runs[i].id, runs[i].quotes)
  BY DEF IInv, RowsOK, L
<1>11. \A j \in 1 .. L + 1 : j \in 1 .. L \/ j = L + 1
  BY <1>1
<1>12. \A j \in 1 .. L + 1 : runs'[j].id \in 1 .. L + 1
  <2>1. \A j \in 1 .. L : runs'[j].id \in 1 .. L
    BY <1>8, <1>10
  <2>2. L + 1 \in 1 .. L + 1 /\ \A e \in 1 .. L : e \in 1 .. L + 1
    BY <1>1
  <2>3. QED
    BY <1>3, <1>5, <1>11, <2>1, <2>2
<1>13. ASSUME NEW j \in 1 .. L + 1, runs'[j].plan # NoPlan
       PROVE  PlanOK(runs[j].plan, runs[j].id, runs[j].quotes)'
  <2>1. j \in 1 .. L
    BY <1>3, <1>5, <1>11, <1>13
  <2>2. PICK i \in 1 .. L : /\ runs'[j].id = runs[i].id /\ runs'[j].plan = runs[i].plan
                            /\ runs'[j].quotes = runs[i].quotes
    BY <1>8, <2>1
  <2>3. PICK p, e, q : p = runs[i].plan /\ e = runs[i].id /\ q = runs[i].quotes
    OBVIOUS
  <2>4. PlanOK(p, e, q)
    BY <1>10, <1>13, <2>2, <2>3
  <2>5. runs'[j].plan = p /\ runs'[j].id = e /\ runs'[j].quotes = q
    BY <2>2, <2>3
  <2>6. QED
    BY <2>4, <2>5 DEF PlanOK, Belongs, HaltOK, GasOK, Mates, Paid, State
<1>14. ASSUME NEW i \in 1 .. L + 1, NEW j \in 1 .. L + 1, runs'[i].id = runs'[j].id
       PROVE  i = j
  <2>1. \A e \in 1 .. L : runs'[e].id # L + 1
    <3>1. \A e \in 1 .. L : runs'[e].id \in 1 .. L
      BY <1>8, <1>10
    <3>2. L + 1 \notin 1 .. L
      BY <1>1
    <3>3. QED
      BY <3>1, <3>2
  <2>2. runs'[L + 1].id = L + 1
    BY <1>3, <1>5
  <2>3. CASE i \in 1 .. L /\ j \in 1 .. L
    <3>1. rows[i].id = rows[j].id
      BY <1>5, <1>14, <2>3
    <3>2. Distinct(rows) /\ Len(rows) = L
      BY <1>1 DEF Reordered
    <3>3. QED
      BY <2>3, <3>1, <3>2 DEF Distinct
  <2>4. QED
    BY <1>11, <1>14, <2>1, <2>2, <2>3
<1>15. RowsOK'
  BY <1>5, <1>12, <1>13, <1>14 DEF RowsOK
<1>16. Flying' = {}
  BY DEF Flying
<1>17. UsedOK'
  <2> SUFFICES ASSUME NEW k \in Keys, position[k] # "planned"
               PROVE  k[2] # NoGroup /\ \E j \in 1 .. Len(runs') : InRow(k, j)'
    BY DEF UsedOK
  <2>1. PICK i \in 1 .. L : InRow(k, i) /\ k[2] # NoGroup
    BY DEF IInv, UsedOK, L
  <2>2. PICK j \in 1 .. L : runs'[j].plan = runs[i].plan
    BY <1>9
  <2>3. ~InFlight(position[k])
    BY DEF Flying
  <2>4. j \in 1 .. Len(runs')
    BY <1>1, <1>5
  <2>5. InRow(k, j)'
    BY <2>1, <2>2, <2>3 DEF InRow, Keeps
  <2>6. QED
    BY <2>1, <2>4, <2>5
<1>18. PICK e : e = L + 1
  OBVIOUS
<1>19. IsCur(e)' /\ e \in 1 .. Len(runs')
  BY <1>1, <1>3, <1>5, <1>6, <1>16, <1>18 DEF IsCur, Driving
<1>20. CurOK'
  BY <1>16, <1>19 DEF CurOK, Driving
<1>21. RoundOK'
  BY DEF RoundOK
<1> QED
  BY <1>7, <1>15, <1>17, <1>20, <1>21 DEF IInv

\* An invocation resumes a run or, with nothing in flight, starts one.
LEMMA InvokeOK ==
  ASSUME IInv, NEW d \in Digests, NEW x \in BOOLEAN, Invoke(d, x)
  PROVE  IInv'
<1> DEFINE previous == Previous(d)
           pending == previous # <<>> /\
             \E k \in KeysOf(previous[1].plan) : InFlight(position[k])
           superseded == previous # <<>> /\ previous[1].digest # d /\ ~pending
           resumed == previous # <<>> /\ previous[1].digest = d
           id == IF resumed THEN previous[1].id ELSE Len(runs) + 1
           rows == IF superseded
                     THEN Updated(runs, [previous[1] EXCEPT !.status = "superseded"])
                     ELSE runs
<1>1. /\ pc = "idle" /\ (resumed \/ previous = <<>> \/ superseded) /\ id <= MaxRuns
      /\ runs' = IF resumed THEN rows
                 ELSE Append(rows, [id |-> id, digest |-> d, status |-> "scanning",
                                    plan |-> NoPlan, quotes |-> 0])
      /\ cur' = [id |-> id, digest |-> d, execute |-> x,
                 resumed |-> IF resumed THEN previous[1].status ELSE "none",
                 quotes |-> IF resumed THEN previous[1].quotes ELSE 0]
      /\ plan' = IF resumed THEN previous[1].plan ELSE NoPlan
      /\ pc' = IF resumed THEN "enter" ELSE "scan"
      /\ stage' = "planning" /\ round' = NoRound /\ late' = 0 /\ frozen' = {}
      /\ position' = position
  BY DEF Invoke
<1>2. CASE resumed
  <2>1. PICK m \in Resumable(d) : /\ previous[1] = runs[m]
                                  /\ \A j \in Resumable(d) : j <= m
    BY <1>2, Resumed
  <2>2. ASSUME NEW k \in Flying
        PROVE  m = Len(runs) /\ InRow(k, Len(runs))
    <3>1. InRow(k, Len(runs)) /\ Len(runs) \in Resumable(d)
      BY Resumed
    <3>2. m \in 1 .. Len(runs) /\ Len(runs) \in Nat
      BY DEF Resumable, IInv, Types
    <3>3. QED
      BY <2>1, <3>1, <3>2
  <2>3. ~superseded
    BY <1>2
  <2>4. /\ runs' = runs /\ plan' = runs[m].plan /\ pc' = "enter"
        /\ cur' = [id |-> runs[m].id, digest |-> d, execute |-> x,
                   resumed |-> runs[m].status, quotes |-> runs[m].quotes]
        /\ runs[m].digest = d
    BY <1>1, <1>2, <2>1, <2>3
  <2> HIDE DEF previous, pending, superseded, resumed, id, rows
  <2>5. QED
    BY <1>1, <2>2, <2>4, ResumeOK
<1>3. CASE ~resumed
  <2>1. Flying = {}
    <3> SUFFICES ASSUME NEW k \in Flying PROVE FALSE
      OBVIOUS
    <3>1. previous # <<>> /\ k \in KeysOf(previous[1].plan)
      BY Resumed
    <3>2. InFlight(position[k])
      BY DEF Flying
    <3>3. pending
      BY <3>1, <3>2
    <3>4. QED
      BY <1>1, <1>3, <3>1, <3>3
  <2>2. Reordered(rows)
    <3>1. CASE superseded
      <4>1. PICK m \in Resumable(d) : previous[1] = runs[m]
        BY <3>1, Resumed
      <4>2. m \in 1 .. Len(runs)
        BY DEF Resumable
      <4>3. rows = Updated(runs, [runs[m] EXCEPT !.status = "superseded"])
        BY <3>1, <4>1
      <4> HIDE DEF previous, pending, superseded, resumed, id, rows
      <4>4. QED
        BY <4>2, <4>3, SupersededRows
    <3>2. CASE ~superseded
      <4>1. rows = runs
        BY <3>2
      <4> HIDE DEF previous, pending, superseded, resumed, id, rows
      <4>2. Reordered(runs)
        BY DEF Reordered, IInv, Types, RowsOK, Distinct
      <4>3. QED
        BY <4>1, <4>2
    <3>3. QED
      BY <3>1, <3>2
  <2>3. id = Len(runs) + 1
    BY <1>3
  <2>4. /\ Len(runs) + 1 <= MaxRuns
        /\ runs' = Append(rows, [id |-> Len(runs) + 1, digest |-> d,
                                 status |-> "scanning", plan |-> NoPlan, quotes |-> 0])
        /\ cur' = [id |-> Len(runs) + 1, digest |-> d, execute |-> x,
                   resumed |-> "none", quotes |-> 0]
        /\ plan' = NoPlan /\ pc' = "scan"
    BY <1>1, <1>3, <2>3
  <2> HIDE DEF previous, pending, superseded, resumed, id, rows
  <2>5. QED
    BY <1>1, <2>1, <2>2, <2>4, NewRunOK
<1> QED
  BY <1>2, <1>3

-----------------------------------------------------------------------------
(* The rounds.                                                             *)

\* A round changes the positions of the plan in hand, and of no other.
LEMMA RoundStep ==
  ASSUME IInv, pc = "round", UNCHANGED <<runs, process>>,
         position' \in [Keys -> States],
         \A k \in Keys : /\ position'[k] # position[k] => Keeps(plan, k)
                         /\ position[k] = "completed" => position'[k] = "completed"
                         /\ position'[k] = "planned" => position[k] = "planned",
         HaltOK(plan)', GasOK(plan)'
  PROVE  IInv'
<1> DEFINE L == Len(runs)
<1>1. PICK i \in 1 .. L : IsCur(i)
  BY DEF IInv, CurOK
<1>2. /\ runs' = runs /\ pc' = pc /\ cur' = cur /\ plan' = plan /\ frozen' = frozen
      /\ stage' = stage /\ round' = round /\ late' = late
  BY DEF process
<1>3. /\ i = L /\ runs[i].plan = plan /\ runs[i].status \in Open /\ runs[i].id = cur.id
      /\ plan # NoPlan /\ cur.execute
      /\ \A a \in Assets : Ready(plan[a]) => plan[a].group # NoGroup
  BY <1>1 DEF IsCur, Driving, Open, IInv, CurOK, Types
<1>4. plan \in Plans /\ PlanOK(plan, cur.id, cur.quotes)
  BY <1>3, PlanInHand
<1>5. Types'
  BY <1>2 DEF IInv, Types
<1>6. UsedOK'
  <2> SUFFICES ASSUME NEW k \in Keys, position'[k] # "planned"
               PROVE  k[2] # NoGroup /\ \E j \in 1 .. L : InRow(k, j)'
    BY <1>2 DEF UsedOK
  <2>1. CASE position'[k] = position[k]
    <3>1. PICK j \in 1 .. L : InRow(k, j) /\ k[2] # NoGroup
      BY <2>1 DEF IInv, UsedOK
    <3>2. InRow(k, j)'
      BY <1>2, <2>1, <3>1 DEF InRow, Keeps
    <3>3. QED
      BY <3>1, <3>2
  <2>2. CASE position'[k] # position[k]
    <3>1. Keeps(plan, k) /\ k[1] \in Assets
      BY <2>2, KeyShape
    <3>2. k[2] # NoGroup
      BY <1>3, <3>1 DEF Keeps
    <3>3. InRow(k, i)'
      BY <1>2, <1>3, <3>1 DEF InRow, Keeps
    <3>4. QED
      BY <3>2, <3>3
  <2>3. QED
    BY <2>1, <2>2
<1>7. RowsOK'
  <2>1. ASSUME NEW j \in 1 .. L, runs[j].plan # NoPlan
        PROVE  PlanOK(runs[j].plan, runs[j].id, runs[j].quotes)'
    <3>1. PlanOK(runs[j].plan, runs[j].id, runs[j].quotes)
      BY <2>1 DEF IInv, RowsOK
    <3>2. runs[j] \in Run
      BY DEF IInv, Types
    <3>3. runs[j].plan \in Plans
      BY <2>1, <3>2 DEF Run
    <3>4. PICK q \in Plans : q = runs[j].plan
      BY <3>3
    <3>5. HaltOK(q) /\ GasOK(q) /\ Belongs(q, runs[j].id, runs[j].quotes)
      BY <3>1, <3>4 DEF PlanOK
    <3>6. HaltOK(q)' /\ GasOK(q)'
      <4>1. CASE j = i
        BY <1>2, <1>3, <3>4, <4>1 DEF HaltOK, GasOK, Mates, Paid, State
      <4>2. CASE j # i
        <5>1. runs[j].id # cur.id
          BY <1>3, <4>2 DEF IInv, RowsOK
        <5>2. ASSUME NEW a \in Assets
              PROVE  position'[<<a, q[a].group>>] = position[<<a, q[a].group>>]
          <6> SUFFICES ASSUME position'[<<a, q[a].group>>] # position[<<a, q[a].group>>]
                       PROVE  FALSE
            OBVIOUS
          <6>1. <<a, q[a].group>> \in Keys
            BY KeyShape
          <6>2. Ready(plan[a]) /\ plan[a].group = q[a].group
            BY <6>1 DEF Keeps
          <6>3. plan[a].group # NoGroup
            BY <1>3, <6>2
          <6>4. plan[a].group \in {RunGroup(cur.id)} \union QuoteGroups(cur.id, cur.quotes)
            BY <1>4, <6>3 DEF PlanOK, Belongs
          <6>5. q[a].group \in {RunGroup(runs[j].id)}
                                  \union QuoteGroups(runs[j].id, runs[j].quotes)
            BY <3>5, <6>2, <6>3 DEF Belongs
          <6>6. QED
            BY <5>1, <6>2, <6>4, <6>5 DEF RunGroup, QuoteGroups
        <5>3. QED
          BY <3>5, <5>2, SamePositions
      <4>3. QED
        BY <4>1, <4>2
    <3>7. runs'[j] = runs[j]
      BY <1>2
    <3>8. QED
      BY <3>4, <3>5, <3>6, <3>7 DEF PlanOK, Belongs, HaltOK, GasOK, Mates, Paid, State
  <2>2. QED
    BY <1>2, <2>1 DEF IInv, RowsOK
<1>8. IsCur(i)' /\ i \in 1 .. Len(runs')
  BY <1>1, <1>2, <1>3 DEF IsCur, Keyed
<1>9. PlanOK(plan, cur.id, cur.quotes)'
  BY <1>2, <1>4 DEF PlanOK, Belongs
<1>10. CurOK'
  BY <1>2, <1>3, <1>8, <1>9 DEF IInv, CurOK, Driving
<1>11. RoundOK'
  <2>1. \A a \in Assets : <<a, plan[a].group>> \in Keys
    BY <1>4, KeyShape
  <2>2. \A a \in Assets : /\ State(a, plan)' = "planned" => State(a, plan) = "planned"
                          /\ State(a, plan) = "completed" => State(a, plan)' = "completed"
    BY <1>2, <2>1 DEF State
  <2>3. \A a \in round.sign \union round.observe : Ready(plan[a])
    BY DEF IInv, RoundOK
  <2>4. ASSUME NEW n \in round.sign \intersect Natives, State(n, plan)' = "planned",
               NEW a \in Assets \ {n}
        PROVE  MaySign(n, a)'
    <3>1. n \in Assets
      BY Shapes
    <3>2. MaySign(n, a)
      BY <2>2, <2>4, <3>1 DEF IInv, RoundOK
    <3>3. QED
      BY <1>2, <2>2, <3>2 DEF MaySign
  <2>5. QED
    BY <1>2, <2>3, <2>4 DEF RoundOK
<1> QED
  BY <1>5, <1>6, <1>7, <1>10, <1>11 DEF IInv

\* The plan in a round, and the entries the round is about.
LEMMA InRound ==
  ASSUME IInv, pc = "round"
  PROVE  /\ plan \in Plans /\ HaltOK(plan) /\ GasOK(plan)
         /\ position \in [Keys -> States] /\ round.sign \subseteq Assets
         /\ round.observe \subseteq Assets
         /\ \A a \in round.sign \union round.observe :
              Ready(plan[a]) /\ plan[a].group # NoGroup
         /\ \A a \in Assets : <<a, plan[a].group>> \in Keys
<1>1. plan # NoPlan /\ position \in [Keys -> States] /\ round \in Round
  BY DEF IInv, Types
<1>2. plan \in Plans /\ HaltOK(plan) /\ GasOK(plan)
  BY <1>1, PlanInHand DEF PlanOK
<1>3. round.sign \subseteq Assets /\ round.observe \subseteq Assets
  BY <1>1 DEF Round
<1>4. \A a \in round.sign \union round.observe :
        Ready(plan[a]) /\ plan[a].group # NoGroup
  BY <1>3 DEF IInv, CurOK, RoundOK, Driving
<1>5. \A a \in Assets : <<a, plan[a].group>> \in Keys
  BY <1>2, KeyShape
<1> QED
  BY <1>1, <1>2, <1>3, <1>4, <1>5

\* A native asset is signed after what its gas is for.
LEMMA SignOK ==
  ASSUME IInv, NEW a \in Assets, Sign(a)
  PROVE  IInv'
<1> DEFINE key == <<a, plan[a].group>>
<1>1. /\ pc = "round" /\ a \in round.sign /\ State(a, plan) = "planned"
      /\ a \in Natives => \A t \in Assets \ Natives :
           plan[t].group = plan[a].group => State(t, plan) # "planned"
      /\ position' = [position EXCEPT ![key] = "sent"]
      /\ UNCHANGED <<runs, process>> /\ plan' = plan
  BY DEF Sign, process
<1>2. /\ plan \in Plans /\ HaltOK(plan) /\ GasOK(plan)
      /\ position \in [Keys -> States]
      /\ Ready(plan[a]) /\ \A x \in Assets : <<x, plan[x].group>> \in Keys
  BY <1>1, InRound
<1>3. position' \in [Keys -> States]
  BY <1>1, <1>2 DEF States
<1>4. \A k \in Keys : position'[k] = IF k = key THEN "sent" ELSE position[k]
  BY <1>1, <1>2
<1>5. position[key] = "planned" /\ Keeps(plan, key)
  BY <1>1, <1>2 DEF State, Keeps
<1>6. \A x \in Assets : State(x, plan)' = IF x = a THEN "sent" ELSE State(x, plan)
  <2>1. \A x \in Assets : x # a => <<x, plan[x].group>> # key
    OBVIOUS
  <2>2. QED
    BY <1>1, <1>2, <1>4, <2>1 DEF State
<1> HIDE DEF key
<1>7. \A k \in Keys : /\ position'[k] # position[k] => Keeps(plan, k)
                      /\ position[k] = "completed" => position'[k] = "completed"
                      /\ position'[k] = "planned" => position[k] = "planned"
  BY <1>4, <1>5
<1>8. HaltOK(plan)'
  <2> SUFFICES ASSUME NEW x \in Assets, NEW y \in Assets, Mates(plan, x, y),
                      State(x, plan)' = "review"
               PROVE  State(y, plan)' # "planned"
    BY <1>1 DEF HaltOK, Mates
  <2>1. State(x, plan) = "review"
    BY <1>6
  <2>2. State(y, plan) # "planned"
    BY <1>2, <2>1 DEF HaltOK
  <2>3. QED
    BY <1>6, <2>2
<1>9. GasOK(plan)'
  <2> SUFFICES ASSUME NEW n \in Natives, Ready(plan[n]),
                      Broadcast(State(n, plan))', NEW x \in Assets \ {n}
               PROVE  /\ plan[x].status = "retry" => Unheld(n, x)
                      /\ Ready(plan[x]) => Paid(plan, n, x)'
    BY <1>1 DEF GasOK
  <2>1. n \in Assets /\ Natives \subseteq Assets
    BY Shapes
  <2>2. CASE n # a
    <3>1. Broadcast(State(n, plan))
      BY <1>6, <2>1, <2>2 DEF Broadcast
    <3>2. /\ plan[x].status = "retry" => Unheld(n, x)
          /\ Ready(plan[x]) => Paid(plan, n, x)
      BY <1>2, <3>1 DEF GasOK
    <3>3. State(x, plan)' = State(x, plan) \/ (x = a /\ State(x, plan)' = "sent")
      BY <1>6
    <3>4. Paid(plan, n, x) => Paid(plan, n, x)'
      BY <1>1, <3>3 DEF Paid, Broadcast
    <3>5. QED
      BY <3>2, <3>4
  <2>3. CASE n = a
    <3>1. MaySign(n, x)
      BY <1>1, <2>3 DEF IInv, RoundOK
    <3>2. State(x, plan)' = State(x, plan)
      BY <1>6, <2>3
    <3>3. ASSUME Ready(plan[x]), x \notin Natives, ChainOf(x) = ChainOf(n)
          PROVE  Broadcast(State(x, plan))
      <4>1. CASE State(x, plan) = "completed"
        BY <4>1 DEF Broadcast
      <4>2. CASE plan[x].group = plan[n].group /\ ~plan[n].relay
        <5>1. State(x, plan) # "planned"
          BY <1>1, <2>3, <3>3, <4>2
        <5>2. State(x, plan) # "review"
          <6>1. Mates(plan, x, n)
            BY <3>3, <4>2 DEF Mates
          <6>2. State(n, plan) = "planned"
            BY <1>1, <2>3
          <6>3. QED
            BY <1>2, <2>1, <6>1, <6>2 DEF HaltOK
        <5>3. State(x, plan) \in States
          BY <1>2 DEF State
        <5>4. QED
          BY <5>1, <5>2, <5>3 DEF States, Broadcast
      <4>3. QED
        BY <3>1, <3>3, <4>1, <4>2 DEF MaySign
    <3>4. QED
      BY <1>1, <3>1, <3>2, <3>3 DEF MaySign, Paid, Broadcast
  <2>4. QED
    BY <2>2, <2>3
<1> QED
  BY <1>1, <1>3, <1>7, <1>8, <1>9, RoundStep

\* What was broadcast stays so, what was completed too: the gas is as it was.
LEMMA GasStays ==
  ASSUME NEW p, GasOK(p), Natives \subseteq Assets, plan = p, plan' = p,
         \A x \in Assets : /\ Broadcast(State(x, p))' <=> Broadcast(State(x, p))
                           /\ State(x, p) = "completed" => State(x, p)' = "completed"
  PROVE  GasOK(plan)'
<1>1. \A n \in Natives, x \in Assets : Paid(p, n, x) => Paid(p, n, x)'
  BY DEF Paid, Broadcast
<1>2. GasOK(p)'
  BY <1>1 DEF GasOK, Broadcast
<1> QED
  BY <1>2 DEF GasOK, Paid, State

\* A transfer in flight is credited.
LEMMA SettleOK ==
  ASSUME IInv, NEW a \in Assets, Settle(a)
  PROVE  IInv'
<1> DEFINE key == <<a, plan[a].group>>
<1>1. PICK s \in {"unverified", "completed"} :
        /\ position' = [position EXCEPT ![key] = s]
        /\ State(a, plan) \in {"sent", "unverified"}
  BY DEF Settle
<1>2. /\ pc = "round" /\ a \in round.observe /\ UNCHANGED <<runs, process>>
      /\ plan' = plan
  BY DEF Settle, process
<1>3. /\ plan \in Plans /\ HaltOK(plan) /\ GasOK(plan)
      /\ position \in [Keys -> States]
      /\ Ready(plan[a]) /\ \A x \in Assets : <<x, plan[x].group>> \in Keys
  BY <1>2, InRound
<1>4. position' \in [Keys -> States]
  BY <1>1, <1>3 DEF States
<1>5. \A k \in Keys : position'[k] = IF k = key THEN s ELSE position[k]
  BY <1>1, <1>3
<1>6. position[key] \in {"sent", "unverified"} /\ Keeps(plan, key)
  BY <1>1, <1>3 DEF State, Keeps
<1>7. \A x \in Assets : State(x, plan)' = IF x = a THEN s ELSE State(x, plan)
  <2>1. \A x \in Assets : x # a => <<x, plan[x].group>> # key
    OBVIOUS
  <2>2. QED
    BY <1>2, <1>3, <1>5, <2>1 DEF State
<1> HIDE DEF key
<1>8. \A k \in Keys : /\ position'[k] # position[k] => Keeps(plan, k)
                      /\ position[k] = "completed" => position'[k] = "completed"
                      /\ position'[k] = "planned" => position[k] = "planned"
  BY <1>5, <1>6
<1>9. HaltOK(plan)'
  <2> SUFFICES ASSUME NEW x \in Assets, NEW y \in Assets, Mates(plan, x, y),
                      State(x, plan)' = "review"
               PROVE  State(y, plan)' # "planned"
    BY <1>2 DEF HaltOK, Mates
  <2>1. State(x, plan) = "review"
    BY <1>7
  <2>2. State(y, plan) # "planned"
    BY <1>3, <2>1 DEF HaltOK
  <2>3. QED
    BY <1>7, <2>2
<1>10. GasOK(plan)'
  <2>1. \A x \in Assets :
          /\ Broadcast(State(x, plan))' <=> Broadcast(State(x, plan))
          /\ State(x, plan) = "completed" => State(x, plan)' = "completed"
    BY <1>1, <1>7 DEF Broadcast
  <2>2. PICK p : p = plan
    OBVIOUS
  <2>3. \A x \in Assets :
          /\ Broadcast(State(x, p))' <=> Broadcast(State(x, p))
          /\ State(x, p) = "completed" => State(x, p)' = "completed"
    BY <1>2, <2>1, <2>2 DEF State, Broadcast
  <2>4. GasOK(p) /\ plan = p /\ plan' = p /\ Natives \subseteq Assets
    BY <1>2, <1>3, <2>2, Shapes
  <2>5. QED
    BY <2>3, <2>4, GasStays
<1> QED
  BY <1>2, <1>4, <1>8, <1>9, <1>10, RoundStep

\* A failure halts its group: no member of it is left planned.
LEMMA FailOK ==
  ASSUME IInv, NEW a \in Assets, Fail(a)
  PROVE  IInv'
<1> DEFINE g == plan[a].group
           Halted(k) == /\ k[2] = g /\ position[k] = "planned"
                        /\ Ready(plan[k[1]]) /\ plan[k[1]].group = g
<1>1. PICK lost \in SUBSET {b \in Assets : State(b, plan) = "sent"} :
        position' = [k \in DOMAIN position |->
            IF k[2] # g THEN position[k]
            ELSE IF position[k] = "planned" /\ Ready(plan[k[1]])
                   /\ plan[k[1]].group = k[2] THEN "review"
            ELSE IF k[1] \in lost /\ plan[k[1]].group = k[2] THEN "failed"
            ELSE position[k]]
  BY DEF Fail
<1>2. /\ pc = "round" /\ a \in round.observe /\ UNCHANGED <<runs, process>>
      /\ plan' = plan
  BY DEF Fail, process
<1>3. /\ plan \in Plans /\ HaltOK(plan) /\ GasOK(plan)
      /\ position \in [Keys -> States]
      /\ Ready(plan[a]) /\ \A x \in Assets : <<x, plan[x].group>> \in Keys
  BY <1>2, InRound
<1>4. position' \in [Keys -> States]
  BY <1>1, <1>3 DEF States
<1> DEFINE Lost(k) == k[2] = g /\ k[1] \in lost /\ plan[k[1]].group = g
<1>5. \A k \in Keys : position'[k] = IF Halted(k) THEN "review"
                                     ELSE IF Lost(k) THEN "failed" ELSE position[k]
  BY <1>1, <1>3
<1>6. ASSUME NEW k \in Keys, Lost(k)
      PROVE  position[k] = "sent" /\ Keeps(plan, k)
  <2>1. k = <<k[1], k[2]>> /\ k[1] \in Assets
    BY KeyShape
  <2>2. State(k[1], plan) = "sent" /\ k = <<k[1], plan[k[1]].group>>
    BY <1>6, <2>1
  <2>3. position[k] = "sent"
    BY <2>2 DEF State
  <2>4. QED
    BY <1>2, <2>3, FlyingInHand DEF InFlight, Driving
<1>7. \A k \in Keys : Halted(k) => position[k] = "planned" /\ Keeps(plan, k)
  BY DEF Keeps
<1> HIDE DEF Lost
<1>8. \A k \in Keys : /\ position'[k] # position[k] => Keeps(plan, k)
                      /\ position[k] = "completed" => position'[k] = "completed"
                      /\ position'[k] = "planned" => position[k] = "planned"
  <2> HIDE DEF Halted
  <2>1. QED
    BY <1>5, <1>6, <1>7
<1>9. ASSUME NEW x \in Assets
      PROVE  \/ State(x, plan)' = State(x, plan) /\ ~Halted(<<x, plan[x].group>>)
             \/ /\ State(x, plan) = "planned" /\ State(x, plan)' = "review"
                /\ plan[x].group = g
             \/ State(x, plan) = "sent" /\ State(x, plan)' = "failed"
  <2>1. <<x, plan[x].group>> \in Keys
    BY <1>3
  <2>2. State(x, plan)' = position'[<<x, plan[x].group>>]
        /\ State(x, plan) = position[<<x, plan[x].group>>]
    BY <1>2 DEF State
  <2>3. Halted(<<x, plan[x].group>>) => plan[x].group = g
    OBVIOUS
  <2> HIDE DEF Halted
  <2>4. QED
    BY <1>5, <1>6, <1>7, <2>1, <2>2, <2>3
<1>10. HaltOK(plan)'
  <2> SUFFICES ASSUME NEW x \in Assets, NEW y \in Assets, Mates(plan, x, y),
                      State(x, plan)' = "review", State(y, plan)' = "planned"
               PROVE  FALSE
    BY <1>2 DEF HaltOK, Mates
  <2>1. State(y, plan) = "planned" /\ ~Halted(<<y, plan[y].group>>)
    BY <1>9
  <2>2. State(x, plan) # "review"
    BY <1>3, <2>1 DEF HaltOK
  <2>3. plan[x].group = g
    BY <1>9, <2>2
  <2>4. plan[y].group = g /\ Ready(plan[y])
    BY <2>3 DEF Mates
  <2>5. Halted(<<y, plan[y].group>>)
    BY <2>1, <2>4 DEF State
  <2>6. QED
    BY <2>1, <2>5
<1> HIDE DEF Halted
<1>11. GasOK(plan)'
  <2>1. \A x \in Assets :
          /\ Broadcast(State(x, plan))' <=> Broadcast(State(x, plan))
          /\ State(x, plan) = "completed" => State(x, plan)' = "completed"
    BY <1>9 DEF Broadcast
  <2>2. PICK p : p = plan
    OBVIOUS
  <2>3. \A x \in Assets :
          /\ Broadcast(State(x, p))' <=> Broadcast(State(x, p))
          /\ State(x, p) = "completed" => State(x, p)' = "completed"
    BY <1>2, <2>1, <2>2 DEF State, Broadcast
  <2>4. GasOK(p) /\ plan = p /\ plan' = p /\ Natives \subseteq Assets
    BY <1>2, <1>3, <2>2, Shapes
  <2>5. QED
    BY <2>3, <2>4, GasStays
<1> QED
  BY <1>2, <1>4, <1>8, <1>10, <1>11, RoundStep

\* What was broadcast stays so in the round, and the frozen entries with it.
LEMMA FrozenPlan ==
  ASSUME IInv, pc \notin {"idle", "scan"}, FrozenOK, frozen' = frozen,
         \A a \in frozen : plan'[a] = plan[a],
         \A k \in Keys : Broadcast(position[k]) => Broadcast(position'[k])
  PROVE  FrozenOK'
<1>1. plan \in Plans /\ frozen \subseteq Assets
  BY DEF IInv, Types
<1>2. \A a \in frozen : <<a, plan[a].group>> \in Keys
  BY <1>1, KeyShape
<1>3. \A a \in frozen : /\ Broadcast(position[<<a, plan[a].group>>])
                         /\ plan'[a].group = plan[a].group
  BY DEF FrozenOK, State
<1>4. \A a \in frozen : Broadcast(position'[<<a, plan'[a].group>>])
  BY <1>2, <1>3
<1> QED
  BY <1>4 DEF FrozenOK, State, Broadcast

\* A frozen entry is neither quoted again nor given another key.
LEMMA FrozenStep ==
  ASSUME IInv, FrozenOK, [Next]_vars
  PROVE  FrozenOK'
<1>1. ASSUME frozen' = {} PROVE FrozenOK'
  BY <1>1 DEF FrozenOK
<1>2. ASSUME UNCHANGED <<frozen, plan, position>> PROVE FrozenOK'
  BY <1>2 DEF FrozenOK, State, Broadcast
<1>3. ASSUME frozen' = frozen, position' = position, plan' = Identified(plan),
             pc \notin {"idle", "scan"}
      PROVE  FrozenOK'
  <2>1. frozen \subseteq Assets
    BY DEF IInv, Types
  <2>2. \A a \in frozen : plan'[a] = plan[a]
    BY <1>3, <2>1 DEF Identified
  <2>3. QED
    BY <1>3, <2>2, FrozenPlan
<1>4. ASSUME NEW d \in Digests, NEW x \in BOOLEAN, Invoke(d, x) PROVE FrozenOK'
  <2>1. frozen' = {}
    BY <1>4 DEF Invoke
  <2>2. QED
    BY <1>1, <2>1
<1>5. CASE ScanFails \/ Report \/ Crash
  BY <1>1, <1>5 DEF ScanFails, Report, Crash, Leave
<1>6. CASE QuotePlan
  <2>1. pc = "scan" /\ frozen' = frozen
    BY <1>6 DEF QuotePlan
  <2>2. frozen = {}
    BY <2>1 DEF IInv, CurOK
  <2>3. QED
    BY <1>1, <2>1, <2>2
<1>7. CASE Enter
  <2>1. PICK again \in SUBSET Retriable \union {{}} :
          position' = [k \in DOMAIN position |->
            IF k[2] \in again /\ position[k] = "review" THEN "planned" ELSE position[k]]
    BY <1>7 DEF Enter
  <2>2. pc = "enter" /\ frozen' = HasBroadcast(plan) /\ plan' = plan
    BY <1>7 DEF Enter
  <2>3. position \in [Keys -> States] /\ plan \in Plans
    BY <2>2 DEF IInv, Types
  <2>4. \A k \in Keys : Broadcast(position[k]) => position'[k] = position[k]
    BY <2>1, <2>3 DEF Broadcast
  <2>5. ASSUME NEW a \in HasBroadcast(plan)
        PROVE  Broadcast(position'[<<a, plan[a].group>>])
    <3>1. a \in Assets /\ Broadcast(position[<<a, plan[a].group>>])
      BY DEF HasBroadcast, State
    <3>2. <<a, plan[a].group>> \in Keys
      BY <2>3, <3>1, KeyShape
    <3>3. QED
      BY <2>4, <3>1, <3>2
  <2>6. QED
    BY <2>2, <2>5 DEF FrozenOK, State, Broadcast
<1>8. CASE Advance
  BY <1>3, <1>8 DEF Advance
<1>9. CASE Requote
  <2>1. PICK due \in SUBSET Retries :
          \E p \in [Assets -> UNION {Answer(a) : a \in due} \union
                              {plan[a] : a \in Assets}] :
            /\ \A a \in Assets : p[a] \in IF a \in due THEN Answer(a) ELSE {plan[a]}
            /\ plan' = p
    BY <1>9, Zenon DEF Requote
  <2>2. \A a \in Assets : plan'[a] \in IF a \in due THEN Answer(a) ELSE {plan[a]}
    BY <2>1
  <2>3. pc \in {"plan", "wait"} /\ UNCHANGED <<position, frozen>>
    BY <1>9 DEF Requote, database
  <2>4. frozen \subseteq Assets
    BY DEF IInv, Types
  <2>5. \A a \in frozen : plan'[a] = plan[a]
    BY <2>1, <2>2, <2>4 DEF Retries
  <2>6. QED
    BY <2>3, <2>5, FrozenPlan
<1>10. CASE Planned
  <2>1. pc \in {"plan", "wait"} /\ position' = position
    BY <1>10 DEF Planned
  <2>2. CASE cur.execute
    <3>1. plan' = Identified(plan) /\ frozen' = frozen
      BY <1>10, <2>2 DEF Planned
    <3>2. QED
      BY <1>3, <2>1, <3>1
  <2>3. CASE ~cur.execute
    BY <1>1, <1>10, <2>3 DEF Planned, Leave
  <2>4. QED
    BY <2>2, <2>3
<1>11. CASE BeginRound \/ EndRound \/ EndDrive \/ Again \/ Tick
  BY <1>2, <1>11 DEF BeginRound, EndRound, EndDrive, Again, Tick, database
<1>12. CASE Return
  <2>1. /\ frozen' = frozen \union {a \in Driven : Broadcast(State(a, plan))}
        /\ UNCHANGED <<plan, position>>
    BY <1>12 DEF Return, database
  <2>2. \A a \in frozen' : Broadcast(State(a, plan))
    BY <2>1 DEF FrozenOK
  <2>3. QED
    BY <2>1, <2>2 DEF FrozenOK, State, Broadcast
<1>13. ASSUME NEW a \in Assets, Sign(a) \/ Settle(a) \/ Fail(a) PROVE FrozenOK'
  <2>1. pc = "round" /\ UNCHANGED <<plan, frozen>>
    BY <1>13 DEF Sign, Settle, Fail, process
  <2>2. /\ position \in [Keys -> States]
        /\ <<a, plan[a].group>> \in Keys
    BY <2>1, InRound
  <2>3. \A k \in Keys : Broadcast(position[k]) => Broadcast(position'[k])
    <3>1. CASE Sign(a)
      BY <2>2, <3>1 DEF Sign, Broadcast
    <3>2. CASE Settle(a)
      <4>1. PICK s \in {"unverified", "completed"} :
              position' = [position EXCEPT ![<<a, plan[a].group>>] = s]
        BY <3>2 DEF Settle
      <4>2. QED
        BY <2>2, <4>1 DEF Broadcast
    <3>3. CASE Fail(a)
      <4>1. \A k \in Keys : \/ position'[k] = position[k]
                            \/ position[k] = "planned"
                            \/ position'[k] = "failed"
        BY <2>2, <3>3 DEF Fail
      <4>2. QED
        BY <4>1 DEF Broadcast
    <3>4. QED
      BY <1>13, <3>1, <3>2, <3>3
  <2>4. QED
    BY <2>1, <2>3, FrozenPlan
<1>14. CASE UNCHANGED vars
  BY <1>2, <1>14 DEF vars, database, process
<1> QED
  BY <1>4, <1>5, <1>6, <1>7, <1>8, <1>9, <1>10, <1>11, <1>12, <1>13, <1>14
     DEF Next, Steps

-----------------------------------------------------------------------------
(* The theorems.                                                           *)

\* Nothing was planned, signed or saved at first.
LEMMA InvInit == Init => IInv /\ FrozenOK
<1> SUFFICES ASSUME Init PROVE IInv /\ FrozenOK
  OBVIOUS
<1>1. Idle \in Current /\ NoRound \in Round
  BY Shapes DEF Idle, Current, NoRound, Round
<1>2. runs = <<>> /\ pc = "idle" /\ plan = NoPlan
      /\ position = [k \in Keys |-> "planned"]
  BY DEF Init, Keys
<1>3. Types
  BY <1>1, <1>2 DEF Init, Types, States, NoRound
<1>4. RowsOK
  BY <1>2 DEF RowsOK
<1>5. UsedOK
  BY <1>2 DEF UsedOK
<1>6. CurOK /\ RoundOK
  BY <1>2 DEF CurOK, RoundOK
<1>7. FrozenOK
  BY DEF Init, FrozenOK
<1> QED
  BY <1>3, <1>4, <1>5, <1>6, <1>7 DEF IInv

\* Every step keeps the invariant.
LEMMA InvStep == IInv /\ FrozenOK /\ [Next]_vars => IInv' /\ FrozenOK'
<1> SUFFICES ASSUME IInv, FrozenOK, [Next]_vars PROVE IInv'
  BY FrozenStep
<1>1. ASSUME NEW d \in Digests, NEW x \in BOOLEAN, Invoke(d, x) PROVE IInv'
  BY <1>1, InvokeOK
<1>2. CASE Steps
  BY <1>2, ScanFailsOK, QuotePlanOK, EnterOK, AdvanceOK, RequoteOK, PlannedOK,
     BeginRoundOK, WalkOK, ReturnOK, ReportOK DEF Steps
<1>3. CASE Tick \/ Crash
  BY <1>3, WalkOK, CrashOK
<1>4. ASSUME NEW a \in Assets, Sign(a) \/ Settle(a) \/ Fail(a) PROVE IInv'
  BY <1>4, SignOK, SettleOK, FailOK
<1>5. CASE UNCHANGED vars
  <2>1. UNCHANGED <<runs, position>> /\ UNCHANGED <<pc, cur, plan, frozen, stage, round, late>>
    BY <1>5 DEF vars, database, process
  <2>2. Types' /\ RowsOK' /\ UsedOK'
    BY <2>1 DEF IInv, Types, RowsOK, UsedOK, InRow, Keeps, PlanOK, Belongs, HaltOK,
                GasOK, Mates, Paid, State
  <2>3. CurOK' /\ RoundOK'
    BY <2>1 DEF IInv, CurOK, RoundOK, IsCur, Keyed, Flying, MaySign, PlanOK, Belongs,
                HaltOK, GasOK, Mates, Paid, State
  <2>4. QED
    BY <2>2, <2>3 DEF IInv
<1> QED
  BY <1>1, <1>2, <1>3, <1>4, <1>5 DEF Next

\* The inductive invariant holds in every reachable state.
THEOREM Invariant == Spec => [](IInv /\ FrozenOK)
<1> QED
  BY InvInit, InvStep, PTL DEF Spec

\* What each variable of collect_wallets and of its two tables holds.
THEOREM TypeCorrect == Spec => []TypeOK
<1>1. IInv => TypeOK
  <2> SUFFICES ASSUME IInv PROVE TypeOK
    OBVIOUS
  <2>1. ASSUME NEW i \in 1 .. Len(runs)
        PROVE  /\ runs[i].status \in {"scanning", "scan_failed", "planned", "executing",
                                      "incomplete", "superseded", "completed"}
               /\ runs[i].plan = NoPlan \/ runs[i].plan \in [Assets -> Entry]
    <3>1. runs[i] \in Run
      BY DEF IInv, Types
    <3>2. QED
      BY <3>1 DEF Run, Statuses, Open, Plans
  <2>2. position \in [Keys -> States] /\ cur \in Current
    BY DEF IInv, Types
  <2>3. \A k \in DOMAIN position : position[k] \in
          {"planned", "sent", "unverified", "completed", "review", "failed"}
    BY <2>2 DEF States
  <2>4. cur.quotes \in 0 .. MaxQuotes
    BY <2>2 DEF Current
  <2>5. /\ plan = NoPlan \/ plan \in [Assets -> Entry]
        /\ frozen \subseteq Assets /\ round.sign \subseteq round.observe
        /\ late \in 0 .. 2
    BY DEF IInv, Types, Plans
  <2>6. QED
    BY <2>1, <2>3, <2>4, <2>5 DEF TypeOK
<1> QED
  BY <1>1, Invariant, PTL

\* Whatever an invocation left in flight, signed by the executor and not yet
\* credited, or failed, is in the plan collect_wallets takes up next, whatever
\* policy it is called with.
THEOREM FlightsAreResumed == Spec => []InFlightIsResumable
<1>1. IInv => InFlightIsResumable
  <2> SUFFICES ASSUME IInv, NEW k \in DOMAIN position, NEW d \in Digests,
                      InFlight(position[k])
               PROVE  Previous(d) # <<>> /\ k \in KeysOf(Previous(d)[1].plan)
    BY DEF InFlightIsResumable
  <2>1. k \in Flying
    BY DEF Flying, IInv, Types
  <2>2. QED
    BY <2>1, Resumed
<1> QED
  BY <1>1, Invariant, PTL

\* collect_wallets never sends a native asset that a ready token of its chain
\* still needs to pay with, or, on an enabled target network, any route that
\* arrives there, found before or after.
THEOREM GasStaysUntilPaid == Spec => []GasIsKept
<1>1. IInv => GasIsKept
  <2> SUFFICES ASSUME IInv, plan # NoPlan, NEW n \in Natives, Ready(plan[n]),
                      Broadcast(State(n, plan)), NEW a \in Assets \ {n}, Unsigned(a)
               PROVE  /\ a \in Natives \/ ChainOf(a) # ChainOf(n)
                      /\ ChainOf(n) \in EnabledTargets => plan[a].via # ChainOf(n)
    BY DEF GasIsKept
  <2>1. GasOK(plan)
    BY PlanInHand DEF PlanOK
  <2>2. Paid(plan, n, a) /\ State(a, plan) = "planned"
    BY <2>1 DEF GasOK, Unsigned
  <2>3. QED
    BY <2>2 DEF Paid, Broadcast
<1> QED
  BY <1>1, Invariant, PTL

\* On every network collect_wallets signs the transfer of the coin only after
\* the routes it had found through that network were credited: what Held saw
\* when the round began still holds when a later position of it is signed.
THEOREM KnownRoutesComeFirst == Spec => KnownRoutesKeepGas
<1> DEFINE Kept == \A n \in Natives, a \in Assets :
             Sign(n) /\ a # n /\ Ready(plan[a]) /\ State(a, plan) # "completed" =>
               plan[a].via # ChainOf(n)
<1>1. IInv => Kept
  <2> SUFFICES ASSUME IInv, NEW n \in Natives, NEW a \in Assets \ {n}, Sign(n),
                      Ready(plan[a]), State(a, plan) # "completed"
               PROVE  plan[a].via # ChainOf(n)
    OBVIOUS
  <2>1. pc = "round" /\ n \in round.sign /\ State(n, plan) = "planned"
    BY DEF Sign
  <2>2. MaySign(n, a)
    BY <2>1 DEF IInv, RoundOK
  <2>3. QED
    BY <2>2 DEF MaySign
<1>2. IInv /\ [Next]_vars => [Kept]_vars
  BY <1>1
<1>3. Spec => [][Kept]_vars
  BY <1>2, Invariant, PTL DEF Spec
<1> QED
  BY <1>3 DEF KnownRoutesKeepGas
=============================================================================
