------------------------ MODULE GroupExecutionProofs ------------------------
(***************************************************************************)
(* The safety properties of GroupExecution, and that it implements         *)
(* LossBudget, for any number of positions, any losses and budget and any  *)
(* number of process deaths.  The first part proves what the proofs need   *)
(* of sums over finite sets.  IInv is what a run may rely on: positions    *)
(* are passed in order, and what was passed is counted.                    *)
(***************************************************************************)
EXTENDS GroupExecution, FiniteSetTheorems, TLAPS

\* The loss of these is part of the group's realized loss.
Counted == {i \in Positions : pos[i] = "completed" \/ accounted[i] # None}

AtPosition == {"observe", "preflight", "mark", "sign", "outcome", "account",
               "add", "write"}
\* A run that executes; a run on a halted group only observes.
Running == pc \notin {"idle", "halted"} /\ run.after # "halted"

\* A run goes past a position only when its loss is counted.
Passed(i) == \/ pos[i] = "completed"
             \/ pos[i] = "deposit_pending" /\ accounted[i] # None

TypeInv == TypeOK /\ accounted \in [Positions -> {None} \union Losses]

ModeOK ==
  /\ pc = "idle" => run = Idle
  /\ pc \in AtPosition => me <= N
  /\ pc = "close" => me = N + 1
  /\ run.after = "halted" => pc \in {"halted", "account", "write"}
  /\ Running => group = "active" /\ run.sum = realized
  /\ pc = "halted" \/ run.after = "halted" => group \in Halts

ProgressOK ==
  /\ Running /\ pc \notin {"halt", "stop"} =>
       \A i \in Positions : i < me => Passed(i)
  /\ pc = "halt" =>
       /\ run.write \in Halts
       /\ \A i \in Positions : i < me =>
            pos[i] \in SettledPositions \union {"deposit_pending"}

\* Positions are signed, and reviewed, in their order.
OrderOK ==
  /\ \A i \in Positions : pos[i] \in {"completed", "deposit_pending"} =>
       signed[i] # None
  /\ \A i \in Positions : signed[i] # None => prepared[i] = signed[i]
  /\ \A i \in Positions : credit[i] # "none" => signed[i] # None
  /\ \A i, j \in Positions : i < j /\ signed[j] # None => signed[i] # None
  /\ \A i, j \in Positions : i < j /\ pos[j] \in ReviewStates =>
       signed[i] # None \/ pos[i] \in ReviewStates

\* What the run knows of the position it is at.
StepOK ==
  /\ pc \in {"mark", "sign"} =>
       /\ run.loss # None /\ prepared[me] = run.loss
       /\ signed[me] = None => run.sum + run.loss <= Budget
  /\ pc = "sign" => /\ signed[me] = None
                    /\ pos[me] \in {"direct_deposit_submitted",
                                    "bridge_submitted"}
  /\ pc \in {"observe", "account"} => signed[me] # None
  /\ pc \in {"outcome", "add"} => signed[me] # None /\ signed[me] = run.loss
  /\ pc = "account" => /\ run.write \in {"completed", "deposit_pending"}
                       /\ run.after \in {"next", "halted"}
                       /\ run.after = "halted" => run.write = "completed"
  /\ pc = "add" => run.write = "completed" /\ run.after = "next"

\* What the run is about to write.
WriteOK ==
  pc = "write" =>
    /\ run.write \in {"completed", "deposit_pending"} => signed[me] # None
    /\ run.after = "next" => \/ run.write = "completed"
                             \/ run.write = "deposit_pending" /\ accounted[me] # None
    /\ run.after = "halt" => run.write = "manual_review"
    /\ run.after = "halted" => /\ run.write \in {"completed", "manual_review"}
                               /\ signed[me] # None
    /\ run.after \in {"pending", "gas"} =>
         run.write \in {"deposit_pending", "gas_deferred"}

CountOK ==
  /\ Total(signed, Counted) <= realized
  /\ pc = "write" /\ run.write = "completed" =>
       Total(signed, Counted \union {me}) <= realized

IInv == /\ TypeInv /\ ModeOK /\ ProgressOK /\ OrderOK /\ StepOK /\ WriteOK
        /\ CountOK /\ ClosedGroupAgrees

-----------------------------------------------------------------------------
(* Sums over finite sets.                                                  *)

Pick(s) == CHOOSE x \in s : TRUE

\* The function that SumFunctionOnSet evaluates is one over the subsets.
SumsOver(f, sums, S) ==
  sums = [s \in SUBSET S |->
            IF s = {} THEN 0 ELSE f[Pick(s)] + sums[s \ {Pick(s)}]]

LEMMA SumDef == ASSUME NEW f, NEW S
  PROVE SumFunctionOnSet(f, S) = (CHOOSE sums : SumsOver(f, sums, S))[S]
  BY DEF SumFunctionOnSet, FoldFunctionOnSet, MapThenFoldSet, SumsOver, Pick

LEMMA Minimal ==
  ASSUME NEW S, IsFiniteSet(S), NEW T, T \subseteq SUBSET S, T # {}
  PROVE  \E m \in T : \A u \in T : u \subseteq m => u = m
<1>1. IsWellFoundedOn(StrictSubsetOrdering(S), SUBSET S)
  BY FS_StrictSubsetOrderingWellFounded, FS_FiniteSubsetsOfFinite, Zenon
<1>2. \E x \in T : \A y \in T : ~(<<y, x>> \in StrictSubsetOrdering(S))
  BY <1>1, WFMin, Zenon
<1> QED
  BY <1>2 DEF StrictSubsetOrdering

LEMMA PickIn == ASSUME NEW s, s # {} PROVE Pick(s) \in s
  BY DEF Pick

\* Two such functions agree wherever both are defined.
LEMMA SumsAgree ==
  ASSUME NEW f, NEW S, IsFiniteSet(S), NEW R, R \subseteq S, NEW g, NEW h,
         SumsOver(f, g, S), SumsOver(f, h, R)
  PROVE  g[R] = h[R]
<1> DEFINE Differ == {u \in SUBSET R : g[u] # h[u]}
<1>1. SUFFICES ASSUME Differ # {} PROVE FALSE
  <2>1. R \notin Differ
    BY <1>1, Zenon
  <2> QED
    BY <2>1
<1>2. IsFiniteSet(R)
  BY FS_Subset, Zenon
<1>3. PICK m \in Differ : \A u \in Differ : u \subseteq m => u = m
  <2>1. Differ \subseteq SUBSET R
    OBVIOUS
  <2> HIDE DEF Differ
  <2> QED
    BY <1>1, <1>2, <2>1, Minimal
<1>4. m \in SUBSET S /\ m \in SUBSET R /\ g[m] # h[m]
  BY <1>3
<1>5. /\ g[m] = IF m = {} THEN 0 ELSE f[Pick(m)] + g[m \ {Pick(m)}]
      /\ h[m] = IF m = {} THEN 0 ELSE f[Pick(m)] + h[m \ {Pick(m)}]
  BY <1>4, Zenon DEF SumsOver
<1>6. m # {} /\ g[m \ {Pick(m)}] # h[m \ {Pick(m)}]
  BY <1>4, <1>5, Zenon
<1>7. m \ {Pick(m)} \in Differ
  BY <1>4, <1>6
<1>8. Pick(m) \notin m
  BY <1>3, <1>7, Zenon
<1> QED
  BY <1>6, <1>8, PickIn, Zenon

\* There is one over the subsets of every finite set.
LEMMA SumsExist ==
  ASSUME NEW f, NEW S, IsFiniteSet(S)
  PROVE  \E sums : SumsOver(f, sums, S)
<1> DEFINE Missing == {s \in SUBSET S : ~ \E sums : SumsOver(f, sums, s)}
<1>1. SUFFICES ASSUME Missing # {} PROVE FALSE
  BY Zenon
<1>2. PICK m \in Missing : \A u \in Missing : u \subseteq m => u = m
  <2>1. Missing \subseteq SUBSET S
    OBVIOUS
  <2> HIDE DEF Missing
  <2> QED
    BY <1>1, <2>1, Minimal
<1>3. m \in SUBSET S /\ ~ \E sums : SumsOver(f, sums, m)
  BY <1>2, Zenon
<1> DEFINE G(s) == CHOOSE sums : SumsOver(f, sums, s)
           less == m \ {Pick(m)}
           Value(s) == IF s = {} THEN 0
                       ELSE IF s = m THEN f[Pick(m)] + G(less)[less]
                       ELSE G(s)[s]
           all == [s \in SUBSET m |-> Value(s)]
<1>4. ASSUME NEW s \in SUBSET m, s # m PROVE SumsOver(f, G(s), s) /\ IsFiniteSet(s)
  <2>1. s \in SUBSET S /\ s \notin Missing
    BY <1>2, <1>3, <1>4
  <2>2. \E sums : SumsOver(f, sums, s)
    BY <2>1, Zenon
  <2>3. IsFiniteSet(s)
    BY <2>1, FS_Subset, Zenon
  <2>4. QED
    BY <2>2, <2>3, Zenon
<1>5. ASSUME NEW s \in SUBSET m, s # {}
      PROVE  Value(s) = f[Pick(s)] + Value(s \ {Pick(s)})
  <2> DEFINE rest == s \ {Pick(s)}
  <2>1. Pick(s) \in s /\ rest \in SUBSET m /\ rest # m /\ rest # s
    BY <1>5, PickIn
  <2>2. Value(rest) = G(rest)[rest]
    <3>1. CASE rest = {}
      <4>1. SumsOver(f, G(rest), rest)
        BY <1>4, <2>1, Zenon
      <4>2. G(rest)[rest] = 0
        BY <4>1, <3>1, Zenon DEF SumsOver
      <4>3. QED
        BY <3>1, <4>2, Zenon
    <3>2. CASE rest # {}
      BY <2>1, <3>2, Zenon
    <3> QED
      BY <3>1, <3>2, Zenon
  <2>3. CASE s = m
    <3>1. Value(s) = f[Pick(m)] + G(less)[less]
      BY <1>5, <2>3, Zenon
    <3>2. less = rest
      BY <2>3, Zenon
    <3> HIDE DEF G, Value, less, rest
    <3> QED
      BY <2>2, <2>3, <3>1, <3>2, Zenon DEF rest
  <2>4. CASE s # m
    <3>1. SumsOver(f, G(s), s) /\ IsFiniteSet(s)
      BY <1>4, <2>4, Zenon
    <3>2. SumsOver(f, G(rest), rest) /\ IsFiniteSet(rest)
      BY <1>4, <2>1, Zenon
    <3>3. G(s)[s] = f[Pick(s)] + G(s)[rest]
      BY <1>5, <3>1, Zenon DEF SumsOver
    <3>4. rest \subseteq s
      OBVIOUS
    <3>5. G(s)[rest] = G(rest)[rest]
      <4> HIDE DEF G, rest
      <4>1. \A g, h : SumsOver(f, g, s) /\ SumsOver(f, h, rest) => g[rest] = h[rest]
        BY <3>1, <3>4, SumsAgree
      <4> QED
        BY <3>1, <3>2, <4>1, Zenon
    <3>6. Value(s) = G(s)[s]
      BY <1>5, <2>4, Zenon
    <3> HIDE DEF G, Value, rest
    <3> QED
      BY <2>2, <3>3, <3>5, <3>6, Zenon DEF rest
  <2> QED
    BY <2>3, <2>4, Zenon
<1>6. \A s \in SUBSET m : all[s] = Value(s)
  BY Zenon
<1>7. ASSUME NEW s \in SUBSET m
      PROVE Value(s) = IF s = {} THEN 0 ELSE f[Pick(s)] + all[s \ {Pick(s)}]
  <2>1. s \ {Pick(s)} \in SUBSET m
    OBVIOUS
  <2>2. CASE s = {}
    BY <2>2, Zenon
  <2>3. CASE s # {}
    <3>1. Value(s) = f[Pick(s)] + Value(s \ {Pick(s)})
      BY <1>5, <2>3, Zenon
    <3>2. all[s \ {Pick(s)}] = Value(s \ {Pick(s)})
      BY <1>6, <2>1, Zenon
    <3> HIDE DEF Value, all
    <3> QED
      BY <2>3, <3>1, <3>2, Zenon
  <2> QED
    BY <2>2, <2>3, Zenon
<1>8. SumsOver(f, all, m)
  <2>1. all = [s \in SUBSET m |-> Value(s)]
    OBVIOUS
  <2> HIDE DEF Value, all
  <2>2. [s \in SUBSET m |-> Value(s)]
          = [s \in SUBSET m |-> IF s = {} THEN 0
                                ELSE f[Pick(s)] + all[s \ {Pick(s)}]]
    BY <1>7, Zenon
  <2> QED
    BY <2>1, <2>2, Zenon DEF SumsOver
<1> QED
  BY <1>3, <1>8, Zenon

\* The sum over a finite set is that of one of its elements and the rest.
LEMMA SumUnfold ==
  ASSUME NEW f, NEW S, IsFiniteSet(S)
  PROVE  SumFunctionOnSet(f, S) =
           IF S = {} THEN 0
           ELSE f[Pick(S)] + SumFunctionOnSet(f, S \ {Pick(S)})
<1> DEFINE sums == CHOOSE g : SumsOver(f, g, S)
           rest == S \ {Pick(S)}
           less == CHOOSE g : SumsOver(f, g, rest)
<1>1. SumsOver(f, sums, S)
  BY SumsExist, Zenon
<1>2. IsFiniteSet(rest)
  BY FS_RemoveElement, Zenon
<1>3. SumsOver(f, less, rest)
  BY <1>2, SumsExist, Zenon
<1>4. SumFunctionOnSet(f, S) = sums[S] /\ SumFunctionOnSet(f, rest) = less[rest]
  BY SumDef, Zenon
<1>5. rest \subseteq S /\ S \in SUBSET S
  OBVIOUS
<1>6. sums[rest] = less[rest]
  <2> HIDE DEF sums, less, rest
  <2>1. \A g, h : SumsOver(f, g, S) /\ SumsOver(f, h, rest) => g[rest] = h[rest]
    BY <1>5, SumsAgree
  <2> QED
    BY <1>1, <1>3, <2>1, Zenon
<1>7. sums[S] = IF S = {} THEN 0 ELSE f[Pick(S)] + sums[rest]
  <2> HIDE DEF sums
  <2> QED
    BY <1>1, <1>5, Zenon DEF SumsOver
<1> HIDE DEF sums, less
<1> QED
  BY <1>4, <1>6, <1>7, Zenon

\* The sum of numbers is a number.
LEMMA SumNat ==
  ASSUME NEW f, NEW S, IsFiniteSet(S), \A x \in S : f[x] \in Nat
  PROVE  SumFunctionOnSet(f, S) \in Nat
<1> DEFINE Wrong == {s \in SUBSET S : SumFunctionOnSet(f, s) \notin Nat}
<1>1. SUFFICES ASSUME Wrong # {} PROVE FALSE
  BY Zenon
<1>2. PICK m \in Wrong : \A u \in Wrong : u \subseteq m => u = m
  <2>1. Wrong \subseteq SUBSET S
    OBVIOUS
  <2> HIDE DEF Wrong
  <2> QED
    BY <1>1, <2>1, Minimal
<1>3. m \subseteq S /\ SumFunctionOnSet(f, m) \notin Nat
  BY <1>2, Zenon
<1>4. IsFiniteSet(m)
  BY <1>3, FS_Subset, Zenon
<1> DEFINE rest == m \ {Pick(m)}
<1>5. SumFunctionOnSet(f, m) =
        IF m = {} THEN 0 ELSE f[Pick(m)] + SumFunctionOnSet(f, rest)
  BY <1>4, SumUnfold, Zenon
<1>6. m # {}
  BY <1>3, <1>5
<1>7. Pick(m) \in m
  BY <1>6, PickIn, Zenon
<1>8. SumFunctionOnSet(f, rest) \in Nat
  <2>1. rest \in SUBSET S /\ rest \subseteq m /\ rest # m
    BY <1>3, <1>7
  <2>2. rest \notin Wrong
    <3> HIDE DEF Wrong, rest
    <3> QED
      BY <1>2, <2>1, Zenon
  <2> HIDE DEF rest
  <2> QED
    BY <2>1, <2>2, Zenon
<1>9. f[Pick(m)] \in Nat
  BY <1>3, <1>7
<1> HIDE DEF rest
<1> QED
  BY <1>3, <1>5, <1>6, <1>8, <1>9

\* Any element may be taken out of a sum first.
LEMMA SumRemove ==
  ASSUME NEW f, NEW S, IsFiniteSet(S), \A y \in S : f[y] \in Nat, NEW x \in S
  PROVE  SumFunctionOnSet(f, S) = f[x] + SumFunctionOnSet(f, S \ {x})
<1> DEFINE Wrong == {s \in SUBSET S : \E y \in s :
                       SumFunctionOnSet(f, s) # f[y] + SumFunctionOnSet(f, s \ {y})}
<1>1. SUFFICES ASSUME Wrong # {} PROVE FALSE
  <2>1. S \notin Wrong
    BY <1>1, Zenon
  <2>2. S \in SUBSET S
    OBVIOUS
  <2> QED
    BY <2>1, <2>2, Zenon
<1>2. PICK m \in Wrong : \A u \in Wrong : u \subseteq m => u = m
  <2>1. Wrong \subseteq SUBSET S
    OBVIOUS
  <2> HIDE DEF Wrong
  <2> QED
    BY <1>1, <2>1, Minimal
<1>3. m \subseteq S
  BY <1>2, Zenon
<1>4. PICK y \in m : SumFunctionOnSet(f, m) # f[y] + SumFunctionOnSet(f, m \ {y})
  BY <1>2, Zenon
<1> DEFINE p == Pick(m)
<1>5. p \in m
  BY <1>4, PickIn
<1>6. /\ IsFiniteSet(m) /\ IsFiniteSet(m \ {p}) /\ IsFiniteSet(m \ {y})
      /\ IsFiniteSet((m \ {p}) \ {y})
  BY <1>3, FS_Subset, FS_RemoveElement, Zenon
<1>7. SumFunctionOnSet(f, m) = f[p] + SumFunctionOnSet(f, m \ {p})
  BY <1>4, <1>6, SumUnfold, Zenon
<1>8. p # y
  BY <1>4, <1>7, Zenon
<1>9. /\ m \ {p} \in SUBSET S /\ m \ {y} \in SUBSET S
      /\ m \ {p} \subseteq m /\ m \ {y} \subseteq m
      /\ m \ {p} # m /\ m \ {y} # m
      /\ y \in m \ {p} /\ p \in m \ {y}
      /\ (m \ {y}) \ {p} = (m \ {p}) \ {y}
  BY <1>3, <1>5, <1>8
<1>10. m \ {p} \notin Wrong /\ m \ {y} \notin Wrong
  <2> HIDE DEF Wrong, p
  <2> QED
    BY <1>2, <1>9, Zenon
<1> DEFINE both == (m \ {p}) \ {y}
<1>11. SumFunctionOnSet(f, m \ {p}) = f[y] + SumFunctionOnSet(f, both)
  BY <1>9, <1>10, Zenon
<1>12. SumFunctionOnSet(f, m \ {y}) = f[p] + SumFunctionOnSet(f, both)
  <2>1. SumFunctionOnSet(f, m \ {y})
          = f[p] + SumFunctionOnSet(f, (m \ {y}) \ {p})
    BY <1>9, <1>10, Zenon
  <2> QED
    BY <1>9, <2>1, Zenon
<1>13. /\ f[p] \in Nat /\ f[y] \in Nat
       /\ SumFunctionOnSet(f, both) \in Nat
  <2>1. \A z \in both : f[z] \in Nat
    BY <1>3
  <2>2. SumFunctionOnSet(f, both) \in Nat
    BY <1>6, <2>1, SumNat, Zenon
  <2> QED
    BY <1>3, <1>5, <2>2
<1> HIDE DEF p, both
<1> QED
  BY <1>4, <1>7, <1>11, <1>12, <1>13

\* The sum depends only on the values at what it sums over.
LEMMA SumSame ==
  ASSUME NEW f, NEW g, NEW S, IsFiniteSet(S), \A x \in S : f[x] = g[x]
  PROVE  SumFunctionOnSet(f, S) = SumFunctionOnSet(g, S)
<1> DEFINE Wrong == {s \in SUBSET S :
                       SumFunctionOnSet(f, s) # SumFunctionOnSet(g, s)}
<1>1. SUFFICES ASSUME Wrong # {} PROVE FALSE
  <2>1. S \notin Wrong
    BY <1>1, Zenon
  <2> QED
    BY <2>1
<1>2. PICK m \in Wrong : \A u \in Wrong : u \subseteq m => u = m
  <2>1. Wrong \subseteq SUBSET S
    OBVIOUS
  <2> HIDE DEF Wrong
  <2> QED
    BY <1>1, <2>1, Minimal
<1>3. m \subseteq S /\ SumFunctionOnSet(f, m) # SumFunctionOnSet(g, m)
  BY <1>2, Zenon
<1> DEFINE rest == m \ {Pick(m)}
<1>4. IsFiniteSet(m)
  BY <1>3, FS_Subset, Zenon
<1>5. /\ SumFunctionOnSet(f, m) =
           IF m = {} THEN 0 ELSE f[Pick(m)] + SumFunctionOnSet(f, rest)
      /\ SumFunctionOnSet(g, m) =
           IF m = {} THEN 0 ELSE g[Pick(m)] + SumFunctionOnSet(g, rest)
  BY <1>4, SumUnfold, Zenon
<1>6. m # {}
  BY <1>3, <1>5, Zenon
<1>7. Pick(m) \in m
  BY <1>6, PickIn, Zenon
<1>8. rest \in SUBSET S /\ rest \subseteq m /\ rest # m
  BY <1>3, <1>7
<1>9. SumFunctionOnSet(f, rest) = SumFunctionOnSet(g, rest)
  <2>1. rest \notin Wrong
    <3> HIDE DEF Wrong, rest
    <3> QED
      BY <1>2, <1>8, Zenon
  <2> HIDE DEF rest
  <2> QED
    BY <1>8, <2>1, Zenon
<1>10. f[Pick(m)] = g[Pick(m)]
  BY <1>3, <1>7
<1> HIDE DEF rest
<1> QED
  BY <1>3, <1>5, <1>6, <1>9, <1>10, Zenon

\* A larger set of numbers has no smaller sum, and the same sum when nothing
\* but zeros is added.
LEMMA SumSubset ==
  ASSUME NEW f, NEW S, IsFiniteSet(S), \A x \in S : f[x] \in Nat,
         NEW T, T \subseteq S
  PROVE  /\ SumFunctionOnSet(f, T) <= SumFunctionOnSet(f, S)
         /\ (\A x \in S \ T : f[x] = 0) =>
              SumFunctionOnSet(f, T) = SumFunctionOnSet(f, S)
<1> DEFINE Fine(s) ==
             /\ SumFunctionOnSet(f, T) <= SumFunctionOnSet(f, s)
             /\ (\A x \in s \ T : f[x] = 0) =>
                  SumFunctionOnSet(f, T) = SumFunctionOnSet(f, s)
           Wrong == {s \in SUBSET S : T \subseteq s /\ ~Fine(s)}
<1>1. SUFFICES ASSUME Wrong # {} PROVE FALSE
  <2>1. S \notin Wrong
    BY <1>1, Zenon
  <2>2. Fine(S)
    <3> HIDE DEF Fine
    <3> QED
      BY <2>1
  <2> QED
    BY <2>2, Zenon
<1>2. PICK m \in Wrong : \A u \in Wrong : u \subseteq m => u = m
  <2>1. Wrong \subseteq SUBSET S
    OBVIOUS
  <2> HIDE DEF Wrong
  <2> QED
    BY <1>1, <2>1, Minimal
<1>3. m \subseteq S /\ T \subseteq m /\ ~Fine(m)
  <2> HIDE DEF Fine
  <2> QED
    BY <1>2
<1>4. IsFiniteSet(m) /\ IsFiniteSet(T)
  BY <1>3, FS_Subset, Zenon
<1>5. \A x \in m : f[x] \in Nat
  BY <1>3
<1>6. SumFunctionOnSet(f, m) \in Nat /\ SumFunctionOnSet(f, T) \in Nat
  BY <1>3, <1>4, <1>5, SumNat
<1>7. m # T
  BY <1>3, <1>6
<1>8. PICK x \in m : x \notin T
  BY <1>3, <1>7
<1> DEFINE rest == m \ {x}
<1>9. rest \in SUBSET S /\ T \subseteq rest /\ rest \subseteq m /\ rest # m
  BY <1>3, <1>8
<1>10. Fine(rest)
  <2> HIDE DEF Fine, rest
  <2> QED
    BY <1>2, <1>9
<1>11. SumFunctionOnSet(f, m) = f[x] + SumFunctionOnSet(f, rest)
  BY <1>4, <1>5, SumRemove
<1>12. f[x] \in Nat /\ SumFunctionOnSet(f, rest) \in Nat
  <2>1. IsFiniteSet(rest)
    BY <1>4, FS_RemoveElement, Zenon
  <2>2. \A y \in rest : f[y] \in Nat
    BY <1>5
  <2>3. SumFunctionOnSet(f, rest) \in Nat
    BY <2>1, <2>2, SumNat, Zenon
  <2> QED
    BY <1>5, <2>3
<1>13. (\A y \in m \ T : f[y] = 0) => f[x] = 0 /\ \A y \in rest \ T : f[y] = 0
  BY <1>8
<1> HIDE DEF rest
<1> QED
  BY <1>3, <1>6, <1>10, <1>11, <1>12, <1>13

\* One more element adds at most its value.
LEMMA SumAdd ==
  ASSUME NEW f, NEW S, IsFiniteSet(S), NEW x, \A y \in S \union {x} : f[y] \in Nat
  PROVE  /\ SumFunctionOnSet(f, S \union {x}) \in Nat
         /\ SumFunctionOnSet(f, S \union {x}) <= SumFunctionOnSet(f, S) + f[x]
<1> DEFINE all == S \union {x}
<1>1. IsFiniteSet(all) /\ IsFiniteSet(all \ {x})
  BY FS_AddElement, FS_RemoveElement, Zenon
<1>2. SumFunctionOnSet(f, all) = f[x] + SumFunctionOnSet(f, all \ {x})
  BY <1>1, SumRemove
<1>3. all \ {x} \subseteq S
  OBVIOUS
<1>4. SumFunctionOnSet(f, all \ {x}) <= SumFunctionOnSet(f, S)
  BY <1>3, SumSubset
<1>5. /\ SumFunctionOnSet(f, all \ {x}) \in Nat /\ SumFunctionOnSet(f, S) \in Nat
      /\ SumFunctionOnSet(f, all) \in Nat /\ f[x] \in Nat
  BY <1>1, SumNat
<1> QED
  BY <1>2, <1>4, <1>5

-----------------------------------------------------------------------------
(* Types.                                                                  *)

\* Init gives every variable a value of its type.
LEMMA TypeInit == Init => TypeInv
  BY GroupAssumption DEF Init, TypeInv, TypeOK, Positions, None, Idle, Runs,
     Points, PositionStates, GroupStates, Halts

\* What the constants are.
LEMMA Numbers ==
  /\ N \in Nat /\ N > 1 /\ Budget \in Nat
  /\ None = 0 /\ {None} \union Losses \subseteq Nat
  /\ \A loss \in {None} \union Losses : loss \in Nat
  /\ \A i \in Positions : Planned[i] \in Nat
  BY GroupAssumption DEF None

\* The names a run gives to groups and positions are states of theirs.
LEMMA StateNames ==
  /\ {"deposit_pending", "gas_deferred", "completed", "manual_review",
      "direct_deposit_submitted", "bridge_submitted"} \subseteq PositionStates
  /\ {"active", "deposit_pending", "gas_deferred", "completed"}
       \subseteq GroupStates
  /\ Halts \subseteq PositionStates /\ Halts \subseteq GroupStates
  /\ "manual_review_group_halted" \in Halts
  /\ "manual_review_group_threshold_exceeded" \in Halts
  /\ "planned" \in PositionStates
  BY DEF PositionStates, GroupStates, Halts

Afters == {"next", "halt", "pending", "gas", "halted"}

\* What the numbers in the record of the run are.
LEMMA RunNumbers ==
  ASSUME run \in Runs
  PROVE  /\ me \in 1 .. N + 1 /\ me \in Nat /\ N \in Nat
         /\ me <= N => me \in Positions
         /\ run.sum \in Nat /\ run.loss \in Nat
<1>1. /\ run.at \in 1 .. N + 1 /\ run.sum \in Nat
      /\ run.loss \in {None} \union Losses
  BY DEF Runs
<1>2. run.loss \in Nat /\ N \in Nat
  BY <1>1, Numbers
<1> QED
  BY <1>1, <1>2 DEF me, Positions

\* What becomes of the record of the run.
LEMMA RunUpdates ==
  ASSUME run \in Runs
  PROVE  /\ Idle \in Runs
         /\ me \in 1 .. N + 1
         /\ me <= N => me \in Positions /\ [run EXCEPT !.at = me + 1] \in Runs
         /\ \A sum \in Nat : [run EXCEPT !.sum = sum] \in Runs
         /\ \A loss \in {None} \union Losses : [run EXCEPT !.loss = loss] \in Runs
         /\ \A state \in PositionStates, after \in Afters :
              [run EXCEPT !.write = state, !.after = after] \in Runs
         /\ me <= N => \A state \in PositionStates :
              [run EXCEPT !.at = me + 1, !.write = state] \in Runs
<1> USE Numbers DEF Runs, Afters, Positions, me
<1>1. Idle \in Runs
  BY StateNames DEF Idle, None
<1>2. me \in 1 .. N + 1
  OBVIOUS
<1>3. me <= N => me \in Positions /\ [run EXCEPT !.at = me + 1] \in Runs
  BY <1>2
<1>4. \A sum \in Nat : [run EXCEPT !.sum = sum] \in Runs
  OBVIOUS
<1>5. \A loss \in {None} \union Losses : [run EXCEPT !.loss = loss] \in Runs
  OBVIOUS
<1>6. \A state \in PositionStates, after \in Afters :
        [run EXCEPT !.write = state, !.after = after] \in Runs
  OBVIOUS
<1>7. ASSUME me <= N, NEW state \in PositionStates
      PROVE  [run EXCEPT !.at = me + 1, !.write = state] \in Runs
  <2>1. me + 1 \in 1 .. N + 1
    BY <1>2, <1>7
  <2> QED
    BY <2>1
<1> QED
  BY <1>1, <1>2, <1>3, <1>4, <1>5, <1>6, <1>7

\* Every action keeps the record of the run.
LEMMA RunStep ==
  ASSUME TypeInv, ModeOK, [Next]_vars PROVE run' \in Runs
<1>0. run \in Runs => /\ me \in Int /\ N \in Int
                      /\ run.sum + run.loss \in Nat
  BY RunNumbers
<1> DEFINE Written == \E state \in PositionStates, after \in Afters :
                        run' = [run EXCEPT !.write = state, !.after = after]
           Moved == me <= N /\ run' = [run EXCEPT !.at = me + 1]
           Summed == \E sum \in Nat : run' = [run EXCEPT !.sum = sum]
<1>1. run \in Runs /\ realized \in Nat /\ \A i \in Positions : signed[i] \in Nat
  <2>1. /\ run \in Runs /\ realized \in Nat
        /\ signed \in [Positions -> {None} \union Losses]
    BY DEF TypeInv, TypeOK
  <2> QED
    BY <2>1, Numbers
<1>2. ASSUME run' \in {run, Idle} \/ Written \/ Moved \/ Summed
      PROVE  run' \in Runs
  <2>1. CASE run' \in {run, Idle}
    BY <1>1, <2>1, RunUpdates
  <2>2. CASE Written
    <3>1. PICK state \in PositionStates, after \in Afters :
            run' = [run EXCEPT !.write = state, !.after = after]
      BY <2>2
    <3> QED
      BY <1>1, <3>1, RunUpdates
  <2>3. CASE Moved
    BY <1>1, <2>3, RunUpdates
  <2>4. CASE Summed
    <3>1. PICK sum \in Nat : run' = [run EXCEPT !.sum = sum]
      BY <2>4
    <3> QED
      BY <1>1, <3>1, RunUpdates
  <2> QED
    BY <1>2, <2>1, <2>2, <2>3, <2>4
<1> USE StateNames DEF WriteThen, Review, Leave, Escape, Failure, Yield, Afters
<1>3. CASE \/ PreflightFails \/ PreflightDefersGas \/ SignDefersGas
           \/ StepFails \/ DependentLegTooDear \/ NotSettled
  <2>1. Written
    BY <1>3 DEF PreflightFails, PreflightDefersGas, SignDefersGas, StepFails,
       DependentLegTooDear, NotSettled
  <2> QED
    BY <1>2, <2>1
<1>4. CASE StillPending \/ Credited \/ ObserveHalted
  <2>1. Written
    BY <1>4 DEF StillPending, Credited, ObserveHalted
  <2> QED
    BY <1>2, <2>1
<1>5. CASE \/ EntryYields \/ PreflightYields \/ StepYields \/ StopRun \/ HaltGroup
           \/ CloseGroup \/ EndHalted \/ Crash \/ Sign \/ BeginHalted \/ Settle
           \/ UNCHANGED vars
  <2>1. run' \in {run, Idle}
    BY <1>5 DEF EntryYields, PreflightYields, StepYields, StopRun, HaltGroup,
       CloseGroup, EndHalted, Crash, Sign, BeginHalted, Settle, vars
  <2> QED
    BY <1>2, <2>1
<1>6. CASE BeginRun
  BY <1>1, <1>2, <1>6 DEF BeginRun
<1>7. CASE NextEntry \/ SkipHalted
  <2>1. run' = run \/ Moved
    BY <1>0, <1>1, <1>7 DEF NextEntry, SkipHalted
  <2> QED
    BY <1>2, <2>1
<1>8. CASE Preflight
  <2>1. PICK loss \in {None} \union Losses :
          Written \/ run' = [run EXCEPT !.loss = loss]
    BY <1>8, GroupAssumption, RunUpdates, <1>1
       DEF Preflight, TypeInv, TypeOK, ModeOK, AtPosition
  <2> QED
    BY <1>1, <1>2, <2>1, RunUpdates
<1>9. CASE Mark
  <2>1. run' = run \/ Written
    BY <1>9 DEF Mark
  <2> QED
    BY <1>2, <2>1
<1>10. CASE Account
  <2>1. realized' \in Nat
    <3>1. me \in Positions
      BY <1>1, <1>10, RunUpdates DEF Account, ModeOK, AtPosition
    <3>2. signed[me] \in Nat
      BY <1>1, <3>1
    <3> QED
      BY <1>1, <1>10, <3>2 DEF Account
  <2>2. Summed
    BY <1>10, <2>1 DEF Account
  <2> QED
    BY <1>2, <2>2
<1>11. CASE AddRealized
  <2>1. Written \/ Summed
    BY <1>0, <1>1, <1>11 DEF AddRealized
  <2> QED
    BY <1>2, <2>1
<1>12. CASE WritePosition
  <2>1. me <= N /\ "manual_review_group_halted" \in PositionStates
    BY <1>12 DEF WritePosition, ModeOK, AtPosition
  <2>2. \/ run' = Idle
        \/ run' = [run EXCEPT !.at = me + 1,
                              !.write = "manual_review_group_halted"]
    BY <1>12 DEF WritePosition
  <2> QED
    BY <1>1, <2>1, <2>2, RunUpdates
<1>13. CASE HaltPosition
  <2>1. run' = Idle \/ Moved
    BY <1>13 DEF HaltPosition
  <2> QED
    BY <1>2, <2>1
<1> QED
  BY <1>3, <1>4, <1>5, <1>6, <1>7, <1>8, <1>9, <1>10, <1>11, <1>12, <1>13
     DEF Next, Executor

\* Which actions write to the journal and to the exchange.
Yields == EntryYields \/ PreflightYields \/ StepYields

LEMMA Touched ==
  ASSUME [Next]_vars
  PROVE  /\ signed' # signed => Sign
         /\ prepared' # prepared => Preflight
         /\ pos' # pos => Mark \/ WritePosition \/ HaltPosition
         /\ accounted' # accounted => Account
         /\ realized' # realized => Account \/ AddRealized
         /\ credit' # credit => Settle
         /\ crashes' # crashes => Crash
         /\ group' # group =>
              BeginRun \/ Yields \/ StopRun \/ HaltGroup \/ CloseGroup
<1>1. CASE \/ BeginRun \/ NextEntry \/ EntryYields \/ Preflight
           \/ PreflightFails \/ PreflightDefersGas \/ PreflightYields \/ Mark
           \/ Sign \/ SignDefersGas
  BY <1>1 DEF Yields, journal, Yield, BeginRun, NextEntry, EntryYields, Preflight,
     PreflightFails, PreflightDefersGas, PreflightYields, Mark, Sign,
     SignDefersGas
<1>2. CASE \/ StepYields \/ StepFails \/ DependentLegTooDear \/ StillPending
           \/ Credited \/ NotSettled \/ Account \/ AddRealized
  BY <1>2 DEF Yields, journal, Yield, StepYields, StepFails, DependentLegTooDear,
     StillPending, Credited, NotSettled, Account, AddRealized
<1>3. CASE \/ WritePosition \/ StopRun \/ HaltPosition \/ HaltGroup \/ CloseGroup
  BY <1>3 DEF Yields, journal, Escape, WritePosition, StopRun, HaltPosition,
     HaltGroup, CloseGroup
<1>4. CASE \/ BeginHalted \/ ObserveHalted \/ SkipHalted \/ EndHalted \/ Settle
           \/ Crash \/ UNCHANGED vars
  BY <1>4 DEF vars, journal, Escape, BeginHalted, ObserveHalted, SkipHalted,
     EndHalted, Settle, Crash
<1> QED
  BY <1>1, <1>2, <1>3, <1>4 DEF Next, Executor

\* Every action keeps the types.
LEMMA TypeStep ==
  ASSUME TypeInv, ModeOK, ProgressOK, StepOK, [Next]_vars PROVE TypeInv'
<1>1. run \in Runs /\ (me <= N => me \in Positions) /\ run.loss \in {None} \union Losses
      /\ run.write \in PositionStates
  BY RunNumbers DEF TypeInv, TypeOK, Runs
<1>2. /\ signed \in [Positions -> {None} \union Losses]
      /\ accounted \in [Positions -> {None} \union Losses]
      /\ prepared \in [Positions -> {None} \union Losses]
      /\ pos \in [Positions -> PositionStates]
  BY DEF TypeInv, TypeOK
<1>3. run' \in Runs
  BY RunStep
<1>4. group' \in GroupStates
  <2>1. ASSUME BeginRun \/ Yields PROVE group' = "active"
    BY <2>1 DEF BeginRun, Yields, EntryYields, PreflightYields, StepYields, Yield
  <2>2. ASSUME StopRun PROVE group' \in {group, "gas_deferred", "deposit_pending"}
    BY <2>2 DEF StopRun
  <2>3. ASSUME HaltGroup PROVE group' \in Halts
    BY <2>3 DEF HaltGroup, ProgressOK
  <2>4. ASSUME CloseGroup PROVE group' \in {"deposit_pending", "completed"}
    BY <2>4 DEF CloseGroup
  <2>5. group \in GroupStates
    BY DEF TypeInv, TypeOK
  <2> QED
    BY <2>1, <2>2, <2>3, <2>4, <2>5, Touched, StateNames
<1>5. pos' \in [Positions -> PositionStates]
  <2>1. ASSUME Mark \/ WritePosition \/ HaltPosition
        PROVE  \/ pos' = pos
               \/ \E state \in PositionStates : pos' = [pos EXCEPT ![me] = state]
    <3>1. CASE Mark
      BY <3>1, StateNames DEF Mark
    <3>2. CASE WritePosition
      BY <3>2, <1>1 DEF WritePosition, Escape, journal
    <3>3. CASE HaltPosition
      BY <3>3, <1>1 DEF HaltPosition, Escape, journal
    <3> QED
      BY <2>1, <3>1, <3>2, <3>3
  <2> QED
    BY <1>2, <2>1, Touched
<1>6. signed' \in [Positions -> {None} \union Losses]
  BY <1>1, <1>2, Touched DEF Sign
<1>7. prepared' \in [Positions -> {None} \union Losses]
  <2>1. ASSUME Preflight, prepared' # prepared
        PROVE  \E loss \in {None} \union Losses :
                 prepared' = [prepared EXCEPT ![me] = loss]
    BY <2>1, <1>1, <1>2 DEF Preflight, ModeOK, AtPosition
  <2> QED
    BY <1>2, <2>1, Touched
<1>8. accounted' \in [Positions -> {None} \union Losses]
  <2>1. ASSUME Account
        PROVE  accounted' \in {accounted, [accounted EXCEPT ![me] = signed[me]]}
               /\ me \in Positions
    BY <2>1, <1>1 DEF Account, ModeOK, AtPosition
  <2> QED
    BY <1>2, <2>1, Touched
<1>9. \A i \in Positions : accounted'[i] \in {None, signed'[i]}
  <2>1. ASSUME Account, NEW i \in Positions PROVE accounted'[i] \in {None, signed'[i]}
    <3>1. accounted[i] \in {None, signed[i]}
      BY DEF TypeInv, TypeOK
    <3> QED
      BY <2>1, <3>1, <1>2 DEF Account
  <2>2. ASSUME Sign, NEW i \in Positions PROVE accounted'[i] \in {None, signed'[i]}
    <3>1. accounted[i] \in {None, signed[i]}
      BY DEF TypeInv, TypeOK
    <3>2. i = me => accounted[i] = None
      BY <2>2, <3>1 DEF Sign, StepOK
    <3> QED
      BY <2>2, <3>1, <3>2, <1>2 DEF Sign
  <2> QED
    BY <2>1, <2>2, Touched DEF TypeInv, TypeOK
<1>10. realized' \in Nat
  <2>1. realized \in Nat
    BY DEF TypeInv, TypeOK
  <2>2. ASSUME Account PROVE realized' \in {realized, realized + signed[me]} /\ me \in Positions
    BY <2>2, <1>1 DEF Account, ModeOK, AtPosition
  <2>3. ASSUME AddRealized PROVE realized' \in {realized, run.sum + run.loss}
    BY <2>3 DEF AddRealized
  <2>4. \A i \in Positions : signed[i] \in Nat
    BY <1>2, Numbers
  <2>5. run.sum + run.loss \in Nat
    BY <1>1, RunNumbers
  <2> QED
    BY <2>1, <2>2, <2>3, <2>4, <2>5, Touched
<1>11. credit' \in [Positions -> {"none", "credited", "rejected"}]
  BY Touched DEF Settle, TypeInv, TypeOK
<1>12. crashes' \in 0 .. MaxCrashes
  BY Touched, GroupAssumption DEF Crash, TypeInv, TypeOK
<1>13. pc' \in Points
  <2> USE DEF Points, WriteThen, Review, Leave, Escape, Yield, Failure
  <2>1. pc \in Points
    BY DEF TypeInv, TypeOK
  <2>2. CASE \/ BeginRun \/ NextEntry \/ EntryYields \/ Preflight
             \/ PreflightFails \/ PreflightDefersGas \/ PreflightYields \/ Mark
             \/ Sign \/ SignDefersGas
    BY <2>1, <2>2 DEF BeginRun, NextEntry, EntryYields, Preflight, PreflightFails,
       PreflightDefersGas, PreflightYields, Mark, Sign, SignDefersGas
  <2>3. CASE \/ StepYields \/ StepFails \/ DependentLegTooDear \/ StillPending
             \/ Credited \/ NotSettled \/ Account \/ AddRealized
    BY <2>1, <2>3 DEF StepYields, StepFails, DependentLegTooDear, StillPending,
       Credited, NotSettled, Account, AddRealized
  <2>4. CASE \/ WritePosition \/ StopRun \/ HaltPosition \/ HaltGroup
             \/ CloseGroup
    BY <2>1, <2>4 DEF WritePosition, StopRun, HaltPosition, HaltGroup, CloseGroup,
       Advances
  <2>5. CASE \/ BeginHalted \/ ObserveHalted \/ SkipHalted \/ EndHalted \/ Settle
             \/ Crash \/ UNCHANGED vars
    BY <2>1, <2>5 DEF vars, BeginHalted, ObserveHalted, SkipHalted, EndHalted,
       Settle, Crash
  <2> QED
    BY <2>2, <2>3, <2>4, <2>5 DEF Next, Executor
<1> QED
  BY <1>3, <1>4, <1>5, <1>6, <1>7, <1>8, <1>9, <1>10, <1>11, <1>12, <1>13
     DEF TypeInv, TypeOK

\* What a step leaves of the record of the run, field by field.
Keeps(at, sum, loss, write, after) ==
  /\ run'.at = at /\ run'.sum = sum /\ run'.loss = loss
  /\ run'.write = write /\ run'.after = after

LEMMA RunFields ==
  ASSUME run \in Runs
  PROVE  /\ run' = run => Keeps(me, run.sum, run.loss, run.write, run.after)
         /\ run' = Idle => Keeps(1, 0, 0, "planned", "next")
         /\ \A state, after : run' = [run EXCEPT !.write = state, !.after = after]
              => Keeps(me, run.sum, run.loss, state, after)
         /\ \A at : run' = [run EXCEPT !.at = at]
              => Keeps(at, run.sum, run.loss, run.write, run.after)
         /\ \A sum : run' = [run EXCEPT !.sum = sum]
              => Keeps(me, sum, run.loss, run.write, run.after)
         /\ \A loss : run' = [run EXCEPT !.loss = loss]
              => Keeps(me, run.sum, loss, run.write, run.after)
         /\ \A at, state : run' = [run EXCEPT !.at = at, !.write = state]
              => Keeps(at, run.sum, run.loss, state, run.after)
<1> USE DEF Runs, Keeps, me
<1>1. run' = Idle => Keeps(1, 0, 0, "planned", "next")
  BY DEF Idle, None
<1>2. ASSUME NEW state, NEW after,
             run' = [run EXCEPT !.write = state, !.after = after]
      PROVE  Keeps(me, run.sum, run.loss, state, after)
  BY <1>2
<1>3. ASSUME NEW at, run' = [run EXCEPT !.at = at]
      PROVE  Keeps(at, run.sum, run.loss, run.write, run.after)
  BY <1>3
<1>4. ASSUME NEW sum, run' = [run EXCEPT !.sum = sum]
      PROVE  Keeps(me, sum, run.loss, run.write, run.after)
  BY <1>4
<1>5. ASSUME NEW loss, run' = [run EXCEPT !.loss = loss]
      PROVE  Keeps(me, run.sum, loss, run.write, run.after)
  BY <1>5
<1>6. ASSUME NEW at, NEW state, run' = [run EXCEPT !.at = at, !.write = state]
      PROVE  Keeps(at, run.sum, run.loss, state, run.after)
  BY <1>6
<1>7. run' = run => Keeps(me, run.sum, run.loss, run.write, run.after)
  OBVIOUS
<1> HIDE DEF Keeps, me
<1> QED
  BY <1>1, <1>2, <1>3, <1>4, <1>5, <1>6, <1>7, Zenon

LEMMA WriteKeeps ==
  ASSUME run \in Runs
  PROVE  \A p, state, after : WriteThen(p, state, after) =>
           pc' = p /\ Keeps(me, run.sum, run.loss, state, after)
  BY RunFields DEF WriteThen

\* The run stays in its place: what it may do, and what it must not.
LEMMA ModeStep ==
  ASSUME TypeInv, ModeOK, [Next]_vars PROVE ModeOK'
<1>1. /\ run \in Runs /\ me \in Nat /\ N \in Nat /\ me <= N + 1
      /\ run.sum \in Nat /\ realized \in Nat
  <2>1. run \in Runs /\ realized \in Nat
    BY DEF TypeInv, TypeOK
  <2>2. me \in 1 .. N + 1 /\ N \in Nat /\ run.sum \in Nat
    BY <2>1, RunNumbers, RunUpdates
  <2> QED
    BY <2>1, <2>2
<1>2. ASSUME Leave PROVE ModeOK'
  BY <1>2 DEF Leave, ModeOK, Idle, AtPosition, Running
<1>3. ASSUME NEW state, NEW after, Keeps(me, run.sum, run.loss, state, after),
             after # "halted", pc' \in {"write", "halt", "account", "add"},
             pc \in AtPosition \ {"account", "write"}, UNCHANGED <<group, realized>>
      PROVE  ModeOK'
  BY <1>1, <1>3 DEF ModeOK, AtPosition, Running, Keeps, me
<1>4. \A p, state, after : WriteThen(p, state, after) =>
         pc' = p /\ Keeps(me, run.sum, run.loss, state, after)
  BY <1>1, WriteKeeps
<1>5. CASE \/ PreflightFails \/ PreflightDefersGas \/ SignDefersGas
           \/ StepFails \/ DependentLegTooDear \/ NotSettled
           \/ StillPending \/ Credited
  <2>1. \E p \in {"write", "halt", "account", "add"},
           after \in {"halt", "gas", "pending", "next"} :
             \E state : WriteThen(p, state, after)
    BY <1>5 DEF PreflightFails, PreflightDefersGas, SignDefersGas,
       StepFails, DependentLegTooDear, NotSettled, StillPending, Credited,
       Failure, Review
  <2>2. pc \in AtPosition \ {"account", "write"} /\ UNCHANGED <<group, realized>>
    BY <1>5 DEF PreflightFails, PreflightDefersGas, SignDefersGas,
       StepFails, DependentLegTooDear, NotSettled, StillPending, Credited,
       AtPosition, journal
  <2> QED
    BY <1>3, <1>4, <2>1, <2>2
<1>6. CASE \/ EntryYields \/ PreflightYields \/ StepYields \/ StopRun \/ HaltGroup
           \/ CloseGroup \/ EndHalted \/ Crash
  <2>1. Leave
    BY <1>6 DEF EntryYields, PreflightYields, StepYields, StopRun, HaltGroup,
       CloseGroup, EndHalted, Crash, Yield, Escape
  <2> QED
    BY <1>2, <2>1
<1>7. CASE BeginRun
  <2>1. Keeps(me, realized, run.loss, run.write, run.after) /\ run = Idle
    BY <1>1, <1>7, RunFields DEF BeginRun, ModeOK
  <2> QED
    BY <1>1, <1>7, <2>1 DEF BeginRun, ModeOK, AtPosition, Running, Keeps, me, Idle
<1>8. CASE NextEntry \/ SkipHalted
  <2>1. \/ /\ run' = run /\ pc = "entry"
           /\ pc' = IF me > N THEN "close"
                    ELSE IF Observes THEN "observe" ELSE "preflight"
        \/ run' = [run EXCEPT !.at = me + 1] /\ me <= N /\ pc' = pc
    BY <1>1, <1>8 DEF NextEntry, SkipHalted
  <2>2. \/ /\ Keeps(me, run.sum, run.loss, run.write, run.after) /\ pc = "entry"
           /\ pc' = IF me > N THEN "close"
                    ELSE IF Observes THEN "observe" ELSE "preflight"
        \/ /\ Keeps(me + 1, run.sum, run.loss, run.write, run.after)
           /\ me <= N /\ pc' = pc
    BY <1>1, <2>1, RunFields
  <2>3. UNCHANGED <<group, realized>> /\ pc \in {"entry", "halted"}
    BY <1>8 DEF NextEntry, SkipHalted, journal
  <2> QED
    BY <1>1, <2>2, <2>3 DEF ModeOK, AtPosition, Running, Keeps, me
<1>9. CASE Preflight
  <2>1. \/ pc' = "mark"
           /\ \E loss : Keeps(me, run.sum, loss, run.write, run.after)
        \/ \E state : WriteThen("halt", state, "halt")
    BY <1>1, <1>9, RunFields DEF Preflight
  <2>2. UNCHANGED <<group, realized>> /\ pc = "preflight"
    BY <1>9 DEF Preflight
  <2>3. CASE pc' = "mark" /\ \E loss : Keeps(me, run.sum, loss, run.write, run.after)
    BY <1>1, <2>2, <2>3 DEF ModeOK, AtPosition, Running, Keeps, me
  <2> QED
    BY <1>3, <1>4, <2>1, <2>2, <2>3 DEF AtPosition
<1>10. CASE Mark
  <2>1. UNCHANGED <<group, realized>> /\ pc = "mark"
    BY <1>10 DEF Mark
  <2>2. \/ pc' \in {"sign", "outcome"} /\ run' = run
        \/ \E state, after : WriteThen("write", state, after) /\ after # "halted"
    BY <1>10 DEF Mark, Failure, Review
  <2>3. CASE pc' \in {"sign", "outcome"} /\ run' = run
    BY <2>1, <2>3 DEF ModeOK, AtPosition, Running, me
  <2> QED
    BY <1>3, <1>4, <2>1, <2>2, <2>3 DEF AtPosition
<1>11. CASE Sign \/ Settle \/ UNCHANGED vars
  BY <1>11 DEF Sign, Settle, vars, journal, ModeOK, AtPosition, Running, me
<1>12. CASE Account
  <2>1. /\ Keeps(me, realized', run.loss, run.write, run.after)
        /\ UNCHANGED group /\ pc = "account" /\ pc' = "write"
    BY <1>1, <1>12, RunFields DEF Account
  <2> QED
    BY <2>1 DEF ModeOK, AtPosition, Running, Keeps, me
<1>13. CASE AddRealized
  <2>1. UNCHANGED group /\ pc = "add"
    BY <1>13 DEF AddRealized
  <2>2. \/ /\ pc' = "write"
           /\ Keeps(me, realized', run.loss, run.write, run.after)
        \/ \E state, after : /\ WriteThen("write", state, after)
                             /\ after # "halted" /\ UNCHANGED realized
    BY <1>1, <1>13, RunFields DEF AddRealized, Failure, Review
  <2>3. CASE pc' = "write" /\ Keeps(me, realized', run.loss, run.write, run.after)
    BY <1>1, <2>1, <2>3 DEF ModeOK, AtPosition, Running, Keeps, me
  <2> QED
    BY <1>3, <1>4, <2>1, <2>2, <2>3 DEF AtPosition
<1>14. CASE WritePosition
  <2>1. \/ Leave
        \/ /\ Keeps(me + 1, run.sum, run.loss, "manual_review_group_halted",
                    run.after)
           /\ pc' = IF run.after = "next" THEN "entry"
                    ELSE IF run.after \in {"halt", "halted"} THEN run.after
                    ELSE "stop"
    BY <1>1, <1>14, RunFields DEF WritePosition, Escape, Advances
  <2>2. UNCHANGED <<group, realized>> /\ pc = "write"
    BY <1>14 DEF WritePosition, Escape, journal
  <2> QED
    BY <1>1, <1>2, <2>1, <2>2 DEF ModeOK, AtPosition, Running, Keeps, me
<1>15. CASE HaltPosition
  <2>1. \/ Leave
        \/ Keeps(me + 1, run.sum, run.loss, run.write, run.after) /\ pc' = "halt"
    BY <1>1, <1>15, RunFields DEF HaltPosition, Escape
  <2>2. UNCHANGED <<group, realized>> /\ pc = "halt"
    BY <1>15 DEF HaltPosition, Escape, journal
  <2> QED
    BY <1>1, <1>2, <2>1, <2>2 DEF ModeOK, AtPosition, Running, Keeps, me
<1>16. CASE BeginHalted
  BY <1>16 DEF BeginHalted, journal, ModeOK, AtPosition, Running, Idle, me
<1>17. CASE ObserveHalted
  <2>1. \E p \in {"account", "write"} : \E state : WriteThen(p, state, "halted")
    BY <1>17 DEF ObserveHalted
  <2>2. UNCHANGED <<group, realized>> /\ pc = "halted" /\ me <= N
    BY <1>17 DEF ObserveHalted, journal
  <2> QED
    BY <1>4, <2>1, <2>2 DEF ModeOK, AtPosition, Running, Keeps, me
<1> QED
  BY <1>5, <1>6, <1>7, <1>8, <1>9, <1>10, <1>11, <1>12, <1>13, <1>14, <1>15,
     <1>16, <1>17 DEF Next, Executor

\* A step touches only the position the run is at.
LEMMA Others ==
  ASSUME TypeInv, [Next]_vars, NEW i \in Positions, i # me
  PROVE  /\ pos'[i] = pos[i] /\ accounted'[i] = accounted[i]
         /\ signed'[i] = signed[i] /\ prepared'[i] = prepared[i]
<1>1. /\ pos \in [Positions -> PositionStates]
      /\ accounted \in [Positions -> {None} \union Losses]
      /\ signed \in [Positions -> {None} \union Losses]
      /\ prepared \in [Positions -> {None} \union Losses]
  BY DEF TypeInv, TypeOK
<1>2. pos'[i] = pos[i]
  BY <1>1, Touched DEF Mark, WritePosition, HaltPosition, Escape, journal
<1>3. accounted'[i] = accounted[i]
  BY <1>1, Touched DEF Account
<1>4. signed'[i] = signed[i]
  BY <1>1, Touched DEF Sign
<1>5. prepared'[i] = prepared[i]
  BY <1>1, Touched DEF Preflight
<1> QED
  BY <1>2, <1>3, <1>4, <1>5

\* A run goes past a position only when its loss is counted.
LEMMA ProgressStep ==
  ASSUME TypeInv, ModeOK, ProgressOK, WriteOK, [Next]_vars PROVE ProgressOK'
<1>1. /\ run \in Runs /\ me \in Nat /\ N \in Nat /\ Positions \subseteq Nat
      /\ me <= N => me \in Positions
      /\ pos \in [Positions -> PositionStates]
      /\ accounted \in [Positions -> {None} \union Losses]
  <2>1. run \in Runs
    BY DEF TypeInv, TypeOK
  <2> QED
    BY <2>1, RunNumbers DEF Positions, TypeInv, TypeOK
<1>2. \A i \in Positions : i # me =>
        pos'[i] = pos[i] /\ accounted'[i] = accounted[i]
  BY Others
<1>3. \A p, state, after : WriteThen(p, state, after) =>
         pc' = p /\ Keeps(me, run.sum, run.loss, state, after)
  BY <1>1, WriteKeeps
<1>4. ASSUME Leave PROVE ProgressOK'
  BY <1>4 DEF Leave, ProgressOK, Running
<1>5. ASSUME run'.at = me, Running, pc \notin {"halt", "stop"},
             pc' = "halt" => run'.write \in Halts
      PROVE  ProgressOK'
  <2>1. \A i \in Positions : i < me => Passed(i)
    BY <1>5 DEF ProgressOK
  <2>2. \A i \in Positions : i < me => Passed(i)'
    BY <1>1, <1>2, <2>1 DEF Passed
  <2>3. \A i \in Positions : i < me =>
           pos'[i] \in SettledPositions \union {"deposit_pending"}
    BY <2>2 DEF Passed, SettledPositions
  <2> QED
    BY <1>5, <2>2, <2>3 DEF ProgressOK, me
<1>6. ASSUME run'.after = "halted" \/ pc' = "halted", pc' # "halt" PROVE ProgressOK'
  BY <1>6 DEF ProgressOK, Running
<1>7. CASE \/ PreflightFails \/ PreflightDefersGas \/ SignDefersGas
           \/ StepFails \/ NotSettled
           \/ StillPending \/ Credited
  <2>1. \E p \in {"write", "account", "add"} : \E state, after :
             WriteThen(p, state, after)
    BY <1>7 DEF PreflightFails, PreflightDefersGas, SignDefersGas,
       StepFails, NotSettled, StillPending, Credited, Failure, Review
  <2>2. pc \in AtPosition \ {"account", "write"}
    BY <1>7 DEF PreflightFails, PreflightDefersGas, SignDefersGas,
       StepFails, NotSettled, StillPending, Credited, AtPosition
  <2>3. Running /\ pc \notin {"halt", "stop"}
    BY <2>2 DEF Running, ModeOK, AtPosition
  <2> QED
    BY <1>3, <1>5, <2>1, <2>3 DEF Keeps
<1>8. CASE \/ EntryYields \/ PreflightYields \/ StepYields \/ StopRun \/ HaltGroup
           \/ CloseGroup \/ EndHalted \/ Crash
  BY <1>4, <1>8 DEF EntryYields, PreflightYields, StepYields, StopRun, HaltGroup,
     CloseGroup, EndHalted, Crash, Yield, Escape
<1>9. CASE BeginRun
  <2>1. run = Idle /\ run' = [run EXCEPT !.sum = realized] /\ pc' = "entry"
    BY <1>9 DEF BeginRun, ModeOK
  <2>2. run'.at = 1 /\ pc' = "entry"
    BY <1>1, <2>1, RunFields DEF Idle, Keeps, me
  <2>3. \A i \in Positions : ~(i < run'.at)
    BY <2>2 DEF Positions
  <2> QED
    BY <2>3, <2>2 DEF ProgressOK, me
<1>10. CASE NextEntry
  <2>1. Running /\ pc \notin {"halt", "stop"} /\ UNCHANGED <<pos, accounted>>
    BY <1>10 DEF NextEntry, Running, ModeOK, journal
  <2>2. \/ run' = run /\ pc' # "halt"
        \/ run' = [run EXCEPT !.at = me + 1] /\ me <= N /\ pos[me] = "completed"
           /\ pc' = "entry"
    BY <1>1, <1>10 DEF NextEntry
  <2>3. CASE run' = run /\ pc' # "halt"
    BY <1>5, <2>1, <2>3 DEF me
  <2>4. CASE /\ run' = [run EXCEPT !.at = me + 1] /\ me <= N
             /\ pos[me] = "completed" /\ pc' = "entry"
    <3>1. run'.at = me + 1
      BY <1>1, <2>4, RunFields DEF Keeps
    <3>2. \A i \in Positions : i < me => Passed(i)
      BY <2>1 DEF ProgressOK
    <3>3. \A i \in Positions : i < me + 1 => Passed(i)
      BY <1>1, <2>4, <3>2 DEF Passed
    <3>4. \A i \in Positions : i < me + 1 => Passed(i)'
      BY <2>1, <3>3 DEF Passed
    <3> QED
      BY <2>4, <3>1, <3>4 DEF ProgressOK, me
  <2> QED
    BY <2>2, <2>3, <2>4
<1>11. CASE Preflight \/ DependentLegTooDear \/ Mark
  <2>1. Running /\ pc \notin {"halt", "stop"}
    BY <1>11 DEF Preflight, DependentLegTooDear, Mark, Running, ModeOK
  <2>2. \/ pc' # "halt" /\ run' = run
        \/ pc' # "halt" /\ \E loss : run' = [run EXCEPT !.loss = loss]
        \/ \E state, after : WriteThen("write", state, after)
        \/ \E state \in Halts : WriteThen("halt", state, "halt")
    BY <1>11, StateNames DEF Preflight, DependentLegTooDear, Mark, Failure, Review
  <2>3. /\ pc' = "halt" => run'.write \in Halts
        /\ run'.at = me
    BY <1>1, <1>3, <2>2, RunFields DEF Keeps
  <2> QED
    BY <1>5, <2>1, <2>3
<1>12. CASE Sign
  <2>1. run' = run /\ pc = "sign" /\ pc' = "outcome"
    BY <1>12 DEF Sign
  <2> QED
    BY <1>5, <2>1 DEF Running, ModeOK, me
<1>13. CASE Settle \/ UNCHANGED vars
  <2>1. run' = run /\ pos' = pos /\ accounted' = accounted /\ pc' = pc
    BY <1>13 DEF Settle, vars, journal
  <2> QED
    BY <2>1 DEF ProgressOK, Running, Passed, me
<1>14. CASE Account \/ AddRealized
  <2>1. /\ pc' = "write" /\ pc \in {"account", "add"}
        /\ run'.at = me
        /\ pc = "account" => run'.after = run.after
    BY <1>1, <1>14, <1>3, RunFields DEF Account, AddRealized, Keeps, Failure, Review
  <2>2. CASE Running
    BY <1>5, <2>1, <2>2
  <2>3. CASE ~Running
    <3>1. run'.after = "halted"
      BY <2>1, <2>3 DEF Running, ModeOK
    <3> QED
      BY <1>6, <2>1, <3>1
  <2> QED
    BY <2>2, <2>3
<1>15. CASE BeginHalted \/ ObserveHalted \/ SkipHalted
  <2>1. \/ pc' = "halted"
        \/ \E p \in {"account", "write"} : \E state : WriteThen(p, state, "halted")
    BY <1>15 DEF BeginHalted, ObserveHalted, SkipHalted
  <2> QED
    BY <1>3, <1>6, <2>1 DEF Keeps
<1>16. CASE WritePosition
  <2>1. CASE Leave
    BY <1>4, <2>1
  <2>2. CASE ~Leave
    <3>1. /\ pc = "write" /\ me <= N /\ me \in Positions
          /\ UNCHANGED accounted
          /\ pos' = [pos EXCEPT ![me] = run.write]
          /\ run' = [run EXCEPT !.at = me + 1,
                                !.write = "manual_review_group_halted"]
          /\ pc' = IF run.after = "next" THEN "entry"
                   ELSE IF run.after \in {"halt", "halted"} THEN run.after
                   ELSE "stop"
      BY <1>1, <1>16, <2>2 DEF WritePosition, Escape, Advances, ModeOK, AtPosition
    <3>2. /\ run'.at = me + 1 /\ run'.write = "manual_review_group_halted"
          /\ run'.after = run.after
      BY <1>1, <3>1, RunFields DEF Keeps
    <3>3. pos'[me] = run.write /\ accounted'[me] = accounted[me]
      BY <1>1, <3>1
    <3>4. CASE run.after \in {"next", "halt"}
      <4>1. Running /\ pc \notin {"halt", "stop"}
        BY <3>1, <3>4 DEF Running
      <4>2. \A i \in Positions : i < me => Passed(i)
        BY <4>1 DEF ProgressOK
      <4>3. \A i \in Positions : i < me => Passed(i)'
        BY <1>1, <1>2, <4>2 DEF Passed
      <4>4. CASE run.after = "next"
        <5>1. \/ pos'[me] = "completed"
              \/ pos'[me] = "deposit_pending" /\ accounted'[me] # None
          BY <3>1, <3>3, <4>4 DEF WriteOK
        <5>2. \A i \in Positions : i < me + 1 => Passed(i)'
          BY <1>1, <3>1, <4>3, <5>1 DEF Passed
        <5> QED
          BY <3>1, <3>2, <4>4, <5>2 DEF ProgressOK, me
      <4>5. CASE run.after = "halt"
        <5>1. pos'[me] \in SettledPositions
          BY <3>1, <3>3, <4>5 DEF WriteOK, SettledPositions
        <5>2. \A i \in Positions : i < me + 1 =>
                 pos'[i] \in SettledPositions \union {"deposit_pending"}
          BY <1>1, <3>1, <4>3, <5>1 DEF Passed, SettledPositions
        <5>3. pc' = "halt" /\ run'.write \in Halts
          BY <3>1, <3>2, <4>5, StateNames
        <5> QED
          BY <3>2, <5>2, <5>3 DEF ProgressOK, Running, me
      <4> QED
        BY <3>4, <4>4, <4>5
    <3>5. CASE run.after = "halted"
      BY <1>6, <3>1, <3>2, <3>5
    <3>6. CASE run.after \notin {"next", "halt", "halted"}
      BY <3>1, <3>6 DEF ProgressOK
    <3> QED
      BY <3>4, <3>5, <3>6
  <2> QED
    BY <2>1, <2>2
<1>17. CASE HaltPosition
  <2>1. CASE Leave
    BY <1>4, <2>1
  <2>2. CASE ~Leave
    <3>1. /\ pc = "halt" /\ pc' = "halt" /\ me \in Positions
          /\ pos' = IF pos[me] \in SettledPositions THEN pos
                    ELSE [pos EXCEPT ![me] = run.write]
          /\ run' = [run EXCEPT !.at = me + 1]
      BY <1>1, <1>17, <2>2 DEF HaltPosition, Escape
    <3>2. /\ run.write \in Halts
          /\ \A i \in Positions : i < me =>
               pos[i] \in SettledPositions \union {"deposit_pending"}
      BY <3>1 DEF ProgressOK
    <3>3. run'.at = me + 1 /\ run'.write = run.write
      BY <1>1, <3>1, RunFields DEF Keeps
    <3>4. pos'[me] \in SettledPositions
      BY <1>1, <3>1, <3>2 DEF SettledPositions
    <3>5. \A i \in Positions : i < me + 1 =>
             pos'[i] \in SettledPositions \union {"deposit_pending"}
      BY <1>1, <1>2, <3>1, <3>2, <3>4
    <3> QED
      BY <3>1, <3>2, <3>3, <3>5 DEF ProgressOK, me
  <2> QED
    BY <2>1, <2>2
<1> QED
  BY <1>7, <1>8, <1>9, <1>10, <1>11, <1>12, <1>13, <1>14, <1>15, <1>16, <1>17
     DEF Next, Executor

\* Nothing follows a state that needs a review.
LEMMA ReviewIsFinal ==
  ASSUME NEW s \in ReviewStates, NEW t, PositionMayBecome(s, t) PROVE t = s
<1>1. s \in PositionStates /\ PositionTransitions[s] = {}
  BY DEF ReviewStates, Halts, PositionStates, PositionTransitions
<1> QED
  BY <1>1 DEF PositionMayBecome

LEMMA ReviewStays ==
  ASSUME TypeInv, ModeOK, [Next]_vars, NEW i \in Positions, pos[i] \in ReviewStates
  PROVE  pos'[i] = pos[i]
<1>1. pos \in [Positions -> PositionStates]
  BY DEF TypeInv, TypeOK
<1>2. CASE i # me
  BY <1>2, Others
<1>3. CASE i = me
  <2>1. CASE Mark
    <3>1. {"direct_deposit_submitted", "bridge_submitted"} \intersect ReviewStates = {}
      BY DEF ReviewStates, Halts
    <3>2. \A state \in {"direct_deposit_submitted", "bridge_submitted"} :
             ~ PositionMayBecome(pos[me], state)
      BY <1>3, <3>1, ReviewIsFinal
    <3> QED
      BY <2>1, <3>2 DEF Mark
  <2>2. CASE WritePosition
    <3>1. PositionMayBecome(pos[me], run.write) => run.write = pos[me]
      BY <1>3, ReviewIsFinal
    <3> QED
      BY <1>1, <1>3, <2>2, <3>1 DEF WritePosition, Escape, journal
  <2>3. CASE HaltPosition
    <3>1. pos[me] \in SettledPositions
      BY <1>3 DEF ReviewStates, SettledPositions
    <3> QED
      BY <2>3, <3>1 DEF HaltPosition, Escape, journal
  <2> QED
    BY <2>1, <2>2, <2>3, Touched
<1> QED
  BY <1>2, <1>3

\* What was signed stays signed, at the same loss.
LEMMA SignedStays ==
  ASSUME TypeInv, StepOK, [Next]_vars, NEW i \in Positions, signed[i] # None
  PROVE  signed'[i] = signed[i]
<1>1. signed \in [Positions -> {None} \union Losses]
  BY DEF TypeInv, TypeOK
<1>2. CASE Sign
  <2>1. i # me
    BY <1>2 DEF Sign, StepOK
  <2> QED
    BY <2>1, Others
<1> QED
  BY <1>2, Touched

\* Positions are signed, and reviewed, in their order.
LEMMA OrderStep ==
  ASSUME TypeInv, ModeOK, ProgressOK, OrderOK, StepOK, WriteOK, [Next]_vars
  PROVE  OrderOK'
<1>1. /\ run \in Runs /\ me \in Nat /\ N \in Nat /\ Positions \subseteq Nat
      /\ me <= N => me \in Positions
      /\ pos \in [Positions -> PositionStates]
      /\ signed \in [Positions -> {None} \union Losses]
      /\ prepared \in [Positions -> {None} \union Losses]
      /\ credit \in [Positions -> {"none", "credited", "rejected"}]
  <2>1. run \in Runs
    BY DEF TypeInv, TypeOK
  <2> QED
    BY <2>1, RunNumbers DEF Positions, TypeInv, TypeOK
<1>2. \A i \in Positions : signed[i] # None => signed'[i] = signed[i]
  BY SignedStays
<1>3. ASSUME NEW i \in Positions, pos'[i] \in {"completed", "deposit_pending"}
      PROVE  signed'[i] # None
  <2>1. CASE pos'[i] = pos[i]
    BY <1>2, <1>3, <2>1 DEF OrderOK
  <2>2. CASE i = me /\ WritePosition /\ pos' # pos
    <3>1. pc = "write" /\ pos'[me] = run.write
      BY <1>1, <2>2 DEF WritePosition, Escape, journal
    <3> QED
      BY <1>2, <1>3, <2>2, <3>1 DEF WriteOK
  <2>3. CASE i = me /\ pos' # pos /\ Mark
    <3>1. pos'[me] \in {"direct_deposit_submitted", "bridge_submitted"}
      BY <1>1, <2>3 DEF Mark
    <3> QED
      BY <1>3, <2>3, <3>1
  <2>4. CASE i = me /\ pos'[i] # pos[i] /\ HaltPosition
    <3>1. pc = "halt" /\ pos'[me] = run.write
      BY <1>1, <2>4 DEF HaltPosition, Escape, journal
    <3>2. run.write \in Halts
      BY <3>1 DEF ProgressOK
    <3> QED
      BY <1>3, <2>4, <3>1, <3>2 DEF Halts
  <2> QED
    BY <2>1, <2>2, <2>3, <2>4, Others, Touched
<1>4. ASSUME NEW i \in Positions, signed'[i] # None
      PROVE  prepared'[i] = signed'[i]
  <2>1. CASE Sign
    BY <1>1, <1>4, <2>1 DEF Sign, OrderOK, StepOK
  <2>2. CASE Preflight
    BY <1>1, <1>4, <2>2 DEF Preflight, OrderOK
  <2> QED
    BY <1>4, <2>1, <2>2, Touched DEF OrderOK
<1>5. ASSUME NEW i \in Positions, credit'[i] # "none" PROVE signed'[i] # None
  BY <1>1, <1>2, <1>5, Touched DEF Settle, OrderOK
<1>6. ASSUME Running, pc \notin {"halt", "stop"}, NEW i \in Positions, i < me
      PROVE  signed[i] # None
  BY <1>6 DEF ProgressOK, OrderOK, Passed
<1>7. ASSUME NEW i \in Positions, NEW j \in Positions, i < j, signed'[j] # None
      PROVE  signed'[i] # None
  <2>1. CASE signed'[j] = signed[j]
    BY <1>2, <1>7, <2>1 DEF OrderOK
  <2>2. CASE signed'[j] # signed[j]
    <3>1. Sign /\ j = me
      BY <1>1, <2>2, Touched DEF Sign
    <3>2. Running /\ pc \notin {"halt", "stop"}
      BY <3>1 DEF Sign, Running, ModeOK
    <3> QED
      BY <1>2, <1>6, <1>7, <3>1, <3>2
  <2> QED
    BY <2>1, <2>2
<1>8. ASSUME NEW i \in Positions, NEW j \in Positions, i < j,
             pos'[j] \in ReviewStates
      PROVE  signed'[i] # None \/ pos'[i] \in ReviewStates
  <2>1. CASE pos'[j] = pos[j]
    BY <1>2, <1>8, <2>1, ReviewStays DEF OrderOK
  <2>2. CASE pos'[j] # pos[j]
    <3>1. j = me /\ i # me /\ pos'[i] = pos[i]
      BY <1>1, <1>8, <2>2, Others
    <3>2. CASE Mark
      <4>1. pos'[me] \in {"direct_deposit_submitted", "bridge_submitted"}
        BY <1>1, <2>2, <3>1, <3>2 DEF Mark
      <4> QED
        BY <1>8, <3>1, <4>1 DEF ReviewStates, Halts
    <3>3. CASE WritePosition
      <4>1. pc = "write" /\ pos'[me] = run.write
        BY <1>1, <2>2, <3>1, <3>3 DEF WritePosition, Escape, journal
      <4>2. CASE Running
        BY <1>2, <1>6, <1>8, <3>1, <4>1, <4>2
      <4>3. CASE run.after = "halted"
        <5>1. signed[me] # None
          BY <4>1, <4>3 DEF WriteOK
        <5>2. signed[i] # None
          BY <1>8, <3>1, <5>1 DEF OrderOK
        <5> QED
          BY <1>2, <5>2
      <4> QED
        BY <4>1, <4>2, <4>3 DEF Running
    <3>4. CASE HaltPosition
      <4>1. pc = "halt"
        BY <3>4 DEF HaltPosition
      <4>2. pos[i] \in SettledPositions \union {"deposit_pending"}
        BY <1>8, <3>1, <4>1 DEF ProgressOK
      <4>3. pos[i] \in ReviewStates \union {"completed", "deposit_pending"}
        BY <4>2 DEF SettledPositions, ReviewStates
      <4> QED
        BY <1>2, <3>1, <4>3 DEF OrderOK
    <3> QED
      BY <2>2, <3>2, <3>3, <3>4, Touched
  <2> QED
    BY <2>1, <2>2
<1> QED
  BY <1>3, <1>4, <1>5, <1>7, <1>8 DEF OrderOK

LEMMA PositionsFinite == IsFiniteSet(Positions)
<1>1. 1 \in Int /\ N \in Int
  BY Numbers
<1> QED
  BY <1>1, FS_Interval, Zenon DEF Positions

\* What later positions are expected to lose is never negative.
LEMMA FutureNat == ASSUME TypeInv PROVE Future \in Nat
<1> DEFINE later == {j \in Positions : j > me /\ pos[j] # "completed"}
           left == [j \in Positions |-> Remaining(Planned[j], j)]
<1>1. IsFiniteSet(later)
  BY PositionsFinite, FS_Subset, Zenon
<1>2. \A j \in Positions : accounted[j] \in Nat /\ Planned[j] \in Nat
  BY Numbers DEF TypeInv
<1>3. \A j \in Positions : Remaining(Planned[j], j) \in Nat
  BY <1>2 DEF Remaining
<1>4. \A j \in later : left[j] \in Nat
  BY <1>3
<1> HIDE DEF later, left
<1>5. SumFunctionOnSet(left, later) \in Nat
  BY <1>1, <1>4, SumNat
<1> QED
  BY <1>5 DEF Future, later, left

\* A fresh loss that fits leaves the group within its budget.
LEMMA FitsAlone ==
  ASSUME TypeInv, me \in Positions, signed[me] = None, NEW loss \in Losses,
         Fits(loss)
  PROVE  run.sum + loss <= Budget
<1>1. run.sum \in Nat /\ loss \in Nat /\ loss > 0 /\ Budget \in Nat
  BY GroupAssumption, RunNumbers DEF TypeInv, TypeOK
<1>2. accounted[me] = 0
  BY DEF TypeInv, TypeOK, None
<1>3. Remaining(loss, me) = loss
  BY <1>1, <1>2 DEF Remaining
<1>4. run.sum + loss + Future <= Budget
  BY <1>3 DEF Fits
<1> QED
  BY <1>1, <1>4, FutureNat

\* What the run knows of the position it is at.
LEMMA StepStep ==
  ASSUME TypeInv, ModeOK, OrderOK, StepOK, [Next]_vars PROVE StepOK'
<1>1. /\ run \in Runs /\ me \in Nat /\ N \in Nat
      /\ me <= N => me \in Positions
      /\ pos \in [Positions -> PositionStates]
      /\ signed \in [Positions -> {None} \union Losses]
      /\ prepared \in [Positions -> {None} \union Losses]
  <2>1. run \in Runs
    BY DEF TypeInv, TypeOK
  <2> QED
    BY <2>1, RunNumbers DEF Positions, TypeInv, TypeOK
<1>2. None \notin Losses
  BY GroupAssumption DEF None
<1> DEFINE Told == {"mark", "sign", "observe", "account", "outcome", "add"}
<1>3. ASSUME pc' \notin Told PROVE StepOK'
  BY <1>3 DEF StepOK
<1>4. \A p, state, after : WriteThen(p, state, after) =>
         pc' = p /\ Keeps(me, run.sum, run.loss, state, after)
  BY <1>1, WriteKeeps
<1>5. CASE Preflight
  <2>1. me \in Positions /\ pc = "preflight"
    BY <1>1, <1>5 DEF Preflight, ModeOK, AtPosition
  <2>2. PICK loss \in IF signed[me] # None THEN {prepared[me]} ELSE Losses :
          IF Fits(loss)
            THEN /\ prepared' = [prepared EXCEPT ![me] = loss]
                 /\ pc' = "mark" /\ run' = [run EXCEPT !.loss = loss]
            ELSE WriteThen("halt", "manual_review_group_threshold_exceeded",
                           "halt")
    BY <1>5 DEF Preflight
  <2>3. CASE ~Fits(loss)
    BY <1>3, <1>4, <2>2, <2>3
  <2>4. CASE Fits(loss)
    <3>1. /\ prepared'[me] = loss /\ pc' = "mark" /\ signed' = signed
          /\ Keeps(me, run.sum, loss, run.write, run.after)
      BY <1>1, <1>5, <2>1, <2>2, <2>4, RunFields DEF Preflight
    <3>2. loss # None
      BY <1>2, <2>1, <2>2 DEF OrderOK
    <3>3. signed[me] = None => run.sum + loss <= Budget
      BY <2>1, <2>2, <2>4, FitsAlone
    <3> QED
      BY <3>1, <3>2, <3>3 DEF StepOK, Keeps, me
  <2> QED
    BY <2>3, <2>4
<1>6. CASE Mark
  <2>1. me \in Positions /\ pc = "mark" /\ signed' = signed /\ prepared' = prepared
    BY <1>1, <1>6 DEF Mark, ModeOK, AtPosition
  <2>2. \/ /\ run' = run /\ pc' = IF signed[me] = None THEN "sign" ELSE "outcome"
           /\ pos'[me] \in {"direct_deposit_submitted", "bridge_submitted"}
        \/ \E state, after : WriteThen("write", state, after)
    BY <1>1, <1>6, <2>1 DEF Mark, Failure, Review
  <2>3. CASE pc' \notin Told
    BY <1>3, <2>3
  <2>4. CASE /\ run' = run /\ pc' = IF signed[me] = None THEN "sign" ELSE "outcome"
             /\ pos'[me] \in {"direct_deposit_submitted", "bridge_submitted"}
    BY <2>1, <2>4 DEF StepOK, OrderOK, me
  <2> QED
    BY <1>4, <2>2, <2>3, <2>4
<1>7. CASE Sign
  <2>1. /\ pc = "sign" /\ pc' = "outcome" /\ run' = run
        /\ signed' = [signed EXCEPT ![me] = run.loss] /\ me \in Positions
    BY <1>1, <1>7 DEF Sign, ModeOK, AtPosition
  <2> QED
    BY <1>1, <2>1 DEF StepOK, me
<1>8. CASE NextEntry
  <2>1. \/ pc' \in {"close", "entry", "preflight"}
        \/ pc' = "observe" /\ run' = run /\ me <= N /\ Observes
    BY <1>1, <1>8 DEF NextEntry
  <2>2. signed' = signed
    BY <1>8 DEF NextEntry, journal
  <2>3. CASE pc' = "observe"
    BY <1>1, <2>1, <2>2, <2>3 DEF StepOK, OrderOK, Observes, me
  <2> QED
    BY <1>3, <2>1, <2>3
<1>9. CASE StillPending \/ Credited
  <2>1. /\ signed' = signed /\ pc \in {"outcome", "observe"} /\ signed[me] # None
        /\ pc = "outcome" => signed[me] = run.loss
    BY <1>9 DEF StillPending, Credited, journal, StepOK
  <2>2. \/ \E state \in {"deposit_pending", "completed"} :
             WriteThen("account", state, "next")
        \/ WriteThen("add", "completed", "next") /\ pc = "outcome"
    BY <1>9 DEF StillPending, Credited
  <2>3. /\ run'.at = me /\ run'.after = "next" /\ run'.loss = run.loss
        /\ \/ pc' = "account" /\ run'.write \in {"deposit_pending", "completed"}
           \/ pc' = "add" /\ run'.write = "completed" /\ pc = "outcome"
    BY <1>4, <2>2 DEF Keeps
  <2> QED
    BY <2>1, <2>3 DEF StepOK, me
<1>10. CASE ObserveHalted
  <2>1. /\ signed' = signed /\ signed[me] # None
        /\ \/ WriteThen("account", "completed", "halted")
           \/ WriteThen("write", "manual_review", "halted")
    BY <1>1, <1>10 DEF ObserveHalted, journal, OrderOK
  <2>2. /\ run'.at = me /\ run'.after = "halted"
        /\ \/ pc' = "account" /\ run'.write = "completed"
           \/ pc' = "write"
    BY <1>4, <2>1 DEF Keeps
  <2> QED
    BY <2>1, <2>2 DEF StepOK, me
<1>11. CASE Settle \/ UNCHANGED vars
  BY <1>11 DEF Settle, vars, journal, StepOK, me
<1>12. CASE \/ BeginRun \/ EntryYields \/ PreflightFails
            \/ PreflightDefersGas \/ PreflightYields \/ SignDefersGas
            \/ StepYields \/ StepFails \/ DependentLegTooDear \/ NotSettled
  <2>1. pc' \in {"entry", "idle"} \/ \E p \in {"write", "halt"} :
           \E state, after : WriteThen(p, state, after)
    BY <1>12 DEF BeginRun, EntryYields, PreflightFails, PreflightDefersGas,
       PreflightYields, SignDefersGas, StepYields, StepFails, DependentLegTooDear,
       NotSettled, Yield, Leave, Failure, Review
  <2> QED
    BY <1>3, <1>4, <2>1
<1>13. CASE \/ Account \/ AddRealized \/ WritePosition \/ StopRun \/ HaltPosition
            \/ HaltGroup \/ CloseGroup \/ BeginHalted \/ SkipHalted \/ EndHalted
            \/ Crash
  <2>1. pc' \in {"idle", "write", "entry", "halt", "halted", "stop"}
        \/ \E state, after : WriteThen("write", state, after)
    BY <1>13 DEF Account, AddRealized, WritePosition, StopRun, HaltPosition,
       HaltGroup, CloseGroup, BeginHalted, SkipHalted, EndHalted, Crash, Escape,
       Leave, Failure, Review
  <2> QED
    BY <1>3, <1>4, <2>1
<1> QED
  BY <1>5, <1>6, <1>7, <1>8, <1>9, <1>10, <1>11, <1>12, <1>13 DEF Next, Executor

\* How a run comes to write a position: its loss was counted, or no loss is to
\* be counted with this write.
Plainly(state, after) ==
  /\ run'.at = me /\ run'.write = state /\ run'.after = after
  /\ \/ state = "manual_review" /\ after = "halt"
     \/ state = "gas_deferred" /\ after = "gas"
     \/ state = "manual_review" /\ after = "halted" /\ signed[me] # None
     \/ state = "deposit_pending" /\ after = "pending" /\ signed[me] # None

LEMMA WriteFrom ==
  ASSUME TypeInv, ModeOK, OrderOK, StepOK, [Next]_vars, pc' = "write"
  PROVE  \/ Account
         \/ AddRealized /\ realized' = run.sum + run.loss
         \/ /\ run' = run /\ pc = "write" /\ signed' = signed
            /\ accounted' = accounted /\ pos' = pos /\ realized' = realized
         \/ (\E state, after : Plainly(state, after)) /\ signed' = signed
<1>1. run \in Runs /\ pc \in Points /\ (me <= N => me \in Positions)
  <2>1. run \in Runs /\ pc \in Points
    BY DEF TypeInv, TypeOK
  <2> QED
    BY <2>1, RunNumbers
<1>2. \A p, state, after : WriteThen(p, state, after) =>
         pc' = p /\ Keeps(me, run.sum, run.loss, state, after)
  BY <1>1, WriteKeeps
<1>3. ASSUME NEW state, NEW after, WriteThen("write", state, after),
             \/ state = "manual_review" /\ after = "halt"
             \/ state = "gas_deferred" /\ after = "gas"
             \/ state = "manual_review" /\ after = "halted" /\ signed[me] # None
             \/ state = "deposit_pending" /\ after = "pending" /\ signed[me] # None
      PROVE  Plainly(state, after)
  BY <1>2, <1>3 DEF Plainly, Keeps
<1>4. ASSUME Failure PROVE \E state, after : Plainly(state, after)
  <2>1. \/ WriteThen("write", "deposit_pending", "pending") /\ signed[me] # None
        \/ WriteThen("write", "manual_review", "halt")
    BY <1>4 DEF Failure, Review
  <2> QED
    BY <1>3, <2>1
<1>5. CASE Mark \/ AddRealized
  <2>1. CASE Mark
    <3>1. Failure \/ pc' \in {"sign", "outcome"}
      BY <2>1 DEF Mark
    <3> QED
      BY <1>4, <2>1, <3>1 DEF Mark
  <2>2. CASE AddRealized
    <3>1. \/ Failure /\ signed' = signed
          \/ realized' = run.sum + run.loss
      BY <2>2 DEF AddRealized
    <3> QED
      BY <1>4, <2>2, <3>1
  <2> QED
    BY <1>5, <2>1, <2>2
<1>6. CASE PreflightFails \/ PreflightDefersGas \/ SignDefersGas \/ NotSettled
  <2>1. signed' = signed
    BY <1>6 DEF PreflightFails, PreflightDefersGas, SignDefersGas, NotSettled,
       journal
  <2>2. \/ WriteThen("write", "manual_review", "halt")
        \/ WriteThen("write", "gas_deferred", "gas")
    BY <1>6 DEF PreflightFails, PreflightDefersGas, SignDefersGas, NotSettled,
       Review
  <2> QED
    BY <1>3, <2>1, <2>2
<1>7. CASE StepFails
  <2>1. signed' = signed
    BY <1>7 DEF StepFails, journal
  <2>2. \/ Failure
        \/ pc = "observe" /\ WriteThen("write", "deposit_pending", "pending")
    BY <1>7 DEF StepFails
  <2>3. pc = "observe" => signed[me] # None
    BY DEF StepOK
  <2> QED
    BY <1>3, <1>4, <2>1, <2>2, <2>3
<1>8. CASE ObserveHalted
  <2>1. signed' = signed /\ signed[me] # None
    BY <1>1, <1>8 DEF ObserveHalted, OrderOK, journal
  <2>2. \/ WriteThen("account", "completed", "halted")
        \/ WriteThen("write", "manual_review", "halted")
    BY <1>8 DEF ObserveHalted
  <2> QED
    BY <1>2, <1>3, <2>1, <2>2
<1>9. CASE Settle \/ UNCHANGED vars
  BY <1>9 DEF Settle, vars, journal
<1>10. CASE \/ Preflight \/ DependentLegTooDear \/ StillPending \/ Credited
  <2>1. pc' = "mark" \/ \E p \in {"halt", "account", "add"} :
           \E state, after : WriteThen(p, state, after)
    BY <1>10 DEF Preflight, DependentLegTooDear, StillPending, Credited
  <2> QED
    BY <1>2, <2>1
<1>11. CASE \/ BeginRun \/ NextEntry \/ EntryYields \/ PreflightYields \/ Sign
            \/ StepYields \/ WritePosition \/ StopRun \/ HaltPosition
            \/ HaltGroup \/ CloseGroup \/ BeginHalted \/ SkipHalted
            \/ EndHalted \/ Crash
  <2>1. pc' # "write"
    BY <1>11 DEF BeginRun, NextEntry, EntryYields, PreflightYields, Sign,
       StepYields, WritePosition, StopRun, HaltPosition, HaltGroup, CloseGroup,
       BeginHalted, SkipHalted, EndHalted, Crash, Yield, Leave, Escape
  <2> QED
    BY <2>1
<1> QED
  BY <1>5, <1>6, <1>7, <1>8, <1>9, <1>10, <1>11 DEF Next, Executor

\* What is accounted at the position the run is at.
LEMMA AccountAt ==
  ASSUME TypeInv, ModeOK, StepOK, Account
  PROVE  /\ me \in Positions /\ signed' = signed /\ pos' = pos
         /\ accounted'[me] # None
         /\ Keeps(me, realized', run.loss, run.write, run.after)
<1>1. run \in Runs /\ accounted \in [Positions -> {None} \union Losses]
  BY DEF TypeInv, TypeOK
<1>2. me \in Positions /\ pc = "account"
  BY <1>1, RunNumbers DEF Account, ModeOK, AtPosition
<1>3. signed[me] # None
  BY <1>2 DEF StepOK
<1>4. accounted'[me] # None
  BY <1>1, <1>2, <1>3 DEF Account
<1>5. Keeps(me, realized', run.loss, run.write, run.after)
  BY <1>1, RunFields DEF Account
<1> QED
  BY <1>2, <1>4, <1>5 DEF Account

\* What the run is about to write.
LEMMA WriteStep ==
  ASSUME TypeInv, ModeOK, OrderOK, StepOK, WriteOK, [Next]_vars PROVE WriteOK'
<1>1. SUFFICES ASSUME pc' = "write" PROVE WriteOK'
  BY DEF WriteOK
<1>2. CASE Account
  <2>1. /\ run.write \in {"completed", "deposit_pending"}
        /\ run.after \in {"next", "halted"}
        /\ run.after = "halted" => run.write = "completed"
        /\ signed[me] # None
    BY <1>2 DEF Account, StepOK
  <2>2. /\ run'.at = me /\ run'.write = run.write /\ run'.after = run.after
        /\ signed' = signed /\ accounted'[me] # None
    BY <1>2, AccountAt DEF Keeps
  <2> QED
    BY <2>1, <2>2 DEF WriteOK, me
<1>3. CASE AddRealized /\ realized' = run.sum + run.loss
  <2>1. /\ run.write = "completed" /\ run.after = "next" /\ signed[me] # None
        /\ signed' = signed
    BY <1>3 DEF AddRealized, StepOK
  <2>2. run \in Runs
    BY DEF TypeInv, TypeOK
  <2>3. run' = [run EXCEPT !.sum = run.sum + run.loss] \/ Failure
    BY <1>3 DEF AddRealized
  <2>4. CASE run' = [run EXCEPT !.sum = run.sum + run.loss]
    <3>1. run'.at = me /\ run'.write = run.write /\ run'.after = run.after
      BY <2>2, <2>4, RunFields DEF Keeps
    <3> QED
      BY <2>1, <3>1 DEF WriteOK, me
  <2>5. CASE Failure
    <3>1. \/ WriteThen("write", "deposit_pending", "pending")
          \/ WriteThen("write", "manual_review", "halt")
      BY <2>5, Zenon DEF Failure, Review
    <3>2. /\ run'.at = me
          /\ \/ run'.write = "manual_review" /\ run'.after = "halt"
             \/ run'.write = "deposit_pending" /\ run'.after = "pending"
      BY <2>2, <3>1, WriteKeeps DEF Keeps
    <3> QED
      BY <2>1, <3>2 DEF WriteOK, me
  <2> QED
    BY <2>3, <2>4, <2>5
<1>4. CASE /\ run' = run /\ pc = "write" /\ signed' = signed
           /\ accounted' = accounted
  BY <1>4 DEF WriteOK, me
<1>5. CASE (\E state, after : Plainly(state, after)) /\ signed' = signed
  BY <1>5 DEF WriteOK, Plainly, me
<1> QED
  BY <1>1, <1>2, <1>3, <1>4, <1>5, WriteFrom

\* Losses of positions are numbers, and fewer positions lose no more.
LEMMA Fewer ==
  ASSUME TypeInv, NEW S \in SUBSET Positions, NEW T \in SUBSET S
  PROVE  /\ IsFiniteSet(S) /\ Total(signed, S) \in Nat /\ Total(signed, T) \in Nat
         /\ \A i \in S : signed[i] \in Nat
         /\ Total(signed, T) <= Total(signed, S)
<1>1. \A i \in Positions : signed[i] \in Nat
  <2>1. signed \in [Positions -> {None} \union Losses]
    BY DEF TypeInv, TypeOK
  <2> QED
    BY <2>1, Numbers
<1>2. IsFiniteSet(S) /\ IsFiniteSet(T)
  BY PositionsFinite, FS_Subset, Zenon
<1>3. (\A i \in S : signed[i] \in Nat) /\ (\A i \in T : signed[i] \in Nat)
  BY <1>1
<1>4. SumFunctionOnSet(signed, S) \in Nat /\ SumFunctionOnSet(signed, T) \in Nat
  BY <1>2, <1>3, SumNat, Zenon
<1>5. SumFunctionOnSet(signed, T) <= SumFunctionOnSet(signed, S)
  BY <1>2, <1>3, SumSubset
<1> QED
  BY <1>2, <1>3, <1>4, <1>5 DEF Total

LEMMA OneMore ==
  ASSUME TypeInv, me \in Positions, Total(signed, Counted) <= realized
  PROVE  Total(signed, Counted \union {me}) <= realized + signed[me]
<1> DEFINE more == Counted \union {me}
<1>1. more \in SUBSET Positions /\ Counted \in SUBSET more
  BY DEF Counted
<1>2. /\ IsFiniteSet(more) /\ Total(signed, more) \in Nat
      /\ Total(signed, Counted) \in Nat /\ \A i \in more : signed[i] \in Nat
  BY <1>1, Fewer
<1>3. IsFiniteSet(Counted) /\ realized \in Nat /\ signed[me] \in Nat
  <2>1. IsFiniteSet(Counted)
    BY <1>1, <1>2, FS_Subset, Zenon
  <2> QED
    BY <1>2, <2>1 DEF TypeInv, TypeOK
<1>4. SumFunctionOnSet(signed, more) <= SumFunctionOnSet(signed, Counted) + signed[me]
  BY <1>2, <1>3, SumAdd
<1> HIDE DEF more
<1> QED
  BY <1>2, <1>3, <1>4 DEF Total, more

\* The loss of every position that was passed is in the group's realized loss.
LEMMA CountStep ==
  ASSUME TypeInv, ModeOK, ProgressOK, OrderOK, StepOK, CountOK, [Next]_vars, TypeInv'
  PROVE  CountOK'
<1>1. /\ run \in Runs /\ realized \in Nat /\ run.loss \in Nat
      /\ me <= N => me \in Positions
      /\ pos \in [Positions -> PositionStates]
      /\ signed \in [Positions -> {None} \union Losses]
      /\ accounted \in [Positions -> {None} \union Losses]
      /\ \A i \in Positions : accounted[i] \in {None, signed[i]}
  <2>1. run \in Runs
    BY DEF TypeInv, TypeOK
  <2> QED
    BY <2>1, RunNumbers DEF TypeInv, TypeOK
<1>2. Total(signed, Counted) <= realized /\ Counted \in SUBSET Positions
  BY DEF CountOK, Counted
<1>3. ASSUME NEW S, S \in SUBSET Counted PROVE Total(signed, S) <= realized
  <2>1. /\ Total(signed, S) \in Nat /\ Total(signed, Counted) \in Nat
        /\ Total(signed, S) <= Total(signed, Counted)
    BY <1>2, <1>3, Fewer
  <2> QED
    BY <1>1, <1>2, <2>1
<1>4. CASE Sign
  <2>1. /\ me \in Positions /\ accounted[me] = None /\ pos[me] # "completed"
        /\ pc' = "outcome" /\ Counted' = Counted /\ realized' = realized
        /\ signed' = [signed EXCEPT ![me] = run.loss]
    <3>1. me \in Positions /\ pc = "sign"
      BY <1>1, <1>4 DEF Sign, ModeOK, AtPosition
    <3>2. accounted[me] = None /\ pos[me] # "completed"
      BY <1>1, <3>1 DEF StepOK
    <3> QED
      BY <1>4, <3>1, <3>2 DEF Sign, Counted
  <2>2. \A i \in Counted : signed[i] = signed'[i]
    BY <1>1, <2>1 DEF Counted
  <2>3. IsFiniteSet(Counted)
    BY <1>2, Fewer
  <2>4. SumFunctionOnSet(signed, Counted) = SumFunctionOnSet(signed', Counted)
    BY <2>2, <2>3, SumSame
  <2>5. Total(signed, Counted)' = Total(signed, Counted)
    BY <2>1, <2>4 DEF Total
  <2> QED
    BY <1>2, <2>1, <2>5 DEF CountOK
<1>5. CASE Account
  <2>1. /\ me \in Positions /\ signed' = signed /\ pos' = pos
        /\ accounted'[me] # None /\ run'.at = me
    BY <1>5, AccountAt DEF Keeps
  <2>2. Counted' \union {me} = Counted'
    BY <2>1 DEF Counted
  <2>3. Total(signed, Counted') <= realized'
    <3>1. CASE accounted[me] = None
      <4>1. /\ realized' = realized + signed[me]
            /\ accounted' = [accounted EXCEPT ![me] = signed[me]]
        BY <1>5, <3>1 DEF Account
      <4>2. Counted' \in SUBSET (Counted \union {me})
        BY <1>1, <2>1, <4>1 DEF Counted
      <4>3. Total(signed, Counted \union {me}) <= realized'
        BY <1>2, <2>1, <4>1, OneMore
      <4>4. Counted \union {me} \in SUBSET Positions
        BY <1>2, <2>1
      <4>5. /\ Total(signed, Counted') <= Total(signed, Counted \union {me})
            /\ Total(signed, Counted') \in Nat
            /\ Total(signed, Counted \union {me}) \in Nat
        BY <4>2, <4>4, Fewer
      <4>6. realized' \in Nat
        BY DEF TypeInv, TypeOK
      <4> QED
        BY <4>3, <4>5, <4>6
    <3>2. CASE accounted[me] # None
      <4>1. realized' = realized /\ accounted' = accounted
        BY <1>5, <3>2 DEF Account
      <4>2. Counted' = Counted
        BY <2>1, <4>1 DEF Counted
      <4> QED
        BY <1>2, <4>1, <4>2
    <3> QED
      BY <3>1, <3>2
  <2> QED
    BY <2>1, <2>2, <2>3 DEF CountOK, Total, me
<1>6. CASE AddRealized
  <2>1. /\ me \in Positions /\ pc = "add" /\ signed' = signed
        /\ accounted' = accounted /\ pos' = pos /\ signed[me] = run.loss
        /\ run.sum = realized
    BY <1>1, <1>6 DEF AddRealized, ModeOK, AtPosition, Running, StepOK
  <2>2. run.sum + run.loss >= realized
    BY <1>1, <2>1
  <2>3. /\ realized' = realized + signed[me]
        /\ run' = [run EXCEPT !.sum = run.sum + run.loss]
    BY <1>1, <1>6, <2>1, <2>2 DEF AddRealized
  <2>4. run'.at = me /\ Counted' = Counted
    BY <1>1, <2>1, <2>3, RunFields DEF Keeps, Counted
  <2>5. Total(signed, Counted \union {me}) <= realized'
    BY <1>2, <2>1, <2>3, OneMore
  <2>6. Total(signed, Counted) <= realized'
    <3>1. signed[me] \in Nat /\ Total(signed, Counted) \in Nat
      BY <1>1, <1>2, <2>1, Fewer
    <3> QED
      BY <1>1, <1>2, <2>3, <3>1
  <2> QED
    BY <2>1, <2>4, <2>5, <2>6 DEF CountOK, Total, me
<1>7. CASE WritePosition /\ pos' # pos /\ run.write = "completed"
  <2>1. /\ me \in Positions /\ pc = "write" /\ pc' # "write" /\ signed' = signed
        /\ accounted' = accounted /\ realized' = realized
        /\ pos' = [pos EXCEPT ![me] = "completed"]
    BY <1>1, <1>7 DEF WritePosition, Escape, journal, Advances, ModeOK, AtPosition
  <2>2. Counted' \in SUBSET (Counted \union {me})
    BY <1>1, <2>1 DEF Counted
  <2>3. Counted \union {me} \in SUBSET Positions
    BY <1>2, <2>1
  <2>4. /\ Total(signed, Counted') <= Total(signed, Counted \union {me})
        /\ Total(signed, Counted') \in Nat
        /\ Total(signed, Counted \union {me}) \in Nat
    BY <2>2, <2>3, Fewer
  <2>5. Total(signed, Counted \union {me}) <= realized
    BY <1>7, <2>1 DEF CountOK
  <2>6. Total(signed, Counted') <= realized
    BY <1>1, <2>4, <2>5
  <2> QED
    BY <2>1, <2>6 DEF CountOK, Total
<1>8. CASE /\ ~Account /\ ~AddRealized /\ signed' = signed
           /\ accounted' = accounted /\ realized' = realized
           /\ pos' # pos => ~(WritePosition /\ run.write = "completed")
  <2>1. Counted' \in SUBSET Counted
    <3>1. ASSUME NEW i \in Positions, pos'[i] = "completed" PROVE pos[i] = "completed"
      <4>1. CASE pos' = pos
        BY <3>1, <4>1
      <4>2. CASE pos' # pos /\ Mark
        BY <1>1, <3>1, <4>2 DEF Mark
      <4>3. CASE pos' # pos /\ WritePosition
        BY <1>1, <1>8, <3>1, <4>3 DEF WritePosition, Escape, journal
      <4>4. CASE pos' # pos /\ HaltPosition
        <5>1. run.write # "completed"
          BY <4>4 DEF HaltPosition, ProgressOK, Halts
        <5> QED
          BY <1>1, <3>1, <4>4, <5>1 DEF HaltPosition, Escape, journal
      <4> QED
        BY <4>1, <4>2, <4>3, <4>4, Touched
    <3> QED
      BY <1>8, <3>1 DEF Counted
  <2>2. Total(signed, Counted') <= realized
    BY <1>3, <2>1
  <2>3. ASSUME pc' = "write", run'.write = "completed"
        PROVE  /\ run' = run /\ pc = "write" /\ pos' = pos
    BY <1>8, <2>3, WriteFrom DEF Plainly
  <2>4. ASSUME pc' = "write", run'.write = "completed"
        PROVE  Total(signed, Counted \union {me})' <= realized
    BY <1>8, <2>3, <2>4 DEF CountOK, Counted, Total, me
  <2> QED
    BY <1>8, <2>2, <2>4 DEF CountOK, Total
<1> QED
  BY <1>4, <1>5, <1>6, <1>7, <1>8, Touched

\* A closed group is left alone, but for the pending bridges of a halted one.
LEMMA ClosedStep ==
  ASSUME TypeInv, ModeOK, ProgressOK, OrderOK, WriteOK, ClosedGroupAgrees, [Next]_vars
  PROVE  ClosedGroupAgrees'
<1>1. /\ run \in Runs /\ me \in Nat /\ N \in Nat
      /\ \A i \in Positions : i \in Nat /\ i <= N
      /\ pos \in [Positions -> PositionStates]
  <2>1. run \in Runs
    BY DEF TypeInv, TypeOK
  <2> QED
    BY <2>1, RunNumbers DEF Positions, TypeInv, TypeOK
<1>2. "active" \notin Halts /\ "completed" \notin Halts /\ "active" # "completed"
      /\ "deposit_pending" \notin Halts /\ "gas_deferred" \notin Halts
  BY DEF Halts
<1>3. ASSUME pos' # pos
      PROVE  \/ group = "active" /\ UNCHANGED group
             \/ /\ WritePosition /\ group \in Halts /\ UNCHANGED group
                /\ \A i \in Positions : pos'[i] # pos[i] =>
                     pos'[i] \in {"completed", "manual_review"}
  <2>1. pc \in {"mark", "write", "halt"} /\ UNCHANGED group
        /\ (pc # "write" => run.after # "halted")
    BY <1>3, Touched DEF Mark, WritePosition, HaltPosition, Escape, journal, ModeOK
  <2>2. CASE run.after # "halted"
    BY <2>1, <2>2 DEF ModeOK, Running
  <2>3. CASE run.after = "halted"
    <3>1. WritePosition /\ pc = "write" /\ pos' = [pos EXCEPT ![me] = run.write]
      BY <1>3, <2>1, <2>3, Touched DEF Mark, WritePosition, HaltPosition, Escape,
         journal
    <3>2. run.write \in {"completed", "manual_review"} /\ group \in Halts
      BY <2>3, <3>1 DEF WriteOK, ModeOK
    <3>3. \A i \in Positions : pos'[i] # pos[i] =>
             pos'[i] \in {"completed", "manual_review"}
      BY <1>1, <3>1, <3>2
    <3> QED
      BY <2>1, <3>1, <3>2, <3>3
  <2> QED
    BY <2>2, <2>3
<1>4. ASSUME group' = "completed", NEW i \in Positions PROVE pos'[i] = "completed"
  <2>1. CASE group = "completed"
    BY <1>2, <1>3, <2>1 DEF ClosedGroupAgrees
  <2>2. CASE group # "completed"
    <3>1. CloseGroup
      <4>1. ~BeginRun /\ ~Yields /\ ~StopRun
        BY <1>4, <2>2 DEF BeginRun, Yields, EntryYields, PreflightYields,
           StepYields, Yield, StopRun
      <4>2. ~HaltGroup
        BY <1>2, <1>4 DEF HaltGroup, ProgressOK
      <4> QED
        BY <1>4, <2>2, <4>1, <4>2, Touched
    <3>2. /\ pc = "close" /\ pos' = pos
          /\ ~ \E j \in Positions : pos[j] = "deposit_pending"
      BY <1>4, <3>1 DEF CloseGroup
    <3>3. Running /\ me = N + 1
      BY <3>2 DEF Running, ModeOK
    <3>4. Passed(i)
      BY <1>1, <3>2, <3>3 DEF ProgressOK
    <3> QED
      BY <3>2, <3>4 DEF Passed
  <2> QED
    BY <2>1, <2>2
<1>5. ASSUME group' \in Halts, NEW i \in Positions
      PROVE  pos'[i] \in SettledPositions \union {"deposit_pending"}
  <2>1. CASE group' = group
    BY <1>2, <1>3, <1>5, <2>1 DEF ClosedGroupAgrees, SettledPositions
  <2>2. CASE group' # group
    <3>1. HaltGroup
      <4>1. ~BeginRun /\ ~Yields /\ ~StopRun /\ ~CloseGroup
        BY <1>2, <1>5, <2>2 DEF BeginRun, Yields, EntryYields, PreflightYields,
           StepYields, Yield, StopRun, CloseGroup
      <4> QED
        BY <2>2, <4>1, Touched
    <3>2. pc = "halt" /\ me > N /\ pos' = pos
      BY <3>1 DEF HaltGroup
    <3> QED
      BY <1>1, <3>2 DEF ProgressOK
  <2> QED
    BY <2>1, <2>2
<1> QED
  BY <1>4, <1>5 DEF ClosedGroupAgrees

-----------------------------------------------------------------------------
(* The invariant, and what follows from it.                                *)

LEMMA InitInv == Init => IInv
<1> SUFFICES ASSUME Init PROVE IInv
  OBVIOUS
<1>1. TypeInv
  <2>1. Idle \in Runs
    <3>1. 1 \in 1 .. N + 1 /\ 0 \in Nat
      BY Numbers
    <3> QED
      BY <3>1, StateNames DEF Idle, Runs, None
  <2>2. 0 \in 0 .. MaxCrashes
    BY GroupAssumption
  <2>3. "planned" \in GroupStates /\ "idle" \in Points
    BY DEF GroupStates, Points
  <2> QED
    BY <2>1, <2>2, <2>3, StateNames DEF Init, TypeInv, TypeOK
<1>2. \A i \in Positions : /\ pos[i] = "planned" /\ accounted[i] = None
                           /\ signed[i] = None /\ credit[i] = "none"
  BY DEF Init
<1>3. Counted = {}
  BY <1>2 DEF Counted
<1>4. CountOK
  <2>1. SumFunctionOnSet(signed, {}) = 0
    BY FS_EmptySet, SumUnfold
  <2> QED
    BY <1>3, <2>1 DEF Init, CountOK, Total
<1>5. ModeOK /\ ProgressOK /\ StepOK /\ WriteOK
  BY DEF Init, ModeOK, ProgressOK, StepOK, WriteOK, AtPosition, Running, Idle, me
<1>6. OrderOK
  BY <1>2 DEF OrderOK, ReviewStates, Halts
<1>7. ClosedGroupAgrees
  BY DEF Init, ClosedGroupAgrees, Halts
<1> QED
  BY <1>1, <1>4, <1>5, <1>6, <1>7 DEF IInv

THEOREM Invariant == Spec => []IInv
<1>1. Init => IInv
  BY InitInv
<1>2. IInv /\ [Next]_vars => IInv'
  <2> SUFFICES ASSUME IInv, [Next]_vars PROVE IInv'
    OBVIOUS
  <2>1. /\ TypeInv /\ ModeOK /\ ProgressOK /\ OrderOK /\ StepOK /\ WriteOK
        /\ CountOK /\ ClosedGroupAgrees
    BY DEF IInv
  <2>2. TypeInv' /\ ModeOK' /\ ProgressOK'
    BY <2>1, TypeStep, ModeStep, ProgressStep
  <2>3. OrderOK' /\ StepOK' /\ WriteOK'
    BY <2>1, OrderStep, StepStep, WriteStep
  <2>4. CountOK' /\ ClosedGroupAgrees'
    BY <2>1, <2>2, CountStep, ClosedStep
  <2> QED
    BY <2>2, <2>3, <2>4 DEF IInv
<1> QED
  BY <1>1, <1>2, PTL DEF Spec

\* Every variable keeps its type, whatever the number of positions and deaths.
THEOREM TypeCorrect == Spec => []TypeOK
<1>1. IInv => TypeOK
  BY DEF IInv, TypeInv
<1> QED
  BY <1>1, Invariant, PTL

\* A completed position's loss is counted in the group's realized loss, at
\* every point at which the process may die.
THEOREM LossIsCounted == Spec => []CompletedLossCounted
<1>1. IInv => CompletedLossCounted
  <2> SUFFICES ASSUME IInv PROVE CompletedLossCounted
    OBVIOUS
  <2> DEFINE done == {i \in Positions : pos[i] = "completed"}
  <2>1. TypeInv /\ Total(signed, Counted) <= realized /\ realized \in Nat
    BY DEF IInv, CountOK, TypeInv, TypeOK
  <2>2. done \in SUBSET Counted /\ Counted \in SUBSET Positions
    BY DEF Counted
  <2>3. /\ Total(signed, done) <= Total(signed, Counted)
        /\ Total(signed, done) \in Nat /\ Total(signed, Counted) \in Nat
    BY <2>1, <2>2, Fewer
  <2> HIDE DEF done
  <2>4. Total(signed, done) <= realized
    BY <2>1, <2>3
  <2> QED
    BY <2>4 DEF CompletedLossCounted, done
<1> QED
  BY <1>1, Invariant, PTL

\* The group's state is written last, and agrees with its positions.
THEOREM ClosedAgrees == Spec => []ClosedGroupAgrees
<1>1. IInv => ClosedGroupAgrees
  BY DEF IInv
<1> QED
  BY <1>1, Invariant, PTL

-----------------------------------------------------------------------------
(* The group implements LossBudget.                                        *)

\* When a position is signed nothing needs a review, and what was signed
\* before, together with it, stays within the budget.
LEMMA SignFits ==
  ASSUME IInv, Sign
  PROVE  /\ me \in Positions /\ signed[me] = 0
         /\ run.loss \in Losses \ {0}
         /\ ~ \E i \in Positions : pos[i] \in ReviewStates
         /\ SumFunctionOnSet(signed, Positions) + run.loss <= Budget
<1>1. /\ TypeInv /\ ModeOK /\ ProgressOK /\ OrderOK /\ StepOK /\ CountOK
      /\ run \in Runs /\ pc = "sign"
  BY DEF IInv, TypeInv, TypeOK, Sign
<1>2. /\ me \in Positions /\ Positions \subseteq Nat
      /\ run.sum \in Nat /\ run.loss \in Nat /\ Budget \in Nat
  BY <1>1, RunNumbers, Numbers DEF ModeOK, AtPosition, Positions
<1>3. /\ Running /\ run.sum = realized
      /\ \A i \in Positions : i < me => Passed(i)
  BY <1>1 DEF Running, ModeOK, ProgressOK
<1>4. /\ signed[me] = None /\ run.loss # None /\ run.sum + run.loss <= Budget
      /\ pos[me] \in {"direct_deposit_submitted", "bridge_submitted"}
  BY <1>1 DEF StepOK
<1>5. run.loss \in Losses \ {0}
  BY <1>1, <1>4 DEF Runs, None
<1>6. ASSUME NEW i \in Positions PROVE pos[i] \notin ReviewStates
  <2>1. {"direct_deposit_submitted", "bridge_submitted", "completed",
         "deposit_pending"} \intersect ReviewStates = {}
    BY DEF ReviewStates, Halts
  <2>2. CASE i < me
    BY <1>3, <2>1, <2>2 DEF Passed
  <2>3. CASE i = me
    BY <1>4, <2>1, <2>3
  <2>4. CASE me < i
    BY <1>1, <1>2, <1>4, <2>1, <2>4 DEF OrderOK
  <2> QED
    BY <1>2, <2>2, <2>3, <2>4
<1> DEFINE before == {i \in Positions : i < me}
<1>7. before \in SUBSET Positions /\ Counted \in SUBSET Positions
      /\ before \in SUBSET Counted
  BY <1>3 DEF Passed, Counted
<1>8. \A i \in Positions \ before : signed[i] = 0
  BY <1>1, <1>2, <1>4 DEF OrderOK, None
<1> HIDE DEF before
<1>9. /\ IsFiniteSet(Positions) /\ \A i \in Positions : signed[i] \in Nat
  <2>1. Positions \in SUBSET Positions
    OBVIOUS
  <2> QED
    BY <1>1, <2>1, Fewer
<1>10. SumFunctionOnSet(signed, before) = SumFunctionOnSet(signed, Positions)
  BY <1>7, <1>8, <1>9, SumSubset
<1>11. /\ Total(signed, before) <= Total(signed, Counted)
       /\ Total(signed, before) \in Nat /\ Total(signed, Counted) \in Nat
  BY <1>1, <1>7, Fewer
<1>12. Total(signed, Counted) <= realized
  BY <1>1 DEF CountOK
<1>13. SumFunctionOnSet(signed, Positions) + run.loss <= Budget
  BY <1>2, <1>3, <1>4, <1>10, <1>11, <1>12 DEF Total
<1> QED
  BY <1>2, <1>4, <1>5, <1>6, <1>13 DEF None

\* Both modules sum alike.
LEMMA SameSum ==
  ASSUME NEW f, NEW S
  PROVE  Promise!SumFunctionOnSet(f, S) = SumFunctionOnSet(f, S)
  BY DEF Promise!SumFunctionOnSet, Promise!FoldFunctionOnSet,
     Promise!MapThenFoldSet, SumFunctionOnSet, FoldFunctionOnSet, MapThenFoldSet

\* Every step of the group is a step of LossBudget or changes nothing there.
LEMMA StepKeepsBudget ==
  ASSUME IInv, [Next]_vars PROVE [Promise!Next]_(Promise!budget)
<1> DEFINE review == \E i \in Positions : pos[i] \in ReviewStates
<1>1. TypeInv /\ ModeOK /\ StepOK
  BY DEF IInv
<1>2. review => review'
  BY <1>1, ReviewStays
<1>3. CASE signed' = signed
  <2>1. CASE review = review'
    BY <1>3, <2>1 DEF Promise!budget
  <2>2. CASE ~review /\ review'
    BY <1>3, <2>2 DEF Promise!Next, Promise!Stop
  <2> QED
    BY <1>2, <2>1, <2>2
<1>4. CASE Sign
  <2>1. /\ me \in Positions /\ signed[me] = 0 /\ run.loss \in Losses \ {0}
        /\ ~review
        /\ Promise!SumFunctionOnSet(signed, Positions) + run.loss <= Budget
    BY <1>4, SignFits, SameSum
  <2>2. signed' = [signed EXCEPT ![me] = run.loss] /\ pos' = pos
    BY <1>4 DEF Sign
  <2>3. review' = review
    BY <2>2
  <2> HIDE DEF review
  <2>4. Promise!Send(me, run.loss)
    BY <2>1, <2>2, <2>3 DEF Promise!Send, review
  <2> QED
    BY <2>1, <2>4 DEF Promise!Next
<1> QED
  BY <1>3, <1>4, Touched

\* Over any number of runs and deaths, nothing is sent beyond the budget, twice
\* or after a position of the group needs a review.
THEOREM BudgetIsKept == Spec => KeepsBudget
<1>1. Init => Promise!Init
  BY DEF Init, Promise!Init, ReviewStates, Halts, None
<1>2. IInv /\ [Next]_vars => [Promise!Next]_(Promise!budget)
  BY StepKeepsBudget
<1> QED
  BY <1>1, <1>2, Invariant, PTL DEF Spec, KeepsBudget, Promise!Spec
=============================================================================
