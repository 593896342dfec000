-------------------------- MODULE ScanStageProofs --------------------------
(***************************************************************************)
(* The two promises of a scan about the inventory, for every number of     *)
(* networks, threads, wallets, assets, pages and scans.  IInv follows a    *)
(* network from the moment its rows are prepared: the writes left to       *)
(* replay turn what the inventory shows into what its buffer shows, and    *)
(* among them the pass comes before every balance that was read under it.  *)
(***************************************************************************)
EXTENDS ScanStage, TLAPS

-----------------------------------------------------------------------------
(* The shapes of the state.                                                *)

\* A mandatory row is written by _balances, another one by _discover.
Op == [op : {"upsert"}, asset : Others]
        \union [op : {"record"}, asset : Mandatory,
                row : {Failed} \union {Balance(b) : b \in 0 .. MaxScans}]
        \union [op : {"record"}, asset : Others, row : {Reported}]
        \union [op : {"state"}, state : States]
        \union [op : {"pass"}, block : 0 .. MaxScans]

Caller == [at : {"idle", "prepare", "reading", "save", "ended"},
           wi : DOMAIN Wallets, todo : SUBSET Networks, net : 0 .. JobCount,
           left : SUBSET Mandatory, operations : Seq(Op)]

Buffer == [sealed : BOOLEAN, rows : [Assets -> Rows], state : States,
           operations : Seq(Op)]

Reader == [at : {"start", "select", "balances", "page", "candidates", "done"},
           left : SUBSET Assets, broken : BOOLEAN,
           half : Others \union {"none"}, page : 0 .. PageLimit,
           more : BOOLEAN]

Types ==
  /\ StageTypeOK
  /\ asset \in [WalletSet -> [Networks -> [Assets -> Rows]]]
  /\ discovery \in [WalletSet -> [Networks -> States]]
  /\ pass \in [WalletSet -> [Networks -> 0 .. MaxScans]]
  /\ caller \in Caller
  /\ buffer \in [Networks -> Buffer]
  /\ reader \in [Networks -> Reader]
  /\ scans \in 0 .. MaxScans

-----------------------------------------------------------------------------
(* The inductive invariant.                                                *)

IsPass(o) == o.op = "pass"
OfCatalog(o) == o.op = "record" /\ o.asset \in Mandatory
IsBalance(o) == OfCatalog(o) /\ o.row # Failed
HasPass(ops) == \E i \in 1 .. Len(ops) : IsPass(ops[i])
HasBalances(ops) == \E i \in 1 .. Len(ops) : OfCatalog(ops[i])

\* A network whose thread has not begun has no writes; one that has not
\* chosen its endpoint has no pass and no balances; one that reads balances
\* has its pass.
ReaderOK(n) ==
  /\ place[n] \in {"none", "queue"} =>
       buffer[n].operations = <<>> /\ reader[n] = NoReader
  /\ place[n] = "thread" /\ reader[n].at \in {"start", "select"} =>
       ~HasPass(buffer[n].operations) /\ ~HasBalances(buffer[n].operations)
  /\ place[n] = "thread" /\ reader[n].at = "balances" /\ ~reader[n].broken =>
       HasPass(buffer[n].operations)
  /\ reader[n].at = "candidates" => reader[n].left \subseteq Others

\* Outside the stage nothing is left of it; what the caller has in hand is
\* what is still to be done; a network in hand or saved is sealed.
CallerOK ==
  /\ caller.at \in {"idle", "prepare", "ended"} =>
       \A n \in Networks : place[n] = "none" /\ ~buffer[n].sealed
  /\ caller.at \in {"prepare", "save"} => caller.net \in caller.todo \union {0}
  /\ caller.at = "reading" => caller.net = 0
  /\ caller.at = "prepare" /\ caller.net = 0 => caller.left = Mandatory
  /\ caller.at = "prepare" /\ caller.net # 0 =>
       \A a \in Mandatory \ caller.left :
         asset[wallet][caller.net][a] = Pending
  /\ caller.at = "save" =>
       \A n \in Networks : n \notin caller.todo \/ n = caller.net =>
         buffer[n].sealed

\* The networks whose buffers are made and not saved.
Unsaved == CASE caller.at = "prepare" -> Networks \ caller.todo
             [] caller.at = "reading" -> Networks
             [] caller.at = "save" -> caller.todo
             [] OTHER -> {}

Replaying(n) == caller.at = "save" /\ caller.net = n

\* The writes the inventory does not have yet.
Left(n) == IF Replaying(n) THEN caller.operations ELSE buffer[n].operations

\* Among them the pass comes before the balances, all of this scan; and no
\* row is a balance before its pass is written.
WritesOK(n) ==
  /\ \A i \in 1 .. Len(Left(n)) :
       /\ IsPass(Left(n)[i]) => Left(n)[i].block = scans
       /\ IsBalance(Left(n)[i]) =>
            /\ Left(n)[i].row = Balance(scans)
            /\ \/ \E j \in 1 .. i - 1 : IsPass(Left(n)[j])
               \/ Replaying(n) /\ pass[wallet][n] = scans
  /\ \A i, j \in 1 .. Len(Left(n)) :
       IsPass(Left(n)[i]) /\ OfCatalog(Left(n)[j]) => i < j
  /\ ~Replaying(n) \/ HasPass(Left(n)) =>
       \A a \in Mandatory : asset[wallet][n][a].status # "success"

\* A view: the rows of a network and its discovery state.
View == [rows : [Assets -> Rows], state : States]
After(v, o) == [rows |-> RowsAfter(v.rows, o), state |-> StateAfter(v.state, o)]
Inventory(n) == [rows |-> asset[wallet][n], state |-> discovery[wallet][n]]
Shown(n) == [rows |-> buffer[n].rows, state |-> buffer[n].state]

\* The writes turn one view into the other, one at a time.
Leads(from, ops, to) ==
  \E h \in [1 .. Len(ops) + 1 -> View] :
    /\ h[1] = from /\ h[Len(ops) + 1] = to
    /\ \A i \in 1 .. Len(ops) : h[i + 1] = After(h[i], ops[i])

\* The provider's word never stands for a balance.
CatalogOK ==
  \A w \in WalletSet, n \in Networks, a \in Mandatory :
    asset[w][n][a].status # "provider_only"

IInv == /\ Types
        /\ \A n \in Networks : ReaderOK(n)
        /\ CallerOK
        /\ CatalogOK /\ BalanceIsOfThePass
        /\ \A n \in Unsaved : WritesOK(n)
        /\ \A n \in Unsaved : Leads(Inventory(n), Left(n), Shown(n))
        /\ SnapshotIsSaved

-----------------------------------------------------------------------------
(* What the operators of the model give.                                   *)

\* The wallet in hand is one of the sequence; networks are numbers.
LEMMA ConstantsType ==
  ASSUME Types
  PROVE  /\ wallet \in WalletSet /\ Networks = 1 .. JobCount
         /\ JobCount \in Nat \ {0} /\ 0 \notin Networks
         /\ Mandatory \subseteq Assets /\ Others \subseteq Assets
         /\ "none" \notin Assets /\ scans \in 0 .. MaxScans
         /\ \A a \in Mandatory : a \notin Others
<1>1. caller.wi \in DOMAIN Wallets
  BY DEF Types, Caller
<1> QED
  BY <1>1, ScanAssumption, StageAssumption
     DEF WalletSet, wallet, Networks, Jobs, Assets, Types

\* The rows a write may put there.
LEMMA RowsType ==
  /\ NoRow \in Rows /\ Pending \in Rows /\ Failed \in Rows /\ Reported \in Rows
  /\ \A b \in 0 .. MaxScans : Balance(b) \in Rows
  /\ \A r \in Rows : Settled(r) \in Rows
  BY ScanAssumption DEF Rows, NoRow, Pending, Failed, Reported, Balance, Settled

LEMMA StatesType ==
  /\ State("none", 0) \in States /\ State("pending", 0) \in States
  /\ State("success", 0) \in States /\ State("disabled", 0) \in States
  /\ \A c \in 0 .. PageLimit :
       State("failed", c) \in States /\ State("pending", c) \in States
  /\ \A s \in States : SettledState(s) \in States
  BY ScanAssumption DEF States, State, SettledState

\* What each write is.
LEMMA OpForms ==
  ASSUME NEW o \in Op
  PROVE  /\ o.op \in {"upsert", "record", "state", "pass"}
         /\ o.op = "upsert" => o.asset \in Others
         /\ o.op = "record" => /\ o.asset \in Assets /\ o.row \in Rows
                               /\ o.row.status # "none"
                               /\ o.asset \in Mandatory =>
                                    o.row.status \in {"failed", "success"}
         /\ o.op = "state" => o.state \in States
         /\ o.op = "pass" => o.block \in 0 .. MaxScans
<1>1. CASE o \in [op : {"upsert"}, asset : Others]
  BY <1>1
<1>2. CASE o \in [op : {"record"}, asset : Mandatory,
                  row : {Failed} \union {Balance(b) : b \in 0 .. MaxScans}]
  BY <1>2, RowsType DEF Failed, Balance, Assets
<1>3. CASE o \in [op : {"record"}, asset : Others, row : {Reported}]
  BY <1>3, RowsType, ScanAssumption DEF Reported, Assets
<1>4. CASE o \in [op : {"state"}, state : States]
  BY <1>4
<1>5. CASE o \in [op : {"pass"}, block : 0 .. MaxScans]
  BY <1>5
<1> QED
  BY <1>1, <1>2, <1>3, <1>4, <1>5 DEF Op

\* A write turns a view into a view.
LEMMA AfterType ==
  ASSUME NEW v \in View, NEW o \in Op PROVE After(v, o) \in View
<1>1. v.rows \in [Assets -> Rows] /\ v.state \in States
  BY DEF View
<1>2. RowsAfter(v.rows, o) \in [Assets -> Rows]
  <2>1. o.op = "upsert" => o.asset \in Assets
    BY OpForms DEF Assets
  <2>2. o.op = "record" => o.asset \in Assets /\ o.row \in Rows
    BY OpForms
  <2>3. QED
    BY <1>1, <2>1, <2>2, RowsType DEF RowsAfter
<1>3. StateAfter(v.state, o) \in States
  BY <1>1, OpForms DEF StateAfter
<1> QED
  BY <1>2, <1>3 DEF After, View

\* No write, one more write, the first write done.
LEMMA LeadsNowhere ==
  ASSUME NEW v \in View, NEW w PROVE Leads(v, <<>>, w) <=> w = v
<1>1. ASSUME Leads(v, <<>>, w) PROVE w = v
  BY <1>1 DEF Leads
<1>2. Leads(v, <<>>, v)
  <2> DEFINE h == [i \in 1 .. 1 |-> v]
  <2>1. Len(<<>>) = 0 /\ 1 .. Len(<<>>) = {}
    OBVIOUS
  <2>2. /\ h \in [1 .. Len(<<>>) + 1 -> View]
        /\ h[1] = v /\ h[Len(<<>>) + 1] = v
    BY <2>1
  <2> HIDE DEF h
  <2>3. QED
    BY <2>1, <2>2 DEF Leads
<1> QED
  BY <1>1, <1>2

LEMMA LeadsFurther ==
  ASSUME NEW v \in View, NEW w \in View, NEW ops \in Seq(Op), NEW o \in Op,
         Leads(v, ops, w)
  PROVE  Leads(v, Append(ops, o), After(w, o))
<1>1. PICK h \in [1 .. Len(ops) + 1 -> View] :
         /\ h[1] = v /\ h[Len(ops) + 1] = w
         /\ \A i \in 1 .. Len(ops) : h[i + 1] = After(h[i], ops[i])
  BY DEF Leads
<1> DEFINE longer == Append(ops, o)
           g == [i \in 1 .. Len(ops) + 2 |->
                   IF i = Len(ops) + 2 THEN After(w, o) ELSE h[i]]
<1>2. /\ Len(longer) = Len(ops) + 1 /\ Len(ops) \in Nat
      /\ \A i \in 1 .. Len(ops) : longer[i] = ops[i]
      /\ longer[Len(ops) + 1] = o
  OBVIOUS
<1> HIDE DEF longer
<1>3. g \in [1 .. Len(longer) + 1 -> View]
  BY <1>1, <1>2, AfterType
<1>4. g[1] = v /\ g[Len(longer) + 1] = After(w, o)
  BY <1>1, <1>2
<1>5. ASSUME NEW i \in 1 .. Len(longer) PROVE g[i + 1] = After(g[i], longer[i])
  <2>1. CASE i = Len(ops) + 1
    BY <1>1, <1>2, <2>1
  <2>2. CASE i \in 1 .. Len(ops)
    BY <1>1, <1>2, <2>2
  <2>3. QED
    BY <1>2, <2>1, <2>2
<1>6. Leads(v, longer, After(w, o))
  BY <1>3, <1>4, <1>5 DEF Leads
<1> QED
  BY <1>6 DEF longer

LEMMA LeadsOn ==
  ASSUME NEW v \in View, NEW w, NEW ops \in Seq(Op), ops # <<>>,
         Leads(v, ops, w)
  PROVE  Leads(After(v, Head(ops)), Tail(ops), w)
<1>1. PICK h \in [1 .. Len(ops) + 1 -> View] :
         /\ h[1] = v /\ h[Len(ops) + 1] = w
         /\ \A i \in 1 .. Len(ops) : h[i + 1] = After(h[i], ops[i])
  BY DEF Leads
<1> DEFINE rest == Tail(ops)
           g == [i \in 1 .. Len(ops) |-> h[i + 1]]
<1>2. /\ Len(ops) \in Nat \ {0} /\ Len(rest) = Len(ops) - 1
      /\ \A i \in 1 .. Len(rest) : rest[i] = ops[i + 1]
      /\ Head(ops) = ops[1]
  OBVIOUS
<1> HIDE DEF rest
<1>3. g \in [1 .. Len(rest) + 1 -> View]
  BY <1>1, <1>2
<1>4. g[1] = After(v, Head(ops)) /\ g[Len(rest) + 1] = w
  BY <1>1, <1>2
<1>5. ASSUME NEW i \in 1 .. Len(rest) PROVE g[i + 1] = After(g[i], rest[i])
  BY <1>1, <1>2
<1>6. Leads(After(v, Head(ops)), rest, w)
  BY <1>3, <1>4, <1>5 DEF Leads
<1> QED
  BY <1>6 DEF rest
-----------------------------------------------------------------------------
(* The steps of a thread.                                                  *)

\* One more write adds itself and nothing else.
LEMMA Appended ==
  ASSUME NEW ops \in Seq(Op), NEW o \in Op
  PROVE  /\ HasPass(Append(ops, o)) <=> HasPass(ops) \/ IsPass(o)
         /\ HasBalances(Append(ops, o)) <=> HasBalances(ops) \/ OfCatalog(o)
<1> DEFINE longer == Append(ops, o)
<1>1. /\ Len(longer) = Len(ops) + 1 /\ Len(ops) \in Nat
      /\ \A i \in 1 .. Len(ops) : longer[i] = ops[i]
      /\ longer[Len(ops) + 1] = o
      /\ \A i \in 1 .. Len(longer) : i \in 1 .. Len(ops) \/ i = Len(ops) + 1
  OBVIOUS
<1> HIDE DEF longer
<1>2. HasPass(longer) <=> HasPass(ops) \/ IsPass(o)
  BY <1>1 DEF HasPass
<1>3. HasBalances(longer) <=> HasBalances(ops) \/ OfCatalog(o)
  BY <1>1 DEF HasBalances
<1> QED
  BY <1>2, <1>3 DEF longer

\* A write goes to one open buffer, and nowhere else.
LEMMA WriteEffect ==
  ASSUME Types, NEW n \in Networks, NEW o \in Op, Write(n, o)
  PROVE  /\ ~buffer[n].sealed /\ ~buffer'[n].sealed
         /\ \A m \in Networks : m # n => buffer'[m] = buffer[m]
         /\ buffer'[n].operations = Append(buffer[n].operations, o)
         /\ Shown(n)' = After(Shown(n), o)
         /\ buffer' \in [Networks -> Buffer]
<1> DEFINE old == buffer[n]
           rows == RowsAfter(old.rows, o)
           state == StateAfter(old.state, o)
           ops == Append(old.operations, o)
           new == [old EXCEPT !.rows = rows, !.state = state,
                              !.operations = ops]
<1>1. old \in Buffer /\ buffer \in [Networks -> Buffer]
  BY DEF Types
<1>2. buffer' = [buffer EXCEPT ![n] = new] /\ ~old.sealed
  BY <1>1 DEF Write, Accepts
<1>3. After(Shown(n), o) \in View
  <2>1. Shown(n) \in View
    BY <1>1 DEF Shown, View, Buffer
  <2>2. QED
    BY <2>1, AfterType
<1>4. rows \in [Assets -> Rows] /\ state \in States
  BY <1>3 DEF After, View, Shown
<1>5. ops \in Seq(Op)
  BY <1>1 DEF Buffer
<1> HIDE DEF rows, state, ops
<1>6. /\ new \in Buffer /\ new.sealed = old.sealed /\ new.rows = rows
      /\ new.state = state /\ new.operations = ops
  BY <1>1, <1>4, <1>5 DEF Buffer
<1> HIDE DEF new
<1>7. buffer'[n] = new /\ buffer' \in [Networks -> Buffer]
  BY <1>1, <1>2, <1>6
<1>8. \A m \in Networks : m # n => buffer'[m] = buffer[m]
  BY <1>1, <1>2
<1> QED
  BY <1>2, <1>6, <1>7, <1>8 DEF Shown, After, rows, state, ops

\* What a thread may write where it is.
Fits(n, o) ==
  /\ IsPass(o) => reader[n].at = "select" /\ o.block = scans
  /\ OfCatalog(o) => reader[n].at = "balances"
  /\ IsBalance(o) => ~reader[n].broken /\ o.row = Balance(scans)

\* Where it may go with what it has written.
Follows(next, ops) ==
  /\ next.at \in {"start", "select"} => ~HasPass(ops) /\ ~HasBalances(ops)
  /\ next.at = "balances" /\ ~next.broken => HasPass(ops)
  /\ next.at = "candidates" => next.left \subseteq Others

Works(n) ==
  \E next \in Reader :
    /\ place[n] = "thread" /\ Thread(n, next)
    /\ \/ UNCHANGED buffer /\ Follows(next, buffer[n].operations)
       \/ \E o \in Op : /\ Fits(n, o) /\ Write(n, o)
                        /\ Follows(next, Append(buffer[n].operations, o))

\* The writes of a thread are writes.
LEMMA OpsAre ==
  ASSUME ScanAssumption
  PROVE  /\ \A a \in Others : Upsert(a) \in Op /\ ~IsPass(Upsert(a))
                              /\ ~OfCatalog(Upsert(a))
         /\ \A a \in Others : /\ Record(a, Reported) \in Op
                              /\ ~IsPass(Record(a, Reported))
                              /\ ~OfCatalog(Record(a, Reported))
         /\ \A a \in Mandatory :
              /\ Record(a, Failed) \in Op /\ ~IsPass(Record(a, Failed))
              /\ OfCatalog(Record(a, Failed)) /\ ~IsBalance(Record(a, Failed))
         /\ \A a \in Mandatory, b \in 0 .. MaxScans :
              /\ Record(a, Balance(b)) \in Op /\ ~IsPass(Record(a, Balance(b)))
              /\ OfCatalog(Record(a, Balance(b)))
              /\ Record(a, Balance(b)).row = Balance(b)
         /\ \A s \in States : /\ WriteState(s) \in Op /\ ~IsPass(WriteState(s))
                              /\ ~OfCatalog(WriteState(s))
         /\ \A b \in 0 .. MaxScans : /\ SavePass(b) \in Op /\ IsPass(SavePass(b))
                                     /\ ~OfCatalog(SavePass(b))
                                     /\ SavePass(b).block = b
<1>1. \A a \in Others : Upsert(a) \in Op /\ ~IsPass(Upsert(a)) /\ ~OfCatalog(Upsert(a))
  BY DEF Upsert, Op, IsPass, OfCatalog
<1>2. \A a \in Others : /\ Record(a, Reported) \in Op
                        /\ ~IsPass(Record(a, Reported))
                        /\ ~OfCatalog(Record(a, Reported))
  BY ScanAssumption DEF Record, Op, IsPass, OfCatalog
<1>3. \A a \in Mandatory :
        /\ Record(a, Failed) \in Op /\ ~IsPass(Record(a, Failed))
        /\ OfCatalog(Record(a, Failed)) /\ ~IsBalance(Record(a, Failed))
  BY DEF Record, Op, IsPass, OfCatalog, IsBalance
<1>4. \A a \in Mandatory, b \in 0 .. MaxScans :
        /\ Record(a, Balance(b)) \in Op /\ ~IsPass(Record(a, Balance(b)))
        /\ OfCatalog(Record(a, Balance(b)))
        /\ Record(a, Balance(b)).row = Balance(b)
  BY DEF Record, Op, IsPass, OfCatalog
<1>5. \A s \in States : /\ WriteState(s) \in Op /\ ~IsPass(WriteState(s))
                        /\ ~OfCatalog(WriteState(s))
  BY DEF WriteState, Op, IsPass, OfCatalog
<1>6. \A b \in 0 .. MaxScans : /\ SavePass(b) \in Op /\ IsPass(SavePass(b))
                               /\ ~OfCatalog(SavePass(b))
                               /\ SavePass(b).block = b
  BY DEF SavePass, Op, IsPass, OfCatalog
<1> QED
  BY <1>1, <1>2, <1>3, <1>4, <1>5, <1>6

\* One step of a thread that does not end it, with what it wrote.
LEMMA WorksWriting ==
  ASSUME NEW n \in Networks, NEW next \in Reader, NEW o \in Op,
         place[n] = "thread", Thread(n, next), Write(n, o), Fits(n, o),
         Follows(next, Append(buffer[n].operations, o))
  PROVE  Works(n)
  BY DEF Works

LEMMA WorksReading ==
  ASSUME NEW n \in Networks, NEW next \in Reader,
         place[n] = "thread", Thread(n, next), UNCHANGED buffer,
         Follows(next, buffer[n].operations)
  PROVE  Works(n)
  BY DEF Works

LEMMA ReadingWorks ==
  ASSUME Types, NEW n \in Networks, ReaderOK(n), Reading(n)
  PROVE  Finish(n) \/ Works(n)
<1> DEFINE old == reader[n]
           ops == buffer[n].operations
<1>1. old \in Reader /\ ops \in Seq(Op) /\ buffer[n].state \in States
  BY DEF Types, Buffer
<1>2. \A o \in Op : /\ HasPass(Append(ops, o)) <=> HasPass(ops) \/ IsPass(o)
                    /\ HasBalances(Append(ops, o)) <=>
                         HasBalances(ops) \/ OfCatalog(o)
  BY <1>1, Appended
<1>3. /\ scans \in 0 .. MaxScans /\ Mandatory \subseteq Assets
      /\ Others \subseteq Assets /\ "none" \notin Assets
      /\ \A a \in Mandatory : a \notin Others
  BY ConstantsType
<1>4. /\ place[n] = "thread" /\ old.at \in {"start", "select"} =>
           ~HasPass(ops) /\ ~HasBalances(ops)
      /\ place[n] = "thread" /\ old.at = "balances" /\ ~old.broken =>
           HasPass(ops)
      /\ old.at = "candidates" => old.left \subseteq Others
  BY DEF ReaderOK
<1> HIDE DEF ops
<1>5. ASSUME StartReading(n) PROVE Works(n)
  <2> DEFINE next == [old EXCEPT !.at = "select"]
             o == WriteState(State("disabled", 0))
  <2>1. next \in Reader /\ next.at = "select"
    BY <1>1 DEF Reader
  <2>2. place[n] = "thread" /\ old.at = "start" /\ Thread(n, next)
    BY <1>5 DEF StartReading, Reads
  <2>3. o \in Op /\ ~IsPass(o) /\ ~OfCatalog(o)
    BY OpsAre, StatesType, ScanAssumption
  <2> HIDE DEF next, o
  <2>4. CASE UNCHANGED buffer
    <3>1. Follows(next, ops)
      BY <1>4, <2>1, <2>2 DEF Follows
    <3>2. QED
      BY <2>1, <2>2, <2>4, <3>1, WorksReading DEF ops
  <2>5. CASE Write(n, o)
    <3>1. Fits(n, o)
      BY <2>3 DEF Fits, IsBalance
    <3>2. Follows(next, Append(ops, o))
      BY <1>2, <1>4, <2>1, <2>2, <2>3 DEF Follows
    <3>3. QED
      BY <2>1, <2>2, <2>3, <2>5, <3>1, <3>2, WorksWriting DEF ops
  <2>6. QED
    BY <1>5, <2>4, <2>5 DEF StartReading, o
<1>6. ASSUME SelectEndpoint(n) PROVE Works(n)
  <2> DEFINE next == [old EXCEPT !.at = "balances", !.left = Mandatory]
             o == SavePass(scans)
  <2>1. next \in Reader /\ next.at = "balances"
    BY <1>1, <1>3 DEF Reader
  <2>2. /\ place[n] = "thread" /\ old.at = "select" /\ Thread(n, next)
        /\ Write(n, o)
    BY <1>6 DEF SelectEndpoint, Reads
  <2>3. o \in Op /\ IsPass(o) /\ ~OfCatalog(o) /\ o.block = scans
    BY <1>3, OpsAre, ScanAssumption
  <2> HIDE DEF next, o
  <2>4. Fits(n, o)
    BY <2>2, <2>3 DEF Fits, IsBalance
  <2>5. Follows(next, Append(ops, o))
    BY <1>2, <2>1, <2>3 DEF Follows
  <2>6. QED
    BY <2>1, <2>2, <2>3, <2>4, <2>5, WorksWriting DEF ops
<1>7. ASSUME NoEndpoint(n) PROVE Works(n)
  <2> DEFINE next == [old EXCEPT !.at = "balances", !.left = Mandatory,
                                 !.broken = TRUE]
  <2>1. next \in Reader /\ next.at = "balances" /\ next.broken
    BY <1>1, <1>3 DEF Reader
  <2>2. place[n] = "thread" /\ Thread(n, next) /\ UNCHANGED buffer
    BY <1>7 DEF NoEndpoint, Reads
  <2> HIDE DEF next
  <2>3. Follows(next, ops)
    BY <2>1 DEF Follows
  <2>4. QED
    BY <2>1, <2>2, <2>3, WorksReading DEF ops
<1>8. ASSUME PageFails(n) PROVE Works(n)
  <2> DEFINE next == [old EXCEPT !.at = "done"]
             o == WriteState(State("failed", buffer[n].state.cursor))
  <2>1. next \in Reader /\ next.at = "done"
    BY <1>1 DEF Reader
  <2>2. place[n] = "thread" /\ Thread(n, next) /\ Write(n, o)
    BY <1>8 DEF PageFails, Reads
  <2>3. o \in Op /\ ~IsPass(o) /\ ~OfCatalog(o)
    <3>1. buffer[n].state.cursor \in 0 .. PageLimit
      BY <1>1 DEF States
    <3>2. QED
      BY <3>1, OpsAre, StatesType, ScanAssumption
  <2> HIDE DEF next, o
  <2>4. Fits(n, o)
    BY <2>3 DEF Fits, IsBalance
  <2>5. Follows(next, Append(ops, o))
    BY <2>1 DEF Follows
  <2>6. QED
    BY <2>1, <2>2, <2>3, <2>4, <2>5, WorksWriting DEF ops
<1>9. ASSUME EndPage(n) PROVE Works(n)
  <2> DEFINE next == [old EXCEPT !.at = IF old.more THEN "page" ELSE "done"]
             s == IF old.more THEN State("pending", old.page)
                              ELSE State("success", 0)
             o == WriteState(s)
  <2>1. next \in Reader /\ next.at \in {"page", "done"}
    BY <1>1 DEF Reader
  <2>2. place[n] = "thread" /\ Thread(n, next) /\ Write(n, o)
    BY <1>9 DEF EndPage, Reads
  <2>3. o \in Op /\ ~IsPass(o) /\ ~OfCatalog(o)
    <3>1. old.page \in 0 .. PageLimit
      BY <1>1 DEF Reader
    <3>2. s \in States
      BY <3>1, StatesType
    <3>3. QED
      BY <3>2, OpsAre, ScanAssumption
  <2> HIDE DEF next, o
  <2>4. Fits(n, o)
    BY <2>3 DEF Fits, IsBalance
  <2>5. Follows(next, Append(ops, o))
    BY <2>1 DEF Follows
  <2>6. QED
    BY <2>1, <2>2, <2>3, <2>4, <2>5, WorksWriting DEF ops
<1>10. ASSUME NEW a \in Mandatory, NEW broken \in BOOLEAN,
              Reads(n, "balances")
       PROVE  LET next == AfterAsset(n, a, broken) IN
              /\ next \in Reader /\ next.at \in {"balances", "page", "done"}
              /\ next.broken = broken
  <2> DEFINE at == IF old.left # {a} THEN old.at
                   ELSE IF n \in Discoverable THEN "page" ELSE "done"
             left == old.left \ {a}
             next == [old EXCEPT !.left = left, !.broken = broken, !.at = at]
  <2>1. at \in {"balances", "page", "done"} /\ left \subseteq Assets
    BY <1>1, <1>10 DEF Reads, Reader
  <2>2. AfterAsset(n, a, broken) = next
    BY <1>1 DEF AfterAsset, Reader
  <2> HIDE DEF at, left
  <2>3. next \in Reader /\ next.at = at /\ next.broken = broken
    BY <1>1, <1>10, <2>1 DEF Reader
  <2>4. QED
    BY <2>1, <2>2, <2>3
<1>11. ASSUME NEW a \in Mandatory, ReadBalance(n, a) PROVE Works(n)
  <2> DEFINE next == AfterAsset(n, a, FALSE)
             o == Record(a, Balance(scans))
  <2>1. /\ place[n] = "thread" /\ old.at = "balances" /\ ~old.broken
        /\ Thread(n, next) /\ Write(n, o) /\ Reads(n, "balances")
    BY <1>11 DEF ReadBalance, Reads
  <2>2. next \in Reader /\ next.at \in {"balances", "page", "done"}
    BY <1>10, <2>1
  <2>3. /\ o \in Op /\ ~IsPass(o) /\ OfCatalog(o)
        /\ o.row = Balance(scans)
    BY <1>3, OpsAre, ScanAssumption
  <2> HIDE DEF next, o
  <2>4. Fits(n, o)
    BY <2>1, <2>3 DEF Fits
  <2>5. Follows(next, Append(ops, o))
    BY <1>2, <1>4, <2>1, <2>2, <2>3 DEF Follows
  <2>6. QED
    BY <2>1, <2>2, <2>3, <2>4, <2>5, WorksWriting DEF ops
<1>12. ASSUME NEW a \in Mandatory, NEW broken \in BOOLEAN,
              FailBalance(n, a, broken)
       PROVE  Works(n)
  <2> DEFINE next == AfterAsset(n, a, broken)
             o == Record(a, Failed)
  <2>1. /\ place[n] = "thread" /\ old.at = "balances"
        /\ old.broken => broken
        /\ Thread(n, next) /\ Write(n, o) /\ Reads(n, "balances")
    BY <1>12 DEF FailBalance, Reads
  <2>2. /\ next \in Reader /\ next.at \in {"balances", "page", "done"}
        /\ next.broken = broken
    BY <1>10, <2>1
  <2>3. o \in Op /\ ~IsPass(o) /\ OfCatalog(o) /\ ~IsBalance(o)
    BY <1>3, OpsAre, ScanAssumption
  <2> HIDE DEF next, o
  <2>4. Fits(n, o)
    BY <2>1, <2>3 DEF Fits
  <2>5. Follows(next, Append(ops, o))
    BY <1>2, <1>4, <2>1, <2>2, <2>3 DEF Follows
  <2>6. QED
    BY <2>1, <2>2, <2>3, <2>4, <2>5, WorksWriting DEF ops
<1>13. ASSUME NEW reported \in SUBSET Assets, NEW more \in BOOLEAN,
              Page(n, reported, more)
       PROVE  Works(n)
  <2> DEFINE left == {a \in reported : ~Skipped(a)}
             page == old.page + 1
             next == [old EXCEPT !.at = "candidates", !.more = more,
                                 !.left = left, !.page = page]
  <2>1. left \subseteq Others /\ left \in SUBSET Assets
    BY <1>3 DEF Skipped, Assets
  <2>2. page \in 0 .. PageLimit
    BY <1>1, <1>13, ScanAssumption DEF Page, PagesLeft, Reader
  <2>3. place[n] = "thread" /\ Thread(n, next) /\ UNCHANGED buffer
    BY <1>1, <1>13 DEF Page, Reads, Reader
  <2> HIDE DEF left, page
  <2>4. next \in Reader /\ next.at = "candidates" /\ next.left = left
    BY <1>1, <1>13, <2>1, <2>2 DEF Reader
  <2> HIDE DEF next
  <2>5. Follows(next, ops)
    BY <2>1, <2>4 DEF Follows
  <2>6. QED
    BY <2>3, <2>4, <2>5, WorksReading DEF ops
<1>14. ASSUME NEW a \in Assets, UpsertCandidate(n, a) PROVE Works(n)
  <2> DEFINE next == [old EXCEPT !.half = a]
             o == Upsert(a)
  <2>1. /\ place[n] = "thread" /\ Thread(n, next) /\ Write(n, o)
        /\ old.at = "candidates" /\ a \in Others
    BY <1>4, <1>14 DEF UpsertCandidate, Reads
  <2>2. /\ next \in Reader /\ next.at = "candidates" /\ next.left = old.left
    BY <1>1, <2>1 DEF Reader
  <2>3. o \in Op /\ ~IsPass(o) /\ ~OfCatalog(o)
    BY <2>1, OpsAre, ScanAssumption
  <2> HIDE DEF next, o
  <2>4. Fits(n, o)
    BY <2>3 DEF Fits, IsBalance
  <2>5. Follows(next, Append(ops, o))
    BY <1>4, <2>1, <2>2 DEF Follows
  <2>6. QED
    BY <2>1, <2>2, <2>3, <2>4, <2>5, WorksWriting DEF ops
<1>15. ASSUME NEW a \in Assets, RecordCandidate(n, a) PROVE Works(n)
  <2> DEFINE left == old.left \ {a}
             next == [old EXCEPT !.left = left, !.half = "none"]
             o == Record(a, Reported)
  <2>1. /\ place[n] = "thread" /\ Thread(n, next) /\ Write(n, o)
        /\ old.at = "candidates" /\ a \in Others
    <3>1. old.half = a /\ old.half \in Others \union {"none"}
      BY <1>1, <1>15 DEF RecordCandidate, Reader
    <3>2. QED
      BY <1>3, <1>15, <3>1 DEF RecordCandidate, Reads
  <2>2. left \subseteq Others /\ left \in SUBSET Assets
    BY <1>3, <1>4, <2>1
  <2> HIDE DEF left
  <2>3. /\ next \in Reader /\ next.at = "candidates" /\ next.left = left
    BY <1>1, <2>1, <2>2 DEF Reader
  <2>4. o \in Op /\ ~IsPass(o) /\ ~OfCatalog(o)
    BY <2>1, OpsAre, ScanAssumption
  <2> HIDE DEF next, o
  <2>5. Fits(n, o)
    BY <2>4 DEF Fits, IsBalance
  <2>6. Follows(next, Append(ops, o))
    BY <2>2, <2>3 DEF Follows
  <2>7. QED
    BY <2>1, <2>3, <2>4, <2>5, <2>6, WorksWriting DEF ops
<1> QED
  BY <1>5, <1>6, <1>7, <1>8, <1>9, <1>11, <1>12, <1>13, <1>14, <1>15
     DEF Reading

-----------------------------------------------------------------------------
(* Types.                                                                  *)

\* Between the records.
LEMMA RestTypes ==
  ASSUME JobCount \in Nat, Wallets \in Seq({Wallets[i] : i \in DOMAIN Wallets}),
         Wallets # <<>>
  PROVE  /\ Resting \in Caller /\ NoReader \in Reader /\ NoBuffer \in Buffer
         /\ \A i \in DOMAIN Wallets :
              /\ Prepare(i) \in Caller /\ Prepare(i).at = "prepare"
              /\ Prepare(i).net = 0 /\ Prepare(i).todo = Networks
              /\ Prepare(i).left = Mandatory /\ Prepare(i).wi = i
         /\ [Resting EXCEPT !.at = "ended"] \in Caller
         /\ \A i \in DOMAIN Wallets :
              [Resting EXCEPT !.at = "reading", !.wi = i] \in Caller
<1>1. 1 \in DOMAIN Wallets /\ 0 \in 0 .. JobCount /\ <<>> \in Seq(Op)
  OBVIOUS
<1>2. Resting \in Caller
  BY <1>1 DEF Resting, Caller
<1>3. NoReader \in Reader
  BY ScanAssumption DEF NoReader, Reader
<1>4. NoBuffer \in Buffer
  BY <1>1, RowsType, StatesType DEF NoBuffer, Buffer
<1>5. ASSUME NEW i \in DOMAIN Wallets
      PROVE  /\ Prepare(i) \in Caller /\ Prepare(i).at = "prepare"
             /\ Prepare(i).net = 0 /\ Prepare(i).todo = Networks
             /\ Prepare(i).left = Mandatory /\ Prepare(i).wi = i
             /\ [Resting EXCEPT !.at = "reading", !.wi = i] \in Caller
  BY <1>1, <1>2 DEF Prepare, Caller, Resting
<1>6. [Resting EXCEPT !.at = "ended"] \in Caller
  BY <1>1, <1>2 DEF Caller
<1> QED
  BY <1>2, <1>3, <1>4, <1>5, <1>6

\* What the inventory and a buffer show of a network are views.
LEMMA ViewTypes ==
  ASSUME Types, NEW n \in Networks
  PROVE  /\ asset[wallet][n] \in [Assets -> Rows]
         /\ discovery[wallet][n] \in States
         /\ pass[wallet][n] \in 0 .. MaxScans
         /\ Inventory(n) \in View /\ Shown(n) \in View
<1>1. wallet \in WalletSet
  BY ConstantsType
<1> HIDE DEF wallet
<1>2. buffer[n] \in Buffer
  BY DEF Types
<1>3. /\ asset[wallet][n] \in [Assets -> Rows]
      /\ discovery[wallet][n] \in States
      /\ pass[wallet][n] \in 0 .. MaxScans
  BY <1>1 DEF Types
<1> QED
  BY <1>2, <1>3 DEF Inventory, Shown, View, Buffer

\* The steps of the inventory keep its types.
LEMMA InventoryTypesKept ==
  ASSUME Types, NEW n \in Networks,
         \/ \E a \in Mandatory : EnsureMandatory(n, a)
         \/ ResetDiscovery(n) \/ Replay(n) \/ Sweep(n)
  PROVE  Types'
<1>1. wallet \in WalletSet /\ caller \in Caller /\ buffer[n] \in Buffer
  BY ConstantsType DEF Types
<1>2. /\ asset[wallet][n] \in [Assets -> Rows]
      /\ discovery[wallet][n] \in States
      /\ pass[wallet][n] \in 0 .. MaxScans
  BY <1>1 DEF Types
<1> HIDE DEF wallet
<1>3. ASSUME NEW a \in Mandatory, EnsureMandatory(n, a) PROVE Types'
  <2>1. asset' \in [WalletSet -> [Networks -> [Assets -> Rows]]]
    <3>1. asset' = [asset EXCEPT ![wallet][n] = [@ EXCEPT ![a] = Pending]]
      BY <1>1, <1>3 DEF EnsureMandatory, Ensured, Types
    <3>2. [asset[wallet][n] EXCEPT ![a] = Pending] \in [Assets -> Rows]
      BY <1>2, RowsType
    <3>3. QED
      BY <1>1, <3>1, <3>2 DEF Types
  <2>2. caller' \in Caller
    <3>1. n \in 0 .. JobCount
      BY ConstantsType
    <3>2. caller.left \ {a} \in SUBSET Mandatory
      BY <1>1 DEF Caller
    <3>3. caller' = [caller EXCEPT !.net = n, !.left = caller.left \ {a}]
      BY <1>1, <1>3 DEF EnsureMandatory, Caller
    <3>4. QED
      BY <1>1, <3>1, <3>2, <3>3 DEF Caller
  <2>3. QED
    BY <1>3, <2>1, <2>2 DEF EnsureMandatory, Types, stage, StageTypeOK
<1>4. ASSUME ResetDiscovery(n) PROVE Types'
  <2>1. discovery' \in [WalletSet -> [Networks -> States]]
    BY <1>1, <1>4, StatesType DEF ResetDiscovery, Types
  <2>2. buffer' \in [Networks -> Buffer]
    <3>1. [NoBuffer EXCEPT !.rows = asset[wallet][n]] \in Buffer
      BY <1>2, RestTypes, ConstantsType, ScanAssumption DEF Buffer
    <3>2. QED
      BY <1>4, <3>1 DEF ResetDiscovery, Types
  <2>3. reader' \in [Networks -> Reader]
    BY <1>4, RestTypes, ConstantsType, ScanAssumption DEF ResetDiscovery, Types
  <2>4. caller' \in Caller
    <3>1. 0 \in 0 .. JobCount /\ caller.todo \ {n} \in SUBSET Networks
      BY <1>1, ConstantsType DEF Caller
    <3>2. caller' = [caller EXCEPT !.todo = caller.todo \ {n}, !.net = 0,
                                   !.left = Mandatory]
      BY <1>1, <1>4 DEF ResetDiscovery, Caller
    <3>3. QED
      BY <1>1, <3>1, <3>2 DEF Caller
  <2>5. QED
    BY <1>4, <2>1, <2>2, <2>3, <2>4
       DEF ResetDiscovery, Types, stage, StageTypeOK
<1>5. ASSUME Replay(n) PROVE Types'
  <2> DEFINE o == Head(caller.operations)
             rows == RowsAfter(asset[wallet][n], o)
             state == StateAfter(discovery[wallet][n], o)
             block == PassAfter(pass[wallet][n], o)
  <2>1. caller.operations \in Seq(Op) /\ caller.operations # <<>>
    BY <1>1, <1>5 DEF Replay, Caller
  <2>2. o \in Op /\ Tail(caller.operations) \in Seq(Op)
    BY <2>1
  <2>3. rows \in [Assets -> Rows] /\ state \in States
    <3>1. After(Inventory(n), o) \in View
      BY <2>2, <1>2, AfterType DEF Inventory, View
    <3>2. QED
      BY <3>1 DEF After, Inventory, View
  <2>4. block \in 0 .. MaxScans
    BY <1>2, <2>2, OpForms DEF PassAfter
  <2>5. /\ asset' = [asset EXCEPT ![wallet][n] = rows]
        /\ discovery' = [discovery EXCEPT ![wallet][n] = state]
        /\ pass' = [pass EXCEPT ![wallet][n] = block]
    BY <1>1, <1>5 DEF Replay, Types
  <2> HIDE DEF rows, state, block, o
  <2>6. asset' \in [WalletSet -> [Networks -> [Assets -> Rows]]]
    BY <1>1, <2>3, <2>5 DEF Types
  <2>7. discovery' \in [WalletSet -> [Networks -> States]]
    BY <1>1, <2>3, <2>5 DEF Types
  <2>8. pass' \in [WalletSet -> [Networks -> 0 .. MaxScans]]
    BY <1>1, <2>4, <2>5 DEF Types
  <2>9. caller' \in Caller
    <3>1. caller' = [caller EXCEPT !.operations = Tail(caller.operations)]
      BY <1>1, <1>5 DEF Replay, Caller
    <3>2. QED
      BY <1>1, <2>2, <3>1 DEF Caller
  <2>10. QED
    BY <1>5, <2>6, <2>7, <2>8, <2>9 DEF Replay, Types, stage, StageTypeOK
<1>6. ASSUME Sweep(n) PROVE Types'
  <2> DEFINE rows == [a \in Assets |->
                        IF a \in ThisScan(n) THEN Settled(asset[wallet][n][a])
                        ELSE asset[wallet][n][a]]
             state == SettledState(discovery[wallet][n])
  <2>1. rows \in [Assets -> Rows] /\ state \in States
    BY <1>2, RowsType, StatesType
  <2>2. /\ asset' = [asset EXCEPT ![wallet][n] = rows]
        /\ discovery' = [discovery EXCEPT ![wallet][n] = state]
    BY <1>1, <1>6 DEF Sweep, Types
  <2> HIDE DEF rows, state
  <2>3. asset' \in [WalletSet -> [Networks -> [Assets -> Rows]]]
    BY <1>1, <2>1, <2>2 DEF Types
  <2>4. discovery' \in [WalletSet -> [Networks -> States]]
    BY <1>1, <2>1, <2>2 DEF Types
  <2>5. caller' \in Caller
    <3>1. 0 \in 0 .. JobCount /\ caller.todo \ {n} \in SUBSET Networks
      BY <1>1, ConstantsType DEF Caller
    <3>2. caller' = [caller EXCEPT !.todo = caller.todo \ {n}, !.net = 0]
      BY <1>1, <1>6 DEF Sweep, Caller
    <3>3. QED
      BY <1>1, <3>1, <3>2 DEF Caller
  <2>6. QED
    BY <1>6, <2>3, <2>4, <2>5 DEF Sweep, Types, stage, StageTypeOK
<1> QED
  BY <1>3, <1>4, <1>5, <1>6

\* A write, or where a thread is, changes nothing else's type.
LEMMA ThreadTypes ==
  ASSUME Types, NEW n \in Networks, Finish(n) \/ Works(n) PROVE Types'
<1>1. CASE Finish(n)
  <2>1. reader' \in [Networks -> Reader]
    BY <1>1, RestTypes, ConstantsType, ScanAssumption DEF Finish, Types
  <2>2. place' \in [Jobs -> {"none", "queue", "thread", "early", "late",
                             "counted", "dropped"}]
    BY <1>1 DEF Finish, Answer, Types, StageTypeOK
  <2>3. QED
    BY <1>1, <2>1, <2>2 DEF Finish, Answer, Types, StageTypeOK, inventory
<1>2. CASE Works(n)
  <2>1. PICK next \in Reader :
          /\ Thread(n, next)
          /\ UNCHANGED buffer \/ \E o \in Op : Write(n, o)
    BY <1>2 DEF Works
  <2>2. reader' \in [Networks -> Reader]
    BY <2>1 DEF Thread, Types
  <2>3. buffer' \in [Networks -> Buffer]
    BY <2>1, WriteEffect DEF Types
  <2>4. QED
    BY <2>1, <2>2, <2>3 DEF Thread, Types, stage, StageTypeOK, inventory
<1> QED
  BY <1>1, <1>2

\* The thread pool moves jobs on; nothing else of it is the model's.
LEMMA StageStep ==
  ASSUME Types,
         Collecting \/ TimeIsUp \/ \E n \in Networks : Starting(n)
  PROVE  /\ UNCHANGED <<inventory, caller, buffer, reader, scans>>
         /\ StageTypeOK'
         /\ \A n \in Networks :
              /\ place'[n] \in {"none", "queue"} => place'[n] = place[n]
              /\ place'[n] = "thread" => place[n] \in {"thread", "queue"}
              /\ place[n] = "none" => place'[n] = "none"
<1> USE DEF Types, StageTypeOK, Networks
<1>1. CASE TimeIsUp
  BY <1>1 DEF TimeIsUp, Expire
<1>2. ASSUME NEW n \in Networks, Starting(n)
      PROVE  /\ UNCHANGED <<inventory, caller, buffer, reader, scans>>
             /\ StageTypeOK'
             /\ \A m \in Networks :
                  /\ place'[m] \in {"none", "queue"} => place'[m] = place[m]
                  /\ place'[m] = "thread" => place[m] \in {"thread", "queue"}
                  /\ place[m] = "none" => place'[m] = "none"
  BY <1>2 DEF Starting, Take
<1>3. CASE Collecting
  <2>1. UNCHANGED <<inventory, caller, buffer, reader, scans>> /\ Waiting
    BY <1>3 DEF Collecting
  <2>2. CASE Check \/ GetTimesOut
    BY <2>1, <2>2 DEF Check, GetTimesOut, Goto
  <2>3. ASSUME NEW j \in Jobs, Get(j)
        PROVE  /\ StageTypeOK'
               /\ \A m \in Networks :
                    /\ place'[m] \in {"none", "queue"} => place'[m] = place[m]
                    /\ place'[m] = "thread" => place[m] \in {"thread", "queue"}
                    /\ place[m] = "none" => place'[m] = "none"
    <3>1. /\ place' = [place EXCEPT ![j] = Collect(j)]
          /\ place[j] \in {"early", "late"} /\ expired' = expired
          /\ Collect(j) \in {"dropped", "counted"}
      BY <2>3 DEF Get, Output, Collect
    <3>2. wait' \in {"drain", "check"}
      BY <2>3 DEF Get, Again, Goto
    <3>3. QED
      BY <3>1, <3>2
  <2>4. CASE Drain
    <3>1. /\ wait' = "returned" /\ expired' = expired
          /\ place' = [j \in Jobs |-> IF j \in Output THEN Collect(j)
                                                     ELSE place[j]]
          /\ \A j \in Jobs : Collect(j) \in {"dropped", "counted"}
          /\ \A j \in Output : place[j] \in {"early", "late"}
      BY <2>4 DEF Drain, Goto, Output, Collect
    <3>2. StageTypeOK'
      BY <3>1
    <3>3. \A m \in Jobs : place'[m] = place[m]
                           \/ /\ place'[m] \in {"dropped", "counted"}
                              /\ place[m] \in {"early", "late"}
      BY <3>1
    <3>4. QED
      BY <2>1, <3>2, <3>3
  <2>5. QED
    BY <2>1, <2>2, <2>3, <2>4 DEF Waiting
<1> QED
  BY <1>1, <1>2, <1>3

\* Every step keeps the types.
LEMMA TypesStep ==
  ASSUME Types, \A n \in Networks : ReaderOK(n), [Next]_vars PROVE Types'
<1>1. /\ caller \in Caller /\ 0 \in 0 .. JobCount
      /\ \A n \in Networks : buffer[n] \in Buffer
      /\ Networks = 1 .. JobCount /\ JobCount \in Nat
  BY ConstantsType DEF Types
<1>2. /\ Resting \in Caller /\ NoReader \in Reader /\ NoBuffer \in Buffer
      /\ [Resting EXCEPT !.at = "ended"] \in Caller
      /\ \A i \in DOMAIN Wallets : Prepare(i) \in Caller
      /\ \A i \in DOMAIN Wallets :
           [Resting EXCEPT !.at = "reading", !.wi = i] \in Caller
  BY <1>1, RestTypes, ScanAssumption
<1>3. ASSUME Forget, UNCHANGED <<inventory, scans>>, caller' \in Caller
      PROVE  Types'
  BY <1>2, <1>3 DEF Forget, Types, StageTypeOK, inventory, Networks
<1>4. ASSUME UNCHANGED <<stage, inventory, reader>>, caller' \in Caller,
             buffer' \in [Networks -> Buffer], scans' \in 0 .. MaxScans
      PROVE  Types'
  BY <1>4 DEF Types, StageTypeOK, stage, inventory
<1>5. 1 \in DOMAIN Wallets /\ Len(Wallets) \in Nat
      /\ DOMAIN Wallets = 1 .. Len(Wallets)
  BY ScanAssumption
<1>6. CASE Collecting \/ TimeIsUp \/ \E n \in Networks : Starting(n)
  BY <1>6, StageStep DEF Types, inventory
<1>7. ASSUME NEW n \in Networks, Reading(n) PROVE Types'
  BY <1>7, ReadingWorks, ThreadTypes
<1>8. ASSUME NEW n \in Networks,
             \/ \E a \in Mandatory : EnsureMandatory(n, a)
             \/ ResetDiscovery(n) \/ Replay(n) \/ Sweep(n)
      PROVE  Types'
  BY <1>8, InventoryTypesKept
<1>9. CASE StartScan
  <2>1. caller' = Prepare(1) /\ UNCHANGED <<stage, inventory, buffer, reader>>
        /\ scans < MaxScans /\ scans' = scans + 1
    BY <1>9 DEF StartScan
  <2>2. caller' \in Caller
    BY <1>2, <1>5, <2>1
  <2>3. scans' \in 0 .. MaxScans
    BY <2>1, ScanAssumption DEF Types
  <2>4. QED
    BY <1>4, <2>1, <2>2, <2>3 DEF Types
<1>10. CASE StartStage
  <2>1. caller' \in Caller
    BY <1>1, <1>2, <1>10 DEF StartStage, Caller
  <2>2. StageTypeOK'
    BY <1>10 DEF StartStage, Launch, Goto, StageTypeOK
  <2>3. QED
    BY <1>10, <2>1, <2>2 DEF StartStage, Types, inventory
<1>11. CASE Save
  <2>1. caller' \in Caller
    BY <1>1, <1>11 DEF Save, Caller
  <2>2. QED
    BY <1>4, <1>11, <2>1 DEF Save, Types
<1>12. ASSUME NEW n \in Networks, Seal(n) PROVE Types'
  <2>1. n \in 0 .. JobCount /\ buffer[n].operations \in Seq(Op)
    BY <1>1 DEF Buffer
  <2>2. caller' \in Caller
    <3>1. caller' = [caller EXCEPT !.net = n,
                                   !.operations = buffer[n].operations]
      BY <1>12 DEF Seal
    <3>2. QED
      BY <1>1, <2>1, <3>1 DEF Caller
  <2>3. buffer' \in [Networks -> Buffer]
    <3>1. [buffer[n] EXCEPT !.sealed = TRUE] \in Buffer
      BY <1>1 DEF Buffer
    <3>2. buffer' = [buffer EXCEPT ![n] = [buffer[n] EXCEPT !.sealed = TRUE]]
      BY <1>12 DEF Seal, Types
    <3>3. QED
      BY <3>1, <3>2 DEF Types
  <2>4. QED
    BY <1>4, <1>12, <2>2, <2>3 DEF Seal, Types
<1>13. CASE Raise \/ Die
  BY <1>2, <1>3, <1>13 DEF Raise, Die
<1>14. CASE EndWallet
  <2>1. caller.wi \in DOMAIN Wallets
    BY <1>1 DEF Caller
  <2>2. caller.wi # Len(Wallets) => caller.wi + 1 \in DOMAIN Wallets
    BY <1>5, <2>1
  <2>3. QED
    BY <1>2, <1>3, <1>14, <2>2 DEF EndWallet
<1>15. CASE UNCHANGED vars
  BY <1>4, <1>15 DEF vars, Types
<1> QED
  BY <1>6, <1>7, <1>8, <1>9, <1>10, <1>11, <1>12, <1>13, <1>14, <1>15
     DEF Next, Scanning

-----------------------------------------------------------------------------
(* What a step leaves alone.                                               *)

\* A network whose rows, writes and pass are as they were.
SameNetwork(n) ==
  /\ UNCHANGED scans
  /\ Left(n)' = Left(n) /\ Inventory(n)' = Inventory(n)
  /\ Shown(n)' = Shown(n)
  /\ pass'[wallet'][n] = pass[wallet][n]
  /\ Replaying(n) => Replaying(n)'

LEMMA NetworkKept ==
  ASSUME NEW n \in Networks, SameNetwork(n), WritesOK(n),
         Leads(Inventory(n), Left(n), Shown(n))
  PROVE  WritesOK(n)' /\ Leads(Inventory(n), Left(n), Shown(n))'
<1>1. asset'[wallet'][n] = asset[wallet][n]
  BY DEF SameNetwork, Inventory
<1>2. WritesOK(n)'
  BY <1>1 DEF WritesOK, SameNetwork, HasPass
<1>3. Leads(Inventory(n), Left(n), Shown(n))'
  BY DEF SameNetwork, Leads
<1> QED
  BY <1>2, <1>3

\* Outside the stage there are no writes; a scan starts, is given up or goes
\* on with the next wallet.
LEMMA OutsideStep ==
  ASSUME IInv, Types', UNCHANGED inventory,
         \A n \in Networks : /\ place'[n] = "none" /\ reader'[n] = NoReader
                             /\ buffer'[n].operations = <<>>
                             /\ ~buffer'[n].sealed,
         \/ caller'.at \in {"idle", "ended"}
         \/ /\ caller'.at = "prepare" /\ caller'.net = 0
            /\ caller'.todo = Networks /\ caller'.left = Mandatory
  PROVE  IInv'
<1>1. (\A n \in Networks : ReaderOK(n))'
  BY DEF ReaderOK, NoReader
<1>2. 0 \notin Networks
  BY ConstantsType DEF IInv
<1>3. CallerOK'
  BY <1>2 DEF CallerOK
<1>4. Unsaved' = {}
  BY DEF Unsaved
<1>5. CatalogOK' /\ BalanceIsOfThePass'
  BY DEF IInv, CatalogOK, BalanceIsOfThePass, inventory
<1>6. SnapshotIsSaved'
  BY DEF SnapshotIsSaved
<1> QED
  BY <1>1, <1>3, <1>4, <1>5, <1>6 DEF IInv

\* Steps of the thread pool.
LEMMA PoolStep ==
  ASSUME IInv, Types',
         Collecting \/ TimeIsUp \/ \E n \in Networks : Starting(n)
  PROVE  IInv'
<1>1. /\ UNCHANGED <<inventory, caller, buffer, reader, scans>>
      /\ \A n \in Networks :
           /\ place'[n] \in {"none", "queue"} => place'[n] = place[n]
           /\ place'[n] = "thread" => place[n] \in {"thread", "queue"}
           /\ place[n] = "none" => place'[n] = "none"
  BY StageStep DEF IInv
<1>2. (\A n \in Networks : ReaderOK(n))'
  <2> SUFFICES ASSUME NEW n \in Networks PROVE ReaderOK(n)'
    OBVIOUS
  <2>1. ReaderOK(n) /\ reader'[n] = reader[n] /\ buffer'[n] = buffer[n]
    BY <1>1 DEF IInv
  <2>2. CASE place[n] = "queue"
    <3>1. ~HasPass(<<>>) /\ ~HasBalances(<<>>)
      BY DEF HasPass, HasBalances
    <3>2. QED
      BY <1>1, <2>1, <2>2, <3>1 DEF ReaderOK, NoReader
  <2>3. CASE place[n] # "queue"
    BY <1>1, <2>1, <2>3 DEF ReaderOK
  <2>4. QED
    BY <2>2, <2>3
<1>3. CallerOK'
  BY <1>1 DEF IInv, CallerOK, inventory, wallet
<1>4. CatalogOK' /\ BalanceIsOfThePass'
  BY <1>1 DEF IInv, CatalogOK, BalanceIsOfThePass, inventory
<1>5. Unsaved' = Unsaved
  BY <1>1 DEF Unsaved
<1>6. ASSUME NEW n \in Unsaved
      PROVE  WritesOK(n)' /\ Leads(Inventory(n), Left(n), Shown(n))'
  <2>1. n \in Networks
    BY <1>6 DEF Unsaved, IInv, Types, Caller
  <2>2. SameNetwork(n)
    BY <1>1 DEF SameNetwork, Left, Inventory, Shown, Replaying, inventory,
       wallet
  <2>3. QED
    BY <1>6, <2>1, <2>2, NetworkKept DEF IInv
<1>7. SnapshotIsSaved'
  BY <1>1 DEF IInv, SnapshotIsSaved, inventory, wallet, ThisScan
<1> QED
  BY <1>2, <1>3, <1>4, <1>5, <1>6, <1>7 DEF IInv

-----------------------------------------------------------------------------
(* The caller's steps outside the inventory.                               *)

LEMMA StartStageStep == ASSUME IInv, Types', StartStage PROVE IInv'
<1>1. /\ caller.at = "prepare" /\ caller.todo = {}
      /\ caller'.at = "reading" /\ caller'.wi = caller.wi
      /\ caller'.net = 0 /\ caller' \in Caller
      /\ UNCHANGED <<inventory, buffer, reader, scans>>
      /\ \A n \in Networks : place'[n] = "queue"
  BY DEF StartStage, Launch, Resting, Networks, Types
<1>2. \A n \in Networks : buffer[n].operations = <<>> /\ reader[n] = NoReader
  BY <1>1 DEF IInv, CallerOK, ReaderOK
<1>3. (\A n \in Networks : ReaderOK(n))'
  BY <1>1, <1>2 DEF ReaderOK, NoReader
<1>4. CallerOK'
  BY <1>1 DEF CallerOK
<1>5. CatalogOK' /\ BalanceIsOfThePass'
  BY <1>1 DEF IInv, CatalogOK, BalanceIsOfThePass, inventory
<1>6. Unsaved' = Networks /\ Unsaved = Networks
  BY <1>1 DEF Unsaved
<1>7. ASSUME NEW n \in Networks
      PROVE  WritesOK(n)' /\ Leads(Inventory(n), Left(n), Shown(n))'
  <2>1. SameNetwork(n)
    BY <1>1 DEF SameNetwork, Left, Inventory, Shown, Replaying, inventory,
       wallet
  <2>2. QED
    BY <1>6, <2>1, NetworkKept DEF IInv
<1>8. SnapshotIsSaved'
  BY <1>1 DEF SnapshotIsSaved
<1> QED
  BY <1>3, <1>4, <1>5, <1>6, <1>7, <1>8 DEF IInv

LEMMA SaveStep == ASSUME IInv, Types', Save PROVE IInv'
<1>1. /\ caller.at = "reading" /\ caller'.at = "save"
      /\ caller'.todo = Networks /\ caller'.wi = caller.wi
      /\ caller'.net = caller.net
      /\ UNCHANGED <<stage, inventory, buffer, reader, scans>>
  BY DEF Save, IInv, Types, Caller
<1>2. caller.net = 0 /\ 0 \notin Networks
  BY <1>1, ConstantsType DEF IInv, CallerOK
<1>3. (\A n \in Networks : ReaderOK(n))'
  BY <1>1 DEF IInv, ReaderOK, stage
<1>4. CallerOK'
  BY <1>1, <1>2 DEF CallerOK
<1>5. CatalogOK' /\ BalanceIsOfThePass'
  BY <1>1 DEF IInv, CatalogOK, BalanceIsOfThePass, inventory
<1>6. Unsaved' = Networks /\ Unsaved = Networks
  BY <1>1 DEF Unsaved
<1>7. ASSUME NEW n \in Networks
      PROVE  WritesOK(n)' /\ Leads(Inventory(n), Left(n), Shown(n))'
  <2>1. SameNetwork(n)
    BY <1>1, <1>2 DEF SameNetwork, Left, Inventory, Shown, Replaying,
       inventory, wallet
  <2>2. QED
    BY <1>6, <2>1, NetworkKept DEF IInv
<1>8. SnapshotIsSaved'
  BY <1>1 DEF SnapshotIsSaved
<1> QED
  BY <1>3, <1>4, <1>5, <1>6, <1>7, <1>8 DEF IInv

\* What a sealed buffer shows is what it showed.
LEMMA SealStep ==
  ASSUME IInv, Types', NEW n \in Networks, Seal(n) PROVE IInv'
<1>1. /\ caller.at = "save" /\ n \in caller.todo /\ caller.net = 0
      /\ caller'.at = "save" /\ caller'.todo = caller.todo
      /\ caller'.wi = caller.wi /\ caller'.net = n
      /\ caller'.operations = buffer[n].operations
      /\ UNCHANGED <<stage, inventory, reader, scans>>
  BY DEF Seal, InTurn, IInv, Types, Caller
<1>2. /\ buffer' = [buffer EXCEPT ![n] = [buffer[n] EXCEPT !.sealed = TRUE]]
      /\ \A m \in Networks : buffer[m] \in Buffer
  BY DEF Seal, IInv, Types
<1>3. \A m \in Networks : /\ buffer'[m].rows = buffer[m].rows
                          /\ buffer'[m].state = buffer[m].state
                          /\ buffer'[m].operations = buffer[m].operations
                          /\ buffer[m].sealed => buffer'[m].sealed
                          /\ m = n => buffer'[m].sealed
  BY <1>2 DEF Buffer, IInv, Types
<1>4. (\A m \in Networks : ReaderOK(m))'
  BY <1>1, <1>3 DEF IInv, ReaderOK, stage
<1>5. CallerOK'
  BY <1>1, <1>3 DEF IInv, CallerOK
<1>6. CatalogOK' /\ BalanceIsOfThePass'
  BY <1>1 DEF IInv, CatalogOK, BalanceIsOfThePass, inventory
<1>7. Unsaved' = Unsaved /\ Unsaved = caller.todo
  BY <1>1 DEF Unsaved
<1>8. ASSUME NEW m \in Unsaved
      PROVE  WritesOK(m)' /\ Leads(Inventory(m), Left(m), Shown(m))'
  <2>1. m \in Networks /\ 0 \notin Networks
    BY <1>7, ConstantsType DEF IInv, Types, Caller
  <2>2. SameNetwork(m)
    BY <1>1, <1>3, <2>1 DEF SameNetwork, Left, Inventory, Shown, Replaying,
       inventory, wallet
  <2>3. QED
    BY <1>8, <2>1, <2>2, NetworkKept DEF IInv
<1>9. SnapshotIsSaved'
  <2>1. \A m \in Networks : ThisScan(m)' = ThisScan(m)
    BY <1>3 DEF ThisScan
  <2>2. QED
    BY <1>1, <1>3, <2>1 DEF IInv, SnapshotIsSaved, inventory, wallet
<1> QED
  BY <1>4, <1>5, <1>6, <1>7, <1>8, <1>9 DEF IInv

-----------------------------------------------------------------------------
(* Preparing a network.                                                    *)

\* A row of the network being prepared: no balance yet.
LEMMA EnsureStep ==
  ASSUME IInv, Types', NEW n \in Networks, NEW b \in Mandatory,
         EnsureMandatory(n, b)
  PROVE  IInv'
<1>1. /\ caller.at = "prepare" /\ n \in caller.todo /\ caller.net \in {0, n}
      /\ caller'.at = "prepare" /\ caller'.todo = caller.todo
      /\ caller'.wi = caller.wi /\ caller'.net = n
      /\ caller'.left = caller.left \ {b}
      /\ UNCHANGED <<stage, discovery, pass, buffer, reader, scans>>
  BY DEF EnsureMandatory, InTurn, IInv, Types, Caller
<1>2. wallet \in WalletSet /\ wallet' = wallet /\ 0 \notin Networks
      /\ b \in Assets
  BY <1>1, ConstantsType DEF IInv, wallet
<1>3. asset' = [asset EXCEPT ![wallet][n] = [@ EXCEPT ![b] = Pending]]
  BY DEF EnsureMandatory, Ensured, IInv, Types
<1> HIDE DEF wallet
<1>4. \A w \in WalletSet, m \in Networks, a \in Assets :
        asset'[w][m][a] = IF w = wallet /\ m = n /\ a = b THEN Pending
                          ELSE asset[w][m][a]
  BY <1>2, <1>3 DEF IInv, Types
<1>5. \A m \in Networks : m # n => asset'[wallet][m] = asset[wallet][m]
  BY <1>2, <1>3 DEF IInv, Types
<1>6. \A a \in Mandatory : a \in Assets
  BY DEF Assets
<1>7. (\A m \in Networks : ReaderOK(m))'
  BY <1>1 DEF IInv, ReaderOK, stage
<1>8. CallerOK'
  <2>1. \A a \in Mandatory \ caller'.left : asset'[wallet][n][a] = Pending
    <3>1. caller.net = 0 => caller.left = Mandatory
      BY <1>1 DEF IInv, CallerOK
    <3>2. caller.net = n => \A a \in Mandatory \ caller.left :
                              asset[wallet][n][a] = Pending
      BY <1>1, <1>2 DEF IInv, CallerOK
    <3>3. QED
      BY <1>1, <1>2, <1>4, <1>6, <3>1, <3>2
  <2>2. QED
    BY <1>1, <1>2, <2>1 DEF IInv, CallerOK, stage
<1>9. CatalogOK' /\ BalanceIsOfThePass'
  BY <1>1, <1>4, <1>6
     DEF IInv, CatalogOK, BalanceIsOfThePass, Pending
<1>10. Unsaved' = Unsaved /\ Unsaved = Networks \ caller.todo
  BY <1>1 DEF Unsaved
<1>11. ASSUME NEW m \in Unsaved
       PROVE  WritesOK(m)' /\ Leads(Inventory(m), Left(m), Shown(m))'
  <2>1. m \in Networks /\ m # n
    BY <1>1, <1>10
  <2>2. SameNetwork(m)
    BY <1>1, <1>2, <1>5, <2>1 DEF SameNetwork, Left, Inventory, Shown,
       Replaying
  <2>3. QED
    BY <1>11, <2>1, <2>2, NetworkKept DEF IInv
<1>12. SnapshotIsSaved'
  BY <1>1 DEF SnapshotIsSaved
<1> QED
  BY <1>7, <1>8, <1>9, <1>10, <1>11, <1>12 DEF IInv

\* The buffer of a network begins with what the inventory shows.
LEMMA ResetStep ==
  ASSUME IInv, Types', NEW n \in Networks, ResetDiscovery(n) PROVE IInv'
<1>1. /\ caller.at = "prepare" /\ caller.net = n /\ caller.left = {}
      /\ caller'.at = "prepare" /\ caller'.todo = caller.todo \ {n}
      /\ caller'.wi = caller.wi /\ caller'.net = 0
      /\ caller'.left = Mandatory
      /\ UNCHANGED <<stage, asset, pass, scans>>
  BY DEF ResetDiscovery, IInv, Types, Caller
<1>2. wallet \in WalletSet /\ wallet' = wallet /\ 0 \notin Networks
  BY <1>1, ConstantsType DEF IInv, wallet
<1> HIDE DEF wallet
<1>3. /\ \A m \in Networks : m # n =>
           /\ discovery'[wallet][m] = discovery[wallet][m]
           /\ buffer'[m] = buffer[m] /\ reader'[m] = reader[m]
      /\ discovery'[wallet][n] = State("pending", 0)
      /\ buffer'[n] = [NoBuffer EXCEPT !.rows = asset[wallet][n]]
      /\ reader'[n] = NoReader
  BY <1>2 DEF ResetDiscovery, IInv, Types
<1>4. /\ buffer'[n].rows = asset[wallet][n]
      /\ buffer'[n].state = State("pending", 0)
      /\ buffer'[n].operations = <<>> /\ ~buffer'[n].sealed
  BY <1>3 DEF NoBuffer
<1>5. n \in caller.todo
  BY <1>1, <1>2 DEF IInv, CallerOK
<1>6. \A m \in Networks : place'[m] = "none"
  BY <1>1 DEF IInv, CallerOK, stage
<1>7. (\A m \in Networks : ReaderOK(m))'
  <2> SUFFICES ASSUME NEW m \in Networks PROVE ReaderOK(m)'
    OBVIOUS
  <2>1. place[m] = "none" /\ ReaderOK(m)
    BY <1>1 DEF IInv, CallerOK
  <2>2. reader'[m] = NoReader /\ buffer'[m].operations = <<>>
    BY <1>3, <1>4, <2>1 DEF ReaderOK
  <2>3. QED
    BY <1>6, <2>2 DEF ReaderOK, NoReader
<1>8. CallerOK'
  BY <1>1, <1>2, <1>3, <1>4, <1>6 DEF IInv, CallerOK
<1>9. CatalogOK' /\ BalanceIsOfThePass'
  BY <1>1 DEF IInv, CatalogOK, BalanceIsOfThePass
<1>10. Unsaved' = Unsaved \union {n} /\ Unsaved = Networks \ caller.todo
  BY <1>1, <1>5 DEF Unsaved, IInv, Types, Caller
<1>11. ASSUME NEW m \in Unsaved
       PROVE  WritesOK(m)' /\ Leads(Inventory(m), Left(m), Shown(m))'
  <2>1. m \in Networks /\ m # n
    BY <1>5, <1>10
  <2>2. SameNetwork(m)
    BY <1>1, <1>2, <1>3, <2>1 DEF SameNetwork, Left, Inventory, Shown,
       Replaying
  <2>3. QED
    BY <1>11, <2>1, <2>2, NetworkKept DEF IInv
<1>12. WritesOK(n)' /\ Leads(Inventory(n), Left(n), Shown(n))'
  <2>1. Left(n)' = <<>>
    BY <1>1, <1>4 DEF Left, Replaying
  <2>2. Shown(n)' = Inventory(n)' /\ Inventory(n)' \in View
    <3>1. asset'[wallet'][n] \in [Assets -> Rows]
          /\ discovery'[wallet'][n] \in States
      BY <1>1, <1>2, <1>3, StatesType DEF IInv, Types
    <3>2. QED
      BY <1>1, <1>2, <1>3, <1>4, <3>1 DEF Shown, Inventory, View
  <2>3. Leads(Inventory(n), Left(n), Shown(n))'
    <3>1. \A v \in View : Leads(v, <<>>, v)
      BY LeadsNowhere
    <3>2. Leads(Inventory(n)', <<>>, Inventory(n)')
      BY <2>2, <3>1
    <3>3. QED
      BY <2>1, <2>2, <3>2
  <2>4. \A a \in Mandatory : asset[wallet][n][a] = Pending
    BY <1>1, <1>2 DEF IInv, CallerOK
  <2>5. WritesOK(n)'
    BY <1>1, <1>2, <2>1, <2>4 DEF WritesOK, Pending
  <2>6. QED
    BY <2>3, <2>5
<1>13. SnapshotIsSaved'
  BY <1>1 DEF SnapshotIsSaved
<1> QED
  BY <1>7, <1>8, <1>9, <1>10, <1>11, <1>12, <1>13 DEF IInv

-----------------------------------------------------------------------------
(* Saving a network.                                                       *)

\* What is left after the first write is in the order it was.
LEMMA TailOf ==
  ASSUME NEW ops \in Seq(Op), ops # <<>>
  PROVE  /\ Tail(ops) \in Seq(Op) /\ Head(ops) \in Op /\ Head(ops) = ops[1]
         /\ Len(ops) \in Nat \ {0} /\ Len(Tail(ops)) = Len(ops) - 1
         /\ \A i \in 1 .. Len(Tail(ops)) : Tail(ops)[i] = ops[i + 1]
  OBVIOUS

\* Replaying one write: what is left still leads to what the buffer shows,
\* and a balance is written under the pass it was read under.
LEMMA ReplayStep ==
  ASSUME IInv, Types', NEW n \in Networks, Replay(n) PROVE IInv'
<1> DEFINE ops == caller.operations
           o == Head(ops)
           rest == Tail(ops)
<1>1. /\ caller.at = "save" /\ caller.net = n /\ ops # <<>>
      /\ caller'.at = "save" /\ caller'.todo = caller.todo
      /\ caller'.wi = caller.wi /\ caller'.net = n
      /\ caller'.operations = rest
      /\ UNCHANGED <<stage, buffer, reader, scans>>
  BY DEF Replay, IInv, Types, Caller
<1>2. wallet \in WalletSet /\ wallet' = wallet /\ 0 \notin Networks
  BY <1>1, ConstantsType DEF IInv, wallet
<1>3. n \in caller.todo /\ ops \in Seq(Op)
  BY <1>1, <1>2 DEF IInv, CallerOK, Types, Caller
<1>4. /\ o \in Op /\ o = ops[1] /\ Len(ops) \in Nat \ {0}
      /\ rest \in Seq(Op) /\ Len(rest) = Len(ops) - 1
      /\ \A i \in 1 .. Len(rest) : rest[i] = ops[i + 1]
  BY <1>1, <1>3, TailOf
<1>5. /\ \A w \in WalletSet, m \in Networks : w # wallet \/ m # n =>
           /\ asset'[w][m] = asset[w][m]
           /\ discovery'[w][m] = discovery[w][m]
           /\ pass'[w][m] = pass[w][m]
      /\ asset'[wallet][n] = RowsAfter(asset[wallet][n], o)
      /\ discovery'[wallet][n] = StateAfter(discovery[wallet][n], o)
      /\ pass'[wallet][n] = PassAfter(pass[wallet][n], o)
  BY <1>2 DEF Replay, IInv, Types
<1>6. asset[wallet][n] \in [Assets -> Rows] /\ pass[wallet][n] \in 0 .. MaxScans
  BY <1>2 DEF IInv, Types
<1> HIDE DEF wallet
<1>7. WritesOK(n) /\ Left(n) = ops /\ Left(n)' = rest
      /\ Replaying(n) /\ Replaying(n)'
      /\ Leads(Inventory(n), ops, Shown(n))
  BY <1>1, <1>3 DEF IInv, Unsaved, Left, Replaying
<1> HIDE DEF ops, o, rest
<1>8. /\ \A i \in 1 .. Len(ops) :
           /\ IsPass(ops[i]) => ops[i].block = scans
           /\ IsBalance(ops[i]) =>
                /\ ops[i].row = Balance(scans)
                /\ \/ \E j \in 1 .. i - 1 : IsPass(ops[j])
                   \/ pass[wallet][n] = scans
      /\ \A i, j \in 1 .. Len(ops) : IsPass(ops[i]) /\ OfCatalog(ops[j]) => i < j
      /\ HasPass(ops) => \A a \in Mandatory :
                           asset[wallet][n][a].status # "success"
  BY <1>7 DEF WritesOK
<1>9. /\ IsPass(o) => o.block = scans
      /\ IsBalance(o) => o.row = Balance(scans) /\ pass[wallet][n] = scans
      /\ OfCatalog(o) => ~HasPass(ops)
      /\ IsPass(o) => HasPass(ops)
      /\ HasPass(rest) => HasPass(ops)
  <2>1. 1 \in 1 .. Len(ops) /\ 1 .. 1 - 1 = {}
    BY <1>4
  <2>2. OfCatalog(o) => ~HasPass(ops)
    <3>1. ASSUME OfCatalog(o), NEW i \in 1 .. Len(ops), IsPass(ops[i])
          PROVE  FALSE
      <4>1. i < 1
        BY <1>4, <1>8, <2>1, <3>1
      <4>2. QED
        BY <4>1
    <3>2. QED
      BY <3>1 DEF HasPass
  <2>3. HasPass(rest) => HasPass(ops)
    <3>1. \A i \in 1 .. Len(rest) : i + 1 \in 1 .. Len(ops)
      BY <1>4
    <3>2. QED
      BY <1>4, <3>1 DEF HasPass
  <2>4. QED
    BY <1>4, <1>8, <2>1, <2>2, <2>3 DEF HasPass
\* The rows and the pass after the write.
<1>10. \A a \in Mandatory :
         asset'[wallet][n][a] = IF o.op = "record" /\ o.asset = a THEN o.row
                                ELSE asset[wallet][n][a]
  <2>1. \A a \in Mandatory : a \in Assets /\ a \notin Others
    BY ConstantsType DEF IInv
  <2>2. o.op = "upsert" => o.asset \in Others
    BY <1>4, OpForms
  <2>3. o.op \in {"upsert", "record", "state", "pass"}
    BY <1>4, OpForms
  <2>4. QED
    BY <1>5, <1>6, <2>1, <2>2, <2>3 DEF RowsAfter
<1>11. pass'[wallet][n] = IF IsPass(o) THEN scans ELSE pass[wallet][n]
  BY <1>5, <1>9 DEF PassAfter, IsPass
<1>12. (\A m \in Networks : ReaderOK(m))'
  BY <1>1 DEF IInv, ReaderOK, stage
<1>13. CallerOK'
  BY <1>1 DEF IInv, CallerOK
<1>14. CatalogOK'
  <2> SUFFICES ASSUME NEW w \in WalletSet, NEW m \in Networks,
                      NEW a \in Mandatory
               PROVE  asset'[w][m][a].status # "provider_only"
    BY DEF CatalogOK
  <2>1. asset[w][m][a].status # "provider_only"
    BY DEF IInv, CatalogOK
  <2>2. o.op = "record" /\ o.asset = a => o.row.status # "provider_only"
    BY <1>4, OpForms
  <2>3. CASE w = wallet /\ m = n
    BY <1>10, <2>1, <2>2, <2>3
  <2>4. CASE w # wallet \/ m # n
    BY <1>5, <2>1, <2>4
  <2>5. QED
    BY <2>3, <2>4
<1>15. ASSUME NEW a \in Mandatory
       PROVE  \/ /\ OfCatalog(o) /\ asset'[wallet][n][a] = o.row
              \/ /\ asset'[wallet][n][a] = asset[wallet][n][a]
  BY <1>10 DEF OfCatalog
<1>16. ASSUME NEW a \in Mandatory,
              asset'[wallet][n][a].status = "success"
       PROVE  /\ asset'[wallet][n][a].block = pass'[wallet][n]
              /\ ~HasPass(rest)
  <2>1. CASE OfCatalog(o) /\ asset'[wallet][n][a] = o.row
    <3>1. IsBalance(o)
      BY <1>16, <2>1 DEF IsBalance, Failed
    <3>2. ~IsPass(o) /\ ~HasPass(ops)
      BY <1>9, <2>1
    <3>3. pass'[wallet][n] = scans /\ o.row = Balance(scans) /\ ~HasPass(rest)
      BY <1>9, <1>11, <3>1, <3>2
    <3>4. QED
      BY <2>1, <3>3 DEF Balance
  <2>2. CASE asset'[wallet][n][a] = asset[wallet][n][a]
    <3>1. ~HasPass(ops)
      BY <1>8, <1>16, <2>2
    <3>2. ~IsPass(o) /\ ~HasPass(rest)
      BY <1>9, <3>1
    <3>3. asset[wallet][n][a].block = pass[wallet][n]
      BY <1>2, <1>16, <2>2 DEF IInv, BalanceIsOfThePass
    <3>4. QED
      BY <1>11, <2>2, <3>2, <3>3
  <2>3. QED
    BY <1>15, <2>1, <2>2
<1>17. BalanceIsOfThePass'
  <2> SUFFICES ASSUME NEW w \in WalletSet, NEW m \in Networks,
                      NEW a \in Mandatory,
                      asset'[w][m][a].status \in {"success", "provider_only"}
               PROVE  asset'[w][m][a].block = pass'[w][m]
    BY DEF BalanceIsOfThePass
  <2>1. CASE w = wallet /\ m = n
    BY <1>14, <1>16, <2>1 DEF CatalogOK
  <2>2. CASE w # wallet \/ m # n
    BY <1>5, <2>2 DEF IInv, BalanceIsOfThePass
  <2>3. QED
    BY <2>1, <2>2
<1>18. Unsaved' = Unsaved /\ Unsaved = caller.todo
  BY <1>1 DEF Unsaved
<1>19. ASSUME NEW m \in Unsaved, m # n
       PROVE  WritesOK(m)' /\ Leads(Inventory(m), Left(m), Shown(m))'
  <2>1. m \in Networks
    BY <1>18 DEF IInv, Types, Caller
  <2>2. SameNetwork(m)
    BY <1>1, <1>2, <1>5, <1>19, <2>1 DEF SameNetwork, Left, Inventory, Shown,
       Replaying
  <2>3. QED
    BY <1>19, <2>1, <2>2, NetworkKept DEF IInv
<1>20. WritesOK(n)'
  <2>1. ASSUME NEW i \in 1 .. Len(rest)
        PROVE  /\ IsPass(rest[i]) => rest[i].block = scans
               /\ IsBalance(rest[i]) =>
                    /\ rest[i].row = Balance(scans)
                    /\ \/ \E j \in 1 .. i - 1 : IsPass(rest[j])
                       \/ pass'[wallet][n] = scans
    <3>1. rest[i] = ops[i + 1] /\ i + 1 \in 1 .. Len(ops) /\ i \in Nat \ {0}
      BY <1>4
    <3>2. ASSUME NEW j \in 1 .. (i + 1) - 1, IsPass(ops[j])
          PROVE  \/ \E k \in 1 .. i - 1 : IsPass(rest[k])
                 \/ pass'[wallet][n] = scans
      <4>1. CASE j = 1
        BY <1>4, <1>11, <3>2, <4>1
      <4>2. CASE j # 1
        <5>1. j - 1 \in 1 .. i - 1 /\ j - 1 \in 1 .. Len(rest)
          BY <3>1, <4>2
        <5>2. rest[j - 1] = ops[j]
          BY <1>4, <5>1
        <5>3. QED
          BY <3>2, <5>1, <5>2
      <4>3. QED
        BY <4>1, <4>2
    <3>3. pass[wallet][n] = scans => pass'[wallet][n] = scans
      BY <1>11
    <3>4. QED
      BY <1>8, <3>1, <3>2, <3>3
  <2>2. ASSUME NEW i \in 1 .. Len(rest), NEW j \in 1 .. Len(rest),
               IsPass(rest[i]), OfCatalog(rest[j])
        PROVE  i < j
    <3>1. i + 1 \in 1 .. Len(ops) /\ j + 1 \in 1 .. Len(ops)
      BY <1>4
    <3>2. i + 1 < j + 1
      BY <1>4, <1>8, <2>2, <3>1
    <3>3. QED
      BY <3>2
  <2>3. HasPass(rest) => \A a \in Mandatory :
                           asset'[wallet][n][a].status # "success"
    BY <1>16
  <2>4. scans' = scans
    BY <1>1
  <2>5. QED
    BY <1>2, <1>7, <2>1, <2>2, <2>3, <2>4 DEF WritesOK, HasPass
<1>21. Leads(Inventory(n), Left(n), Shown(n))'
  <2>1. Inventory(n) \in View
    BY ViewTypes DEF IInv
  <2>2. Leads(After(Inventory(n), o), rest, Shown(n))
    <3>1. ops \in Seq(Op) /\ ops # <<>> /\ Leads(Inventory(n), ops, Shown(n))
      BY <1>1, <1>3, <1>7
    <3>2. Leads(After(Inventory(n), Head(ops)), Tail(ops), Shown(n))
      BY <2>1, <3>1, LeadsOn
    <3>3. QED
      BY <3>2 DEF o, rest
  <2>3. Inventory(n)' = After(Inventory(n), o) /\ Shown(n)' = Shown(n)
    BY <1>1, <1>2, <1>5 DEF Inventory, After, Shown
  <2>4. QED
    BY <1>7, <2>2, <2>3
<1>22. SnapshotIsSaved'
  <2>1. \A m \in Networks : ThisScan(m)' = ThisScan(m)
    BY <1>1 DEF ThisScan
  <2>2. \A m \in Networks \ caller.todo :
          /\ asset'[wallet][m] = asset[wallet][m]
          /\ discovery'[wallet][m] = discovery[wallet][m]
    BY <1>2, <1>3, <1>5
  <2>3. QED
    BY <1>1, <1>2, <2>1, <2>2 DEF IInv, SnapshotIsSaved
<1> QED
  BY <1>12, <1>13, <1>14, <1>17, <1>18, <1>19, <1>20, <1>21, <1>22 DEF IInv

\* With nothing left to replay the inventory shows what the buffer shows; what
\* is still pending is settled, and no balance comes of it.
LEMMA SweepStep ==
  ASSUME IInv, Types', NEW n \in Networks, Sweep(n) PROVE IInv'
<1>1. /\ caller.at = "save" /\ caller.net = n /\ caller.operations = <<>>
      /\ caller'.at = "save" /\ caller'.todo = caller.todo \ {n}
      /\ caller'.wi = caller.wi /\ caller'.net = 0
      /\ UNCHANGED <<stage, pass, buffer, reader, scans>>
  BY DEF Sweep, IInv, Types, Caller
<1>2. wallet \in WalletSet /\ wallet' = wallet /\ 0 \notin Networks
  BY <1>1, ConstantsType DEF IInv, wallet
<1>3. n \in caller.todo /\ caller.todo \subseteq Networks
  BY <1>1, <1>2 DEF IInv, CallerOK, Types, Caller
<1>4. asset[wallet][n] \in [Assets -> Rows]
  BY ViewTypes DEF IInv
<1>5. asset[wallet][n] = buffer[n].rows /\ discovery[wallet][n] = buffer[n].state
  <2>1. Leads(Inventory(n), <<>>, Shown(n))
    BY <1>1, <1>3 DEF IInv, Unsaved, Left, Replaying
  <2>2. Inventory(n) \in View
    BY ViewTypes DEF IInv
  <2>3. Shown(n) = Inventory(n)
    BY <2>1, <2>2, LeadsNowhere
  <2>4. QED
    BY <2>3 DEF Shown, Inventory
<1> HIDE DEF wallet
<1>6. /\ \A w \in WalletSet, m \in Networks : w # wallet \/ m # n =>
           /\ asset'[w][m] = asset[w][m]
           /\ discovery'[w][m] = discovery[w][m]
      /\ asset'[wallet][n] =
           [a \in Assets |-> IF a \in ThisScan(n) THEN Settled(asset[wallet][n][a])
                             ELSE asset[wallet][n][a]]
      /\ discovery'[wallet][n] = SettledState(discovery[wallet][n])
  BY <1>2 DEF Sweep, IInv, Types
<1>7. \A a \in Assets : asset'[wallet][n][a] \in
                          {asset[wallet][n][a], Settled(asset[wallet][n][a])}
  BY <1>6
<1>8. \A a \in Mandatory : a \in Assets
  BY DEF Assets
<1>9. \A m \in Networks : ThisScan(m)' = ThisScan(m)
  BY <1>1 DEF ThisScan
<1>10. (\A m \in Networks : ReaderOK(m))'
  BY <1>1 DEF IInv, ReaderOK, stage
<1>11. CallerOK'
  BY <1>1, <1>2 DEF IInv, CallerOK
<1>12. ASSUME NEW w \in WalletSet, NEW m \in Networks, NEW a \in Mandatory
       PROVE  \/ asset'[w][m][a] = asset[w][m][a]
              \/ asset'[w][m][a] = Failed
  <2>1. CASE w = wallet /\ m = n
    BY <1>7, <1>8, <2>1 DEF Settled
  <2>2. CASE w # wallet \/ m # n
    BY <1>6, <2>2
  <2>3. QED
    BY <2>1, <2>2
<1>13. CatalogOK' /\ BalanceIsOfThePass'
  BY <1>1, <1>12 DEF IInv, CatalogOK, BalanceIsOfThePass, Failed
<1>14. Unsaved' = caller.todo \ {n} /\ Unsaved = caller.todo
  BY <1>1 DEF Unsaved
<1>15. ASSUME NEW m \in Unsaved'
       PROVE  WritesOK(m)' /\ Leads(Inventory(m), Left(m), Shown(m))'
  <2>1. m \in Networks /\ m # n /\ m \in Unsaved
    BY <1>3, <1>14
  <2>2. SameNetwork(m)
    BY <1>1, <1>2, <1>6, <2>1 DEF SameNetwork, Left, Inventory, Shown,
       Replaying
  <2>3. QED
    BY <2>1, <2>2, NetworkKept DEF IInv
<1>16. SnapshotIsSaved'
  <2> SUFFICES ASSUME NEW m \in Networks \ caller'.todo
               PROVE  /\ \A a \in ThisScan(m) :
                           asset'[wallet][m][a] = Settled(buffer[m].rows[a])
                      /\ discovery'[wallet][m] = SettledState(buffer[m].state)
    BY <1>1, <1>2, <1>9 DEF SnapshotIsSaved
  <2>1. CASE m = n
    <3>1. ThisScan(n) \subseteq Assets
      BY DEF ThisScan, Assets
    <3>2. QED
      BY <1>5, <1>6, <2>1, <3>1
  <2>2. CASE m # n
    <3>1. m \in Networks \ caller.todo
      BY <1>1, <2>2
    <3>2. /\ \A a \in ThisScan(m) :
               asset[wallet][m][a] = Settled(buffer[m].rows[a])
          /\ discovery[wallet][m] = SettledState(buffer[m].state)
      BY <1>1, <3>1 DEF IInv, SnapshotIsSaved
    <3>3. QED
      BY <1>2, <1>6, <2>2, <3>2
  <2>3. QED
    BY <2>1, <2>2
<1> QED
  BY <1>10, <1>11, <1>13, <1>15, <1>16 DEF IInv

-----------------------------------------------------------------------------
(* A thread works or ends.                                                 *)

\* A thread works while the stage runs or the wallet is being saved.
LEMMA ThreadMeans ==
  ASSUME IInv, NEW n \in Networks, place[n] = "thread"
  PROVE  caller.at \in {"reading", "save"}
  BY DEF IInv, CallerOK, Types, Caller

\* It ends: its buffer stays as it is.
LEMMA FinishStep ==
  ASSUME IInv, Types', NEW n \in Networks, Finish(n) PROVE IInv'
<1>1. /\ UNCHANGED <<inventory, caller, buffer, scans>>
      /\ reader' = [reader EXCEPT ![n] = NoReader]
      /\ place' = [place EXCEPT ![n] = IF expired THEN "late" ELSE "early"]
      /\ place[n] = "thread"
  BY DEF Finish, Answer
<1>2. /\ \A m \in Networks : m # n => /\ place'[m] = place[m]
                                      /\ reader'[m] = reader[m]
      /\ place'[n] \in {"late", "early"} /\ reader'[n] = NoReader
  BY <1>1 DEF IInv, Types, StageTypeOK, Networks
<1>3. (\A m \in Networks : ReaderOK(m))'
  BY <1>1, <1>2 DEF IInv, ReaderOK, NoReader
<1>4. CallerOK'
  BY <1>1, <1>2, ThreadMeans DEF IInv, CallerOK, inventory, wallet
<1>5. CatalogOK' /\ BalanceIsOfThePass'
  BY <1>1 DEF IInv, CatalogOK, BalanceIsOfThePass, inventory
<1>6. Unsaved' = Unsaved
  BY <1>1 DEF Unsaved
<1>7. ASSUME NEW m \in Unsaved
      PROVE  WritesOK(m)' /\ Leads(Inventory(m), Left(m), Shown(m))'
  <2>1. m \in Networks
    BY <1>7 DEF Unsaved, IInv, Types, Caller
  <2>2. SameNetwork(m)
    BY <1>1 DEF SameNetwork, Left, Inventory, Shown, Replaying, inventory,
       wallet
  <2>3. QED
    BY <1>7, <2>1, <2>2, NetworkKept DEF IInv
<1>8. SnapshotIsSaved'
  BY <1>1 DEF IInv, SnapshotIsSaved, inventory, wallet, ThisScan
<1> QED
  BY <1>3, <1>4, <1>5, <1>6, <1>7, <1>8 DEF IInv

\* It goes on: a write it may make fits behind those it made.
LEMMA WorksStep ==
  ASSUME IInv, Types', NEW n \in Networks, Works(n) PROVE IInv'
<1>1. PICK next \in Reader :
        /\ place[n] = "thread" /\ Thread(n, next)
        /\ \/ UNCHANGED buffer /\ Follows(next, buffer[n].operations)
           \/ \E o \in Op : /\ Fits(n, o) /\ Write(n, o)
                            /\ Follows(next, Append(buffer[n].operations, o))
  BY DEF Works
<1>2. /\ reader' = [reader EXCEPT ![n] = next]
      /\ UNCHANGED <<stage, inventory, caller, scans>>
  BY <1>1 DEF Thread
<1>3. /\ reader'[n] = next
      /\ \A m \in Networks : m # n => reader'[m] = reader[m]
  BY <1>2 DEF IInv, Types
<1>4. place[n] = "thread" /\ caller.at \in {"reading", "save"}
  BY <1>1, ThreadMeans
<1>5. CatalogOK' /\ BalanceIsOfThePass'
  BY <1>2 DEF IInv, CatalogOK, BalanceIsOfThePass, inventory
<1>6. Unsaved' = Unsaved
  BY <1>2 DEF Unsaved
<1>7. wallet' = wallet
  BY <1>2 DEF wallet
<1>8. ASSUME NEW m \in Unsaved, buffer'[m] = buffer[m]
      PROVE  WritesOK(m)' /\ Leads(Inventory(m), Left(m), Shown(m))'
  <2>1. m \in Networks
    BY <1>8 DEF Unsaved, IInv, Types, Caller
  <2>2. SameNetwork(m)
    BY <1>2, <1>7, <1>8 DEF SameNetwork, Left, Inventory, Shown, Replaying,
       inventory
  <2>3. QED
    BY <1>8, <2>1, <2>2, NetworkKept DEF IInv
<1>9. CASE UNCHANGED buffer /\ Follows(next, buffer[n].operations)
  <2>1. (\A m \in Networks : ReaderOK(m))'
    BY <1>2, <1>3, <1>4, <1>9 DEF IInv, ReaderOK, Follows, stage
  <2>2. CallerOK'
    BY <1>2, <1>4, <1>7, <1>9 DEF IInv, CallerOK, inventory
  <2>3. SnapshotIsSaved'
    BY <1>2, <1>7, <1>9 DEF IInv, SnapshotIsSaved, inventory, ThisScan
  <2>4. QED
    BY <1>5, <1>6, <1>8, <1>9, <2>1, <2>2, <2>3 DEF IInv
<1>10. ASSUME NEW o \in Op, Fits(n, o), Write(n, o),
              Follows(next, Append(buffer[n].operations, o))
       PROVE  IInv'
  <2> DEFINE ops == buffer[n].operations
             longer == Append(ops, o)
  <2>1. /\ ~buffer[n].sealed /\ ~buffer'[n].sealed
        /\ \A m \in Networks : m # n => buffer'[m] = buffer[m]
        /\ buffer'[n].operations = longer
        /\ Shown(n)' = After(Shown(n), o)
    BY <1>10, WriteEffect DEF IInv
  <2>2. ops \in Seq(Op)
    BY DEF IInv, Types, Buffer
  <2>3. /\ Len(longer) = Len(ops) + 1 /\ Len(ops) \in Nat
        /\ \A i \in 1 .. Len(ops) : longer[i] = ops[i]
        /\ longer[Len(ops) + 1] = o
        /\ \A i \in 1 .. Len(longer) : i \in 1 .. Len(ops) \/ i = Len(ops) + 1
    BY <2>2
  <2>4. /\ n \in Unsaved /\ ~Replaying(n) /\ ~Replaying(n)'
        /\ caller.at = "save" => n \in caller.todo
    <3>1. caller.at = "reading" => caller.net = 0 /\ n # 0
      BY ConstantsType DEF IInv, CallerOK
    <3>2. caller.at = "save" => n \in caller.todo /\ n # caller.net
      BY <2>1 DEF IInv, CallerOK
    <3>3. QED
      BY <1>2, <1>4, <3>1, <3>2 DEF Unsaved, Replaying
  <2>5. Left(n) = ops /\ Left(n)' = longer
    BY <2>1, <2>4 DEF Left
  <2> HIDE DEF ops, longer
  <2>6. ReaderOK(n) /\ WritesOK(n) /\ Leads(Inventory(n), ops, Shown(n))
    BY <2>4, <2>5 DEF IInv
  <2>7. ReaderOK(n)'
    <3>1. Follows(next, longer)
      BY <1>10 DEF ops, longer
    <3>2. place'[n] = "thread"
      BY <1>2, <1>4 DEF stage
    <3>3. QED
      BY <1>3, <2>1, <3>1, <3>2 DEF Follows, ReaderOK
  <2>8. (\A m \in Networks : ReaderOK(m))'
    BY <1>2, <1>3, <2>1, <2>7 DEF IInv, ReaderOK, stage
  <2>9. CallerOK'
    BY <1>2, <1>4, <1>7, <2>1, <2>4 DEF IInv, CallerOK, inventory, Replaying
  <2>10. SnapshotIsSaved'
    <3> SUFFICES ASSUME caller.at = "save", NEW m \in Networks \ caller.todo
                 PROVE  /\ \A a \in ThisScan(m)' :
                             asset[wallet][m][a] = Settled(buffer'[m].rows[a])
                        /\ discovery[wallet][m] = SettledState(buffer'[m].state)
      BY <1>2, <1>7 DEF SnapshotIsSaved, inventory
    <3>1. buffer'[m] = buffer[m]
      BY <2>1, <2>4
    <3>2. ThisScan(m)' = ThisScan(m)
      BY <3>1 DEF ThisScan
    <3>3. QED
      BY <3>1, <3>2 DEF IInv, SnapshotIsSaved
  <2>11. Leads(Inventory(n), Left(n), Shown(n))'
    <3>1. Inventory(n) \in View /\ Shown(n) \in View
      BY ViewTypes DEF IInv
    <3>2. Leads(Inventory(n), Append(ops, o), After(Shown(n), o))
      BY <2>2, <2>6, <3>1, LeadsFurther DEF ops
    <3>3. Inventory(n)' = Inventory(n)
      BY <1>2, <1>7 DEF Inventory, inventory
    <3>4. Leads(Inventory(n)', longer, Shown(n)')
      BY <2>1, <3>2, <3>3 DEF longer
    <3>5. QED
      BY <2>5, <3>4
  <2>12. WritesOK(n)'
    <3>1. /\ \A i \in 1 .. Len(ops) :
               /\ IsPass(ops[i]) => ops[i].block = scans
               /\ IsBalance(ops[i]) =>
                    /\ ops[i].row = Balance(scans)
                    /\ \E j \in 1 .. i - 1 : IsPass(ops[j])
          /\ \A i, j \in 1 .. Len(ops) :
               IsPass(ops[i]) /\ OfCatalog(ops[j]) => i < j
          /\ \A a \in Mandatory : asset[wallet][n][a].status # "success"
      BY <2>4, <2>5, <2>6 DEF WritesOK
    <3>2. /\ IsPass(o) => o.block = scans /\ ~HasBalances(ops)
          /\ IsBalance(o) => o.row = Balance(scans) /\ HasPass(ops)
          /\ ~(IsPass(o) /\ OfCatalog(o))
      <4>1. /\ reader[n].at = "select" => ~HasBalances(ops)
            /\ reader[n].at = "balances" /\ ~reader[n].broken => HasPass(ops)
        BY <1>4, <2>6 DEF ReaderOK, ops
      <4>2. QED
        BY <1>10, <4>1 DEF Fits, IsBalance, IsPass, OfCatalog
    <3>3. ASSUME NEW i \in 1 .. Len(longer)
          PROVE  /\ IsPass(longer[i]) => longer[i].block = scans
                 /\ IsBalance(longer[i]) =>
                      /\ longer[i].row = Balance(scans)
                      /\ \E j \in 1 .. i - 1 : IsPass(longer[j])
      <4>1. CASE i \in 1 .. Len(ops)
        <5>1. longer[i] = ops[i]
              /\ \A j \in 1 .. i - 1 : longer[j] = ops[j]
          BY <2>3, <4>1
        <5>2. QED
          BY <3>1, <4>1, <5>1
      <4>2. CASE i = Len(ops) + 1
        <5>1. longer[i] = o /\ 1 .. i - 1 = 1 .. Len(ops)
          BY <2>3, <4>2
        <5>2. HasPass(ops) => \E j \in 1 .. i - 1 : IsPass(longer[j])
          BY <2>3, <5>1 DEF HasPass
        <5>3. QED
          BY <3>2, <5>1, <5>2
      <4>3. QED
        BY <2>3, <4>1, <4>2
    <3>4. ASSUME NEW i \in 1 .. Len(longer), NEW j \in 1 .. Len(longer),
                 IsPass(longer[i]), OfCatalog(longer[j])
          PROVE  i < j
      <4>1. CASE i \in 1 .. Len(ops) /\ j \in 1 .. Len(ops)
        BY <2>3, <3>1, <3>4, <4>1
      <4>2. CASE i \in 1 .. Len(ops) /\ j = Len(ops) + 1
        BY <2>3, <4>2
      <4>3. CASE i = Len(ops) + 1 /\ j \in 1 .. Len(ops)
        <5>1. IsPass(o) /\ OfCatalog(ops[j])
          BY <2>3, <3>4, <4>3
        <5>2. HasBalances(ops)
          BY <4>3, <5>1 DEF HasBalances
        <5>3. QED
          BY <3>2, <5>1, <5>2
      <4>4. CASE i = Len(ops) + 1 /\ j = Len(ops) + 1
        BY <2>3, <3>2, <3>4, <4>4
      <4>5. QED
        BY <2>3, <4>1, <4>2, <4>3, <4>4
    <3>5. asset'[wallet'][n] = asset[wallet][n] /\ scans' = scans
      BY <1>2, <1>7 DEF inventory
    <3>6. QED
      BY <2>5, <3>1, <3>3, <3>4, <3>5 DEF WritesOK
  <2>13. QED
    BY <1>5, <1>6, <1>8, <2>1, <2>8, <2>9, <2>10, <2>11, <2>12 DEF IInv,
       Unsaved, Types, Caller
<1> QED
  BY <1>1, <1>9, <1>10

-----------------------------------------------------------------------------
(* The invariant, and what it gives.                                       *)

LEMMA InvInit == ASSUME Init PROVE IInv
<1>1. JobCount \in Nat \ {0} /\ 0 \notin Networks /\ 1 \in DOMAIN Wallets
  BY ScanAssumption, StageAssumption DEF Networks, Jobs
<1>2. Types
  <2>1. /\ Resting \in Caller /\ NoReader \in Reader /\ NoBuffer \in Buffer
    BY <1>1, RestTypes, ScanAssumption
  <2>2. StageTypeOK
    BY DEF Init, StageInit, StageTypeOK
  <2>3. QED
    BY <2>1, <2>2, RowsType, StatesType, ScanAssumption DEF Init, Types
<1>3. \A n \in Networks : /\ place[n] = "none" /\ reader[n] = NoReader
                          /\ buffer[n].operations = <<>>
                          /\ ~buffer[n].sealed
  BY DEF Init, StageInit, NoBuffer, Networks
<1>4. \A n \in Networks : ReaderOK(n)
  BY <1>3 DEF ReaderOK, NoReader
<1>5. caller.at = "idle"
  BY DEF Init, Resting
<1>6. CallerOK
  BY <1>3, <1>5 DEF CallerOK
<1>7. CatalogOK /\ BalanceIsOfThePass
  BY DEF Init, CatalogOK, BalanceIsOfThePass, NoRow, Assets
<1>8. Unsaved = {} /\ SnapshotIsSaved
  BY <1>5 DEF Unsaved, SnapshotIsSaved
<1> QED
  BY <1>2, <1>4, <1>6, <1>7, <1>8 DEF IInv

LEMMA InvStep == ASSUME IInv, [Next]_vars PROVE IInv'
<1>1. Types'
  BY TypesStep DEF IInv
<1>2. CASE Collecting \/ TimeIsUp \/ \E n \in Networks : Starting(n)
  BY <1>1, <1>2, PoolStep
<1>3. CASE StartStage \/ Save
  BY <1>1, <1>3, StartStageStep, SaveStep
<1>4. ASSUME NEW n \in Networks,
             \/ \E a \in Mandatory : EnsureMandatory(n, a)
             \/ ResetDiscovery(n) \/ Seal(n) \/ Replay(n) \/ Sweep(n)
      PROVE  IInv'
  BY <1>1, <1>4, EnsureStep, ResetStep, SealStep, ReplayStep, SweepStep
<1>5. ASSUME NEW n \in Networks, Reading(n) PROVE IInv'
  BY <1>1, <1>5, ReadingWorks, FinishStep, WorksStep DEF IInv
<1>6. /\ JobCount \in Nat /\ 1 \in DOMAIN Wallets
      /\ \A i \in DOMAIN Wallets :
           /\ Prepare(i).at = "prepare" /\ Prepare(i).net = 0
           /\ Prepare(i).todo = Networks /\ Prepare(i).left = Mandatory
  <2>1. JobCount \in Nat /\ 1 \in DOMAIN Wallets
    BY ScanAssumption, StageAssumption
  <2>2. QED
    BY <2>1, RestTypes, ScanAssumption
<1>7. CASE StartScan
  <2>1. /\ caller.at \in {"idle", "ended"} /\ caller' = Prepare(1)
        /\ UNCHANGED <<stage, inventory, buffer, reader>>
    BY <1>7 DEF StartScan
  <2>2. \A n \in Networks :
          /\ place'[n] = "none" /\ reader'[n] = NoReader
          /\ buffer'[n].operations = <<>> /\ ~buffer'[n].sealed
    BY <2>1 DEF IInv, CallerOK, ReaderOK, stage
  <2>3. QED
    BY <1>1, <1>6, <2>1, <2>2, OutsideStep
<1>8. CASE Raise \/ EndWallet \/ Die
  <2>1. Forget /\ UNCHANGED inventory
    BY <1>8 DEF Raise, EndWallet, Die
  <2>2. \A n \in Networks :
          /\ place'[n] = "none" /\ reader'[n] = NoReader
          /\ buffer'[n].operations = <<>> /\ ~buffer'[n].sealed
    BY <2>1 DEF Forget, NoBuffer
  <2>3. \/ caller'.at \in {"idle", "ended"}
        \/ /\ caller'.at = "prepare" /\ caller'.net = 0
           /\ caller'.todo = Networks /\ caller'.left = Mandatory
    <3>1. CASE Raise \/ Die
      BY <3>1 DEF Raise, Die, Resting
    <3>2. CASE EndWallet
      <4>1. caller.wi \in 1 .. Len(Wallets) /\ Len(Wallets) \in Nat
            /\ DOMAIN Wallets = 1 .. Len(Wallets)
        BY ScanAssumption DEF IInv, Types, Caller
      <4>2. CASE caller.wi = Len(Wallets)
        BY <3>2, <4>2 DEF EndWallet, Resting
      <4>3. CASE caller.wi # Len(Wallets)
        <5>1. caller.wi + 1 \in DOMAIN Wallets
          BY <4>1, <4>3
        <5>2. caller' = Prepare(caller.wi + 1)
          BY <3>2, <4>3 DEF EndWallet
        <5>3. QED
          BY <1>6, <5>1, <5>2
      <4>4. QED
        BY <4>2, <4>3
    <3>3. QED
      BY <1>8, <3>1, <3>2
  <2>4. QED
    BY <1>1, <2>1, <2>2, <2>3, OutsideStep
<1>9. CASE UNCHANGED vars
  <2>1. /\ UNCHANGED <<stage, inventory, caller, buffer, reader, scans>>
        /\ wallet' = wallet
    BY <1>9 DEF vars, wallet
  <2>2. (\A n \in Networks : ReaderOK(n))' /\ CallerOK'
    BY <2>1 DEF IInv, ReaderOK, CallerOK, stage, inventory
  <2>3. CatalogOK' /\ BalanceIsOfThePass' /\ Unsaved' = Unsaved
    BY <2>1 DEF IInv, CatalogOK, BalanceIsOfThePass, Unsaved, inventory
  <2>4. ASSUME NEW n \in Unsaved
        PROVE  WritesOK(n)' /\ Leads(Inventory(n), Left(n), Shown(n))'
    <3>1. n \in Networks
      BY <2>4 DEF Unsaved, IInv, Types, Caller
    <3>2. SameNetwork(n)
      BY <2>1 DEF SameNetwork, Left, Inventory, Shown, Replaying, inventory
    <3>3. QED
      BY <2>4, <3>1, <3>2, NetworkKept DEF IInv
  <2>5. SnapshotIsSaved'
    BY <2>1 DEF IInv, SnapshotIsSaved, inventory, ThisScan
  <2>6. QED
    BY <1>1, <2>2, <2>3, <2>4, <2>5 DEF IInv
<1> QED
  BY <1>2, <1>3, <1>4, <1>5, <1>7, <1>8, <1>9 DEF Next, Scanning

\* Every reachable state of a scan satisfies IInv: the writes a network has
\* left lead from what the inventory shows to what its buffer shows, and no
\* balance stands among them before its pass (ScanBuffer, _scan_network).
THEOREM Invariant == Spec => []IInv
  BY InvInit, InvStep, PTL DEF Spec

\* The variables keep their types through every scan, death and restart.
THEOREM TypeCorrect == Spec => []TypeOK
<1>1. ASSUME IInv PROVE TypeOK
  BY <1>1 DEF IInv, Types, TypeOK, Caller, Buffer, Reader
<1> QED
  BY <1>1, Invariant, PTL

\* Once a network is saved the inventory is what its buffer shows, whatever a
\* late thread still tries: persist seals the buffer, replays every write it
\* accepted in their order, and scan settles what is still pending.
THEOREM SavedIsSnapshot == Spec => []SnapshotIsSaved
<1>1. IInv => SnapshotIsSaved
  BY DEF IInv
<1> QED
  BY <1>1, Invariant, PTL

\* A balance the inventory shows as read was read at the block of the
\* network's last pass, however many scans died between _ensure_mandatory and
\* the last write of persist.
THEOREM BalancesAreOfTheirPass == Spec => []BalanceIsOfThePass
<1>1. IInv => BalanceIsOfThePass
  BY DEF IInv
<1> QED
  BY <1>1, Invariant, PTL
=============================================================================
