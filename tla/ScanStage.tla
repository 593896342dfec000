----------------------------- MODULE ScanStage -----------------------------
(***************************************************************************)
(* scan: the networks of a wallet are read by parallel threads, each into  *)
(* a ScanBuffer of its own, until the wallet's deadline; the caller seals  *)
(* each buffer, replays its writes into the inventory one commit at a time *)
(* and settles what is still pending.  A process may die anywhere; the     *)
(* next scan starts over.                                                  *)
(*                                                                         *)
(* A balance is the block it was read at, the block the scan that read it. *)
(* The endpoints of a network and their cooldowns only decide whether a    *)
(* block is found.  Networks are numbered in the order the scan takes them *)
(* in.  Threads of an earlier wallet are forgotten: their buffers are      *)
(* sealed.                                                                 *)
(***************************************************************************)
EXTENDS ParallelStage, Sequences

CONSTANTS
  Wallets,       (* the sequence of wallets                                *)
  Mandatory,     (* the assets of the catalog, native among them           *)
  Others,        (* what only the provider may report                      *)
  Discoverable,  (* networks the provider knows                            *)
  PageLimit,     (* pages of the provider: 100 in the code                 *)
  MaxScans       (* bound: scans                                           *)

Networks == Jobs
Assets == Mandatory \union Others

ASSUME ScanAssumption ==
  /\ Wallets \in Seq({Wallets[i] : i \in DOMAIN Wallets}) /\ Wallets # <<>>
  /\ Mandatory # {} /\ Mandatory \intersect Others = {}
  /\ Discoverable \subseteq Networks /\ "none" \notin Assets
  /\ PageLimit \in Nat \ {0} /\ MaxScans \in Nat

VARIABLES
  \* the inventory
  asset,      (* assets: status and block of each row                      *)
  discovery,  (* discovery_state: status and cursor                        *)
  pass,       (* passes: the block of the last pass, 0 none                *)
  \* the scan
  caller,     (* at: the step; wi: the wallet; todo: networks to prepare   *)
              (* or save; net: the one in hand, with its assets left to    *)
              (* prepare or its operations left to replay                  *)
  buffer,     (* of each network: sealed, its view, the writes it accepted *)
  reader,     (* of each network: where _scan_network is                   *)
  scans       (* scans so far                                              *)

inventory == <<asset, discovery, pass>>
vars == <<stage, inventory, caller, buffer, reader, scans>>

WalletSet == {Wallets[i] : i \in DOMAIN Wallets}
NoRow == [status |-> "none", block |-> 0]
Pending == [status |-> "pending", block |-> 0]
Failed == [status |-> "failed", block |-> 0]     (* error, deferred, ...   *)
Balance(block) == [status |-> "success", block |-> block]
Reported == [status |-> "provider_only", block |-> 0]
State(status, cursor) == [status |-> status, cursor |-> cursor]

NoBuffer == [sealed |-> FALSE, rows |-> [a \in Assets |-> NoRow],
             state |-> State("pending", 0), operations |-> <<>>]
NoReader == [at |-> "start", left |-> {}, broken |-> FALSE,
             half |-> "none", page |-> 0, more |-> FALSE]
Resting == [at |-> "idle", wi |-> 1, todo |-> {}, net |-> 0,
            left |-> {}, operations |-> <<>>]

Init ==
  /\ StageInit
  /\ asset = [w \in WalletSet |-> [n \in Networks |-> [a \in Assets |-> NoRow]]]
  /\ discovery = [w \in WalletSet |-> [n \in Networks |-> State("none", 0)]]
  /\ pass = [w \in WalletSet |-> [n \in Networks |-> 0]]
  /\ caller = Resting
  /\ buffer = [n \in Networks |-> NoBuffer]
  /\ reader = [n \in Networks |-> NoReader]
  /\ scans = 0

wallet == Wallets[caller.wi]

Forget ==
  /\ wait' = "off" /\ expired' = FALSE
  /\ place' = [n \in Networks |-> "none"]
  /\ buffer' = [n \in Networks |-> NoBuffer]
  /\ reader' = [n \in Networks |-> NoReader]

-----------------------------------------------------------------------------
(* Preparing a wallet: _ensure_mandatory, _reset_discovery, its buffers.   *)

Prepare(i) == [Resting EXCEPT !.at = "prepare", !.wi = i, !.todo = Networks,
                              !.left = Mandatory]

InTurn(n) == n \in caller.todo /\ \A m \in caller.todo : n <= m

StartScan ==
  /\ caller.at \in {"idle", "ended"} /\ scans < MaxScans
  /\ scans' = scans + 1 /\ caller' = Prepare(1)
  /\ UNCHANGED <<stage, inventory, buffer, reader>>

\* Mutated form: the row is updated and keeps its status.
KeepsStatus(row) == IF row = NoRow THEN Pending ELSE row

\* The last payload, which only orders the reads, is kept; its status is not.
Ensured(row) == Pending

EnsureMandatory(n, a) ==
  /\ caller.at = "prepare" /\ InTurn(n) /\ a \in caller.left
  /\ caller.net \in {0, n}
  /\ asset' = [asset EXCEPT ![wallet][n][a] = Ensured(@)]
  /\ caller' = [caller EXCEPT !.net = n, !.left = @ \ {a}]
  /\ UNCHANGED <<stage, discovery, pass, buffer, reader, scans>>

ResetDiscovery(n) ==
  /\ caller.at = "prepare" /\ caller.net = n /\ caller.left = {}
  /\ discovery' = [discovery EXCEPT ![wallet][n] = State("pending", 0)]
  /\ buffer' = [buffer EXCEPT ![n] = [NoBuffer EXCEPT !.rows = asset[wallet][n]]]
  /\ reader' = [reader EXCEPT ![n] = NoReader]
  /\ caller' = [caller EXCEPT !.todo = @ \ {n}, !.net = 0,
                              !.left = Mandatory]
  /\ UNCHANGED <<stage, asset, pass, scans>>

StartStage ==
  /\ caller.at = "prepare" /\ caller.todo = {}
  /\ \E late \in BOOLEAN : Launch(late)
  /\ caller' = [Resting EXCEPT !.at = "reading", !.wi = caller.wi]
  /\ UNCHANGED <<inventory, buffer, reader, scans>>

-----------------------------------------------------------------------------
(* A thread's writes into its buffer.                                      *)

\* Mutated form: the buffer takes writes at any time.
AcceptsLate(n) == TRUE

\* _check, under the buffer's lock.
Accepts(n) == ~buffer[n].sealed /\ ~expired

Upsert(a) == [op |-> "upsert", asset |-> a]
Record(a, row) == [op |-> "record", asset |-> a, row |-> row]
WriteState(state) == [op |-> "state", state |-> state]
SavePass(block) == [op |-> "pass", block |-> block]

\* What a write does to the rows and to the discovery state, in the buffer
\* and in the inventory alike.
RowsAfter(rows, o) ==
  CASE o.op = "upsert" -> [rows EXCEPT ![o.asset] =
                             IF @ = NoRow THEN Pending ELSE @]
    [] o.op = "record" -> [rows EXCEPT ![o.asset] = o.row]
    [] OTHER -> rows
StateAfter(state, o) == IF o.op = "state" THEN o.state ELSE state
PassAfter(block, o) == IF o.op = "pass" THEN o.block ELSE block

Write(n, o) ==
  /\ Accepts(n)
  /\ buffer' = [buffer EXCEPT ![n].rows = RowsAfter(@, o),
                              ![n].state = StateAfter(@, o),
                              ![n].operations = Append(@, o)]

Reads(n, at) == place[n] = "thread" /\ reader[n].at = at
Thread(n, next) ==
  /\ reader' = [reader EXCEPT ![n] = next]
  /\ UNCHANGED <<stage, inventory, caller, scans>>

-----------------------------------------------------------------------------
(* _scan_network                                                           *)

StartReading(n) ==
  /\ Reads(n, "start")
  /\ Thread(n, [reader[n] EXCEPT !.at = "select"])
  /\ IF n \in Discoverable THEN UNCHANGED buffer
     ELSE Write(n, WriteState(State("disabled", 0)))

\* _select_endpoint
SelectEndpoint(n) ==
  /\ Reads(n, "select") /\ Write(n, SavePass(scans))
  /\ Thread(n, [reader[n] EXCEPT !.at = "balances", !.left = Mandatory])

NoEndpoint(n) ==
  /\ Reads(n, "select") /\ UNCHANGED buffer
  /\ Thread(n, [reader[n] EXCEPT !.at = "balances", !.left = Mandatory,
                                 !.broken = TRUE])

\* _balances: after an error of the endpoint the other assets fail unasked.
AfterAsset(n, a, broken) ==
  [reader[n] EXCEPT !.left = @ \ {a}, !.broken = broken,
     !.at = IF reader[n].left # {a} THEN @
            ELSE IF n \in Discoverable THEN "page" ELSE "done"]

ReadBalance(n, a) ==
  /\ Reads(n, "balances") /\ a \in reader[n].left /\ ~reader[n].broken
  /\ Write(n, Record(a, Balance(scans)))
  /\ Thread(n, AfterAsset(n, a, FALSE))

FailBalance(n, a, broken) ==
  /\ Reads(n, "balances") /\ a \in reader[n].left
  /\ reader[n].broken => broken
  /\ Write(n, Record(a, Failed))
  /\ Thread(n, AfterAsset(n, a, broken))

\* A mandatory row stays the catalog's.
Skipped(a) == a \in Mandatory

PagesLeft(n) == reader[n].page < PageLimit

\* _discover: a page, its candidates, the cursor.
Page(n, reported, more) ==
  /\ Reads(n, "page") /\ ~expired /\ PagesLeft(n)
  /\ UNCHANGED buffer
  /\ Thread(n, [reader[n] EXCEPT !.at = "candidates", !.more = more,
                    !.left = {a \in reported : ~Skipped(a)}, !.page = @ + 1])

\* A refused page, a cycle of cursors, the page limit.
PageFails(n) ==
  /\ Reads(n, "page")
  /\ Write(n, WriteState(State("failed", buffer[n].state.cursor)))
  /\ Thread(n, [reader[n] EXCEPT !.at = "done"])

UpsertCandidate(n, a) ==
  /\ Reads(n, "candidates") /\ a \in reader[n].left
  /\ reader[n].half = "none"
  /\ Write(n, Upsert(a))
  /\ Thread(n, [reader[n] EXCEPT !.half = a])

RecordCandidate(n, a) ==
  /\ Reads(n, "candidates") /\ reader[n].half = a
  /\ Write(n, Record(a, Reported))
  /\ Thread(n, [reader[n] EXCEPT !.left = @ \ {a}, !.half = "none"])

EndPage(n) ==
  /\ Reads(n, "candidates") /\ reader[n].left = {}
  /\ Write(n, WriteState(IF reader[n].more
                           THEN State("pending", reader[n].page)
                           ELSE State("success", 0)))
  /\ Thread(n, [reader[n] EXCEPT
                  !.at = IF reader[n].more THEN "page" ELSE "done"])

\* The thread is done, or its next check or write was refused, or an error
\* nobody handles ended it: it may end at any step.
Finish(n) ==
  /\ Answer(n) /\ reader' = [reader EXCEPT ![n] = NoReader]
  /\ UNCHANGED <<inventory, caller, buffer, scans>>

Reading(n) ==
  \/ StartReading(n) \/ SelectEndpoint(n) \/ NoEndpoint(n)
  \/ PageFails(n) \/ EndPage(n) \/ Finish(n)
  \/ \E a \in Mandatory : ReadBalance(n, a)
  \/ \E a \in Mandatory, broken \in BOOLEAN : FailBalance(n, a, broken)
  \/ \E reported \in SUBSET Assets, more \in BOOLEAN : Page(n, reported, more)
  \/ \E a \in Assets : UpsertCandidate(n, a) \/ RecordCandidate(n, a)

-----------------------------------------------------------------------------
(* Saving a wallet: persist, then what is still pending.                   *)

Collecting == Waiting /\ UNCHANGED <<inventory, caller, buffer, reader, scans>>
Starting(n) == Take(n) /\ UNCHANGED <<inventory, caller, buffer, reader, scans>>
TimeIsUp == Expire /\ UNCHANGED <<inventory, caller, buffer, reader, scans>>

Save ==
  /\ caller.at = "reading" /\ wait = "returned"
  /\ caller' = [caller EXCEPT !.at = "save", !.todo = Networks]
  /\ UNCHANGED <<stage, inventory, buffer, reader, scans>>

\* The exception of run_parallel leaves scan as well.
Raise ==
  /\ caller.at = "reading" /\ wait = "raised"
  /\ caller' = [Resting EXCEPT !.at = "ended"]
  /\ Forget /\ UNCHANGED <<inventory, scans>>

Seal(n) ==
  /\ caller.at = "save" /\ InTurn(n) /\ caller.net = 0
  /\ buffer' = [buffer EXCEPT ![n].sealed = TRUE]
  /\ caller' = [caller EXCEPT !.net = n, !.operations = buffer[n].operations]
  /\ UNCHANGED <<stage, inventory, reader, scans>>

Replay(n) ==
  /\ caller.at = "save" /\ caller.net = n /\ caller.operations # <<>>
  /\ LET o == Head(caller.operations) IN
       /\ asset' = [asset EXCEPT ![wallet][n] = RowsAfter(@, o)]
       /\ discovery' = [discovery EXCEPT ![wallet][n] = StateAfter(@, o)]
       /\ pass' = [pass EXCEPT ![wallet][n] = PassAfter(@, o)]
  /\ caller' = [caller EXCEPT !.operations = Tail(@)]
  /\ UNCHANGED <<stage, buffer, reader, scans>>

\* mandatory_ids and discovered_ids
ThisScan(n) ==
  Mandatory \union {a \in Assets : \E i \in DOMAIN buffer[n].operations :
                                      buffer[n].operations[i] = Upsert(a)}

Settled(row) == IF row.status = "pending" THEN Failed ELSE row
SettledState(s) == IF s.status = "pending" THEN State("failed", s.cursor) ELSE s

Sweep(n) ==
  /\ caller.at = "save" /\ caller.net = n /\ caller.operations = <<>>
  /\ asset' = [asset EXCEPT ![wallet][n] =
                 [a \in Assets |-> IF a \in ThisScan(n) THEN Settled(@[a])
                                   ELSE @[a]]]
  /\ discovery' = [discovery EXCEPT ![wallet][n] = SettledState(@)]
  /\ caller' = [caller EXCEPT !.todo = @ \ {n}, !.net = 0]
  /\ UNCHANGED <<stage, pass, buffer, reader, scans>>

EndWallet ==
  /\ caller.at = "save" /\ caller.todo = {}
  /\ IF caller.wi = Len(Wallets)
       THEN caller' = [Resting EXCEPT !.at = "ended"]
       ELSE caller' = Prepare(caller.wi + 1)
  /\ Forget /\ UNCHANGED <<inventory, scans>>

Die ==
  /\ caller.at # "idle"
  /\ caller' = Resting
  /\ Forget /\ UNCHANGED <<inventory, scans>>

Scanning ==
  \/ \E n \in Networks : \/ \E a \in Mandatory : EnsureMandatory(n, a)
                         \/ ResetDiscovery(n) \/ Seal(n) \/ Replay(n)
                         \/ Sweep(n)
  \/ StartStage \/ Collecting \/ Save \/ Raise \/ EndWallet

Next ==
  \/ Scanning \/ StartScan \/ TimeIsUp \/ Die
  \/ \E n \in Networks : Starting(n) \/ Reading(n)

Spec == Init /\ [][Next]_vars

\* The calling thread runs and time passes; a reader may hang forever.
FairSpec == Spec /\ WF_vars(Scanning) /\ WF_vars(TimeIsUp)

-----------------------------------------------------------------------------
(* Properties.                                                             *)

Rows == [status : {"none", "pending", "failed", "success", "provider_only"},
         block : 0 .. MaxScans]
States == [status : {"none", "pending", "failed", "success", "disabled"},
           cursor : 0 .. PageLimit]

\* The values the variables may have.
TypeOK ==
  /\ StageTypeOK
  /\ asset \in [WalletSet -> [Networks -> [Assets -> Rows]]]
  /\ discovery \in [WalletSet -> [Networks -> States]]
  /\ pass \in [WalletSet -> [Networks -> 0 .. MaxScans]]
  /\ caller.at \in {"idle", "prepare", "reading", "save", "ended"}
  /\ caller.wi \in DOMAIN Wallets
  /\ caller.todo \subseteq Networks /\ caller.left \subseteq Mandatory
  /\ \A n \in Networks :
       /\ buffer[n].rows \in [Assets -> Rows] /\ buffer[n].state \in States
       /\ reader[n].at \in {"start", "select", "balances", "page",
                            "candidates", "done"}
  /\ scans \in 0 .. MaxScans

\* Once a network is saved, the inventory is what its buffer shows, whatever
\* a late thread still tries: every write the buffer accepted is there, and
\* nothing this scan touched is left pending (ScanBuffer.persist, the loop
\* after it in scan).
SnapshotIsSaved ==
  caller.at = "save" =>
    \A n \in Networks \ caller.todo :
      /\ \A a \in ThisScan(n) : asset[wallet][n][a] = Settled(buffer[n].rows[a])
      /\ discovery[wallet][n] = SettledState(buffer[n].state)

\* A balance the inventory shows as read was read at the block of the
\* network's last pass, wherever the scans before died (_ensure_mandatory,
\* save_pass, _balances; the provider's word never replaces it).
BalanceIsOfThePass ==
  \A w \in WalletSet, n \in Networks, a \in Mandatory :
    asset[w][n][a].status \in {"success", "provider_only"} =>
      asset[w][n][a].block = pass[w][n]

\* A scan ends though its readers hang (run_parallel, the deadline).
ScanEnds == caller.at \in {"prepare", "reading", "save"}
              ~> caller.at \in {"idle", "ended"}

\* "Unfinished checks of the scan get `deferred'" (README.md:80): when a scan
\* has ended by itself none of its mandatory rows is left pending.
UnfinishedIsDeferred ==
  caller.at = "ended" =>
    \A w \in WalletSet, n \in Networks, a \in Mandatory :
      asset[w][n][a].status # "pending"
=============================================================================
