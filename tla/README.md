# A TLA+ model of evm-inventory

`evm-inventory` scans EVM wallets, plans routes from every asset to a Bitget
deposit address and executes them. Its risk is in the execution: real transfers
are signed by a process that may die at any line, against nodes that lose and
hide transactions, under a loss budget, and continued by later runs from one
SQLite file. This directory models that core and the planning, collecting and
scanning around it, checks it with TLC and proves the safety properties of eight
components with TLAPS. Paths below are relative to `src/src/evm_inventory/`.

## The system

| Part | Code | State it keeps | Model |
| --- | --- | --- | --- |
| Route journal | `journal.py`, `models.py` | groups, positions, steps, checkpoints, losses (SQLite) | `RouteJournal`, and the modules that write it |
| Direct deposits | `route_execution.py`, `executor.py` | the step's row, preparation, recovery; the chain and the exchange | `DirectDeposit`, `DirectDepositProofs` |
| Groups | `route_execution.py` | realized loss, position states, order of entries | `GroupExecution`, `LossBudget`, `GroupExecutionProofs` |
| Route steps | `route_execution.py`, `route_preparation.py`, `weth_continuation.py`, ... | approvals, legs, conversion, baseline, requote | `RouteLegs`, `FundsPath`, `RouteLegsProofs` |
| Canonical migration | `canonical_source_bootstrap.py` | checkpoints of a canonical withdrawal | `RouteLegs` (what execution calls) |
| Relay routes | `relay_execution.py`, `relay*.py` | a position's Relay checkpoint, its one step; Relay, the exchange | `RelayExecution`, `OneTransfer`, `RelayProofs` |
| DeFi exits | `defi_execution.py`, `defi_operations.py` | one intent per exit, the inventory lock | `DefiExit` |
| DeFi queue | `defi_batch.py` | wallets, actions, transactions of the queue | `DefiBatch`, `DefiBatchProofs` |
| Collection | `collection.py` | the saved run of a wallet, what is frozen | `Collection`, `CollectionProofs` |
| Route planning | `live_plan.py`, `consolidation.py` | a search per position, the group's admission | `RoutePlanning`, `CollectionProofs` |
| Parallel stages | `stages.py`, `scan_buffer.py` | job and output queues, the deadline, sealed buffers | `ParallelStage`, `ScanStage`, `ScanStageProofs` |
| Scanner and store | `scanner.py`, `store.py` | asset and discovery rows, passes | `ScanStage`, `ScanStageProofs` |
| Quote jobs | `quote_jobs.py`, its use in `lifi.py` | one row per quote, leases, memory of failures | `QuoteJobs`, `QuoteProofs` |
| LI.FI quota | `lifi_quota.py`, `lifi_http.py` | windows, provider quota, cooldowns, dispatch times | `LifiQuota`, `QuoteProofs` |
| Proxy pool, HTTP cache, price cache | `proxy_pool.py`, `lifi_http.py`, `quote_parallel.py` | current transport, cooldowns, cached answers | not modelled |
| Fees, values, policies | `fee_planner.py`, `valuation.py`, ... | none | not modelled: verdicts of the other modules |
| Files, reports, remote clients | `workbook.py`, `report.py`, `bitget.py`, `rpc.py`, ... | none | left out: I/O and parsing |

How they interact. A command (`cli.py`) takes the writer lock of the inventory
file (`store.py:37`). A scan fills it, a stage per wallet. A collection plans
routes through `live_plan.py`, whose quotes go to `lifi.py` (`QuoteJobs`, then
the quota) and `relay.py`, saves its plan and hands groups of it to the
executor. That opens the journal, preflights, and calls `execute_group_entries`
for the positions of one wallet and network. Each position runs its steps through
`_submit_live_step`; a step journals its intent, signs, journals the hash and
broadcasts (`broadcast_durable_transaction`). Every journal write is a commit of
its own. A stage deadline ends a run anywhere it waits; the next run reads the
journal and goes on. DeFi exits use the same durable broadcast under the
inventory lock, called by a worker over a queue or by an operator.

What is hard: crashes between any two commits; transfers the network has lost,
or knows and hides; nonces other transfers take; receipts a reorganisation
undoes; recoveries that sign a second transfer; answers of providers that come
late or out of order; several processes on one quota; daemon threads that
outlive their stage; plans made of quotes that expire one after the other; a
budget summed over positions prepared at different times. `PROJECT.json` lists
each at its line.

## Modules

- **`RouteJournal`**: the states of positions, groups and steps and the
  transitions `record_position_state` and `record_group_state` permit. Data
  shared by the next three.
- **`DirectDeposit`**: one position whose only step is a transfer to the
  exchange. The variables are grouped as the journal (survives a crash), the
  running executor (does not), the chain and the exchange. `pc` names the place
  between two commits: `entry` (the loop body of `execute_group_entries`),
  `submit` (`_submit_live_step`), `nonce`, `sign`, `send` (`_execute_entry` and
  `broadcast_durable_transaction`), `replay`, `receipt`, `seen` (the exchange's
  list), `settle` and `close` (the commits of the position's and of the group's
  outcome), `scroll`, `celo`, `restore` (the two recoveries). A payload is the
  number of the preflight that prepared it, a transaction its step key, nonce
  and payload. The network may lose, hide, gossip, mine, revert, finalise and
  reorganise transfers, and mine others of the wallet. An entry may come from a
  journal of an older version (`legacy`), the case both recoveries exist for.
- **`GroupExecution`**: the loop itself over several positions with its budget,
  halts and run of a halted group. Signing and sending a step is one action
  here: `DirectDeposit` opens it up. `prepared` is the loss of the saved
  preparation, `signed` that of the preparation that was signed; `realized` and
  `accounted` are the columns.
- **`LossBudget`**: the abstract promise of a group: each position sent at most
  once, their losses within the budget, nothing sent after a position needs a
  review. `GroupExecution` implements it (`KeepsBudget`), with `spent <- signed`
  and `stopped <-` some position is under review.
- **`RouteLegs`**: one position that takes several transfers: a bridge; a swap or
  an unwrap and then a bridge quoted from what it yielded; a canonical withdrawal;
  a hop to WETH that a later leg continues. `saved` holds the checkpoints
  (`prepared`, `converted`, `requoted`, `replacement`, `baseline`,
  `continuation`), `row` the steps by leg and route, because a step's key
  contains its quote. Bridge, provider status and refund are three facts of the
  network, seen independently.
- **`FundsPath`**: the promise of such a route: every leg sent once and only out
  of funds that have arrived, completed only after the credit, for good.
  `RouteLegs` implements it (`PathPromise`).
- **`RelayExecution`**: one position routed through Relay. A run either prepares
  (quote, checkpoint, nonce, signature, send) when the journal holds no hash, or
  observes the saved one (receipt, Relay's status, the payment on the destination
  network, the exchange's credit). `pc` names the place between two commits. A
  quote is the number of its preparation and stands for Relay's request;
  `request`, `status`, `proven` and `credit` are what Relay did, what it says of
  it, which payments have a receipt with a block on top, and what the exchange says.
- **`OneTransfer`**: what a position promises its operator: sent at most once,
  closed for good, by a credit or, after something was sent, by a review.
  `RelayExecution` implements it (`SingleTransfer`).
- **`DefiExit`**: `execute_defi_action` for a set of actions and two processes:
  the lock, the look at a saved hash, the fresh check, signature, send, receipt.
- **`DefiBatch`** (extends it): the queue's tables and the worker over them, with
  its retries, pauses, skips and reviews. An operator may run the same command
  beside it; the worker may die between any two commits.
- **`Collection`**: a wallet's saved run: planning rounds, the choice of what may
  be executed while the rest waits (`Held`: the gas coin stays until the tokens
  of its network have left and the routes that sign there are credited), what is
  frozen against replanning, resumption of the saved plan by a later invocation
  under the same or another policy. A position's execution is one signature and
  one outcome. A key's group is the wallet's chain and quote (`live_plan.py:1756`)
  or, through Relay, its run. A search that is not finished reserves the coins of
  the enabled target networks only (`EnabledTargets`, `Owners`;
  `collection.py:388,400`).
- **`RoutePlanning`**: the plan of one wallet on one network. A position asks its
  ways out (direct transfer, unwrap, targets) and prunes and prepares what they
  offer (`_route_choices`); the group is admitted (`_plan_group`, `admit_group`)
  and looked at once more when everything is planned
  (`_invalidate_expired_comparisons`), under both selection policies.
- **`ParallelStage`**: `run_parallel` and its `Deadline`: queues, daemon readers,
  the places at which the caller reads the clock. **`ScanStage`** (extends it): the
  readers are the networks of a wallet, each writing into its `ScanBuffer`, which
  the caller seals, replays and sweeps; the process may die at any commit.
- **`QuoteJobs`**: one row of `quote_jobs` and the invocations that look it up,
  claim it, renew the lease, answer and fail. Each reads the clock before it has
  the write lock (`quote_jobs.py:111`), so decisions rest on old times.
- **`LifiQuota`**: one bucket of the quota store and the callers dispatching
  through it. `reserve_request` and `observe` use a clock read before the lock,
  `mark_started` one read under it; answers are recorded in any order. Marking a
  request as started (`MarkStarted`, the last check of cooldown and pace) and
  sending it (`SendRequest`) are two steps, the lock being released between them
  (`lifi_http.py:276` and `286`). `starts`, `asked` and `promises` are histories
  for the properties: requests sent, cooldowns asked for, counts promised.
- **`MC*`**: instances for TLC. **`DirectDepositProofs`**, **`GroupExecutionProofs`**,
  **`RouteLegsProofs`**, **`RelayProofs`**, **`DefiBatchProofs`**,
  **`ScanStageProofs`**: the theorems about the module they are named after, and
  their proofs. **`QuoteProofs`** holds those of `QuoteJobs` and `LifiQuota`, the two
  tables behind a quote, and **`CollectionProofs`** those of `RoutePlanning` and
  `Collection`, a wallet's plan and what is made of it. Where one module extends two
  components, the definitions of one carry a prefix: `JobInit`, `JobNext`, `JobSpec`
  in `QuoteJobs`, `PlanInit`, `PlanNext`, `PlanSpec` in `RoutePlanning`.

Definitions that no specification uses (marked "Mutated form", or named for the
mistake they make, next to the definition they imitate) are plausible bugs; each
property is checked to fail when one of them replaces its model. `TypeOK` is an
invariant of two runs; in the other modules with proofs the theorem
`TypeCorrect` (`JobTypeCorrect` for `QuoteJobs`) states it; for `RoutePlanning` it
is `PlanTypes`, a part of `PlanInv`; elsewhere it describes the variables.

## Runs

| Run | Question | Bounds |
| --- | --- | --- |
| `direct_safety` | is a deposit mined once, journaled before it is sent, completed only when credited? | all four kinds, 3 preparations, nonces 0..1, 2 crashes anywhere, 1 reorganisation |
| `direct_liveness` | does a credited deposit become completed? | plain, CELO, Scroll; 2 preparations; 1 crash anywhere but between the two commits of an outcome |
| `group` | is the budget kept, no loss forgotten, the group closed after its positions? | 3 positions (bridge, direct, bridge), losses 1 or 3, budget 5, 2 crashes |
| `route` | is every leg sent once, out of arrived funds, with the checkpoints a restart needs, and does the route end? | seven entries over all shapes, 2 routes, 2 interruptions |
| `relay` | does a Relay position send once, observe with its own checkpoint, close for its own credit, and complete once delivered? | 2 quotes, nonces 0..1, 2 crashes anywhere, 1 reorganisation, a workbook that may be edited |
| `defi` | is an exit signed once, does the queue agree with the chain, does it end? | 2 actions of one wallet and an empty wallet behind it, 2 attempts, 1 crash, 1 operator's command |
| `collection` | can what is in flight always be resumed, is gas kept, does a collection end? | a token, its network's coin and that of another network, the one target; 2 policies, 2 quotes each, 2 runs, 1 interruption |
| `planning` | is the cheapest way selected, the limit kept, nothing ready by an expired comparison? | 2 positions, one native; a direct transfer, an unwrap, a target; clock to 2, quotes live 1 |
| `scan` | is what a buffer accepted saved, no balance older than its pass, and does a scan end though readers hang? | 2 networks on 2 threads, one of them discovering, a mandatory and a discovered asset, 1 page, 2 scans |
| `scan_race` (violated) | is every unfinished check deferred? | 1 network, 1 scan |
| `quote_jobs` | are leases honoured and answers never overwritten by late ones? | 2 invocations, 3 claims, clock to 4, lease 2 |
| `lifi_quota` | are the window, the reserve, the provider's count and cooldowns kept? | a planner and an executor, 3 requests, limit 2, window 3, counts 1 or 2, clock to 4 |

Why the bounds suffice. Three preparations are the original transfer, a
replacement and a spare for a requote that must not happen; two nonces are the
deposit's own and one that a foreign transfer or a second signature takes; two
crashes let the first leave something half done and the second interrupt its
continuation; one reorganisation undoes a receipt a decision was made on. Three
positions put one before and one after the one that fails, and with losses of 1
or 3 against 5 a budget is exceeded by the second or third. Two routes are the
one a step was signed for and the one it must not be signed for again. A token,
its gas coin and a coin of another network are the smallest collection in which
gas is waited for, arrives from elsewhere, or is waited for in a circle; one
network is a target and the other not, with routes through both. In
planning one position has quotes without gas and the other firm ones; a clock one
tick longer than a quote's life lets one quote of a comparison expire before the
other. Two readers let one hang, or write late, while the other is collected. A
clock of 4 lets a lease or a window run out with requests on both sides of its
end, and two callers are what every race here needs; a third adds requests, which
the bounds on claims and reservations already cover.

`CHECK_DEADLOCK FALSE` stands where the system really stops: what is completed is
not executed again, the last scan has ended, and the bounded clocks end.

## Where the code does not keep what it says

One disagreement is a run of its own:

- *A stage that ends at the wrong moment* (`scan_race`, `stages.py:210`). The loop
  of `run_parallel` asks for the remaining time and then calls
  `deadline.check()`; a deadline that passes in between raises
  `StageDeadlineExceeded` out of the function that was to return what is pending,
  and out of `scan`: nothing of the wallet is persisted and its rows stay
  `pending` instead of `deferred`.

The modules show others, each a few steps away from a property that is checked.
They stand here because whoever changes this code should know them:

- *Interrupted between two commits* (`route_execution.py:749`): `manual_review`
  is on the position, the group is still active. Later runs are refused the
  transition back before the saved hash is looked at. `direct_liveness` leaves this
  crash point out (`BeforeOutcome`); with `"close"` in `CrashPoints`,
  `CreditedCompletes` fails.
- *Scroll's winner* (`route_execution.py:3075`) is saved at the first receipt; with
  `MaxReorgs = 1`, `CreditedCompletes` fails for Scroll.
- *Deferred gas, then no budget, and a failed sibling* (`route_execution.py:651`):
  halting writes a review state over `gas_deferred`, or over a later
  `deposit_pending`, which the journal refuses; the exception escapes the loop
  before the group is halted.
- *A loss counted twice* (`route_execution.py:1063`): added to the group in a
  commit before the position is completed. It errs on the safe side: the budget
  shrinks.
- *A converted canonical withdrawal is never requoted*
  (`canonical_source_bootstrap.py:779`): the closure asks for a row that is
  `confirmed` or `credited`, which nothing on this path writes; the position goes to
  review (in `RouteLegs`, `Requote`'s guard for the shape `canonical`).
- *After a swap* (`route_execution.py:1016-1026`) the last position's halt writes a
  group state its current one does not permit; and a stop between
  `record_requote_after_swap` and the replacement's checkpoint makes the next run
  refuse a second requote.
- *A hash recorded but never sent* stays ambiguous: `RouteEnds` excludes it
  (`Stranded`), DeFi exits put it under review.
- *A failed gas estimate of an exit* is meant to be retried, but the pattern
  (`defi_batch.py:556`) does not match the reason `fee_planner.py:130` builds, so
  it goes to review.
- *Sent after the mark* (`lifi_http.py:276-286`): a comment (`lifi_quota.py:317`)
  says "actual starts remain paced", but what is paced is the mark under the lock.
  A process delayed between mark and send lets two requests go out within a second,
  and a request marked before a 429 was recorded goes out inside its cooldown.
  `CooldownHonoured` is stated for the requests the cooldown does stop; nothing is
  claimed of the pace of sends.
- *A route found late, through a network that is no target* (`collection.py:401`):
  while its search was open nothing held that network's coin, so it may find its
  gas gone, as `test_collection_destination_gas.py:375` asks for. `GasIsKept`
  speaks of target networks there (without that condition it fails when two assets
  are quoted again); `KnownRoutesKeepGas` of every network, for the routes found.
- *The lower bound of a native route* (`live_plan.py:1140`: "Zero gas is a proven
  lower bound") does not hold where preparing it quotes it again for a smaller
  input; `CheapestIsSelected` compares only prepared routes there.

## Fairness

Safety runs assume none. `DirectDeposit!FairSpec`: the executor is run again and
goes on (weak fairness of its steps); the decisive reads (a receipt that is
there, a credit that is there) are made infinitely often when they are enabled
again and again (strong fairness), because a run only yields when its deadline
(`stages.py`) passes and every run starts with the observation of what was
sent. Network and exchange are under no fairness. `RelayExecution!FairSpec`: weak
fairness of the executor, strong of the five reads on the way to the credit, none
of the networks, Relay, the exchange or the operator. A deposit whose receipt was
once a revert is left out of `DeliveredCompletes`: `_observe` records a revert
whatever the depth of its block (`relay_execution.py:191`), and a step that is
`reverted` can never be `credited`, so after a reorganisation it stays open for a
person.

`RouteLegs!FairSpec`: weak fairness of the run, of what it does when it is told
of a revert or a refund, of mining, the exchange, and the bridge's delivery and
report; `RouteEnds` needs the outside world to answer, because a route waits for
it without limit of runs. A run that observes nothing counts as an interruption.
`DefiBatch!FairSpec`: the worker goes on, is started again after a death, and time
passes; not the network: a receipt that does not come is a retry and then a
review. `Collection!FairSpec`: the invocation goes on; it is repeated under the
policy of the saved plan, and a requote, a signature or an outcome comes in the
end (strong: an invocation may end by its deadline any number of times before).
`ScanStage!FairSpec`: the calling thread runs and the deadline passes; readers may
hang forever.

## What is abstracted

- Amounts, prices and gas are verdicts of small sets; `DirectDeposit` only tells
  payloads apart, `GroupExecution` only losses.
- `GroupExecution` is the path of `execute-routes`: entries without
  `automatic_requote`; no `swap_to_native` (`RouteLegs` has both, one position at a
  time); completed groups are not observed once more; the realized loss of a
  position is the loss of the preparation that was signed.
- `RouteLegs`: one position; a swap's result is one amount; a saved route is a
  model value; `checkpoint_source_conversion` writes the position's state
  whatever it was (`journal.py:605`), as in the code.
- `RelayExecution`: one position; the checks of a quote are one verdict (a quote
  that fails them is a run that yields); diagnostic checkpoints (`relay_status`,
  the destination transfer) are left out; a proven payment is final; the retry
  time is a flag that the clock clears.
- `DefiExit`, `DefiBatch`: receipts are final at first sight, as the code takes
  them; nonces are left out; a fresh plan lists any of the wallet's actions.
- `Collection`: quotes from small sets; `trust_recipient`,
  `verify_prior_defi_exit` and retry arithmetic are left out.
- `RoutePlanning`: one route per target; the losses of a position in USD rank as
  its percentages do; the quote's 240 s and the price's 300 s are one life; the
  ways of a position are asked one after the other, which sorting makes equal to
  asking them at once. The Relay fallback and the classification of rows before
  the search are left out.
- `ScanStage`: a block is the number of the scan; networks are launched in a fixed
  order; endpoint cooldowns and the store's locks and migrations are left out;
  threads of an earlier wallet are forgotten, their buffers being sealed. Rows a
  discovery does not report again keep their old provider balance, as tests ask.
- `QuoteJobs`: one job; the process's own lock admits one caller per invocation;
  `complete` and `no_route` are one state; legacy scopes are left out.
- `LifiQuota`: one bucket; one tick is a second; provider headers are taken from
  small sets; no response cache.

## Proofs

Each `*Proofs` module proves its theorems for every value of the constants that
the named assumption of the component's module admits. The assumptions say what
the code's types say: bounds are naturals, limits, windows and leases positive,
a plan's quotes and values naturals, its targets a sequence of names, the wallets
of a scan a sequence, a wallet's assets not none, an offer an entry's fields. Four
say a little more. `GroupAssumption` leaves groups of one position to `DirectDeposit`
and losses of zero out, because 0 marks a loss not known yet; a position that
loses nothing adds nothing to a sum. `ExitAssumption` asks for one action, without
which there is no queue. `JobAssumption` and `QuotaAssumption` ask that the bound of
the clock is not zero: times start at 1 because 0 stands for never.

Every proof has the same shape. `IInv` (`JobInv`, `PlanInv`) is an inductive invariant that TLC confirmed
on the run's instance before it was proved; `Invariant` (`Inductive`) proves that it
holds in every reachable state, with lemmas for each action or conjunct; each property follows from it.

| Module | Theorems | What `IInv` adds to the properties, and why |
| --- | --- | --- |
| `DirectDepositProofs` | `TypeCorrect`, `Journaled`, `AtMostOnce`, `Completion`, `ClosedAgreement`, `SafeResign` | see below |
| `RelayProofs` | `TypeCorrect`, `Journaled`, `OwnCheckpoint`, `Completion`, `Refinement` (of `OneTransfer`) | see below |
| `GroupExecutionProofs` | `TypeCorrect`, `LossIsCounted`, `ClosedAgrees`, `BudgetIsKept` (refines `LossBudget`) | `ProgressOK`, `OrderOK`: positions are passed, signed and reviewed in order, which is why the run's sum at a position covers everything before it; `CountOK`: what is accounted is in `realized`, one commit earlier for the position being completed; `StepOK`, `WriteOK`: what a run holds in hand between two commits |
| `RouteLegsProofs` | `TypeCorrect`, `IntentIsFound`, `PathIsKept` (refines `FundsPath`) | `CheckInv`: what a checkpoint proves of the legs before it; `PlaceInv`: the executor's route is the saved one; `OutcomeInv`: what a settled position knows of its deposit |
| `DefiBatchProofs` | `TypeCorrect`, `ExitIsSignedOnce`, `QueueIsRight`, `NoneSignedBehind` | `LockInv`: one command past the lock, a step saved before it is signed; `QueueInv`: an action in execution belongs to the open wallet at the head, and the worker looks at it before any other; `ResultInv`: what a command's result says of the network |
| `CollectionProofs`, of `RoutePlanning` | `CheapestIsChosen`, `LimitIsKept`, `QuotesAreLive` | `SearchOK`: nothing is compared while ways are asked, the best loses no more than what was compared, no quote expires before the search says; `AdmittedOK`: what is ready is exactly what the admission added up |
| `CollectionProofs`, of `Collection` | `TypeCorrect`, `FlightsAreResumed`, `GasStaysUntilPaid`, `KnownRoutesComeFirst` | `UsedOK`: a key that was ever used is a ready entry of a saved plan, in flight of the one saved last, whose run is open; `RowsOK`, `CurOK`: the groups of a plan are its run's and its quotes', and the plan in hand keeps what the saved one assigned; `HaltOK`, `GasOK`, `RoundOK`: in every saved plan and in the round in hand, no group goes on past a halted member and no gas that is reserved goes before what it pays for; `FrozenOK`: a frozen entry was broadcast |
| `ScanStageProofs` | `TypeCorrect`, `SavedIsSnapshot`, `BalancesAreOfTheirPass` | `Leads`: the writes left to replay turn what the inventory shows into what the buffer shows; `WritesOK`: among them the pass comes before every balance read under it; `ReaderOK`, `CallerOK`: where a reader and the caller are says what a buffer holds, and when it is sealed |
| `QuoteProofs`, of `QuoteJobs` | `JobTypeCorrect`, `LeaseIsHonoured`, `AnswerIsOfLastClaim`, `FailsOncePerRun` | `TokenOK`: attempts are fresh; `ClockOK`: a clock that was read is not ahead; `LeaseOK`: a caller that waits has the row as it left it, or its lease is over |
| `QuoteProofs`, of `LifiQuota` | `TypeCorrect`, `WindowIsKept`, `ReserveIsKept`, `ProviderCountIsKept`, `CooldownIsHonoured` | `ReservationsOK`: times are written in the order of the commits, whatever clock was read before the lock; `CooldownOK`: the store remembers every cooldown until it is over, and which requests are past their last check; `CountOK`: until its reset a promised count bounds what the store has left |

**Direct deposits.** That at most one deposit is mined needs that two rows of the
journal never hold transfers that can both succeed, which needs to know why the
second was signed: it shares the nonce of the first (Scroll), or follows its final
revert (CELO). `IInv` says this (`RowsOK`, `OriginalDead`), that what a running
executor has read still holds (`RunOK`: the journal has one writer, the chain only
grows, except where a reorganisation undoes what is not final), that the chain
uses a nonce once (`ChainOK`), that credits are final (`CreditOK`), and how a
half-closed outcome fits (`GroupOK`). Frame lemmas (`RowFrame`, `RecoveryFrame`,
`ChainFrame`, `RowsKept`) say once which actions can touch what.

**Relay.** A run that signs has found no hash and has saved its own quote, and
nothing was sent while it holds the signed transfer (`RunOK`); Relay and the
exchange know only quotes a transfer was sent for (`KnownOK`); `ClosingOK` says
what a run has established when it closes the position. In the refinement `Send`,
`Decide`, `Complete` and `Review` map to the promise's steps, the rest to stutters.

**Groups.** The budget is a sum over a set of positions, and the library's sum is
a recursive function. Induction over data being out of reach, the lemmas about it
(it is defined for every finite set, does not depend on the order, grows by what
is added, is monotone) are proved by a minimal counterexample: the strict subset
order of a finite set is well founded (`WFMin`), a smallest set on which two sums
differ has an element, and removing it gives a smaller one. With these the step
that signs is `LossBudget`'s `Send`: `Fits` held at the preflight, the sum of the
run is the realized loss, and that covers every position signed before.

**Route legs.** A transfer is known by its leg and route, and a restart prepares
another route unless it finds the saved one. `IntentIsFound` says that every intent
in the journal is for the route its checkpoint holds. Hence one transfer per leg.
The refinement rests on `SavedIsFunded`: the route of a leg is saved only after the
legs before it have delivered, because a continuation is quoted from a measured
balance, a conversion from a final receipt, and a hop's balance was zero when it
was signed (`saved.baseline`), so what is measured later is its own delivery.

**Exits and queue.** `ExitIsSignedOnce` is the lock plus the order of two commits:
the intent is saved under the lock before the signature, and every command looks
for it under the lock first. `QueueIsRight` needs to know where an exit may be when
the worker dies: an action marked as executing belongs to the wallet at the head,
and the next worker asks the journal for it before it takes another.

**Planning.** A search is followed from its first question to its last
comparison. Pruning is sound because quotes are taken in the order of their losses
and preparing one can only add gas to it; a native position's quotes, which
preparing replaces, are compared once they are firm. The admission adds up what it
then marks as ready, under both policies, and no later step marks more.

**Quotes and quota.** Decisions are taken with a clock read before the write lock.
What saves the leases is that a stale clock is never ahead and that the row is
written by compare-and-set on the attempt; what saves the windows is that the
store never writes a reservation earlier than the last one it remembers. A count
of the provider is safe because it is reduced by what was reserved behind the
answered request before it is stored, and within one provider window only the
smaller count and the later reset survive. A cooldown stops whatever is not marked,
because the mark reads the clock and the store under one lock.

**Collection.** A deposit in flight is safe from another plan because of three
facts together. A key contains the quote (or, through Relay, the run) it belongs
to, and the groups of a plan are its own run's with quotes up to the number saved
in its row (`Belongs`), so a key names one row. A plan is saved before a round may
sign from it, and replanning keeps every entry that has a group (`Keyed`): what is
ready has been identified, and only entries to be retried are quoted again. Hence
`UsedOK`, where the row of a key in flight is the last one: every save puts the row
last, and a new run is added only when nothing is in flight, because `Invoke`
supersedes no plan with a pending key (`Resumed`, `NewRunOK`). `Report` closes a
run only when nothing of its plan is pending. For the gas the state that has to be
followed is that of every saved plan, as any of them may be resumed: `GasOK` says
that a native asset that was sent leaves nothing to pay for: no unsigned token of
its chain, and on a target network no route that signs there, not even an entry that
still waits for a quote. On other networks such an entry may be open, but not one of
the coin's own chain, whose groups wait for all quotes of the chain unless they are
frozen, and what is frozen was broadcast (`FrozenOK`). A round decides before it
signs, so `RoundOK` carries the verdict of `Held` until the signature, and with it
`KnownRoutesKeepGas`; within a group the executor sends the tokens
first, and that a token of the group is past signing and not merely halted is
`HaltOK`. Groups halted and taken up again are taken up as a whole (`TakenUp`).

**Scan.** What is saved is what was read because replaying is the buffer's own
history: `Leads` holds of an inventory that was prepared and an empty buffer, a read
appends one write and applies it to what the buffer shows, a commit of the replay
takes the first write off and applies it to the inventory. It is stated with the
sequence of views between the two, so that adding at the end and taking from the
front need no induction over the writes. A crash between two commits leaves a
network unsaved, to be prepared again; `WritesOK` says why no balance of an older
pass is left under the new one: as long as the pass has not been replayed no
mandatory row is marked a success.

Only model-checked: all liveness (`CreditedCompletes`, `DeliveredCompletes`,
`BatchCompletes`, `RouteEnds`, `CollectionSettles`, `ScanEnds`), which the prover
does not reach. Every other property of the passing runs, invariant, action property
or refinement, is a theorem.

## Not modelled

- `proxy_pool.py`, `wallet_lifi.py`: the walk over a wallet's proxies; and the
  response cache and single flights of `lifi_http.py` and `quote_parallel.py`. They
  have behaviour over time and come next in the plan.
- Fee planning, valuation, policies: functions without state whose verdicts the
  modules take from small sets.
- Exchange clients, RPC transport, workbook, configuration, reports, scripts:
  I/O, parsing and formatting.

## Plan

Done: `RouteJournal`, `DirectDeposit`, `GroupExecution`, `QuoteJobs`, `LifiQuota`,
`RelayExecution` and their proofs; then `RouteLegs` refining `FundsPath`, `DefiExit`
and `DefiBatch`, `Collection`, `ParallelStage` and `ScanStage`, `RoutePlanning`.

Proved: everything the runs check of the safety of every module, with the
refinements of `LossBudget`, `FundsPath` and `OneTransfer`.

To model next: the proxy pool with the HTTP cache.
