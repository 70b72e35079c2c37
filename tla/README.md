# petabyte: a model of the GPU market

petabyte rents GPUs by the hour.  Sellers run a node agent on their machines;
buyers prepay a rental out of a wallet, or authorize a card, the money waits, and a
settlement splits it between seller and platform or gives it back.  These
modules model the part of `lumaris_api` that holds the market together: the
money and capacity of a rental, its moves between hosts, the task queue, the card
payment of a job from authorization to capture, the seller's earning from capture
to payout, and what reaches a wallet more than once.  TLC checks them on small
instances; TLAPS proves the most important facts about the money for every
instance.

All paths are relative to the repository (`src/`); `db.py`, `main.py`,
`stripe_connect.py` and the other Python files are those of `lumaris_api/`.

## 1. The system

Every request runs in a thread of a web process with its own database session
(`get_db`).  Several web processes, each with a maintenance loop
(`_maintenance_cycle`), and a stand-alone reaper (`tools/reaper.py`) work on one
database.  There is no lock around a handler: each `db.commit()` is a point
where the others interleave.  Sessions are opened with
`expire_on_commit=False`, so a row a handler has loaded keeps the values it had
then, through the handler's own commits.  What protects the data are
compare-and-set updates (`UPDATE ... WHERE status IN (...)`), unique keys and the
order of the commits.

| component | state | operations | correct when |
|---|---|---|---|
| wallet rentals | `bookings`, `vm_routes`, wallets, `platform.revenue` | `request_vm`, `/launch`, extend, metered stop, buyer's release, job result, expiry, refund | a booking is paid out once, a settled booking does not change, its escrow is drained exactly |
| double-entry ledger | `ledger_entries` | `post` at each movement | wallets are what the ledger adds up to |
| host capacity | `specs.available_units` | `try_reserve_unit`, `release_unit` | no unit is sold twice or lost |
| heartbeats, reaper, failover | `specs.status`, `last_seen`, `vm_routes.current_spec_id` | `touch_spec`, `reap_and_failover`, `failover_vm`, `settle_dead_specs`, `meter_and_expire`, `register_vm_tunnel` | the booking follows the VM; the host that does the work is paid; no booking waits for ever on a dead host |
| task queue | `tasks`, `checkpoints` | create, claim, start, checkpoint, result, retry, restore, reschedule | one holder per queued task; work is paid for |
| fan-out and distributed jobs | `multinode_jobs`, `job_segments` | submit, advance, finalise, fail | complete means every part done; a cluster is whole or nothing; an undisturbed job completes |
| request idempotency | `idempotency_keys` | claim, replay, abort | one effect for each key; a key is never stuck |
| organisations | `orgs`, members, budget | debit, refund, deposit, cap | what is spent is what the bookings cost; the cap is compared with that |
| wallet funding | `wallet_topups`, webhook records | create a session, webhook, redelivery, card page | a paid top-up is credited once, and in the end |
| card payments | `compute_transactions`, `payment_operations`, webhook records | the state machine of `stripe_connect.py`: authorize, confirm, reserve, dispatch, meter, capture, cancel, release, fail, reclaim | one booking and one task for a payment; the card is charged once, for metered work; a reservation ends |
| card gateway | the provider's PaymentIntents, refunds, transfers | calls with idempotency keys, events | (external) |
| seller payouts | `payout_obligations`, `payout_batches`, risk decisions, `seller_payable` | transfer, refund, reversal, promotion, batch, retry, hold | an earning leaves once; a batch pays what its earnings add up to; refunds and reversals are booked |
| pricing | none | estimate, budget, charge, commission, refund and metered split | the parts add up, the hold covers the run |
| result quorum, re-verification | `quorum_checks`, `reverification` rows | `record_submission`, `sample_and_open` | a verdict only from a majority |
| volumes, snapshots, disk nodes, model cache | their tables and the object store | upload, restore, delete | no snapshot outlives its object, or the reverse |
| node agent, gateway, desktop | local | `job_loop`, heartbeats, proxying | (through the above) |

`PROJECT.json` lists every component, with the ones that are not modelled and why
(reports, rendering, notifications, accounts, numerical benchmarks, deployment).

**How they interact.**  A rental takes a unit of a host, debits a wallet, inserts
the booking, posts the escrow hold.  A VM or a task hangs on the booking.  The
stop, the buyer's acceptance, the agent's completed result and the end of the paid
window settle it in the seller's favour, the reaper's refund in the buyer's; a
failover moves VM and booking to another host meanwhile.  A completed result
also advances the job its task is a segment of, which may book and queue a
stitch task.  A card job takes its unit and makes its booking and task under a
transaction instead of a wallet; its result meters the run and captures the
authorized card, and the captured amount, split by the pricing snapshot, becomes an
obligation to the seller.  The obligation matures after a risk hold and leaves by a
direct transfer or in a payout batch, unless a refund or a dispute comes first; if
it comes later, the seller owes it back, and the next batches net it.

**What is hard.**  (1) Five handlers race for one settlement, and each pays out in
commits that come after the compare-and-set that won it.  (2) Wallet rows are
partly updated atomically and partly rewritten from a stale copy.  (3) An
extension debits first and grows the escrow later.  (4) A failover changes the VM
and its booking in two commits and holds two units in between.  (5) Processes die
between any two commits and little resumes them.  (6) Heartbeats come back at the
worst moment.  (7) Agents of one seller race for tasks, and statuses of tasks are
written blindly.  (8) The manifest of a job is advanced by whichever result comes
last.  (9) `transition()` checks the status of a card transaction in a loaded row
and writes the next one unconditionally.  (10) The provider acts first and the
commit that records it may never come; retries, webhooks delivered twice or late and
the same keys used for two purposes have to make up for it.  (11) Runs of the payout
worker and administrators claim the same earnings.  `PROJECT.json` lists these hazards
at their lines, with the properties that cover them.

## 2. Modules

| module | models | used by |
|---|---|---|
| `Settlement` | what a rental promises about its money, abstractly | implemented by `RentalEscrow` |
| `RentalEscrow` | wallet rentals, ledger, capacity of one host, kill switch | |
| `VMFailover` | VMs on several hosts, reaper, failover, refund, expiry | |
| `TaskQueue` | tasks, segments and jobs | |
| `WalletRequests` | idempotency keys, an organisation's wallet and budget, top-ups | |
| `TxStates` | the transition table of a card transaction | `ComputeTx`, `Payouts` |
| `ComputeTx` | one card transaction up to its capture | |
| `Payouts` | what becomes of captured payments | |
| `Pricing` | the money arithmetic, pure | `Payouts` (the seller's part of a refund) |
| `X_proofs` | theorems about `RentalEscrow` (and `Settlement`), `VMFailover`, `TaskQueue`, `WalletRequests`, `ComputeTx`, `Payouts`, `Pricing` | |
| `SumTheorems` | theorems about sums over finite sets | the proofs that speak of money |
| `MCX` | names, payers, places, symmetries for TLC | |

In all of them, **an action is what one commit makes visible, one call of the
provider, or one read whose stale result a later step uses**.  `pc[w]` says what
worker `w` does next, and its local variables (`req`, `loc`) hold what the handler
keeps of the rows it has read.  `Crash(w)` leaves the rest of a handler undone, as a
dead process does.  The `map` of `PROJECT.json` names the lines of each definition.

**RentalEscrow.**  `booking` has status and hours (the amounts are functions of
the hours: `Gross`, `FeeOf`, `Payout`); `wallet`, `earnings` and `revenue` are
the balance columns; the ledger is kept as the postings that touch each booking's
escrow account (`legs`: hold, seller, platform, back) and the deposits of each
wallet (`deposited`).  `Book*` is `request_vm` with its compensations, `Extend*`
`extend_booking` and `extend_vm`, `Stop*` `stop_vm_metered` and `settle_metered`,
`Release*` `release_booking` after its three callers, `Refund*` `refund_booking`
with the organisation branch, `Topup*` the sandbox deposit, `SetPaused` the kill
switch.  A request starts with `Begin` (its session) and ends idle.

**Settlement.**  One `contract` per booking: none, open, released or refunded, its
hours, and what the seller, the platform and the buyer got.  It may `Open`, `Extend`
while open, `Settle` once, and then `PayOut` or `PayBack` once, all parts in one step
and out of what was charged.  `ContractOf` of `RentalEscrow` reads a contract off the
row and the postings: a booking is open when its row is there, its state is its
status, its payments are the escrow postings.  `ImplementsSettlement` is the refinement
(`INSTANCE Settlement WITH contract <- ...`).

**VMFailover.**  Hosts are online (the column) and fresh (the heartbeat is recent);
`vm` and `booking` each name a host.  `Reap*`, `Failover*`, `Refund*`, `Expire*` are
the phases of a cycle, with the lists loaded at the start of each loop; `Stop*`,
`ResultRelease`, `Accept*`, `Register*` are the requests.  `Main` are the processes
with a refund phase; `tools/reaper.py` has none.  The amounts are left to
`RentalEscrow`: a settlement records which host's seller it paid.

**TaskQueue.**  Tasks 1 .. `Parts` belong to the segments of one job, the others
are slots for stitch tasks.  `Submit*` is `render_job`, `transcode_job` and
`distributed_job`; `Claim*`, `MarkRunning` is `jobs_next`; `Report*` to
`CompleteCluster` is `jobs_result` with `_advance_manifest` and
`_fail_distributed_if_member`; `Finalize*` is `_finalize_job`; `Retry*`, `Restore*`,
`Accept` are the buyer's requests; `Reap*`, `Reschedule`, `Refund*` is
`settle_dead_specs`.  The money of a booking is abstracted to live, released or
refunded.  A result with a forged signature is left out: it fails its task as any
failed result does, but answers 401 without failing the distributed job
(`main.py:3761-3770`).  The order of the
queue is the order of creation: all the tasks of a job have the same priority.
`Instant` states an assumption: with FALSE, no task is executed faster than the
request that created it needs for its last commit (rendering a frame against an
insert).  Without it a job may hang, see section 6.  The calls of `jobs_result` into
quorum and re-verification are left out; their sampling rate is 0 unless configured.

**WalletRequests.**  A client sends the order of a key again and again: `IdemBegin`
claims the key, replays the answer or refuses; the order books, and `IdemFinish`
stores the answer or `IdemAbort` removes the row.  The order's debit is against the
personal balance or the organisation's (`spent` and `cap`), and extensions, stops,
refunds, deposits and the administrator's change of the cap work on the same row,
each as its own update or read-modify-write.  A top-up is a row, a session at the
provider, an event (`rec`) that is delivered until it is answered, and its credit.
Prices are 1 an hour: what is compared is how often an amount is counted.

**ComputeTx.**  `tx` is the row of one transaction, `op` the state of each key in
its operation log (`Begin`, `Retake`, `Reload`, `FinishOp` are `_begin_op` and
`_finish_op`), `pi` and `events` the provider.  A worker keeps the row it loaded in
`loc.row`; `Transition` is `transition()`: it checks the loaded status, writes the next
one and reloads.  `Authorize*`, `Confirm*`, `Reserve*`, `Dispatch*`, `Meter*`, `Capture*`,
`Cancel*` are the operations of those names, `Result*` the card branch of
`jobs_result`, `RetryTask` the buyer's retry, `Settle*` and `Fail*` what follows a
result, `Release*` `release_failed_reservation`, `Reclaim*` the pass over abandoned
reservations, `Deliver` and `Handle*` the three payment webhooks.
The provider obeys its idempotency keys, may refuse, may lose an answer, and may
raise an exception that is not a `StripeError` (`Faults`).  The verdict of
`settlement_verification` is a choice.

**Payouts.**  Starts where `ComputeTx` ends: captured transactions of one seller, with
`obl` their obligations, `batch` the payout batches in the order of insertion,
`payable` and `booked` the ledger, and the provider's `sent` and `given`.  `Transfer*`
is `transfer_to_seller`; `Refund*`, `SettleShare` and `Reversal*` are `refund()` with its
reversal, `Deliver` and `Handle*` the refund and dispute webhooks, `Run*` the payout
run: promotion, claim, re-check, sending, and the known or unknown outcome.  `Mature` is
the end of the risk hold, `PlaceHold` and `ClearHold` the reviewers' decisions,
`DashboardRefund` and `Dispute` what starts at the provider's dashboard.

**Pricing.**  Operators on integers: estimate, authorization, authorized seconds,
metered seconds, capture, commission, processing fee, refund split and metered split.
Amounts are minor units; rounding is the code's (`ROUND_HALF_UP` and floor divisions).
`PricingMatchesItsTests` compares them with values that `pricing_test.py` asserts.

**Where the modules are coarser than the code.**  These steps are known to be merged or
left out; none makes a property checked here hold:

- `Transition` (`ComputeTx`, `Payouts`) takes the commit and the reload that follows it
  (`stripe_connect.py:109-110`) as one step, without another worker's write between.
- `RetryTask` also retries a task whose transaction has failed, which the endpoint
  answers with 409 (`main.py:8803-8809`): the model does more.
- `BookPost` does not raise: the compensation for an exception that is not the
  database's, after the booking's insert (`main.py:3423`), is left out.
- `ExtendDebit` reads the booking's row and debits in one step.
- `TransferPaid` leaves out the branch for an exception after the provider's transfer
  (`stripe_connect.py:1018-1025`), as `TaskQueue` does the forged result (above).
- `RunRead` leaves out the first look at the rail and its threshold
  (`payout_routing.py:214-220`), so that an ineligible seller is met only at the recheck,
  and the guard for netting in several modes (`payout_routing.py:297-305`).

The modules overlap on purpose where one handler touches several
components (`release_booking`, `settle_dead_specs`, the reservation of a unit): each
keeps the part its properties need.  They are not composed into one specification,
because the product is out of TLC's reach; the overlapping definitions are mapped to
the same lines, and the interfaces are states: `Payouts` starts in what
`ComputeTx` ends in, `TaskQueue` takes a booking's settlement as one step that
`RentalEscrow` details.

## 3. Runs

Every instance is the smallest in which the interleavings of interest exist; the
constants not mentioned are in the `.cfg`.

| run | instance | shows |
|---|---|---|
| `escrow_safety` | two bookings, one of an organisation, for one unit; two workers, every kind of request but the expiry; one top-up, one flip of the kill switch, one death | `PaidAtMostOnce`, `TerminalIsFinal`, `ImplementsSettlement` |
| `escrow_books` | the same two bookings for one unit, booked, extended, launched, stopped, expired; `FairSpec` | `TypeOK`, `NeverOversold`, `NoUnitLost`, `EscrowMatchesBooking`, `WalletsAreLedgerCaches`, `SettlementCompletes` |
| `failover_stop` | two VMs on two hosts of two units, the maintenance loop against a stop, two silences, one death | `TypeOK`, `NeverOversold`, `NoOrphanedCapacity`, `BookingFollowsVM`, `HostIsPaid`, `SettledOnce`, `StoppedForGood` |
| `failover_live` | one VM, two hosts of one unit, all kinds of request, two silences, one death; `FairSpec` | `DeadHostsAreSettled`, `SettledVMsStop` |
| `tasks_cluster` | two ranks on two hosts, two machines of one seller, a refused booking, a failure, a retry, a release, a silent host | `HandedOutOnce`, `DoneIsSettled`, `CompleteMeansWhole`, `AllOrNothing` |
| `tasks_fanout` | two segments of two sellers and two stitch slots, a refused part, a failure, a retry, a restore, a release, one death; `FairSpec` | `CompleteMeansWhole`, `JobCompletes` |
| `card_safety` | an authorized transaction, one unit, two workers that confirm, reserve, dispatch, report, capture and cancel, a refusing provider | `BookedOnce`, `OneTask`, `NoUnitLost`, `PaidMeansCharged`, `ChargedForMeteredWork` |
| `card_crash` | from the first request on, one worker with every request but the confirmation, a retry, a provider that refuses or raises, deferred verdicts, another buyer, one database error, one death | `ChargeLeavesTrace` |
| `card_live` | from the authorization on, two workers that reserve and dispatch, results that fail, one silence; `FairSpec` | `AbandonedIsReleased` |
| `payouts_books` | two earnings of 4 (2 to the seller), one worker that refunds 2 or 4, pays out and handles webhooks, two refunds or disputes from the dashboard, one hold, two batches, netting on | `SquareBooks`, `RefundsAreBooked` |
| `payouts_live` | one earning whose obligation may be missing, an administrator and a payout run, one hold, two provider errors, one death, three batches; `FairSpec` | `LeavesOnce`, `BatchPaysItsEarnings`, `EarningsLeave` |
| `wallet_requests` | one key of an organisation, two clients, one deliverer, one top-up, one payment event, extensions and stops, two caps, one deposit, one handler that raises, one death; `FairSpec` | `OneBookingPerKey`, `SpentIsBookings`, `CreditedOnce`, `PaidIsCredited` |

*Why these bounds are enough to be interesting.*  The races of a settlement are
between two handlers; a third sees the same row as the second.  One unit and two
bookings let a unit be refused, given back and sold again.  Two silences let
a host die, be failed over to and die in turn.  Two segments are the least for
which "last" means something; two stitch slots let two results both believe they
are the last.  Two bookings and two tasks (`Slots`) let a transaction book or
dispatch twice if it can.  A refund of half and a refund of all make partial
refunds meet, and a third batch can hold what two lost.  One death per run puts a
crash at every point of every handler.  Money is counted in small units (`Rate` 2,
`Fee` 1): rounding is the subject of `Pricing`.

*What the escrow runs leave to which.*  `escrow_books` has neither the kill
switch, nor top-ups, releases or refunds of organisations, and no deaths: with each
of these the equality of wallets and ledger is lost (section 6).  It has one unit, so
that one booking at most is being released; two releases of a seller's bookings at once
lose a payout in the cached balance.  The properties of `escrow_safety` survive all of
them.

*What the card and payout runs leave out.*  `card_safety` has no deaths and no
database errors, which its properties except, and `ChargeLeavesTrace` is the one that
must survive them.  `card_live` shows what the reclaim promises, with two request
workers whose stale rows cross: no unit stays with a failed transaction, or with one
under way on a dead node.  Nothing promises the same for a node that is alive, where
two requests may leave a unit held for ever (`v_held_for_ever`, section 6).  The run has no
cancellation, because three kinds of request at once are too many states; with
`Handlers = {"reserve", "cancel"}` it passes as well.  Neither metering by an
administrator nor a deferred verdict is in it: both may leave a unit held (section 6).
`Untouched` stands for the 26 hours of the reclaim: no request that has written the row is
still at work.  One that has only read it may be, and may write later.
`payouts_books` has one worker, because a webhook handled in the middle of an API
refund books it twice (section 6); `payouts_live` has two and no webhooks.  The
properties of the payouts runs say in their definitions what they except: an
earning in a batch that a dry run, a hold or a lost answer left behind.
`wallet_requests` has one deliverer for the same reason.

*Exceptions stated in the properties.*  `HandedOutOnce` is about tasks never queued
again, because a second queueing may hand a task to another machine while the first
still works, by design of the reschedule.  `CompleteMeansWhole` lets a fan-out job
do without the parts it could not book (the handler skips them; the manifest still
counts them in `total_segments`).  `NoUnitLost`, `NoOrphanedCapacity` and
`BookingFollowsVM` hold as long as no process dies; `NeverOversold` of `RentalEscrow`
and `VMFailover` survives deaths.

*Assumptions checked beside.*  The two payouts runs evaluate `PricingMatchesItsTests`
and `MarginIsNeeded` of `MCPayouts`: the operators of `Pricing` on the values of
`pricing_test.py`, and the counterexample that shows why `EstimateIsCovered` needs a
margin.

`CHECK_DEADLOCK FALSE` stands where the bounds let a system come to rest: no
request is left to make.

## 4. Fairness

- Handlers: weak fairness of the steps after the first one (`Continue`, `Serve`,
  `BuyerStep`, `Proceed`, the result steps in `AgentStep`).  A thread that began a
  handler runs on unless it dies.
- Maintenance: weak fairness of `Cycle` and `ReaperStep`: the loops at `main.py:333`
  and `tools/reaper.py:20` run for ever, catch exceptions and sleep.  The pass over
  abandoned reservations is in the same loop: strong fairness of `Reclaim`, whose
  guard other requests keep switching off, weak of the steps that follow.
- Agents: weak fairness of `AgentStep`, strong of `Result` by some worker in
  `ComputeTx`: `job_loop` polls for ever; a task it runs is assumed to end and is
  reported, as completed or failed.  The agent enforces that only where the order carries a run time
  (`max_runtime_s`), as it kills the container then.
- Provider: strong fairness of `Deliver` by some worker in `ComputeTx`, weak of `Hook`
  in `WalletRequests`: an event is sent again until it is answered with success.  An
  authorization expires (`AuthorizationExpires`).
- Payout runs: strong fairness of `RunStart(w, FALSE)`: the scheduled worker runs
  again and again, and not always as a dry run.  `Mature`: time passes.  `ClearHold`:
  a reviewer decides in the end; without it a held earning stays, as it should.
- Time: `Tick`, `WindowEnds`.
- None for heartbeats, for arriving requests, retries or top-ups: nobody owes them.

## 5. Proofs

Every theorem holds for any sets of bookings, wallets, workers, keys, earnings, any
price, hours, units and bounds, from the assumptions the module names
(`MoneyAssumption`, `SizeAssumption`, `NameAssumption`, `OrderAssumption`, ...).
`FiniteAssumption` says that bookings, VMs, workers, keys and clients are finitely many,
without which units and money could not be added up; `PartsAssumption` that a job has a
part.  Ten theorems have a hypothesis besides (`FollowInvHolds` and `CapInvHolds`, on which three
of them rest, share it); it is in the table, and the run or the configuration named with
it shows that the property fails without it.

| module | theorem | says |
|---|---|---|
| `RentalEscrow_proofs` | `TypeCorrect` | `Spec => []TypeOK`, where `avail \in 0 .. Units` is the content |
| | `PaymentInvHolds` | `Spec => []PaymentInv`, the inductive invariant |
| | `PaidOnce` | `Spec => []PaidAtMostOnce` |
| | `SettledStays` | `Spec => TerminalIsFinal` |
| | `CapInvHolds`, `NeverOversoldHolds`, `NoUnitLostHolds` | the units of the host are never more than it has and, without crashes, all accounted for |
| | `EscrowMatchesHolds` | `EscrowMatchesBooking`, if there is no acceptance (`v_stale_accept`), no reap (`v_org_refund`) and no process dies (`v_crash`) |
| | `WalletsAreCachesHolds` | `WalletsAreLedgerCaches`, if besides there is no top-up, no kill switch (`v_pause`), and one unit or no release (`escrow_books` with `Units = 2`) |
| | `SettlementRefined` | `Spec => ImplementsSettlement` |
| `SumTheorems` | `SumRemove`, `SumSame`, `SumZero`, `SumChange`, `SumSplit`, `SumConstant` | what taking an element out, changing one value, splitting the set or equal values mean for a sum |
| `VMFailover_proofs` | `TypeCorrect`, `LabelInvHolds` | `Spec => []TypeOK`; each kind of worker stays in its own handlers |
| | `SettledOnceHolds` | `Spec => SettledOnce` |
| | `HostIsPaidHolds` | `HostIsPaid`, if there is no acceptance (`v_stale_release`) |
| | `OnlyRegistrationResumes` | `Spec => [][...]_vars`: if a step sets a stopped VM running, it is the write of a tunnel registration that read the VM before the stop (`v_resurrected` shows one) |
| | `FollowInvHolds`, `BookingFollowsVMHolds` | `BookingFollowsVM`, with one reaper (`v_two_reapers`) |
| | `CapInvHolds`, `NeverOversoldHolds`, `NoOrphanedCapacityHolds` | the units of every host, with one reaper and no requests but metered stops (`v_double_release`) |
| `TaskQueue_proofs` | `TypeCorrect` | `Spec => []TypeOK`; `retries <= MaxRetries` is the content |
| | `HandedOutOnceHolds` | `Spec => []HandedOutOnce` |
| | `DoneIsSettledHolds` | `Spec => []DoneIsSettled` |
| | `CompleteMeansWholeHolds` | `CompleteMeansWhole`, if tasks outlast the request that creates them (`~Instant`) and no submission of a cluster dies |
| | `AllOrNothingHolds` | `Spec => []AllOrNothing` |
| `ComputeTx_proofs` | `TxInvHolds`, `TypeCorrect` | the inductive invariant, and `TypeOK` |
| | `BookedOnceHolds` | `Spec => []BookedOnce` |
| | `PaidMeansChargedHolds` | `Spec => []PaidMeansCharged` |
| | `OneTaskHolds` | `Spec => []OneTask` |
| | `ChargedForMeteredWorkHolds` | `Spec => ChargedForMeteredWork` |
| | `NoUnitLostHolds` | `Spec => []NoUnitLost` |
| | `ChargeLeavesTraceHolds` | `ChargeLeavesTrace`, with one request at a time (`card_safety` with `ChargeLeavesTrace`) |
| `WalletRequests_proofs` | `OneEffectPerKey` | `Spec => []OneBookingPerKey` |
| | `SpentIsBookingsHolds` | `Spec => []SpentIsBookings` |
| | `CreditedOnceHolds` | `CreditedOnce`, with one thread that handles deliveries (`v_topup_twice`) |
| `Payouts_proofs` | `EarningLeavesOnce` | `Spec => []LeavesOnce` |
| | `BatchPaysHolds` | `BatchPaysItsEarnings`, if refunds are full, or a process that pays out has no other beside it that refunds (`v_partial_race`) |
| | `RefundsWereMadeHolds` | `Spec => []RefundsWereMade`: a refund that is recorded as succeeded was made by the provider, with any processes, faults, deaths and amounts |
| `Pricing_proofs` | `BudgetIsFunded`, `EstimateIsCovered` | the seconds a hold buys cost no more than the hold; a job within its estimate is charged its time |
| | `SettlementAddsUp`, `ProcessingFeeBounded` | capture = fee + net, within the hold |
| | `RefundAddsUp`, `PartialRefundsCompose` | the parts of a refund, and of two |
| | `MeteredAddsUp` | the split of an early stop |

**A booking is paid once.**  `PaidAtMostOnce` speaks of the escrow account only; that a
worker about to post may do so depends on what it and the others have read.
`PaymentInv` adds: `OneOwner`, at most one worker is between having won the
settlement of a booking and its posting; `OneBooker`, at most one worker is inserting
a booking; `RequestOK`, an owner's booking has the status the owner set and nothing
has left its escrow yet (`NoneOut`), and the hours an owner settles for, stale as
they may be, are no more than the booking has; and that an unsettled booking has
paid out nothing.  Every action is one of three kinds, with a lemma
each: `QuietStep` (no row, no posting, no owner changes), `RowStep` (a status or the
hours of one booking change, under the guard that it is not settled or does not
exist yet) and `PostStep` (the owner of a settled booking posts and is done).  The
proof that a step preserves the invariant classifies the actions, one lemma per
group of requests (`InvBookStep`, `InvExtendStep`, ...).  Typing lemmas for each
update of a record or function keep the row sets opaque to the solver.
`TerminalIsFinal` follows from the invariant by `FrozenStep`.

**The settlement is implemented.**  Under the mapping `ContractOf` the same three kinds
of step are a stutter, an `Open`, `Extend` or `Settle`, and a `PayOut` or `PayBack`;
`PaymentInv` supplies that the owner's hours are at most the booking's and that
nothing has been paid yet.

**Capacity of one host.**  `CapInv` is `NeverOversold /\ NoUnitLost`: the free units
and the members of two sets, the live bookings and the workers that hold a unit,
make up `Units`.  It is inductive with `TypeOK` and `PaymentInv`: a unit is given back by
the owner of a settlement or by the worker whose own booking failed, and `OneOwner`
makes that once.  `OneMore` says what one member more or less does to a cardinality;
a step moves one worker and changes one row, so each set changes by one member.

**Sums.**  Balances are sums over the bookings, by `SumFunctionOnSet`, and the library
has no facts about the fold it is defined with.  `SumExists` shows that the recursive
function behind the fold exists, `SumUnfolds` what it is at a set; every other fact
follows by looking at a smallest subset that is an exception (`SmallestSubset`, from the
well-founded order of `Nat`).  `SumChange` is the one the books need: one value changes, and
the sum changes by the difference.

**Escrow and balances.**  `EscrowMatchesBooking` and `WalletsAreLedgerCaches` speak of bookings
and moments at which nobody is between two commits.  What a request still owes the books
is made a number: `Unposted` for the escrow of a booking, `Due`, `Earned` and `Kept` for the
wallet, the seller's earnings and the platform's revenue.  `EscrowInv`: the hold and what is
unposted are the price of the hours, and a settled booking is paid out in full or has
an owner who will pay; the hours that owner settles are the booking's (`FreshOK`), which an
acceptance of a stale row breaks.  `BooksInv`: each column and what is due to it are what the
ledger adds up to, and a worker that is about to rewrite a column has read what it
still says (`ReadIsFresh`), because nobody else is settling (`OnlySettler`, from the
capacity: one unit, one unsettled booking).  A step changes what one request owes and
posts the same amount.

**VMs and their bookings.**  What a worker of the maintenance loop knows is in its lists
and in the rows it loaded.  `FollowInv` says that VM and booking differ only while the
one reaper stands between its two commits.  `CopyInv` adds what its copies still say of
the rows: a VM it moves has a live booking, a booking it refunds is still on the
host it was loaded with, and of two workers that settle one booking the row decides.
`CapInv` then counts, for each host, free units, live bookings, workers that hold a
unit (`Held`) and the units a death has orphaned (`Orphans`): the orphans are needed
for `NeverOversold` to survive crashes, since a unit nobody gives back is not free.
The hypotheses are the code's own weak points: two reapers, or a job result beside a
failover, break the properties.

**Tasks and jobs.**  Lemmas first reduce every action to what it may do to tasks,
bookings, segments and the job (`NextActs`).  `FreshInv`: one submission at a time and
one maker of each stitch task, and a row that has not been made has no task.
`HandInv`: a task that was not queued again and is held is not pending, so the
compare-and-set of a second claim fails.  `SettledInv`: the release precedes the
segment.  `WholeInv`: a segment without a row is one the running submission has still
to write, or one a fan-out gave up (`Gap`), and whoever ends the job has seen the
others done; its hypotheses exclude that a result overtakes the submission, and that a
cluster's submission dies and its other ranks complete the job, both of which happen
(section 6).  `ClusterInv`: until a rank is refused, the live bookings are those the
request remembers in `todo`; afterwards it only gives back.

**A card transaction.**  A worker's loaded row may be stale in every respect, and
`transition()` writes from it.  `TxInv` collects what is true of it nevertheless:
`AuthInv`, the `PaymentIntent` is created once, before any capture; `MeterInv`, a row
that says dispatched or metered, loaded or not, is right, because neither is ever
undone, and who captures saw a metered row; `CaptureInv`, whoever is past the
provider's answer holds the first key, and only one worker writes the first
settlement and posts; `TaskInv`, as long as nothing dies or fails, the dispatch
operation is pending exactly while one worker makes the task.  Most of the 70 actions
are `Mild`: they disturb none of this, which five lemmas show once for all of them.

`NoUnitLost` speaks of the moments between requests.  `UnitInv` counts besides the
workers that have marked a booking and not yet freed its unit; two may hold the same
unit, so the sum is a bound, and the release stops at the node's total.  Only the
compensation of a database error deletes a booking without that worker
(`Compensating`).  `TraceInv` is about the first capture key: who is on its way to the
provider has the operation pending and the money is not taken yet (`SendingOK`), which
one request at a time keeps, and the maintenance loop never captures (`Sweeping`).

**One effect per key.**  `KeyInv`: the key of a request in progress is claimed
(`HandlerHolds`), by one client (`OneHandler`), and no booking was made under it
until that client inserts (`MadeOnce`); the unique row of the key makes `Claim` the
only way in.  It holds of the organisation's keys, whose order is settled by the same
handlers; deaths leave a key claimed, which only makes it safer.

**An earning leaves once.**  `LeaveInv`: an obligation is `Committed` (transferring, in
a batch, paid, being reconciled) before anything is sent for it; a worker that sends
owns it, by its transfer's claim or by its batch (`WorkerOK`, `OneOwner`); the
batch numbers of two workers differ; what was sent was sent by the owner of its time
(`SentOK`) and only once (`SentOnce`).  A step is done by a worker elsewhere, in a
transfer or in a batch (`ElsewhereStep`, `TransferStep`, `BatchStep`), and `OblStep`
says what any of them may do to an obligation: a committed one moves only by its
owner's hand, or when its batch is known to be dead.

**What a batch pays.**  The total is added up from amounts read before the claim.
`PayInv` says what keeps it right: the amounts in a run's hand are those of the obligations
as long as none of them is refunded (`HandOK`), which full refunds and `Apart` each
guarantee, the first because an obligation that is refunded in full is reversed and can
no longer be claimed; the number of a new batch is on no obligation; and from the claim
on the total is at most the sum over the obligations that carry the number.  A step
leaves alone the amounts of obligations in a batch (`KeepsNets`) and the batches in
other hands (`KeepsHands`), so a payment once made stays covered (`SentStays`).

**A refund recorded is a refund made.**  An operation that reads as succeeded is never
repeated, so a false one would lose the buyer's refund.  `MadeInv` says what a worker on its
way to the provider and back still knows: its earning exists and, from the answer on, the
provider has its key (`AskOK`).  The provider forgets none (`GivenGrows`), the keys of the
other operations are different (`RefundKeys`), and every step but one leaves the recorded
refunds alone (`OpMild`).

**Spent budgets.**  `SpentIsBookings` counts what requests under way have taken or not
yet given back.  `SpentInv` ties that to the place of each request: what it has in hand at
`insert`, `giveback`, `grow`, `ungrow` and `post`, of a booking that is its own.  A step
changes one summand of each of the two sums (`SumChange`) or none.

**A credit once.**  `CreditInv`: one thread opens the checkout of a top-up (`OneOpens`);
status, session and ledger of a top-up agree (`TopupOK`); and the one deliverer that is
about to write still sees it unpaid (`Told`), which a second one breaks.

**Pricing.**  The theorems are about all amounts, rates and configurations
`Snapshot` allows, over integers.  `EstimateIsCovered` asks for an authorization above
the estimate, which the default margin of 20% and the minimum charge of 50 cents
always leave; with no margin and no minimum, 3 seconds at 50.00 an hour are held 4
cents, which buy 2 seconds (`MarginIsNeeded`).  `PartialRefundsCompose` allows the
cent that two floors lose against one: it stays in the seller's payable account.

*Model-checked only.*  Liveness (TLAPS has no `ENABLED`), and three safety properties that
hold only without part of the code, so that a theorem would have to assume that part
away: `StoppedForGood` (without the registration of a tunnel: `OnlyRegistrationResumes`
is what is true with it), `RefundsAreBooked` and `SquareBooks` (with one process, and
unless a lost answer meets a partial refund; `v_refund_twice`, `v_second_refund` and
section 6 show the rest).

## 6. Where the code and its documents disagree, and what the models show

The `v_*.cfg` beside the runs are instances in which a property that one might
expect, and that often a comment claims, does not hold.  Each violates the
property it names:

| configuration | property | behaviour |
|---|---|---|
| `v_pause` | `WalletsAreLedgerCaches` | the kill switch trips between debit and insert; the compensation posts a deposit whose debit was never posted |
| `v_stale_accept` | `EscrowMatchesBooking` | the buyer's release settles the amounts loaded before an extension |
| `v_org_refund` | `EscrowMatchesBooking` | the refund of an organisation's booking raises before its ledger posting |
| `v_crash` | `EscrowMatchesBooking` | a process dies between the booking and its posting |
| `v_expire` | `ExpiresFullyUsed` | the meter stops a VM whose extension was paid meanwhile |
| `v_window` | `WindowCoversHours` | two extensions paid, one window kept |
| `v_double_release` | `NeverOversold` (VMFailover) | a job result and a failover both free the same unit |
| `v_stale_release` | `HostIsPaid` | the release pays the seller of the host a failover has left |
| `v_two_reapers` | `BookingFollowsVM` | two reapers re-point a booking out of order |
| `v_resurrected` | `StoppedForGood` | a tunnel registration sets a stopped VM running |
| `v_failed_vm` | `FailedVMsAreSettled` | a failed VM whose host comes back keeps its escrow |
| `v_unpaid_work` | `WorkIsPaid` | ranks of a refused cluster are refunded and still handed out |
| `v_stitched_twice` | `StitchedOnce` | two last results both finalise the job, and two stitch tasks are booked and paid (`main.py:7101`) |
| `v_card_oversold` | `NeverOversold` (ComputeTx) | two releases (a cancellation and the reclaim) loaded the same reservation and both give its unit back; an error of the booking's insert (`MaxErrors = 1`, `Units = 2`) frees one too many as well |
| `v_two_bookings` | `OneBooking` | two retries of a failed reservation both retake its operation and book; only the first is linked |
| `v_held_for_ever` | `ReservationEnds` | on a live node, without a fault: a cancellation that read the row before the booking was linked voids the payment, releases nothing and writes `CANCELLED`; the reservation then links its booking and writes `GPU_RESERVED` from its own stale row.  No later cancel, dispatch or reclaim touches it, and the unit stays held (docstring at `stripe_connect.py:1158-1160`) |
| `v_second_refund` | `RefundsAreBooked` | two equal refunds from the dashboard after a transfer share the reversal's key, and the second posting is rolled back |
| `v_refund_twice` | `RefundsAreBooked` | a webhook handled between the provider's refund and its commit books the refund twice (comment at `stripe_connect.py:1491-1493`) |
| `v_partial_race` | `BatchPaysItsEarnings` | a partial refund lowers an obligation after its batch was added up (comment at `stripe_connect.py:1357`) |
| `v_held_batched` | `HeldIsNotBatched` | a hold placed after the run looked is not seen (docstring at `db.py:2078-2081`) |
| `v_dry_run` | `EarningsLeave` | a dry run claims earnings into a batch nobody sends |
| `v_topup_twice` | `CreditedOnce` | two deliveries of one event handled at once credit it twice (docstring at `db.py:2003-2004`) |
| `v_topup_erases` | `BalanceIsLedger` | the credit writes the balance it read and erases a debit (comment at `db.py:3553-3554`) |

Ten more need no configuration of their own, only a run with another property or
constant:

- `escrow_books` with `Units = 2` violates `WalletsAreLedgerCaches`: two job results (or
  expiries) of one seller's bookings read earnings and revenue and both rewrite them
  (`db.py:3412-3423`), and the balance is one payout short of the ledger.
- `failover_live` with `Reapers = {standalone}` and `Main = {}` violates
  `DeadHostsAreSettled`: the stand-alone reaper never refunds.
- `tasks_fanout` with `Instant = TRUE` violates `JobCompletes`: a task that ends before
  its segment row, or before the job records its stitch task, is not counted.
- `card_safety` with `CancelledIsFree`: a cancellation that loaded its row before the
  dispatch goes on although the provider refused the void, and writes its state over a
  job that ran and was charged.
- `card_safety` with `OneCapture`: two retries of a failed capture both retake its
  operation and call the provider (`stripe_connect.py:164-167` against `:189-192`).
- `card_safety` with `ChargeLeavesTrace` violates it in the same way: the refusal of the
  first retry marks the operation failed, and the second captures: until that one
  finishes, the ledger has no charge and the operation says that none was made.
- `v_held_batched` with `DisputedStays`: a batch pays an earning whose payment is disputed,
  because it never looks at the status of the transaction.
- `payouts_books` with `MaxFaults = 1` violates `RefundsAreBooked`: a partial refund was
  made and not confirmed, and is booked by its webhook and by the request's retry.
- `payouts_books` with `Net = 3` and `Amounts = {2}` violates `SquareBooks`: two halves of
  a refund take a cent less back than the seller's net, and no obligation has it.
- `wallet_requests` with `KeysAreAnswered`: the key of a request that died answers "in
  progress" for ever.

What else came out of reading and checking, with no property of its own:

- *Tasks.*  The results and starts of a task are blind writes, so the late result of
  a first node completes a task that was queued again.  A distributed submission that
  dies after its first rank leaves a cluster that completes with one.  The comments
  at `main.py:3851` and `main.py:7112` speak of a buyer's cancel path, which
  wallet bookings do not have.
- *Card payments.*  `AUTHORIZATION_EXPIRED` is in the tables and never set.  A
  captured job's unit is never returned.  A job that fails after an administrator
  metered it stays `METERING_FINALIZED` with its unit held, and a deferred result
  whose authorization expires holds the unit for ever; `card_live` has neither.  A
  result that arrives before the dispatch has linked its task finds no transaction
  (`main.py:3698`, `stripe_connect.py:591-593`), and the transaction stays `RUNNING`,
  its unit held as long as the node lives.
  `JOB_FAILED` may become `CANCELLED`, which the docstring of
  `release_failed_reservation` denies.  `RealStripeGateway` lets the library's own
  errors through, although `stripe_gateway.py:29-30` says they are mapped, and such an
  error in a capture strands the reservation.  A death between `create_task` and
  `RUNNING` is not recovered.
- *Payouts.*  A refund whose answer was lost and that is asked for again is booked
  without having been made twice; two equal API refunds are one.  A dispute of a
  completed transaction is ignored.  A batch that needs reconciliation is never
  retried.  Two runs that net at once may net one debt twice.
- *Wallets.*  The status `expired` of a top-up is never set.  `idem_begin` may find no
  row after a concurrent abort, and answer 500; a replay does not compare the
  bodies.  `org_deposit` rewrites the balance it read.
- *Quorum.*  `record_submission` rewrites the list of submissions it read, so that of two
  concurrent results one is lost and the check stays open (`quorum.py:95-110`); a
  failed shadow leaves its check open too.
- *Maintenance.*  The advisory lock at `main.py:269` belongs to the session of a
  pooled connection and may outlive the cycle that took it.

## 7. Plan

Done: all the modules of section 2 and the theorems of section 5.

Left, in this order:

1. `Quorum` and re-verification; rendezvous and peers of a cluster in `TaskQueue`.
2. Volumes, snapshots and the order of their deletions against the object store.
3. Members and roles of an organisation; the model cache; address allocation.

**Not modelled.**  Byte proxying, containers, VM control, cryptography
and numerical benchmarks are external programs or pure functions without shared
state; web pages, reports, notifications and deployment hold none; accounts, sessions
and referrals are single-row operations outside the market.  Liveness under fairness
and what a recursive definition computes for all inputs stay with TLC.
