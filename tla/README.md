# Blitzpool in TLA+

A verification development kept beside the pool's code.  It models the pool from
the socket to the ledger: how a connection is let in and framed, how a miner is
given work and its shares are judged, how windows, balances and groups become a
coinbase, how that coinbase is booked when a block is found, and what is told to
whom afterwards, with the interleavings, failures and restarts of each.  Paths
below are relative to the repository's `src/`, those under `docs/` to the
repository.

## 1. The system

Blitzpool is one Node.js process (NestJS), one Redis/Valkey and one Postgres, in
front of a Bitcoin Core node.  There are no threads: every interleaving happens
at an `await`.

| Component | State it keeps | Operations | Talks to |
|---|---|---|---|
| Entrance (`services/protocol-detector.service.ts`) | ports, ban cache, failure counters and bans in Redis | detect the protocol, proxy HTTP, record a failure, ban, refresh | Stratum clients, the API |
| SV2 transport (`models/sv2/sv2-noise.ts`, `sv2-frame.ts`) | cipher keys and nonces, undelivered bytes | handshake, seal, open, cut into frames | V2 client, job declarator |
| Stratum V1 client (`models/StratumV1Client.ts`) | session, difficulty, last jobs, hashes seen, worker row | subscribe, authorise, suggest, send job, check share, submit block, destroy | job store, payout engines, RPC, notifications |
| Stratum V2 client (`models/StratumV2Client.ts`) | channels with targets, prefixes and jobs | open, update, close, broadcast, custom job, check share, submit block, destroy | the same, extranonce manager, templates |
| Job declaration and template distribution (`models/JobDeclarationClient.ts`, `services/job-declaration.service.ts`, `services/template-distribution.service.ts`) | tokens, declared jobs, templates kept | allocate, declare, provide missing, push solution; new template, previous hash, submit solution | SV2 clients, RPC |
| Template and job store (`services/stratum-v1-jobs.service.ts`) | templates and jobs, retired ones with a grace period | new template, add job, ageing, classification of a late share | template feed, clients |
| Coinbase distribution (`services/coinbase-distribution.ts`) | none, a pure function | `buildCoinbaseDistribution` | called by the PPLNS and Group-Solo engines |
| PPLNS engine (`services/pplns.service.ts`, `coinbase-snapshot.ts`, `utils/inflight-result-cache.ts`) | Redis: share window in buckets, per-address sums, total, snapshot; Postgres: `pplns_balance`, `pplns_payout_history`; memory: distribution cache, builds in flight, `blockFoundInProgress` | `recordShare`, `trimWindow`, `recalculateWindow`, `getPayoutDistribution`, `onBlockFound` | Stratum clients call it; writes Redis and Postgres |
| Dust sweep (`services/dust-sweep.service.ts`) | the same Postgres tables | daily `sweepPplnsPairs`, `sweepGroupDust` | runs beside block bookings |
| Group-Solo engine (`services/group-solo.service.ts`, `group-round-reset.service.ts`) | per group: round shares, per-finder snapshots, pending balances, history, lock | `recordShare`, `onBlockFound`, `scheduledRoundReset`, `removeMemberState` | group service, coinbase distribution |
| Group membership (`services/group.service.ts`, invitations, join requests, their controllers) | groups, members, address cache, invitations, requests | create, invite, accept, open link, request, approve, kick, transfer, dissolve | group-solo engine |
| Blockparty (`services/blockparty.service.ts`, invitation, distribution) | party status, members, splits, confirmations | the draft, confirming, ready, active, dissolved machine | Stratum clients |
| Mining mode (`services/mining-mode.service.ts`, `miner-active-mode.service.ts`) | port marker with a TTL | mark, read, compute the mode | Stratum clients, API |
| Statistics (`services/statistics-coordinator.service.ts`, `utils/buffers.ts`, `ORM/client-statistics`, `ORM/worker-shares`, `ORM/address-settings`) | memory: delta buffers per table, `isFlushing`; Postgres: one row per key | add, drain, upsert, confirm, fan-out, delete an account, seed | Stratum clients, Postgres, the client controller |
| Notifications (`services/push-notification.service.ts`, `best-difficulty-tracker`, `ORM/push-subscription`, `ORM/telegram-subscriptions`, `ORM/address-settings`) | best difficulty with its Redis copy, trackers, subscriptions, presence cache | share, reset, subscribe, cron checks | share path, bots, push services |
| Capacity monitor (`services/coinbase-capacity-monitor.service.ts`) | alert state per bucket in Redis | hourly check, mail | the payout engines, SMTP |
| Controllers, entities, RPC | no core state | I/O | everything |

Hard behaviours: a block can be found while a distribution is being built, while
another block is being booked, or while the dust sweep holds rows it read
earlier; balances are written as absolute values computed long before; the
process can stop between `submitblock` and the booking; the same height can be
won twice after a reorganisation; debts and credits of miners who left stay in
the ledger and meet a coinbase with a bounded weight.  On a connection the
handlers of successive messages, of templates and of timers overtake each other
at every `await`; the job a miner hashes, the difficulty it was told and the
template the pool keeps are three copies of one fact.  Rows are read, awaited on
and saved whole.

What makes each component correct:

- Coinbase distribution: never more than the reward, nothing lost, old claims
  conserved, the weight budget kept, active miners not charged for others.
- PPLNS engine: a height booked once, for the reward of its block, with rows
  behind every balance; no flag left set.
- PPLNS share window: counter, buckets, sums and total agree whenever no call is
  under way, the window never reads empty, a migration that is interrupted loses
  nothing.
- Dust sweep: sum of balances preserved.
- Group-Solo: the same as PPLNS; a share paid once, a booking kept until it is
  paid out, a reset that leaves nothing of what it found.
- Group membership: one group per address, one creator, the cap, an active flag
  that agrees with the roster, nobody in without consent, dissolved for good.
- Blockparty: a routable party pays splits that add up and that were confirmed.
- Job store: a share is credited or refused by the age of its own template.
- V1 and V2 sessions: a share is judged by what the miner was told, credited
  once and for no more than its hash proves; a block is booked by the scheme its
  coinbase pays; what the pool hashes is what the miner hashed; a new block
  reaches every channel; a closed connection is forgotten.
- Job declaration: an accepted job pays what its token promised, the block built
  again for a solution is the solved one, a block is recorded once.
- Entrance and transport: a banned address is refused, the mode shown is the mode
  mined, frames arrive whole, once, in order, and are answered.
- Statistics: no delta lost or doubled by a failing flush, no total below zero.
- Notifications and capacity monitor: the best is kept, a rise is told once, a
  change that lasts is told in the end.

## 2. The modules

| Module | Models | Checked by |
|---|---|---|
| `CoinbaseDistribution` | `buildCoinbaseDistribution`, one operator per phase | through the two below |
| `PplnsRounds` | the PPLNS ledger over a run of blocks and sweeps, each of them atomic | `ledgers` |
| `GroupRounds` | the ledger and the round of one Group-Solo group | `ledgers` |
| `PplnsWindow` | `recordShare` and the share window in Redis, one step per round trip | `ledgers` |
| `MCLedgers` | instances of the three above | |
| `PayoutBook` | the abstract promise: blocks are found, then booked at most once for what they paid | as `BookSpec` of `engine` |
| `PplnsEngine`, `MCPplnsEngine` | the engine around a found block with every `await` a step | `engine`, `engine_paid` |
| `PplnsEngine_proofs` | its theorems | |
| `Blockparty`, `MCBlockparty` | one party from draft to dissolution, with its coinbase and booking | `blockparty` |
| `Blockparty_proofs` | its theorems | |
| `StatisticsCoordinator` | delta buffers, flush and deletion | `statistics`, `statistics_loss` |
| `StatisticsCoordinator_proofs` | its theorems | |
| `JobStore` | templates and jobs, retirement, ageing, classification, as operators | through the two sessions |
| `StratumV1Session`, `MCStratumV1Session` | one V1 connection | `v1` |
| `StratumV1Session_proofs` | its theorems | |
| `StratumV2Session` | one V2 mining connection with its channels | `sv2`, `v2_rebuilt` |
| `StratumV2Session_proofs` | its theorems | |
| `JobDeclaration` | the two connections of a miner who builds its own blocks | `sv2` |
| `MCStratumV2` | instances of the two above | |
| `GroupMembership` | groups, members, and the ways in and out | `groups` |
| `GroupSolo` | one group around its blocks, resets, kicks and sweeps | `groups` |
| `MCGroups` | instances of the two above | |
| `Groups_proofs` | the theorems about both | |
| `Notifications` | what one address's owner is told | `notices` |
| `CapacityMonitor` | what the operator is told | `notices` |
| `MCNotices` | instances of the two above | |
| `Notices_proofs` | the theorems about both | |
| `Entrance` | ports, bans, proxy, mode marker | `connections` |
| `Sv2Transport` | handshake and frames of one connection | `connections` |
| `MCConnections` | instances of the two above | |
| `Connections_proofs` | the theorem about `Entrance` | |

Composition.  `PplnsRounds` and `GroupRounds` extend `CoinbaseDistribution` and
differ in what they feed it and in how they book its result; both sessions extend
`JobStore`.  `PplnsEngine` implements `PayoutBook` and abstracts from the amounts
that `PplnsRounds` models; it takes the window as a number of shares, which
`PplnsWindow` keeps.  `GroupSolo` does the same for the amounts of `GroupRounds`.
The sessions take the payout engines as a scheme and a recorded share, and
`StratumV2Session` takes the declarer's connection as the flag `jdp`.

Several modules in one run.  `MCLedgers`, `MCStratumV2`, `MCGroups`, `MCNotices` and
`MCConnections` extend one component and instantiate others that share no state
with it.  A behaviour is one case of one of them while the others rest: their
cases have no events, so they have no step to take.  The state space is the sum of
theirs, not the product.  The instance's properties are those of the module (as in
`Solo!PaidOnce`), and its assumption is assumed again where it has values.

Cases.  Most of the newer modules are bounded by `Cases`: a case gives the initial
situation (a session that already works, a group of three with an open
invitation) and a budget for each kind of event in one behaviour, for example two
submissions, two templates and a tick.  Within a case everything interleaves.
The MC modules list the cases with what each is about.

An operator whose name ends in `_Faulty` is a broken variant of the definition
below it: with it in place of that definition the property it belongs to fails.

### CoinbaseDistribution

An input has the shares, the signed balances, the reward, the finder bonus and
the `suppressMatchingDebits` switch.  A distribution passes through stages, each
of them a record the next one reads:

| Operator | Phase of the code |
|---|---|
| `Target`, `Eligible` | 1 and 2: fair share plus balance, the dust test |
| `Kept` | 4: the greedy trim by weight over the sorted list |
| `Preliminary` | 5a: the outputs before the solvency cap, trimmed sats to the kept miners or to the fee |
| `Spread` | the proportional redistribution of 5a and 5b |
| `Overshoot`, `Claimers`, `SolvencyCut` | 5a.5: ascending order, floors, the residue on the last, the clamp |
| `TopUp`, `FeeTotal`, `Settle` | 5b and 6: residuum, the fee output, the balances after |
| `FeeOnly`, `Solve`, `Distribute` | the exits in which the fee address gets everything, and the chain of phases |

`Kept` is a `CHOOSE` rather than a loop: the greedy choice is the one set in
which a miner is kept iff it fits on top of the kept miners before it, which is
unique.  Addresses are natural numbers whose order stands for the order of the
`Map`, on which the stable sorts fall back.  Satoshis are integers; the code
computes `Math.floor(ratio * reward)` in doubles, which can be one satoshi lower
than the integer quotient modelled here.  `Budget` is the configured budget less
the constant base, commitment and margin weights.

### PplnsRounds

`bal` and `paid` are the columns `balanceSats` and `totalPaidSats` (`paid`
survives the deletion of a row), `earned`, `swept` and `last` are ghosts.  `Book`
is a block with nothing in between: a distribution from the current balances,
applied whole.  `SweepPair` is one transaction of the dust sweep; which rows are
dormant is the clock's choice.

### GroupRounds

One group with its creator.  `member` is the roster, `work` the round's shares,
`pending` the column of what a member is owed, `blocks` and `last` ghosts.
`BlockFound` is the distribution and its booking as one step (`Book`), which a
unique-index collision in the history rejects whole (`Rejected`).  `Join` and
`Kick` are `addMemberWithoutAdmin` and `removeMemberState`, a kick divides the
member's claim among the rest; `ScheduledRoundReset` and `SweepDust` are the two
timers.  `Bonuses` is the finder's bonus, with 0 for a group without one.

### PplnsEngine

Amounts are abstracted to what the properties tell apart: a distribution is the
reward, the number of shares and the bookings (`base`) its balances reflected.
`balanceAfter` holds absolute balances, so applying it leaves a ledger that
reflects `base` and the block itself.  That is the worst case, a distribution
that touches every row of the ledger; addresses in neither the window nor the
ledger at build time keep what they have.

| State | Code |
|---|---|
| `shares`, `snapshot` | the window and `pplns:snapshot` in Redis |
| `ledger`, `history` | `pplns_balance` and `pplns_payout_history` |
| `cache`, `build` | `InflightResultCache.cached` and `.inflight`, keyed by reward |
| `jobs` | jobs on the tip that miners still work on |
| `busy`, `calls` | `blockFoundInProgress` and the handlers in flight, one per height |
| `chain`, `tip`, `reorgs` | the node |

`NewTemplate` and `Build*` are `sendNewMiningJob` and `buildDistribution`;
`SolveBlock` is the submit path up to an accepted `submitblock`; `Enter` to
`Cleanup` are `onBlockFound`; `Fail` is a rejected await anywhere in it,
`Restart` a dead process.  `MoveTip` drops older jobs: `submitblock` refuses
their blocks and the handler then does nothing.  A second block at a height
waits until the first handler of that height is over (a bound of the model).

### PplnsWindow

`counter`, `buckets`, `index`, `total` and `agg` are the Redis keys of the share
counter, the bucket hashes, their sorted index, the total and the sums per
address, `old` the keys of the layout before buckets, `boot` the progress of
`migrateToBuckets`.  A call of `recordShare` goes through `Incr`, `Multi`,
`ReadTotal` and then the trim (`Oldest`, `ReadBucket`, `Subtract`, `HDel`,
`DropBucket`, `ZRem`) or the rebuild (`ReadIndex`, `SumBucket`, `Swap`,
`SetTotal`).  A field that is present and zero is not the same as one that is
absent.  The temporary key of the rebuild is part of `Swap`; the rebuild at start
is one step, as nothing else runs.  Shares have difficulty 1.  `BootFail` is a
rejected call of the start-up: `onModuleInit` logs it and the pool goes up with
what has been migrated by then.  The ghosts `past` and `alone` say what met what:
whether calls overlapped or failed so far.

### Blockparty

A party of an admin and invited members.  `group`, `row` and `invite` are the
three tables, `route` and `known` the two caches the Stratum clients read, `token`
whether the creator has been told the admin token, `job` the coinbase being worked on, `booked`
the block history.  Every handler of the service and of its invitations is a call
that takes a step per round trip; a save of an entity that was read earlier
overwrites the whole row and inserts a deleted one again, as TypeORM does.  The
switch `Overlap` (a bound) says which handlers may overlap: `FALSE` admits only
the pairs in `Tame`, which do each other no harm, `TRUE` all of them.  `past` is a ghost: whether
any handler failed half-way and whether a later one repaired it.

### StatisticsCoordinator

`buf` and `row` are the buffers and Postgres for three tables that have all the
special cases between them: "client" (batches, each answered on its own, rejected
shares fanned out to the workers), "address" (an UPDATE that needs a row) and
"worker" (flushed after the others).  `Tick` drains, `Commit` is the statement
carried out, `Confirm` its answer; `Refuse` is a failed statement or a lost
answer.  The deletion of an account is one step for the buffers and one per
table.  `earned` is what rows and buffer should add up to, `spoiled` the keys
where a flush met a deletion, a lost answer or a missing settings row; there the
code does not promise exactness.  `Restart` loses what only the memory of the
process held (`InMemory`) and relieves `earned` of it, so `Conserved` bounds the loss
of a crash; that there is one at all is `statistics_loss`.

### JobStore

The registry of `stratum-v1-jobs.service.ts`, which every connection shares, as
operators on a store of templates and jobs: `Retire` and `Aged` are the two halves
of `Cleanup`, `NewTemplate` and `AddJob` register, `Classify` says whether a share
is for a live, a grace-time or a stale job.  A block change stamps what is
registered then and deletes nothing.

### StratumV1Session

One connection.  A task is one run of an asynchronous function: the loop over a
chunk of lines (`handleMessage`), the handler of a template (`sendNewMiningJob`),
the difficulty timer (`checkDifficulty`).  Nothing serialises them.  `task[t].at` is
the `await` the run is suspended in, its other fields what it captured before.

| State | Code |
|---|---|
| `sess` | the fields of `StratumV1Client`: difficulty and the one before it, counters, current job, hashes seen, timers |
| `sock`, `destroys`, `registered` | the socket, the stages of `destroy`, the client lists of `stratum-v1.service` |
| `store`, `clock` | the shared registry |
| `row`, `beat` | the worker's row in `client_entity` and its buffered heartbeat |
| `membership`, `port` | what decides the payout scheme |
| `told`, `credits`, `paid`, `booked`, `epoch` | ghosts: what the miner was told, what was credited, recorded and booked |

`Message` starts a run for a line, `Resume` carries one on past its next `await`,
`Faults` rejects that `await`.  `Rows` are the three timers of `app.service.ts` and
`client.service.ts` (`insertClients`, `flushHeartbeats`, `killDeadClients`), which
run against the session that is being destroyed.  A share is the difficulty its
hash meets; header bytes are left out.

### StratumV2Session

The same for V2, with channels.  A handler keeps the channel object it has looked
up, so `chan` holds closed channels too while `channels` is the map.  Of the miner
the model keeps what it was told: for each channel its target, and for each job the
previous block it hashes, which for a job that is not a future one is the last
`SetNewPrevHash`.  A share hashed on another previous block than the pool puts into
its header meets nothing, which is how the wrong header shows.  The last five fields
of a channel are ghosts that the properties exempt by name: jobs that overlapped or
that were missed (`raced`), a SetNewPrevHash that named another job than the newest
(`misnamed`), ids given to a custom job and to one of the pool's (`shared`), a block
change that did not retire the channel's extended jobs (`kept`), an `UpdateChannel`
whose difficulty was absurd (`ignored`).  `Publish` is a new
template, `Broadcast` the loop over the channels with an `await` for each,
`Rejected` a payout that cannot be built, after which the connection is destroyed,
`Receive` the frames, `Check` the difficulty timer, which for a declaring client
rounds to the nearest step and may end above the share's difficulty (`Capped`),
`Bury` and `Release` the stages of `destroy`; `used` are the extranonce prefixes.
The extended jobs that are kept beyond their age are the last created, custom and
the pool's together (`Kept`).

### JobDeclaration

A miner who builds its own blocks has two connections: one on which it is sent
templates (`tdp`), one on which it declares jobs (`jdp`).  `jobs` holds each
declaration from "checking" (the mempool is asked) to stored, `registered` the jobs
the service keeps for later solutions, `greetings` the frames of a new subscriber and
of new templates, each written after the one before.  `SubmitSolution` and `PushSolution` are the
two ways in which a block arrives, possibly both; a call then waits for bitcoind
(`SubmitBlock`, `AnswerLost`) and for the database (`SaveBlock`, `SaveFails`,
`BookBlock`).  Tokens age with `Hour`.

### GroupMembership

One HTTP request per call, with the copies of rows it has read.  `save` writes all
the columns of its copy and inserts a row that has gone, so an old copy undoes what
others wrote; `blame` is a ghost that names the group or address to which this has
happened.  The properties exempt what is blamed: they say that nothing else breaks
the roster.  `notes` are invitations, links and requests, `cache` is
`addressCache` with the ghosts `reads` and `cachedAt`, `armed` the cron jobs of the
scheduled resets.

### GroupSolo

One group around its blocks.  As in `PplnsEngine` a distribution names what it was
computed from, here per finder; a balance row is the set of bookings whose sats are
in it.  `CallStep` is `onBlockFound` from `Enter` to its `finally`, `ResetStart` to
`ResetRows` is `scheduledRoundReset`, `KickMember` to `KickRebuild` the removal of
a member across `GroupService` and `GroupSoloService`, `SweepPick` and `SweepRow`
the group part of the dust sweep.  `KeepSnapshots` and `ResetSpares` are
`deleteAllSnapshots` with a scan that fails: the failure is logged, the caller goes on
and the snapshots stay (`spared` remembers them for the properties); `Fail` and
`ResetFail` end a call or a reset at any other rejected `await`.  The ghost field `late` marks a build that had
read what was booked or wiped before its result was stored; `torn` the heights
whose clean-up was not finished.

### Notifications

One address, its push subscriptions and one Telegram chat.  `Share` and `Reset`
change the best difficulty in Postgres and in its Redis copy, `Tick` is the cron
that compares it with the tracker and pushes a rise, `Check` the handling of the
network's difficulty, `Register` and `Unregister` the subscriptions with the
presence cache in front of them, `Subscribe` and `Remove` the rows of a chat with
their default.  Every `await` is a step; `races` names the overlaps that the
properties exempt.  `told` counts attempts: a send that an endpoint refuses is logged
and not repeated, so to be told means to be sent, not to have received.  An address
without settings, which the cron skips, is left out.

### CapacityMonitor

The hourly check of every payout bucket: `Evaluate` compares what the bucket needs
with its budget, `ReadState`, `SendMail` and `WriteState` are the round trips,
`Judge` the levels and the repetition of mails.  Loads move between checks.  The
active groups are listed after the PPLNS bucket has been checked (`ListGroups`).
Checks do not overlap: `checkHourly` is called by one timer of an hour, and
`runChecks`, which a test calls, has no other caller in the code.

### Entrance

One remote address with one socket at a time.  `Connect` and `FirstChunk` are
`routeConnection` and the detection; an HTTP request is piped to the API
(`UpstreamUp`, `Chunk`, `CloseOther`).  `Misbehave`, `BanStep` and `RefreshBans`
are the failure counter, the ban and the cache of bans; `ShareOn` and `KeepMining`
mark the mode of an accepted share, `Ask` is what the dashboard is shown.  `Restart`
loads the bans before the ports open, or fails to: the code logs the rejection and
opens them with an empty cache.

### Sv2Transport

Both ends of an encrypted connection and the TCP streams between them.  A stream is
a sequence of units, `Arrive` delivers any number of them.  Cryptography is
symbolic: a block opens with the key, nonce and associated data it was sealed with.
`Accept` is `performHandshake`, `Parse` the loop of `feed`, `Answer`, `HangUp` and
`Throw` the ends of a handler, `Push` what the pool sends by itself.

## 3. What TLC checks

A property of a cfg is often a conjunction of named parts, which are stated and
explained one by one in the module.  States are distinct states.

| Run | Bounds | Shows |
|---|---|---|
| `ledgers` | PPLNS: 3 miners (weights 1, 2, 2), every window over {0, 1, 3}, reward 12, budget 4, minimum 2, fee 20%, 3 blocks. Group: 3 members, work up to 2, reward 10, bonus 0 or 3, 2 blocks. Window: 2 miners, 2 callers, buckets of 2 shares, a window of 2, a rebuild every 3 shares, 4 shares, fairness; 500,000 states | `RoundsHold` (`ClaimsKept`, `FullyClaimed`, `WorkIsPaid`, `FitsBudget`), `DriftBounded`, `GroupHolds` (`PendingNeverNegative`, `FullyClaimed`), `GroupMoves` (`ClaimsKept`, `PotIsNotPaidDown`, `KickKeepsPot`), `WindowSafe` (`LockStepWhenQuiet`), `WindowSteps` (`WindowNeverEmpty`, `MigrationKeepsWindow`, `ShareAddsToWindow`, `TrimMeetsTarget`), `CallEnds` |
| `engine` | 2 heights, 1 share, 2 rewards or 1 reorganisation, fairness; 712,000 states | `EngineSafe` (`OneBooking`, `RecomputeIsCurrent`), `LedgerBacked`, `BookedOnce`, `PayoutBook` as the refinement `BookSpec`, `FlagComesFree` |
| `engine_paid` | 2 heights, 2 rewards, 2 shares | refutes `BookedAsPaid` |
| `blockparty` | an admin and a member, 2 callers, parts {4} and {1, 4} of 5, reward 11, fee 10%, 2 rows, 2 invitations; 1,122,000 states | `PartySound` (`ReadyIsSignedOff`, `CachesFollowRows`, `TokenFollowsInvitation`), `PaidAsAgreed` (`ActiveBlocksBooked`, `SplitsArePaid`), `PartySteps` (`NoSilentEdit`, `ActiveIsFrozen`) |
| `statistics` | 2 addresses, 2 shares, 1 fault, 1 deletion, fairness; 712,000 states | `BooksBalance` (`Conserved`, `NothingNegative`), `FlushesComplete` (`FannedOutOnce`, `StopSaves`), `BacklogDrains` |
| `statistics_loss` | 1 address, 1 share, 1 crash | refutes `NoDataLossOnCrashes` |
| `v1` | 1 address, 2 runs at a time, 3 templates, 3 jobs, 10 cases, fairness; 598,000 states | `SessionHolds` (`SessionSound`, `FairTarget`), `BookedAsBuilt`, `WorkCounts` (`WorkCreditedOnce`, `LateWorkBounded`), `SessionIsForgotten` |
| `sv2` | mining: 2 runs at a time, 3 channels, 2 prefixes, 3 templates, 8 jobs, 20 cases; declarer: 2 declared jobs, 2 templates kept; fairness; 702,000 states | `SessionHolds` (`ChannelsSound`, `JudgedAsTold`, `NewestIsNamed`, `ReleasedWhenEmpty`), `HeadersAgree`, `WorkCounts`, `BlockReachesMiner`, `DeclarationsHold` (`DeclaredSound`, `AcceptedJobsPay`, `RecordedOnSuccess`, `StreamIsTold`), `BlockIsTheSolved` |
| `v2_rebuilt` | the same, two extended channels, two templates | refutes `RebuiltAsHashed` |
| `groups` | membership: 3 addresses, 2 groups, 2 calls at a time, a cap of 2, 18 cases. One group: creator and member, 1 share each, 2 blocks, 2 rewards, 10 cases, fairness; 404,000 states | `MembershipHolds` (`GroupIsConsistent`, `CapHolds`, `CacheFollowsRows`, `OneModeAtATime`), `MembershipMoves` (`BothAgreed`, `DissolvedForGood`), `RoundHolds` (`PaidOnce`, `ResetIsComplete`, `BookedForFinder`), `BookingsStay`, `LockComesFree` |
| `notices` | 2 calls beside the cron, difficulties 0 to 3, 11 cases; 4 hourly checks of two buckets; fairness; 504,000 states | `NotificationsHold` (`BestIsKept`, `SubscriptionsSound`, `PushedOnce`), `ChangesAreTold` (`NetworkChangeIsTold`, `TrackerCatchesUp`), `CapacityIsTold` |
| `connections` | 2 Redis calls at a time, bans after 1 failure, 4 port layouts, 9 cases; blocks of 2 units, payloads of 0 to 4; fairness; 194,000 states | `EntranceHolds` (`EntranceSound`, `MarkerIsLive`), `EntranceSettles` (`NothingLingers`, `ModeSettles`), `TransportSound`, `EveryFrameAnswered` |

The conjunctions contain the `TypeOK` of their modules, or a part that says what the
variables hold (`SessionSound`, `DeclaredSound`, `ChannelsSound`, `EntranceSound`).

Why the bounds are enough to be of interest:

- Three miners are the fewest with a kept, a trimmed and an absent one at once;
  three blocks are the fewest in which a claim is left by one, moved by a second
  and collected or cut in a third.  The rewards make every rounding of the
  phases occur.  Two blocks suffice for a group, whose claims are never negative.
- Two heights and two rewards are the fewest with two concurrent handlers and a
  snapshot for another reward.  Rewards and reorganisations together are too many
  states: the constraint `Scope` of `MCPplnsEngine` keeps behaviours with a second
  reward and those with an orphaned block apart, and explores both.
- Three buckets of two shares and a window of two make a trim drop whole buckets
  while the last one is filling; two callers overlap at every round trip.  Only
  one rebuild occurs within four shares, so two overlapping rebuilds are not seen.
- One member beside the admin is enough for every pair of handlers to meet on
  the same row; parts 4 + 1 add up and 4 + 4 do not.
- Two addresses make two batches, of which one can fail; two shares are the
  fewest with one counted during the flush of the other.
- Two runs at a time are the fewest with one overtaking another at each `await`;
  three templates are the fewest of which one belongs to the block before the last
  but one.  The grace time is 0 ticks, so that one tick separates a late share from
  a stale one.  Three channels are two open ones and one that was refused or closed.
- Two calls at a time meet on every row of `GroupMembership`; three addresses are a
  creator, one who is in and one who comes in.  Every case has a call that reads what
  another one writes.  What three calls at a time could do is not seen.
- Two heights, a reset, a kick and a sweep are combined one kind at a time with
  builds and blocks.
- Two units a block make a payload of 0 to 2 blocks, which TCP can cut within a header, a
  block and a tag.

Deadlock is checked where the system cannot stop (`blockparty`); the other models
stop at a bound of shares, blocks, events or faults.

Fairness is weak fairness on what the event loop and the stores do by themselves,
never on miners, users, templates, failures or restarts:

- `engine`, `groups`: each step of a block-found handler, since the loop resumes
  every handler whose await has settled and the clients of the stores settle every
  request.
- `ledgers`: each call's next step on the share window, for the same reason.
- `statistics`: the steps of a flush, the minute's tick, which is a cron job, and
  the exit after `app.close`.
- `v1`: the resumption of each run, the closing of an ended socket, the stages of
  `destroy`, and the intervals that insert, refresh and kill rows.  `sv2`: the
  resumption of each run and the stages of `destroy`.
- `notices`: the cron, and each step of each call.  An interval fires again and
  again; a failure ends a call and does not stop the interval.
- `connections`: the steps of Redis calls, the expiry of keys, the refresh of bans,
  the close event of a socket's other end; delivery by TCP, the parsing of what was
  delivered, and an end for each started handler.  `ModeSettles` is about a miner
  that goes on and a dashboard that goes on polling, so those two are fair as well.

Runs that refute a statement of the code base:

| Run | Statement | What happens |
|---|---|---|
| `engine_paid` | the snapshot is kept "so `onBlockFound` uses the exact same split" (`docs/pplns-payouts.md:108`) | it is matched by reward only: a newer build of the same reward replaces it while miners work on the older job |
| `statistics_loss` | "No data loss on crashes (all data in Redis immediately)" (`statistics-coordinator.service.ts:32`) | the deltas are in buffers of the process until the flush of the minute, and a crash loses them |
| `v2_rebuilt` | the extended block is reconstructed as on the V1 path (`StratumV2Client.ts:1615`) | the job is built from the latest stored template and kept with the one the broadcast was called for (`:1337`); when a second template overtakes the broadcast, later channels get a coinbase of one and transactions of the other |

### What was met besides

The properties that hold are phrased around what was met while modelling, and name
it as their exception where it breaks them.  These cases have no run of their own.  Where
an exception is the very case a hazard is about, the property does not show that the code
handles it: it shows that the code fails there and nowhere else, within the bounds.  That
is so of an account deleted during a flush (`spoiled`), of a shutdown during a flush
(`kept`), of a membership that moves between a job and its block (`moved`), of a job
registered after the block change (`late`), of channels whose jobs overtook each other
(`raced`), of an open that outlives its channel (`leaky`), of a first previous hash that
is dropped (`missed`), of an answer that completes another declaration (`mixed`), of
answers of bitcoind that are lost (`lost`), of a copy of the best that is lost or raced
("best" in `races`), of a capacity mail whose state was not written (`torn`), of a counter
without expiry and a ban the cache has missed ("counter", "ban" in `races`), and of an
acceptance that meets a revocation in a party, which the run keeps apart (`Overlap`).
Some have a definition in a module that states the claim and is not checked:
`OvershootIsCovered`, `CoinbaseIsBooked`, `SplitsAddUp`, `ReadyMeansSigned`,
`StreamBooksItsBlocks`, `OneOpenLink`.

Money:

- "Mathematically impossible: overshoot > 0 ..." (`coinbase-distribution.ts:734`):
  a trimmed miner with old credit and an absent debtor reach it, and the whole
  reward goes to the fee address.
- The solvency cut comes after the dust test, so an output can end up below the
  dust limit (`coinbase-distribution.ts:705`).  A group member's sub-dust claim is
  cut from a later payment once more (`:776`).
- A different block found while the flag is set is not booked
  (`pplns.service.ts:691`); `OneBooking` and `BookedOnce` hold all the same.
- A build in flight during a booking ends with balances that predate it (`:641`);
  a later block that uses it overwrites the booking's.  `LedgerBacked` says that
  what is in the ledger is at least always backed by history.
- The finder's bonus makes two history rows for one address, which violate the
  unique index; the booking is rolled back as a duplicate, although the bonus and
  share rows add up in the tests (`group-solo.service.spec.ts:783`).
- "No stale snapshot can survive" (`group-solo.service.ts:599`): a build in flight
  stores one after the deletion.  `PaidOnce` exempts it.
- A rejected call in the migration of the window is logged and the pool goes up
  (`pplns.service.ts:171`); the first share makes the bucket index, and since the
  migration is done only without one (`:506`) the shares of the older layout are never
  part of the window again.  `ShareAddsToWindow` names that start as its exception.
- Overlapping trims can subtract a bucket twice, and the `hDel` of a departed
  address can take a share recorded meanwhile (`pplns.service.ts:394`), although
  the stores are called "maintained lock-step" (`:62`).
- "Sum of all members' percentBp MUST equal 10000" (`blockparty-member.entity.ts:12`)
  is not tested on the path that `addMember` and `updateSplits` take to ready; an
  edit of the splits that overlaps a confirmation makes an unconfirmed member's
  split payable (`blockparty.service.ts:189`).

Groups:

- A link is replaced in a transaction under READ COMMITTED, so two of them can both
  stay open (`pplns-group-invitation.service.ts:378`).
- The cap and one-group-per-address are tested before an `await`
  (`group.service.ts:266`); a save can bring a dissolved group back; overlapping
  rebuilds of the cache can leave the older one.  The name of a dissolved group is
  never free again.
- A SCAN that fails in `deleteAllSnapshots` is swallowed (`group-solo.service.ts:474`):
  a reset goes on to delete the rows and finishes, and a later block may be booked from
  a snapshot of before it.  `ResetIsComplete` exempts those snapshots (`spared`).

Sessions:

- V1: `effectiveJobDifficulty` remembers one change (two changes before a share
  judge it by the wrong target); cpuminer's fallback difficulty ignores the floor of
  the PPLNS port; a job added after the block change for a template of the old block
  is not stamped; a row inserted or refreshed after `destroy` shows a worker as
  online until `killDeadClients` (`client.service.ts:195`).
- V2: a handler that resumes after the last channel was closed or the socket
  destroyed leaves a subscription (against `StratumV2Client.ts:1044`); custom job
  ids collide with the pool's; extended jobs are not retired if the first channel
  was a standard one; a refused extended channel keeps its prefix.  An
  `UpdateChannel` with an absurd hash rate is ignored, but the maximum target that
  came with it is kept (`ignored`).  Two handlers of templates that serve a channel at the
  same time let a SetNewPrevHash name an older job (`raced`); a difficulty of a
  declaring client is set on all channels before any of them is told.
- Stream: `skip(1)` drops the first previous hash of a subscriber (`:1085`); on a
  connection without a mining channel an accepted block is neither saved nor booked,
  as the handler ends in a TypeError (`:1898`).
- Declarations: the answer with missing transactions is not matched to its request
  (`JobDeclarationClient.ts:394`); a pushed solution is matched by previous block and
  age (`:487`); a token can vanish between declaration and acceptance; a rejected
  block is saved.

Around them:

- The load of the bans at start is caught when it is rejected
  (`protocol-detector.service.ts:143`): the ports open with an empty cache, and a banned
  address gets in until the next refresh.  `BannedIsRefused` exempts it.
- A lost EXPIRE after INCR leaves a failure counter without end; HTTP chunks that
  come before the upstream is connected are lost; `MiningModeService.invalidate` is
  not called by anything, so a mode can be 30 seconds old.
- Act 1 of the handshake split by TCP counts as a failure; complete frames before a
  bad one in the same chunk are dropped.
- Capacity monitor: urgent to warning is silent and resets the level, so a second
  rise within a day sends no mail (against the comment at `:251`);
  `clearGroupAlertState` is never called.
- Notifications: ntfy's `/subscribe` is tested before `/subscribe_bestdiff`
  (`ntfy.service.ts:307`, `:461`); the count after a deletion of a subscription races
  with a registration; a lost write of the Redis copy lets a lower best replace a
  higher one.
- A deletion of an account during a flush brings deleted shares back or takes a row
  below zero; the flush at shutdown is skipped while another one runs.  `Conserved`,
  `NothingNegative` and `StopSaves` name these cases as their exceptions.

## 4. What is proved

`PplnsEngine_proofs`, for every number of heights, rewards, shares and
reorganisations: `TypeOK`, `OneBooking`, `RecomputeIsCurrent` and with them
`EngineSafe`; `LedgerBacked`, `BookedOnce` and the refinement of `PayoutBook`.  The
assumptions are those of the module: bounds are naturals, and `None` is neither a
distribution nor a reward.

`TypeOK` is inductive because it says what each pc of a build and of a call
holds: past the window read there is a distribution, and in a call its reward is
the block's.  That last part is what the refinement needs and where the reward
check of `onBlockFound` enters.  `OneBooking` ties the flag to the pcs it
protects and is inductive with `TypeOK`.  `LedgerBacked` covers every place a
distribution can be in (stored, cached, in flight, on a miner), as any of them
may be applied later.  `RecomputeIsCurrent` needs `OneBooking`: only a second
booking could move the balances between reading and applying them.

`StatisticsCoordinator_proofs`, for every set of addresses and every number of
shares, failures and deletions: `TypeOK`, `Conserved` and `NothingNegative`, which
make `BooksBalance`.  `Conserved` is not inductive: that confirm takes the drained
deltas out of the buffer exactly (`Confirmed` replaces what would not stay positive
by nothing) needs to be known.  The invariant `IInv` therefore describes one key of
one table at a time (`Cell`): the books balance, nothing is negative, and while the
deltas are with the database the buffer holds no less than was drained.
`BatchesApart` keeps a batch from being carried out twice and `FlagGuards` says that
only one flush drains.  One lemma per kind of change to a key (`CellAdd`,
`CellStore`, `CellConfirm`, ...) carries the arithmetic, one per action brings it to
the state.

`FlushesComplete` compares keys with each other and with the time of a stop, so it has
two invariants of its own.  `Tallied` follows the rejections of one client from the
drain over the fan-out to the worker's row, as long as no account was deleted.
`Stopping` follows a stop: until its flush is over, what was counted before it is in
the deltas that are with the database, and afterwards nothing of it is in the buffer.
The proof found the case that `StopSaves` exempts and the run does not reach: an account
that is deleted in two flushes leaves less than zero behind in the first, which the
second takes for shares that are still to be stored.

`Groups_proofs`, about `GroupSolo`, for every number of members, shares, heights and
rewards: `RoundHolds` and `BookingsStay`.  The inductive invariant `IInv` says

- `Typed`: what each point of a build or of a call holds, and for whom;
- `LockHeld`: the lock is set exactly while one call is in its critical section;
- `SharesSent`, `EventsKnown`: whatever holds shares or bookings holds such as happened,
  so that a new one is in none of them;
- `PaidApart`: once a block has emptied the round its shares are in no round and no
  build, and once it has dropped the snapshots they are in no snapshot and with no other
  call.  That is what `PaidOnce` needs of every place a distribution can be in;
- `Forgotten`: what a reset has emptied stays empty, and only the snapshots its scan did
  not get through to (`spared`) are left of what it found;
- `RowsRead`: whoever will write a row whole has read every booking in it.

The parts exempt what is `late` or `torn`.  `RowsRead` was not inductive at first: a
booking that a late write brings back (`back`) may be missing in what others have read.

`Groups_proofs`, about `GroupMembership`, for every finite set of addresses, every set of
groups and every number of calls in flight, each of which may fail at any `await`:
`MembershipHolds` and `MembershipMoves`.  The run takes two calls at a time, the proof any
number.  `MembershipAssumption` lets the rows begin as anything the calls leave behind
(`Stored`): whoever is in a group is in one that exists, and a group has one creator, no
more members than its cap and none once it is dissolved.  `RosterInv` says

- `Shape`: the types, what a call holds at each step (`CallOK`), such as that the copy of
  an invitation differs from the row in its status only (`Alike`), and that nobody knows of
  a group that is being founded (`NewGroups`);
- `Tokens`, `Crown`: the copy of the row a transfer holds is no newer than the row; a
  group has the creator its row names, none between the two saves of a transfer
  (`transferCreator` demotes before it promotes), and then the new one, as long as no
  second transfer holds an older copy (`Outdated`);
- `Counted`: the flag fits the members once no call is still going to count them;
- `Capped`: beside members within the cap, a place for whoever has passed the check and is
  about to be inserted.  The check and the insertion are two round trips, and two of them
  at a time are what `rushed` names;
- `Gone`: a dissolved group has no members and no call that would still insert one;
- `Fresh`: the cache is what the rows say when the last read of them has been published and
  no call will still read them;
- `ApartInv`: who is about to be inserted while in a Blockparty is on record.

Each part exempts the race that breaks it, and no other: `GroupOK` is proved group by
group, so what is blamed on one group excuses nothing of another.  `BothAgreed` follows
since a call on its way to the insertion holds a message that is still in `notes`
(`Hosted`), `DissolvedForGood` from `Gone` and from what each call that saves a group row
does with its `dissolved`: keep that of the copy, which is the row's or is blamed, or set
it.  The proof showed that
`OneModeAtATime` was wrong as it stood: it excused any call in flight on the address, and
did not know of a transfer that overlaps a dissolution.  Its save brings the member back
whom the dissolution had set free, after they joined a Blockparty.  The run now has that
case, and the property names it.

`Notices_proofs`, for every number of calls, of groups and of levels, and for both
modules at once, since their instance is what the run checks: `NotificationsHold`,
`CapacityIsTold`, and of `ChangesAreTold` the safety half `NetworkChangeIsTold`.
`NoticesInv` has a part for each of the four things an owner is told of.  Each says what
a call in flight has read and may still rely on, and holds until a race of its kind is on
record: the best and its copy (`BestPart`), rows and presence cache (`RowPart`), a chat
and its default (`ChatPart`), pushes and tracker (`PushPart`).  `MonitorInv` says that
what Redis remembers of a bucket is what the operator was told last, at the same age.
`AllSent` says that a run which is about to move the tracker has tried to send what it
moves it to to every subscription.  Two properties were wider than the truth before they were proved, and have been
narrowed in the module: two removals of subscriptions that overlap can leave two
defaults in a chat, and a value may be pushed again once the best was another.

`StratumV1Session_proofs`, for every number of runs, jobs and templates and all
difficulties: `SessionHolds`, `BookedAsBuilt` and `WorkCounts`.  `V1Inv` relates the job
a miner works on to the session it was made in, across every `await`:

- `TargetOK`: what a job was asked for is the difficulty of now, or, after one change,
  the one that `effectiveJobDifficulty` remembers for jobs below the boundary; after two
  changes nothing is said, as the code remembers one (`FairTarget`);
- `Honest`: the route of a job or a run is that of its address, unless a membership has
  changed since it was read (`BookedAsBuilt`);
- `SeenOK`: the hashes credited on a job that is not retired are in the list of those
  seen (`WorkCreditedOnce`);
- `StampOK`: a job that was registered in time is retired with its template
  (`LateWorkBounded`);
- `Counted`: work is credited for ids that were given out, up to the restart after which
  ids begin again.

The assumption on the vardiff constants (`SessionAssumption`) is what makes each step of
the difficulty end at or above the floor.  A restart of the model used to keep the
boundary of the old session, which the proof of `TargetOK` showed.

`StratumV2Session_proofs`, for every number of runs, channels, prefixes, jobs and
templates and whatever the miner sends: `SessionHolds`, `WorkCounts` and `HeadersAgree`.
`IInv` has six parts:

- `Typed`: what a channel and a call are made of, that a channel a call works on was
  opened, that the primary channel is an open one, that the newest template is the
  store's;
- `PrefixInv`: the prefixes of open extended channels are in use, each by one of them,
  and none is a refused one's;
- `ReleaseInv`: there is one subscription at most, that of the connection; what
  `destroy` has still to release is among its stages;
- `WorkInv`: a share between its judgement and its booking is worth what it met, and a
  target on its way is at the floor;
- `ToldInv`: a channel whose difficulty, or that of one of its jobs, was not told to
  the miner has a loop of `SetTarget` ahead of it that will tell that one (`Due`);
- `NameInv`: two sends under way to one channel make it `raced`, so on one that is not
  the job that is being written is the last.

The steps of a handler come in eight kinds (`GoesOn`): it ends, tells a target, starts,
skips, writes or records a send, sets a difficulty, tells the next channel.  One lemma
shows that there are no others (`GoesOnIs`); each part of the invariant is then shown
kind by kind.  What a broadcast does to channels is one relation, `Settled`: jobs are
forgotten and retired, a channel is noticed as a declarer's or counts as raced, and
nothing else changes.

`WorkCounts` says how a step may add to `credits`, and needs two more invariants
(`CountInv`), since what a share meets was decided several steps before:

- `OnceInv`: work that has been credited is in the channel's list of hashes seen, or its
  job is over (`Over`): forgotten, or retired, and the channel will not register that id
  again.  The second half is about sends under way, because a job's id is drawn from the
  store before the write is awaited and registered after it (`FreshJob`, `Issued`);
- `LateInv`: a block change retires a job at its own turn at the latest (`Timely`, of the
  channel's jobs; `JobTimely`, of the store's), so a job that still counts is on the tip,
  is inside the grace time, or was registered late or kept; templates that calls in
  flight name are published ones (`KnownCall`).

`HeadersAgree` compares what the miner hashes a job on with what the pool recorded for
it one or two awaits later, and again needs more than itself (`HeadInv`), on top of both:

- `FedInv`: a standard channel whose miner was named another block than the tip, or is
  just being named one, has a call ahead that will name the tip to it (`Coming`): one of
  its own, or a broadcast that has not reached it.  Hence a send to a channel that is not
  `raced` is alone there and finds the miner on the tip;
- `SendInv`: what a job on its way was written for (`mined`) is what it will be recorded
  with, and its entry in the store is of the template it is built of;
- `MinedInv`: `latestExtendedPrevHash` is the block the miner was named last, and a job
  that is recorded is hashed on the block recorded with it, unless it is a future job or
  its id is shared with a custom one.

Each step of a call leaves the work of all channels alone, writes a job or records one
(`Touches`), which gives the cases.  A broadcast reaches every channel that it does not
leave behind as `raced` or as a declarer's (`DispatchedOn`), which `FedInv` needs when a
block changes.

The first attempts at this proof failed for good reasons, and TLC then found the
behaviours with cases that were added to the run.  A channel that is opened while two
templates are being handled, or whose connection greets again as one that selects its
work, was named an older job or missed one (`Joining`, `Twice`, `Again`); a share
that waits while its channel is closed is judged on jobs no block change has retired
(`Closing`, `Leaving`); the maximum target of an ignored update is above the channel's
(`Absurd`).  The properties now name these as exceptions.

`Connections_proofs`, for every number of Redis calls, every environment and all spans
in the order the code has them: `EntranceHolds`.  `BanInv` says that there is one refresh at a time, and that
none which will drop the ban from the cache meets one in Redis, unless the cache may lack
it already: after a start whose load was rejected, a ban made during a refresh or one
whose failure could not tell the cache, and until a refresh gets through.  `MarkInv` says that a mark
under way is the only one and is that of the last share; that what the pool remembers to
have written is what Redis holds, at the same age (`Noted`); and that the marker is never
older than the debounce lets it become (`Alive`).  `1 < Refresh < Ttl` is all that is
needed of the numbers.

`Blockparty_proofs`, for every admin and set of members, all parts, rewards and
thresholds and every number of handlers, with a failure at any `await` and restarts:
`PartySound`, `PartySteps`, and of `PaidAsAgreed` the half `ActiveBlocksBooked`.  The
theorems assume `Overlap = FALSE`, as the run does: handlers that write the same rows do
not overlap, only confirmations with each other and shares with each other.  Without that
`PartySound` does not hold, as `ReadyMeansSigned` shows.  `IInv` has these parts:

- `Standing`: a party past its draft has an admin who holds the token, and what the share
  path sees of a routable party is its status, unless it is dissolved;
- `Invites`: only the last invitation of an address can be open, so a handler that closes
  one (`Answering`) closes the last;
- `Point`: what each handler knows where it stands, such as that the row about to be
  saved differs from the one there in its consent only (`Saving`), or that the group row
  about to be written is the one there but for what it changes (`Writing`);
- `CacheInv`, `ConsentInv`, `TokenInv`: the caches, the status and the member tokens
  follow the rows, but for a handler that is on its way to make them (`Behind`, `Owing`,
  `Asking`, `Taking`).  That a party is not left in "confirming" when all confirmed needs
  one of the confirmations under way to find it out (`Due`), and that none will set it
  back (`Judged`);
- `PayInv`: the splits a coinbase of an active party pays are those in the rows.

A handler that writes rows is the only one under way, so the invariant is proved in three
forms that each imply it: `Solo`, of the handler that is alone, `Votes`, when all of them
confirm, and `Sharing`, when all of them count shares or none runs.

What stays with TLC:

- liveness (`FlagComesFree`, `CallEnds`, `BacklogDrains`, `SessionIsForgotten`,
  `BlockReachesMiner`, `LockComesFree`, `TrackerCatchesUp`, `EntranceSettles`,
  `EveryFrameAnswered`), which is out of the prover's reach;
- what is a sum over addresses or a concatenation of blocks, which needs induction over
  data: the arithmetic of `CoinbaseDistribution` and with it `PplnsRounds` and
  `GroupRounds`, the totals of `PplnsWindow`, `SplitsArePaid` of `Blockparty`, the bytes
  of `Sv2Transport`;
- `JobDeclaration`, which has no proofs so far.

## 5. Plan

Next is a proof about `JobDeclaration`: an accepted job pays what its token promised.

And in the models: `DustSweep` with the PPLNS rows it read against a booking in
between, three tasks at a time where the state spaces allow it.

## 6. Not modelled

- The worker pools and hourly sums that are rebuilt from Postgres, and the readers
  of the statistics: nothing is decided by them.
- HTTP parsing and the wiring of the application; handlers of a controller that
  change state are in the module of the service they call.
- Entities and migrations; the unique indexes the services rely on are in the
  actions that hit them.
- Texts of mails, chats and pushes, chat commands other than those that change a
  subscription, hourly reports.
- Byte formats: SV1 lines, SV2 message codecs, coinbases and headers.  What a
  property needs of them is there: the difficulty a hash meets, the previous block
  of a header, the frame a message is in.
- Float rounding of share difficulties and of satoshis.
- Polling and ZMQ of the Bitcoin node: a new template comes at any time.
- Several pool processes on one database (the code assumes one).
