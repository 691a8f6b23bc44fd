# A TLA+ model of BandChain

This directory models BandChain v3 (the Go code under `src/`): the Cosmos SDK
modules of the chain and the daemons that work for validators and for members of
threshold-signature groups. Small instances are checked with TLC, and theorems
about x/tss, x/bandtss, x/oracle, x/tunnel, x/restake, x/feeds, yoda, grogu and cylinder
are proved for every value of the constants with TLAPS.

`PROJECT.json` maps every definition to the lines it models and lists the runs,
mutants, hazards, findings and theorems.

## 1. The system

| Part | State | What changes it | What makes it hard |
|---|---|---|---|
| x/tss, group creation | groups, members, interim data of the three rounds, pending list, expiry pointer | `CreateGroup`, `SubmitDKGRound1/2`, `Complain`, `Confirm`, EndBlocker | counters beside sets, two loops in one EndBlocker, callbacks, parameters that change on the way |
| x/tss, signing | nonce (DE) queues, signings, attempts, partial signatures, pending, expiration and retry lists | `SubmitDEs`, `ResetDE`, `RequestSigning`, `SubmitSignature`, EndBlocker | nonces shared by groups, retries against late signatures, lists that must agree |
| x/bandtss | members, current and incoming group, transition, signing pairs, escrowed fees | messages of customers, members and governance, callbacks of x/tss, EndBlocker | callbacks of old groups and signings arrive in any order |
| x/tunnel | tunnels, deposits, latest prices, active set, fee payers | messages, EndBlocker | one tunnel of several fails in the EndBlocker; prices at the edge of a deviation |
| x/oracle | data sources, scripts, requests, reports, pending list, validator status, fees | messages, IBC packets, EndBlocker | reports in the block of the expiry; owners change fees and code while requests run |
| x/feeds | votes, total powers, current feeds, validator prices, prices | `Vote`, `SubmitSignalPrices`, EndBlocker | who counts as silent when feeds, intervals and parameters change; the weighted median |
| x/restake | vaults, locks and an index by power, stakes | `Stake`, `Unstake`, `SetLockedPower`, staking hooks | several keys lock the same power; it also shrinks outside of the module |
| yoda | pending requests, queues per key, free keys | events, goroutines, the main loop | restart, a key that is lost or shared, a queue nobody looks at |
| cylinder | key-generation data, group keys, private nonces on disk; messages in memory | workers, goroutines, sender | crash between two writes, event and pending query for the same thing, retries |
| grogu | pending signals, queue of submissions, idle keys, last prices as read | signaller loop, submitter goroutines | data read before a concurrent submission ends |
| x/rollingseed, pkg/bandrng | seed of the block, sampling | BeginBlocker | off-by-one in the choice by weight |
| x/globalfee | minimum gas prices | `UpdateParams`, fee checker | which transactions are free |
| pkg/tss | - (pure) | - | algebra of secret sharing and of combined signatures |
| app, cmd, client, pkg/* | wiring, I/O, encoders | - | - |

How the parts meet:

- x/bandtss calls x/tss (`CreateGroup`, `RequestSigning`) and gets callbacks when
  a group or a signing ends (`TSSCallback`).
- x/oracle and x/tunnel pay x/bandtss for signatures. x/tunnel reads the prices
  of x/feeds, and x/feeds locks the power of voters in x/restake.
- yoda serves x/oracle, cylinder serves x/tss, grogu serves x/feeds.
- `app/modules.go` fixes the order of the EndBlockers.

A message runs as a whole or not at all, and so it is one action. An EndBlocker
that loops is several actions, one for each turn, which a variable `phase` keeps
together: no message runs between them.

## 2. The modules

| Module | Models | Remarks |
|---|---|---|
| `GroupLifecycle` | what x/tss promises about a group: it ends once, with one callback | abstract; implemented by `TSSGroup`, used by `BandTSS` |
| `TSSGroup` | group creation | a share is good or bad; a key is the bag of commits in it |
| `SigningLifecycle` | what x/tss promises about a signing | abstract; implemented by `TSSSigning`, used by `BandTSS` |
| `TSSSigning` | nonces, signings, attempts | the random choice of members is any set of the right size |
| `BandTSS` | x/bandtss, composed with instances of the two lifecycles | a step of a lifecycle runs its callback in the same step |
| `Tunnel` | x/tunnel | a route accepts or refuses a packet |
| `Oracle` | x/oracle | the WASM machine is a choice of outcomes |
| `Feeds`, `Median` | x/feeds; the weighted median | `Median` has no state; its loops are recursive functions over positions. `StableSort` is `slices.SortStableFunc` of the Go library, so the map names the comparisons it is given |
| `Restake` | x/restake with the staking hooks | slashing is external |
| `Yoda` | the reporter's daemon | chain and web socket are external |
| `Cylinder` | the member's daemon, its store and its sender | a secret is a version number |
| `Grogu` | the price feeder's daemon | prices are abstracted to "may be due" |
| `Rewards` | the allocation of block rewards in x/oracle and x/bandtss | decimals of `Precision` parts; truncation as in the code |
| `Sampling` | pkg/bandrng and the draws of x/oracle and x/tss | any stream of draws in place of the generator |
| `Threshold` | pkg/tss: shares, Lagrange coefficients, partial and group signatures | a point is its discrete logarithm modulo a small prime |
| `BlockInputs` | the inputs of `Median` and `Rewards`, and what their results should be | one input per state |
| `Algorithms` | `BlockInputs`, and the same for `Sampling` and `Threshold` | one input per state, so that TLC enumerates them |
| `MC...` | constants for TLC | |
| `TSSGroupProofs`, `TSSSigningProofs`, `BandTSSProofs`, `OracleProofs`, `TunnelProofs` | the proofs about the module of that name | section 6 |
| `PowerProofs` | the proofs about `Restake` and `Feeds` | extends both; their names do not overlap |
| `DaemonProofs` | the proofs about `Yoda`, `Grogu` and `Cylinder` | extends the three; their names do not overlap |
| `WeightTheorems` | sums over finite sets; the proofs about `Median` and `Rewards` | the sums are lemmas that the balances and powers need |

Variables and actions carry the names of the code where they can. The operators
called `X_Something` that stand before an operator `X` are wrong versions of `X`, the way a
slip in the code would make it; each is known to break a property. `TypeOK` of
`TSSGroup` is proved; the one of `TSSSigning`, `BandTSS`, `Tunnel`
and `Oracle` documents the types.

What stands for what:

- **Cryptography.** A member's data is consistent or not, a signature right or
  wrong. `TSSGroup` keeps which members' commits are in a key, which is enough to
  tell that all keys agree. In `Cylinder`, a secret has a version, and what is on
  the chain names the version it was made from.
- **Coins** are natural numbers per account; only totals and who pays matter.
- **Randomness** (sampling of validators and members) is any choice in the state
  machines; `Sampling` checks how a choice is made from draws.
- **Time and height** move by actions up to a bound. Parameters change only by
  `UpdateParams`, between values given by the instance.
- **Integers** keep their width where a sum can wrap: `SumPower` in `Feeds`, with
  a width that the instance makes small.

## 3. The runs

Every passing run finishes within five minutes with two workers, and together they
fire every action. `PROJECT.json` names, for each property, a slip in the code
that the property catches.

| Run | Question | Bounds, and why they are enough |
|---|---|---|
| `group` | Do the rounds of key generation keep their counters, lists and keys together, whoever cheats, is silent or late? | Two groups share the pending list and the expiry pointer; up to three members make honest majorities and one cheat possible; periods 1 and 3 let a later group be due before an earlier one. |
| `signing` | Is a nonce used once, is every waiting signing on a list the EndBlocker looks at, does every signing end? | Two groups over the same two accounts compete for nonces; two attempts reach the retry and the last attempt; queues of two nonces run empty, full and are reset. |
| `bandtss` | Is the group on duty always sound, do transitions end, however callbacks are ordered? | Three groups let an abandoned transition, its successor and the current group overlap; two signings are one handover and one customer. |
| `tunnel` | Is the module account exact, does a tunnel send the right prices, is an active tunnel backed by its deposit? | Two users, two signals and prices below, between and above the two deviations. One tunnel: tunnels share only the module account and the active set. More tunnels: section 6. |
| `oracle` | Do fees stay within the limit, is a request resolved once, who is penalised? | Two requests overlap in the expiry loop; two validators make "some reported" possible; two signing prices change between request and resolution. x/feeds misses prices of one validator (`Feeders`) only, and a requester has three coins (`Wealth`): enough for the fees of a request and a signature that no longer fits. |
| `feeds` | Are total powers and prices of the block exact, who is deactivated? | Two voters and two signals reorder the feeds; one validator beside a fixed power (`OtherTokens`) decides the quorum. |
| `algorithms` | Do the computations agree with a plain definition? | All inputs of small ranges: see the constants of `Algorithms.cfg`. Members 1 to 22 cover both the tables of Lagrange coefficients (up to 20) and the general case; quorums have up to three members, so that the longer rows of the tables are not reached. |
| `restake_locks` | Does the power of a staker cover every lock? | Two keys, one locking more than the other; two denominations, one of which is disallowed; a liquid staker, whose power only stakes give. |
| `yoda` | Is no request missed or handled twice, no key lost, no report forgotten? | Three requests in one transaction fill a batch, leave one behind and cut the transaction at a pending request; the query at the start is answered or answered with an error; one crash. More keys and transactions: section 6. |
| `cylinder_secrets` | Is a secret on disk as long as the chain may ask for it? | One group, one signing and one fault at any point. |
| `grogu_pending` | Are the signals marked pending exactly those on their way? | Two signals, two keys, two attempts, and one submission that waits (`Capacity`: the places of the channel and the one that `Start` holds while no key is idle). |
| `signing_period_change` | expects a violation: section 5 | Two signings suffice for an order. |

The bounds on heights and times stop the clock, never a block: at the bound blocks
go on with the same height, and what needs a later height (a new group, a signing,
a request) is only started while there is room for its deadline. So the bound never
makes a liveness property true or false by itself. `MaxCrashes`, `MaxFaults`,
`MaxTimeouts`, `MaxVersion` and `MaxDEs` bound how often a thing happens.

What the properties say is in the comment above each of them. `CHECK_DEADLOCK FALSE`
stands where the system may stop: a daemon with nothing left to do and no crash or
fault left, `Feeds` at its last height or after a failed block, and `Algorithms`,
where a state is one input.

## 4. Fairness

- `TSSGroup`, `TSSSigning`, `BandTSS`, `Oracle`: weak fairness of the steps of a block
  (EndBlocker turns and the next block). Consensus keeps producing blocks, and an
  EndBlocker runs to its end in each. Nothing is assumed of members, validators,
  customers or governance: they may stay silent for ever.
- `Yoda`: weak fairness of the start, of the main loop's receive from `freeKeys`, of
  each goroutine's next step or failure, and of the end of `SubmitReport`. Goroutines
  are scheduled; queries, executions and broadcasts are bounded by tries and timeouts.
  Nothing is assumed of the chain: a transaction may never be committed.
- The other modules have safety properties only.

## 5. Where code and documentation disagree

`signing_period_change` is a run of the project: `HandleExpiredSignings` stops at the
first entry that is not due, while the README of x/tss has the expirations in
increasing order. When governance shortens `SigningPeriod`, an attempt that is due
waits behind one that is not. (Both still end: `EverySigningEnds` does not depend on
the order.)

The configurations below show further disagreements. Each checks one property that a
comment or a document states, and TLC finds it violated.

| Configuration (module) | Property | What the code does |
|---|---|---|
| `BandTSS_rejoin` (`MCBandTSS`) | `IdleCanRejoin` | `AddMember` creates a member as active and leaves its x/tss member as it is. A member deactivated on an earlier duty of the group stays inactive in x/tss after `ForceTransitionGroup`, and `ActivateMember` answers that the member is active already. `x/bandtss/README.md:235`: "they must send `MsgActivate` to rejoin the system". |
| `Oracle_seconds` (`MCOracle`) | `MissIsPenalised` | `MissReport` compares the block time of the activation with a `RequestTime` cut to seconds; a validator activated in an earlier block of the same second is not deactivated. `x/oracle/keeper/validator_status.go:130`. |
| `Feeds_quorum` (`MCFeeds`) | `EndBlockNeverFails` | With a power quorum of zero (which `Params.Validate` accepts, and to which a small one is truncated) `CalculatePrice` asks for the median of no prices; the error fails the block. `x/feeds/keeper/keeper_price.go:263`: "should not happen". |
| `Feeds_width` (`MCFeeds`) | `VoteIsLocked` | `SumPower` adds `int64` powers without an overflow check, so the power locked can differ from the power voted. `x/feeds/keeper/keeper_signal.go:152`. |
| `Cylinder_restart` (`MCCylinder`) | `SharesMatchCommits` | Round 1 makes new data and overwrites the stored one although a message with the old data may be on its way (restart, or event and pending query); shares of round 2 then do not match the commitment. |
| `Cylinder_retry` (`MCCylinder`) | `NoncesAreNew` | `BroadcastAndConfirm` sends the messages again when it does not find the first transaction in time, and nothing makes a second `MsgSubmitDEs` fail: the same nonces are queued twice. |
| `Grogu_stale` (`MCGrogu`) | `NotTooEarly` | The prices are read before the pending signals; a submission that ends in between leaves a signal that looks due, and the chain refuses it for its cooldown. `grogu/signaller/signaller.go:306`. |
| `Grogu_heights` (`MCGrogu`) | `HeightNeverFalls` | The greatest height is compared and stored in two steps by three goroutines, so the lower one can be stored last. `grogu/querier/utils.go:96`. |

`Yoda_start` (`MCYoda`) checks `StartFindsOpen`, which no document states but the start of
yoda is written for: the daemon knows every open request from its start on. TLC finds it
violated: `yoda/run.go:63` looks at the error of the transport only. A node that answers
`PendingRequests` with an error code gives an empty value, the list reads as empty ("Found 0
pending requests"), and requests older than the start are never reported. `NoRequestMissed`
exempts them by name (`unlisted`).

## 6. What is proved

The theorems hold for every value of the constants that satisfies the named
assumptions of the component's module (positive bounds, groups over a finite set of
accounts, finitely many users, stakers, validators and denominations, positive deviations,
finitely many signals with natural-number prices, decimals of whole hundredths,
transactions without common requests). TLC evaluates these assumptions in the runs.

**Sums** (`WeightTheorems`). Balances and powers are sums over finite sets. What is needed of
them: a sum takes one term off (`SumRemove`, `SumAdd`), changes by what one term changes
(`SumUpdate`), depends on the terms only (`SumSame`) and is monotone (`SumMonotone`). The
induction over finite sets is by a minimal counterexample: among the subsets for which a
statement fails there is one that is minimal for strict inclusion, which is well-founded on
the subsets of a finite set (`MinimalSubset`). Induction over the rounds of a loop is the
same argument on numbers.

**The weighted median** (`WeightTheorems`). The loops of `MedianValidatorPriceInfos` carry
the section and the power used so far from entry to entry. The invariant of the inner loop
says what an entry has taken of each section, the one of the outer loop that the power used
is the power of the entries so far; so what an entry weighs is its overlap with the sections,
wherever the limits cut it. Sorting is a list in a strict order, which has each position
once, and so a sum over the sorted entries is the sum over the entries. This gives
`MedianIsByDefinition`, that the code computes the median by definition for every list of
price infos. A unit of power weighs most in the first sections: the entries of a quarter of
the power weigh less than half of all, wherever the times put them, and `QuarterNeverDecides`
follows: their median lies within the prices of the others. `EveryMedianIsReference` and
`NoQuarterMovesPrice` state both as the properties that the run `algorithms` checks.

**Rewards** (`WeightTheorems`). Decimals truncate in every product and quotient. A truncated
share is at most its exact value, so the shares of the validators together are at most what
they divide, and what the truncations leave goes to the proposer (x/oracle). The rewards of
members are whole coins, the same for each, and what they leave goes to the community pool
(x/bandtss). Proved: `EveryRewardAddsUp`, for any
fees, percentages, taxes, powers and members.

`BlockSpec`, the specification of these three theorems, is the part of the specification of
`Algorithms` that takes these inputs; in its other states the three properties say nothing.

**Group creation** (`TSSGroupProofs`). The inductive
invariant `IInv` is the type invariant, `PendingIsComplete`, the order in which the
EndBlocker's phases empty the pending list and pass groups, and for each group:
it has data exactly between its creation and the expiry pointer (`ExistenceInv`);
counters count the stored submissions (`CountInv`); what earlier rounds left behind
(`RoundInv`); who sent bad shares and who was blamed for it (`ShareInv`); and at most
one callback (`CallbackInv`). It is needed because each property alone leaves out what
keeps it: the pending list depends on counters that are kept beside sets, and an active
group is sound only if the complaints of round 3 were judged on the data of rounds 1
and 2. Proved from it: `TypeCorrect`, `PendingExact`, `ActiveSound`, `HonestSafe`,
`InterimData`, `NoneOverdue`, `CompleteNeverExpires`, and `LifecycleImplemented`, that
group creation implements `GroupLifecycle`.

**Nonces** (`TSSSigningProofs`). `NonceInv` adds to `QueueIsExact` and `NonceUsedOnce`
that the nonces in a queue are different and numbered up to the count of submitted
ones, and that a used nonce is in no queue. That is what makes the next one taken a new
one; `MsgResetDE`, which starts the indices over, does not start the numbers over.
Proved: `NonceOnce`, `QueueExact`. A nonce is a number, given in the order of
submission: that a member submits different nonces is an assumption about the daemon
(section 5, `Cylinder_retry`).

**Signings** (`TSSSigningProofs`). `TrackInv` relates the three lists to the status and
the current attempt of each signing and to the stored attempts: lists have no
repetitions, an attempt is in the expiration list exactly while it is stored, a signing
is pending exactly when everybody assigned has signed, and between messages the retry
list is empty. Proved: `SigningsTracked` and `SigningLifecycleImplemented`, that signing
implements `SigningLifecycle`.

`BandTSS` uses the two lifecycles in place of the detailed modules, which these
refinements justify.

**x/bandtss** (`BandTSSProofs`). `BandInv` says of the members that they are those of the
groups on duty, and of a transition that its current group is the one on duty, that its
incoming group is another one, that the handover it waits for was asked of the current
group, that it goes to `WAITING_EXECUTION` only with a signature or without need of one,
and that only a transition which waits for its execution is forced. The last three make the
callback of an old signing or of an abandoned group harmless. Proved: `DutySound`,
`IdleIsIdle`, `HandoversSigned`. `FeeInv` adds that an open signing has a record here and
a group in x/tss: what the module account owes is then the sum, over the open signings, of
fees that were escrowed at the price of their day, and a callback pays or returns exactly
its own term. With `DutySound` (no member is added twice) it gives `NeverPanics`.

**x/oracle** (`OracleProofs`). Three invariants on top of `IdsInv` (IDs are given in order,
and the requests kept are those after the expiry pointer). `ResolveInv`: a request
is in the pending list from its `MinCount`-th report to its resolution, and has a result only
if it left the list or expired with too few reports; without it the expiry loop could answer
for a request that waits. `FeeInv`: until its resolution what a request has paid and what is
left of its limit are at most what was agreed. `PenaltyInv`: a validator is in the period in
which it was asked, or its present one began no earlier than the second of the request.
x/feeds deactivates through the same `MissReport` (`MissPrice`); the theorem is about the
deactivations of x/oracle itself.
Proved: `ResolvesOnce`, `FeesLimited`, `NoStalePenalties`.

**x/tunnel** (`TunnelProofs`). `TunnelInv`: IDs are given in order, so that a new tunnel
takes no old one's place, and the store of active IDs agrees with the flags also in the
middle of the EndBlocker. `PriceInv`: what a tunnel remembers of each signal is what was
delivered, which one write of `ProducePacket` outside of the cached context would break.
`BalanceInv`: a tunnel that is not created yet has neither deposits nor packets, so that
each message changes one term of the sums over all tunnels and users. Proved, for any number
of tunnels: `ActiveBacked`, `LatestDelivered`, `FreshPackets`, and `BalanceExact`, that the
module account is the sum of all deposits and of the fees of the packets.

**x/restake** (`PowerProofs`). `RestakeInv` is `PowerCoversLocks` and that a lock lies under
a vault that exists, so that creating a vault makes no old lock active. `isValidPower` reads
the index from its end and stops at the first entry of an active vault; that this entry bounds
the locks of all active vaults needs the index to be exact. The powers are sums over the
validators and the allowed denominations, which each message changes in one term, a
redelegation in two. Proved: `LocksAreCovered`.

**x/feeds** (`PowerProofs`). `VoteInv` adds to `TotalPowerExact` that the stored powers are
positive integers of the width. Powers are added and subtracted modulo 2^w; the difference
of two votes always fits, and a total that does not fit turns out negative, because it is
short of twice the limit. `Vote` refuses negative totals, so overflow never reaches the
store (unlike the power that is locked: section 5, `Feeds_width`). Proved: `VotesAddUp`.
`ReportInv`: a report that counts for a current feed is the stored price, at its time. A
message replaces the prices of a validator but carries over those of signals that are still
current. Proved from it: `OnlyTheSilent`.
`PriceInv` of `PowerProofs` adds to `VoteInv` and `PricesAreCurrent` what the next block needs:
the reports are well typed, entries of `currentFeeds` with one ID are the same entry, and the
stored prices are of current feeds only. The EndBlocker replaces the feeds first and computes
the prices of the new ones. The median of the entries that are left after the test of the
interval is the price of one of them, by the lemmas about `Median`. Proved: `PricesStayCurrent`.

**Yoda** (`DaemonProofs`). `RequestInv` says which requests have a goroutine: those of
a transaction that was handled, and all open ones of a transaction the query has found
a part of. The second half is why `handleTransaction` may return at the first pending
request. Two kinds of requests are exempt, each by a history variable: those whose event
the web socket lost (`lost`), and those older than a start whose query of pending requests
was answered with an error (`unlisted`; section 5, `Yoda_start`). `KeyInv` says that each key is in one of three places, and there once. Proved:
`NoneMissed`, `OnceHandled`, `KeysConserved`, for any transactions, keys and crashes.

**Grogu** (`DaemonProofs`). `PendingInv` adds to `PendingIsExact` that the signals that wait
for the prices of Bothan are not pending. The signaller selected them a step before it marks
them, and the submitter removes marks meanwhile: it never adds one, and that is why the
selection is still free when it is marked. Marks are removed one by one, and a submission
shrinks with them, so that the equation holds between two removals as well. Proved: `MarksExact`.

**Cylinder** (`DaemonProofs`). `SecretsAreKept` compares the chain with the store, but a
promise to the chain is made long before the chain has it. `SecretInv` follows it through the
daemon: a message is one that can be kept (round-1 data of a group with a secret or a key, a
confirmation of a group with a key, nonces whose private halves are stored) wherever it is,
in the channel, with a key of the sender or in a transaction; and a goroutine past a write has
what it wrote. These sets only grow: a secret is deleted when the key is stored, a nonce when
it is used up, so that old messages and messages sent twice stay good. The goroutine of round
3 works with the secret the chain has the commitment of, and the chain takes one commitment,
which is why the key of a confirmed group is the right one although round 1 may replace the
secret (section 5, `Cylinder_restart`). Proved: `SecretsKept`, for any groups, signings,
nonces, keys, attempts and crashes, from `CylinderParameters` (finitely many nonces, one
message at least in a transaction).

`PowerProofs` and `DaemonProofs` are about several specifications each: `RestakeSpec` and
`Spec` of `Feeds`; `Spec` of `Yoda`, `CylinderSpec` and `GroguSpec`.

**Only model-checked.**

- All liveness properties (`EveryGroupFinishes`, `EverySigningEnds`, `EveryTransitionEnds`,
  `EveryRequestResolves`, `WaitingIsSubmitted`): they need fairness and `ENABLED`.
- `ChoiceIsFair` and `AnyQuorumSigns`: `Sampling` and `Threshold` are recursions whose results
  are counted or compared over all draws, and over all polynomials modulo a prime; for every
  input they need induction over data and the arithmetic of a field.

## 7. What is not modelled

About a fifth of the hand-written Go code is mapped; most of the rest is the following.

- Generated code (`*.pb.go`, `*.pulsar.go`, `*.pb.gw.go`, mocks): the larger part of the
  files, without behaviour of its own.
- Command lines, set-up of nodes and daemons, `app`, genesis import and export, queries,
  REST and gRPC clients, events and logs: input, output and wiring.
- x/globalfee: a predicate on one transaction (minimum gas prices, free reports) without
  state beyond its parameters.
- pkg/tickmath and the encoders of x/feeds and x/tunnel: fixed-point arithmetic on 128
  bits and byte layouts, beyond TLC's integers.
- pkg/obi, pkg/gzip, pkg/filecache, pkg/grant: encoding, compression, files,
  authorisations.
- The WASM machine (`pkg` of another repository) and the executors of data sources:
  a choice of outcomes in `Oracle` and `Yoda`.
- IBC: a channel is open or a packet is refused. The handshakes of x/oracle and x/tunnel
  only check versions, ports and the order. Acknowledgements and timeouts of both do nothing.
- Hashes, curves, encryption of shares and the proof of a complaint: whether data is
  consistent is a choice made by the sender.
- HMAC-DRBG and the rolling seed: any stream of draws.
- grogu's updater (it forwards registry changes) and yoda's estimate of gas.
- Cylinder's store after a loss of power: `SetDKG` and `SetGroup` write without sync
  (`cylinder/store/store.go:34`, `:91`), `DeleteDKG` with it. `SecretsAreKept` is about the end
  of the process. Groups do not expire in Cylinder's chain, and any finished group lets it
  send nonces without a gas price, where the code asks for the current or the incoming one.
- Shares of x/staking: a share is one token in `Restake`. The truncation and rounding in
  `BeforeDelegationRemoved` (`x/restake/keeper/hooks.go:72`) after a slash are left out.
- The widths of the products of Lagrange coefficients: `Threshold` reduces modulo the order
  at each step, the code multiplies `int64` from its tables, and both products divide 20!.
- In the runs, several tunnels at a time (the theorems of section 6 hold for any number),
  several members' daemons at a time, and the daemons composed
  with the chain: the product is too large for TLC. A daemon is checked against an
  external chain that may accept, refuse, delay or lose what the daemon sends.
