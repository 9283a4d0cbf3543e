# Verification of the TLA contracts

TLA+ models of the contracts in `contracts/`, the TLC configurations that check
them on small instances, and TLAPS proofs for every value of the constants.
("TLA" alone means a *top level account*, as it does in the repository.)

The contracts lease names under top level accounts. Each name is an account
without keys that runs `hos-wallet`. The registry records who rents it and until
when. The extension contract is the only party through which the registry moves
it. Everything of interest happens across several accounts by asynchronous
promises: a call, the call it makes, and the callback are separate receipts, and
other receipts run in between. A receipt that fails undoes its own changes only.

## Inventory

| Component | State | Operations | What makes it correct |
| --- | --- | --- | --- |
| `hos-wallet` | owner, extensions, grants and meters, lease, payout, rotation count, revert window, freeze, operating state, approved and pinned code | create, add and remove extensions, grant, revoke, send, extend and retract the lease, set payout, rotate, re-rent, freeze, thaw, sweep, approve, cancel and pin an implementation | the authority cannot be dropped; holds do not join up; a cut lease serves notice; a budget dies with access or ownership; new code is noticed before it runs |
| `hos-common` | none | rotation causes and what each implies | one table, used by wallet and registry alike |
| registry: clock, lifecycle | pause and its end, TLA status, end and suspension | pause, unpause, suspend, unsuspend, renew a TLA | time under a pause is given back as grace |
| registry: rental, callbacks | entries, parked names, fees, orders, refunds | rent, paid rent, re-rent, renew, set payout | registry and wallet agree when all is quiet; money is conserved |
| registry: reclaim | the reclaim lock | finalize, sweeps | nobody loses a paid-up name without notice; the lock is let go |
| registry: marketplace, NFT | owner in the entry, venues | transfer, transfer-call, deposit, recover | the recorded owner is one the wallet had |
| registry: business TLAs | whitelist, cap and count, retraction | claim, schedule and cancel a retraction | the count is exact; a retraction is undone at both ends or neither |
| registry: refunds, treasury | refunds per account, their total, revenue | claim, withdraw | refunds are covered before the treasury is paid |
| registry: administration | roles, allowlists, allowances, hatches, council, treasury, approved code, access keys | the council's and the admin's calls, rotations, upgrade, seal | changes serve their delay; somebody can always govern |
| registry: pricing | fee configuration, oracle and rate | set the rate, configure, quote, charge | a quote covers the charge; a rate that is out of use can be mended |
| registry: indexes, activity | names by owner and by TLA, a ring of events | insert, remove, reassign, page | every name is listed once; the feed is the last events |
| `hos-extension` | council, treasury, pending sweeps and resets | forward the registry's calls, sweep, skim, reset recovery | a sweep is paid once, to the payout of the day |
| `registrar` | council, approvals, minimum balance, epoch | create an account, configure, upgrade, seal | a mint either exists or is refunded; a cached proof is known to be stale |
| `mpc-recovery` | policies, phases, rounds, watchers | install policies, request, sign verdicts, abort, recover | a quorum saw what is done; delays are served; an answer settles its own request |
| `wallet-impl-deployer` | approvals, lock, recorded hash, council | approve, publish, upgrade, rotate the council | the recorded hash is the published one |
| `registrar-opener` | admin, operator, batches | fill, approve, open, discard, forget | only approved names are opened, each counted once |
| `registrar-opener-wipe`, `tools/fleet`, `dev-contracts` | | | one-off, command-line and test code: not modelled |

How they interact:

```
user ──► registry ──► registrar ───────────► wallet (create)
            │  ▲                               ▲
            │  └─ callback ◄─ hos-extension ◄──┤ (lease, payout, rotation)
            ▼                    │ ▲           │
         FT contracts            ▼ │         owner, extensions (direct calls)
         (asset gate)        mpc-recovery ──► registry.recover_sub_account
```

What is hard here, and hardly reached by a test: two promise chains over one
name whose callbacks run in the opposite order; values read before a promise and
used in its callback; a callback that finds the entry changed; a mint whose
outcome nobody can tell; locks and orders that must be released on every path;
pauses that shift deadlines; freezes and cooldowns at their exact boundary;
upgrades in the middle of a publication. `PROJECT.json` lists each under
`hazards` at the line where it bites, with the property that covers it.

## Modules

| Module | Models | State and actions |
| --- | --- | --- |
| `Clock` | block time | `now`, bounded by `MaxTime`; many receipts share an instant |
| `Rotation` | `hos-common` rotation causes | predicates on a cause |
| `TenantWallet` | `hos-wallet` | one field per variable; one action per entry point, named as in the source |
| `WalletHistory` | | adds frozen instants, the last cut, the last rotation |
| `SpendHistory` | | adds amounts drawn and who granted |
| `ImplPin` | `hos-wallet`, which code it runs | approval, binding in flight, pin; adds since when each implementation is on record |
| `RegistryClock` | registry `lifecycle.rs`, pause and suspension | clock actions, and the lifecycle as operators |
| `ClockHistory` | | adds the last paused instant |
| `RateOracle`, `RateHistory` | registry `pricing.rs`, `fees.rs`, the rate and `update_fee_config` | rate, its time, configuration; conversions and quotes as operators; adds a buyer's quote |
| `NameIndex`, `IndexHistory` | registry `indexes.rs`, `activity.rs` and the paged views | entries, the ordered sets behind the lists, the ring; adds all events and a client's walk over the pages |
| `NameLifecycle` | registry, registrar, extension and wallet over one name | extends `TenantWallet` and `RegistryClock`; `flight` is the sequence of promise legs |
| `NameHistory` | | adds every owner the wallet had |
| `Sweeps`, `SweepsHistory` | sweeps: registry `reclaim.rs`, extension, wallet, token contract | composes with `NameLifecycle`; single coins, promise chains, the extension's own funds; adds who could claim each coin |
| `MpcRecovery` | `mpc-recovery`, and the extension's resets | policy, phase, watchers, signatures, resets in flight |
| `RecoveryHistory` | | adds what was signed and installed, and when |
| `PaidRentals` | money and paid orders of the rental handlers | several names of one TLA, balances, refunds, orders |
| `RentalsHistory` | | adds deposits lost, names bought per order, mints per binding |
| `Timelock` | | the abstract specification of a delayed change: announce, withdraw, wait, release |
| `Governance`, `GovernanceHistory` | rotations, upgrade, sealing and settings of registry, extension, registrar, `mpc-recovery` | a scenario is one of the four contracts; `registry_...`, `extension_...` etc. are its calls; adds what a consumer cached |
| `ImplDeployer`, `DeployerHistory` | `wallet-impl-deployer` | approvals, the deploys in flight, the published hash |
| `OpenBatches`, `OpenerHistory` | `registrar-opener` | roles, batches, openings in flight |
| `MC*` | | scenarios and symmetry sets for TLC |
| `*Proofs` | | theorems |

A `History` module conjoins its component's next-state relation with
assignments to observer variables. It constrains nothing: the properties need to
refer to the past and the contracts do not keep it.

**Receipts.** In `NameLifecycle` a registry call opens a *leg*. The leg passes
the asset gate, reaches the wallet, and comes back to the registry's callback;
an NFT transfer-call then asks its receiver. Each hop is a step. At each hop the
call may fail even if its guards hold, because gas may run out. `ordered` says
whether receipts between the same two accounts keep their order. The network
normally delivers in order; the scenarios `AnyOrder` and `Hatch` do without.
In `MpcRecovery` the resets that `hos-extension` sends, and their answers, keep
their order. A reset may fail like any call, and its answer then is the error;
the scenario `Resets` has such failures.

**Refused calls.** A call whose checks fail changes nothing, so it is not a
step. The checks are the conjuncts of the action.

**Variants.** An operator named `<definition>_<how>` under a comment `Variant:`
is a plausible mistake in that definition. Nothing refers to it. Replacing the
definition by it must make TLC violate the property, which shows that the
property depends on that line of the code.

**Abstractions.** Accounts, names, tokens and hashes are model values. Events,
gas amounts, storage layout and text are left out. The answer of a balance
query, of an NFT receiver, of the network on publishing or opening, is a free
choice. A coin stands for an amount that moves together, and a token's coins
leave the account oldest first. In `Governance` nobody uses an access key before
it is deleted. In `PaidRentals` an entry is present or absent; owners and leases
are in `NameLifecycle`. In `NameLifecycle` a rental is paid; money is in
`PaidRentals`.

## Runs that pass

A *scenario* is a record that says which operations occur, among whom, and how
far time goes. A run has a set of them: `scenario` is chosen in the initial state
and never changes, so one run explores the scenarios side by side and the parts
of the system that one question does not need cost it nothing.

| Run | Scenarios | Question | Bounds |
| --- | --- | --- | --- |
| `MCWalletHistory` | | Do holds, cuts and reverts respect their delays in every order of calls? | 2 accounts, all delays 2, 6 instants, 3 rotations |
| `MCSpend` | | Does a meter hold across re-grants, revokes and rotations? | 1 token, budgets to 2, 2 instants |
| `MCRegistry` | clock, rates, feed, walk | Is a full grace period left after any pause? Can prices always be mended, and does a quote cover the charge? Are the lists and the feed exact? | grace and hold 2, 8 instants; 5 rates, 5 configurations; 3 names, 2 owners, a ring of 3, 6 events |
| `MCSweeps` | `Native`, `Token`, `Together` | Is swept money paid to a party that could claim it? Does a rotation leave money for the next holder? Can the extension pay for what it began? | 2 people, 2 coins of each kind, 1 or 2 sweeps, 1 chain, 6 instants |
| `MCGovernance` | ten: contract and affair | Do council, treasury and code change only after their delay? Is there always somebody who governs? Does the epoch give stale proofs away? | 3 accounts, one of them the contract itself, 2 hashes, delays 2 and 3, 6 instants |
| `MCNameOwners` | `Trade`, `Payouts`, `Lapse`, `Suspended`, `AnyOrder`, `Hatch` | Do trades settle on one owner and one payout? Is a recorded owner one the wallet had? Does a lapsed TLA take a paid-up name only after notice? | 2 people and a venue, 2 chains in flight, up to 6 instants |
| `MCNameReclaim` | `Reclaims`, `Retractions` | Are leases equal, parked names free, tenants known, locks released? | 2 people, 2 chains (1 with retractions), lag 1; liveness |
| `MCRecovery` | `Resets`, `Rotations`, `Replacements`, `Quorums` | Does a former holder's policy go, though resets fail or are deferred? Do rounds stay fresh and answers settle their own request? Do quorum, timelock and brake hold? | 2 or 3 watchers, threshold 2, 1 or 2 rounds, up to 2 changes of hands |
| `MCRentals` | `Money`, `Metered`, `Relayed`, `Capped`, `Changes` | Is every amount accounted for? Are meter, count, orders and allowance exact? | 2 or 3 names, 2 orders, cap 2, allowance 1 or 2 |
| `MCDeployer` | deployer, wallet | Is the recorded hash the published one, one deploy at a time? Do approvals serve their delay? Is a wallet bound only to code that was noticed? | 2 hashes, 2 councils, delays 2, 6 instants |
| `MCOpener` | | Is the count of names left exact, and are only approved names opened? | 2 names, 3 people, 2 batches |

The bounds are the least at which the hazards occur. Two chains in flight give
every overlap of two operations. Delays of 2 separate "at the boundary" from
"one before" and "one after". Two rounds, batches or rotations make a stale
answer to the first one possible. That they are large enough is shown by the
variants: under these same configurations TLC finds every one of them. Every
bound is a constant, or a field of a scenario, whose comment says so.

Some properties hold only while certain operations do not overlap. The property
then says so itself. `TradesSettle` begins with `Orderly`: receipts between two
accounts keep their order, no recovery runs, nobody is added as co-owner, no
outcome of a mint is lost and no lock is cleared by hand. The rental properties
begin with `Without({...})`: `RelayWithinAllowance` is about one binding, and
`MeterMatchesOrders` leaves out names behind the asset gate. `LeasesAgree` is
about retractions and cancellations that follow one another, and about any
overlap of the other operations. `MCNameReclaim` has no clearing hatch and no
renewal beside a rental in flight. `NoStalePolicy` needs the order of resets:
an older failure answered after a newer success would only ask for a retry too
many, but an older success after a newer failure would hide it. `BalanceLeaves`
is about rotations that sweep (not a recovery or the return of a
transfer-call), the payout being the tenant's; a rotation onto the payout
account itself keeps the balance, which is that account's. `SweptToClaimant` is about one
token sweep at a time; two that overlap each move the balance they read, so the
later one may pay its account with tokens that came afterwards. `ListsExact` is
about walks in which names come and none leaves; the sets fill a gap with their
last element, so a walk in which one leaves may miss another. `QuoteCovers` is
up to one indivisible unit, since the quote and the charge round, and for falls
of the rate the allowance was made for: the default allowance of 527 basis
points is for a fall of 5 %, and one update may move the rate by 2000. What
happens with the operations left out is told under *Disagreements*.

Each module also states the types of its variables (`TypeOK`, `ClockTypeOK`,
`LifeTypeOK`, `RecoveryTypeOK`, `RentalsTypeOK`) and some simple invariants
(`GrantsAreHeld`, `RolesApart`, `DeployInv`). They hold on the same instances;
those of the wallet, the clock, the deployer and the opener are proved. No run
lists them, to keep the runs to the questions above.

`LifecycleAssumption` relates the time scales: a promise is answered within
`MaxLag`, which is shorter than a retraction's notice and less than half a term.
In the code it is seconds against days and a year. `PinAssumption` and
`DeployerAssumption` do the same for the callbacks of a binding and of a
publication, against delays of 48 hours and a lock of ten minutes.

**Refinement.** `Timelock` is what the contracts promise about every governed
change: it is announced, stands unaltered for the whole delay, and only then
takes effect as announced. `GovernanceHistory` instantiates it three times
(council, treasury, code) and `DeployerHistory` three times (publication, self
upgrade, council), each with the refinement mapping that reads the announcement
off the contract's fields. `ChangesAreTimelocked` and `DelaysAreServed` are
those instances' specifications, checked by TLC as properties and proved. The
owner of `mpc-recovery` is not subject to a delay and is mapped to nothing.

Deadlock is checked in `MCOpener` only. Elsewhere time is bounded, and the model
may stop when `now = MaxTime` and nothing is in flight; the contracts do not.

**Fairness.** `FairLifeSpec`, used by `MCNameReclaim`, has weak fairness for
each kind of leg: a promise that is dispatched is executed and its callback
runs, with a result or an error. This is what the NEAR runtime guarantees. No
user is assumed to call anything. Under it `ReclaimEnds` holds: every reclaim
lets go of its lock.

## Disagreements

The run `MCNameRecovery` checks one property that a document states, and TLC
shows a behaviour of the code that violates it: a recovery overlapping a
transfer leaves registry and wallet with different owners. `findings` quotes the
line.

Others were met while modelling and have no run of their own. Each is reproduced
by checking the property, without the condition it begins with if it has one,
under the configuration that is given, changed as it says.

| Property | Configuration | What happens | Code, and what it is read against |
| --- | --- | --- | --- |
| `MeterHolds` | `MCSpend`, `Metered <- MCMeteredTokens` | A token left out of one grant and listed in the next has an empty meter. | `token_budgets`; `hos-wallet/src/lib.rs:386` "Re-granting raises ceilings without clearing what was already spent." |
| `NoStandingPause` | `MCRegistry` | Pausing again before a pause lapses holds the registry without a break. | `pause`; `tests.rs:4461` "an admin must not be able to hold a pause open indefinitely" |
| `AlwaysRenewable` | `MCRegistry` | A name in the grace that a pause extended may be too old to renew. | `rental.rs:442`; `README.md:319` "a holder can always renew" |
| `SuspensionEnds` | `MCRegistry` | A suspension that ran out still keeps the TLA from being renewed. | `rental.rs:301`; `tests.rs:4481` "a suspension must not block a namespace indefinitely" |
| `OwnersAgree` | `MCNameRecovery`, with operations Rent, Transfer, Extend | A transfer asked for by a former owner who is a co-owner again rotates the wallet, and the registry does not record it. | `hos-wallet/src/lib.rs:776`; `docs/sharded-nft-items.md:293` |
| `LeasesAgree` | `MCNameReclaim`, `Retractions` with operations Rent, Retract and 2 chains | A late cancellation clears a newer retraction, whose shortened lease stays. | `on_retraction_canceled`; `tests.rs:3050` |
| `TenantKnown` | `MCNameReclaim`, `Reclaims` with operations Rent, Park, ClearPending | Clearing the lock under a park in flight can make the registry forget a tenant. | `admin_clear_reclaim_pending`; `tests.rs:1998` |
| `ParkedIsFree` | `MCNameReclaim`, `Reclaims` with RenewEarly | A renewal paid while the rental of a parked name is in flight revives the wallet for its former tenant if that rental fails; the name then cannot be rented until the lease ends. | `renew_sub_account`; `tests.rs:5709` |
| `VenueExitOpen` | `MCNameOwners`, `Payouts` with operations Rent, Transfer, Park and horizon 6 | A venue cannot send on a name while its reclaim is pending. | `marketplace.rs:274`; `README.md:149` |
| `OrderHasRental` | `MCRentals`, `Metered` with `gated` | A re-rental the asset gate blocks leaves its order reserved. | `on_re_rent_balances_checked`; `tests.rs:2763` |
| `RelayWithinAllowance` | `MCRentals`, `Relayed` with Unbind | Failures of mints under an old binding are credited to the new one. | `unbind_payment_authority_tla`; `tests.rs:2893` |
| `RenewalCostCovers` | `MCRegistry` | The view prices the renewal of a TLA by the base rent, `renew_tla` charges the rent among the TLA's terms if it has one. | `get_business_renewal_cost`; `tests.rs:3208` "business_renewal_cost_quotes_the_tla_rent_only" |
| `FailureRestores` | `MCRecovery` | A recovery whose rotation the wallet refused is consumed: the registry answers normally. | `on_name_recovered`; `README.md:214` "restores the request if the rotation fails rather than consuming it" |
| `TreasuryPaidLast` | `MCRentals` | A stranded mint refunds a deposit that has left, after the treasury was paid. | `settle_stranded_mint`; `README.md:162` "a treasury withdrawal cannot spend money a user is owed" |
| `PendingIsOwed` | `MCSweeps` | A sweep refused because nothing was left stays on the list of pending ones. | `after_near_sweep`; `hos-extension/src/tests.rs:147` "a sweep that finally lands must stop asking to be retried" |

(`tests.rs` and the files without a path are in `contracts/tla-registry/src`.)

Read in passing, with no property about them: `README.md:307` says the paid
accounts and the councils "have no setters", and each contract has rotations for
them, which `Governance` models. `README.md:134` says the registrar's epoch
"moves on every upgrade and configuration change"; `commit_council_rotation`
does not move it, and `CachedProofHolds` is about code and settings.
`README.md:292` lists the price oracle among what takes the council, and
`set_price_oracle` asks for an admin. `retry_sweep` takes calls from the
registry, which has none.

## Proofs

The proofs hold for any sets of accounts, tokens, hashes and rates, any delays
and any bounds that satisfy the named assumptions of the modules
(`ClockAssumption`, `PartiesAssumption`, `TimeAssumption`,
`RegistryClockAssumption`, `ExpiriesAssumption`, `RateAssumption`,
`ConfigAssumption`, `LabelsAssumption`, `GovernanceAssumption`,
`DeployerAssumption`, `PinAssumption`, `OpenerAssumption`). These say that the
authority, the account itself and "nothing" are no ordinary accounts, that
delays are natural numbers, positive where the code's constants are, that the
first configuration is one the code accepts, and that callbacks are quicker than
delays. TLC evaluates them in every run that uses the module.

- `TenantWalletProofs`. `WalletInv` is `TypeOK`, `AuthorityKept`,
  `GrantsAreHeld` and "an account that does not exist has no extension". The
  last is needed: without it creation could meet old grants. One lemma per
  action, or per group of actions that touch the same fields, shows that it is
  kept; `StepKeeps` puts them together. Theorems `TypeCorrect`,
  `AuthorityAlwaysKept` and `GrantsAlwaysHeld` follow.
- `WalletHistoryProofs`. `HistoryInv` adds three parts. `HoldInv`: every frozen
  instant lies in the last hold or more than a cooldown before it; this is what
  makes "no standing hold" inductive, since it says where a *new* hold may
  start. `CutInv`: the lease is not shorter than the notice of the last cut.
  `RevertInv`: what can be reverted is the last rotation. The lemma `StepShape`
  reduces the wallet's many actions to the three ways they touch those fields.
  Theorems `NoStandingHoldEver`, `CutAlwaysServesNotice` and
  `RevertOnlyUndoesLast` follow; the last is an action property.
- `ClockHistoryProofs`. `FloorInv`: the end of the last pause, from which the
  grace is counted, is never before the last paused instant, whether the pause
  was lifted or lapsed. `GraceIsAlwaysFresh` follows.
- `RateProofs`. `RateInv`: the configuration in force passed its checks and the
  rate lies in its band; the second half is why `update_fee_config` looks at the
  rate, and without it a new band could lock the oracle out.
  `PricingAlwaysRecoverable` follows. `QuoteInv` says what a quote was computed
  from. Lemmas about rounding division (`Division` and those after it) give
  `QuoteAlwaysCovers`.
- `GovernanceProofs`. The lemma `Changes` sorts the calls of four contracts
  into five kinds of change, so that each argument is made once. `GovInv`:
  council, treasury and those proposed for them are outsiders; a seal is only
  under way once an upgrade has gone through. The last is needed because sealing
  takes two receipts. `AlwaysGovernable` and `AlwaysSweepable` follow.
  `AlwaysTimelocked` is the refinement: each kind of change maps to a step of
  each of the three timelocks or to a stutter. `CacheInv` adds that a cached
  epoch is never ahead, and `CacheAlwaysHolds` follows.
- `DeployerProofs`. `DeployInv`: a publication in flight is young and carries the
  code that was approved, and until it is over either its lock stands, or an
  upgrade has opened the lock and cleared the approval, or the approval is
  younger than the publication and so cannot be used. This is why a self upgrade
  may open the lock. `ReportsWhatRuns`, `DeploysAlone` and the refinement
  `DelaysServed` follow.
- `PinProofs`. `PinInv`: a binding in flight was sent for after its delay, has
  been on record since its approval, and any approval on the wallet is younger
  than it, so that no second binding starts; hence the approval it puts back on
  failure is as old as it says. `PinAlwaysNoticed` follows.
- `OpenerProofs`. `OpenInv`: numbers are given out in turn, a number not yet
  given out holds no names, and an opening of a live batch is of an approved one.
  The last keeps a later approval from changing what an answer that comes back
  was granted under. Finite-set lemmas about one name more or less give
  `CountAlwaysExact`; `OnlyGrantedEver` and `RolesAlwaysApart` follow as well.

Only model-checked: everything about `NameLifecycle`, `Sweeps`, `MpcRecovery`,
`PaidRentals` and `NameIndex`, the meters of `SpendHistory`,
and liveness, which is outside the prover.

## Not modelled

- What a wallet's request sends to other contracts: promises, deposits and the
  reserve, receiver and item fences. The checks are about the shape of one
  request and keep no state but the meters, which are modelled.
- What `hos_migrate` and the other migrations do to older state: one-off
  decoding. Whether they succeed is modelled.
- Registering and activating TLAs, one by one and in batches, and the lease
  term: a record is written once and the questions begin after it.
- The fees among a TLA's terms, the allocation fee and the cap of one TLA are
  priced and counted as the ones that are modelled; the access keys' holders.
- Pausing of `hos-extension` (a failed hop of a leg stands for it), `retry_sweep`
  and `migrate_wallet`.
- The settings `set_installer` and `set_registry` of `mpc-recovery`, its
  signature formats and transaction encoding: bytes, outside TLC's reach.
- Deletion of the deployer's key; the opener's statistics and its upgrade.
- Views of one record, events, metadata: read-only.
- `registrar-opener-wipe`, `tools/fleet`, `dev-contracts`: one-off, command-line
  and test code.
