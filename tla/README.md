# A TLA+ verification of the Noble Dollar module

`x/dollar` issues $USDN on Noble. Balances live in the Cosmos SDK bank module;
beside every balance the module keeps a *principal*, and a single *index* says
what one unit of principal is worth. When the index rises, the difference
between the present value of all principal and the supply is minted to a yield
account, from which holders claim. $USDN enters and leaves Noble through a
Wormhole portal, and some accounts (vaults, IBC escrow accounts, the Hyperlane
warp account) have their yield claimed for them on every index update.

The modules here model that logic from the Go code, check it with TLC on small
instances and prove its central invariants with TLAPS for all instances.

## Inventory

| Component | State | Operations | Interacts with |
|---|---|---|---|
| Token core (`keeper/msg_server.go`) | `Index`, `Paused` | `Mint`, `Burn`, `UpdateIndex`, `ClaimYield`, `SetPausedState` | called by the portal; calls bank, vaults, external yield |
| Send restriction and statistics (`keeper/keeper.go`, `keeper/state.go`) | `Principal`, `Stats` | `SendRestrictionFn`, holder and principal counters, `GetYield` | called back by bank in the middle of every transfer |
| Indexing arithmetic (`keeper/math.go`) | none | three roundings | everything |
| Portal (`keeper/msg_server_portal.go`, `keeper/keeper.go`, `types/portal`) | owner, peers, bridging paths, nonce, paused | `Deliver`, `Transfer`, `SetPeer`, `SetBridgingPath`, `TransferOwnership`, `SetPausedState` | Wormhole; token core |
| Vaults (`keeper/msg_server_vaults.go`, `keeper/state_vaults.go`) | positions, rewards, total flexible principal, stats, paused | `Lock`, `Unlock`, `ClaimRewards`, yield handling in seasons one and two | bank; `UpdateIndex` |
| Season end (`keeper/abci.go`) | `VaultsSeasonOneEnded` | `BeginBlocker` | vaults |
| External yield, IBC (`keeper/msg_server.go`, `ibc_middleware.go`, `isc4_wrapper.go`) | recipients, retry amounts, totals | `SetYieldRecipient`, claim on update, timeout, error ack, send filter | ICS-20 transfer |
| External yield, Hyperlane (`keeper/msg_server.go`, `keeper/msg_server_v2.go`) | the same | claim and split on update | warp module |
| Index update across components (`keeper/msg_server.go`) | all of the above | `UpdateIndex` | portal → token core → vaults → external yield, on one yield account |
| Genesis, migrations | everything | `InitGenesis`, `ExportGenesis`, `Migrate1to2` | |
| NTT wire format (`types/portal/ntt`) | none | encode, parse, digest | portal |
| Queries, CLI, wiring, generated code | none | | |

What makes each of them correct:

* *Token core and send restriction*: yield is minted on at least the principal
  that accounts claim against; the supply never outgrows what the principal is
  worth by more than dust; nobody's yield falls by what others do.
* *Portal*: the supply is what was bridged in, plus yield, less what was bridged
  out, whatever the order of messages; outgoing messages are distinct.
* *Vaults and season end*: every position and every reward on record can be paid;
  rewards are never shared over too little principal; nobody loses $USDN.
* *External yield*: the accounts that stand for $USDN elsewhere cover it; yield
  is delivered once, or stays to be retried.
* *Index update*: whatever its steps take from the yield account, and wherever
  it stops, everything owed by any component stays covered.
* *Genesis*: a restart shows in no query. *NTT*: what is executed is what a
  well-formed message states, and what its digest names. *Queries*: they report
  what the documentation says they do, and agree with each other.

What is hard here is not concurrency between threads (a chain runs one
transaction after another) but:

* **order**: VAAs, transfers, claims and index updates come in any order, from
  anyone, and a VAA may carry an index older than the current one;
* **rounding**: every operation rounds, in different directions for the total,
  the sender and the recipient, and the errors accumulate;
* **partial failure**: `Mint` discards the error of `UpdateIndex`, which has
  then already written; elsewhere an error reverts the whole transaction, and a
  panic always does;
* **callbacks**: the send restriction runs between the bank's debit and its
  credit and infers from balances who stopped or started being a holder;
* **delivery**: packets time out or fail and must be retried exactly once, VAAs
  may be relayed twice, or long after the portal has moved on;
* **progress**: late deposits, refunds, Staked positions and the season end must
  not be blocked by a state that rounding or an earlier failure has left;
* **restarts**: only the genesis document survives one.

`PROJECT.json` lists these hazards with the lines where they bite and the
properties that watch them.

## Modules

```
specifications                          instances for TLC      proofs
Indexing
  Ledger                                                       LedgerProofs (on SumTheorems)
    Token                               MCToken                TokenProofs
      Portal  (implements IdealDollar)  MCPortal               PortalProofs
      Keeper
        Vaults                          MCVaults               VaultsProofs
        ExternalYield                   MCExternal             ExternalProofs
  Dollar  (Portal, Vaults and ExternalYield)
    Genesis                             MCDollar               DollarProofs
NTT                                     MCNTT                  NTTProofs
```

Each module extends the one it is indented under; Dollar extends the three
components together, and DollarProofs their proofs.

**Indexing** is `keeper/math.go`: the conversions between present and principal
amounts. `math.Int.Quo` divides towards zero, unlike `\div`; the two differ on
negative principals, which the module produces. The literal `1e12` is the
constant `Scale`.

**Ledger** is one record with the bank's balances and supply, the principals,
the index and the statistics, and one operator per keeper function that changes
them. A `Principal` entry that is absent reads as zero in the code and is zero
here. The bank is external. Its `SendCoins` debits the sender, runs the send
restriction, and then credits the recipient; the zero-balance tests in
`SendRestrictionFn` are right only in that order, and the model has that order.
(The bank mock in `utils/mocks/bank.go` runs the restriction first.)

**Token** is the state machine of the token core. Variables: `ledger`, `paused`
and two history variables, `burns` and `donated`, that only `SupplyWithinDust`
reads. One action is one transaction. A handler that returns an error or panics
is reverted, so it is a disabled action; the exception is `UpdateIndex` called
from `Mint`, whose outcome is `UpdateIndexResult`: a status, and the ledger as
far as the code got. The chain is in Vaults Season Two with no external yield
recipient, so an index update claims the Staked vault's yield and forwards it to
the collector, then claims the warp account's yield, which happens whether or
not a recipient is set. `Transfer` stands for every bank transfer between
accounts, those of the vaults and of Hyperlane included. Yield is not a blocked
address, so a delivered message may name it as recipient.

**Portal** extends Token. `Deliver` takes a VAA through every check of
`Keeper.Deliver` and `HandlePayload` and ends in Token's `Mint` or
`UpdateIndex`; `PortalTransfer` burns and posts a message. Peers and bridging
paths are partial functions, as the store has them: a path set to `false` is
still an entry. Wormhole is external: `archive` is what its verification
remembers, and `posted` what was handed to it. Messages are records; addresses
and tokens are model values. Token and portal handlers share names (`Transfer`,
`SetPausedState`), so the portal's carry a prefix.

**IdealDollar** is what $USDN promises, with balances and messages only: coins
come into being for a message that counts once or as yield on a rising index,
disappear only against a message that carries the index of that moment, and move
only from their holder. `Portal!ImplementsIdeal` maps the portal to it: `balance`
is the ledger's, `accepted` is Wormhole's archive, `outbox` what was posted;
principals, peers, paths and pauses are forgotten. A `Deliver` that updates the
index, completely or not, is one `Accept` with `DepositAndAccrue`; a claim is a
`Move` out of the pot.

**Vaults** extends Token with positions, reward records, vault statistics and
block time. A handler that may fail halfway is a function from a `Store` (all it
reads and writes) to a result: whether it succeeded and the store it left. That
is how `EndVaultsSeasonOne` keeps the writes of an unlock that failed, and
`VaultsMint` those of an index update that failed, while `Unlock` and
`VaultsUpdateIndex` take place only when they succeed. A Flexible position has an
account of its own, as in `ToUserVaultPositionModuleAccount`; `LegacyDec.Quo`
rounds half to even at `Precision` and is modelled so. `BeginBlocker` is the step
to the next block.

**ExternalYield** extends Token with the recipients, retry amounts and totals of
IBC channels and Hyperlane routes. ICS-20, IBC and the warp module are external:
packets are a set, each reported back exactly once, as accepted, refused or timed
out; vouchers count what circulates behind a channel, collateral what a route
brought in. Which channels and routes are down during an index update is an input
of the action. A transfer call that returns an error is taken to have written
nothing. The history variable `delivered` counts the yield that arrived.

Vaults and ExternalYield each have an index update of their own, in Season One or
Two without recipients, and in Season Two with recipients; their steps replace
Token's `Mint` and `UpdateIndex` and are named with a prefix. What they share with
the full update of Dollar is factored out (`HandleVaultsYield`,
`ClaimExternalYield`); **Keeper** holds what the two modules have in common: the
users, the unit of decimals, and the outcome of a call.

**Dollar** is the whole module. It extends Portal, Vaults and ExternalYield, whose
variables share one ledger. A handler of one component is a step of it that leaves
the others alone, except the delivery of a VAA, where `Updated` is
`Keeper.UpdateIndex` in full: accrual, the vaults by season, then IBC and Hyperlane
recipients. A failure in the middle leaves the stores as far as it got, which the
delivery of a token payload commits and that of an index payload rolls back.

**Genesis** adds `Restart`, an export followed by an import, at any moment. The
document is a record; the collections of the store become sets of entries. What
belongs to other modules is external and stays.

**NTT** is the wire format: encoders and parsers of transceiver message, manager
message and payloads. Sizes are scaled (a byte has five values, a length has two
bytes and wraps, other fields have one byte), so 79 bytes become 7. A Go slice is
modelled with its capacity, since slice expressions may reach beyond the length:
the parsers without length checks then read what follows instead of panicking.
Errors and panics both revert a delivery and are one outcome. The hash is left
out: a digest is the bytes that are hashed. Scaled lengths do not reach their
limit here; nor do the code's, whose messages are at most 259 bytes long.

**MCToken**, **MCPortal**, **MCVaults**, **MCExternal** and **MCDollar** bound
the specifications for TLC. **MCNTT** is also the sender: it builds a message
layer by layer as `Transfer` does, with alterations in between, which stand for
peers that encode differently.

Definitions whose comment starts with "Mutant of" are deliberately wrong
versions of the definition they precede. No specification uses them: put in the
place of the original they make the property named in `PROJECT.json` fail, which
shows that the property depends on that piece of code.

## Runs

`tlc -workers 2 -config X.cfg M` for each line; every run ends within a few minutes.

| Run | Checks | Result |
|---|---|---|
| `Token.cfg`, MCToken | `TypeOK`, `PrincipalBacked`, `HoldersNeverOverstated`, `SupplyWithinDust`, `YieldOnlyShrinksByOwnAction`, `TransferFavoursRecipient` | hold, about 246,000 states |
| `Portal.cfg`, MCPortal | `PortalTypeOK`, `SupplyAccounted`, `NoncesFresh`, `PostedIndicesOrdered`, `NoSelfDelivery`, `PauseFreezesSupply` | hold, about 547,000 states |
| `PortalIdeal.cfg`, MCPortal | `ImplementsIdeal`, `DepositsDelivered` | hold, about 68,000 states |
| `Vaults.cfg`, MCVaults | `VaultsTypeOK`, `PositionsBacked`, `RewardsBacked`, `RewardsNotOvershared`, `PrincipalCovered`, `UsersCounted`, `PendingWithinTotal`, `NothingLost` | hold, about 295,000 states |
| `VaultsSeason.cfg`, MCVaults | `PositionsBacked`, `NothingLost`, `SeasonEnds`, `StakedReturned` | hold, about 57,000 states |
| `ExternalIBC.cfg`, MCExternal | `ExternalTypeOK`, `EscrowBacked`, `ChannelYieldAccounted`, `PacketsSettled` | hold, about 264,000 states |
| `ExternalHyperlane.cfg`, MCExternal | `WarpBacked`, `RouteYieldNotDuplicated` | hold, about 155,000 states |
| `Dollar.cfg`, MCDollar | `DollarBacked`, `DollarSupplyAccounted`, `PrincipalBacked`, `UserYieldKept`, `RestartKeepsAnswers` | hold, about 220,000 states |
| `NTT.cfg`, MCNTT | `DeliveredAsMeant`, `DigestDecidesOutcome`, `TokensWellFormed` | hold, about 87,000 states |
| `SeasonEnd.cfg`, MCVaults | `AllFlexibleUnlocked` | violated |
| `PendingRewards.cfg`, MCVaults | `PendingRewardsPaid` | violated |
| `RetryKept.cfg`, MCExternal | `RouteYieldKept` | violated |

*Token* shows that rounding is on the module's side in every interleaving:
accounts never hold more principal together than the total that yield is minted
on, the holder count never counts an empty account, the supply outgrows the
value of the principal by at most the dust of recent burns plus gifts to the
yield account, and nobody's claimable yield falls by what others do.

*Portal* shows conservation across the bridge: supply plus what was bridged out
is yield plus what was bridged in, also after an index update inside `Mint` that
failed halfway; outgoing messages are distinct until the nonce wraps, and their
indices never go back.

*Vaults* shows, with two users, that the accounts of the vaults cover what the
books say they owe, positions and rewards alike, that rewards are shared over
enough principal whatever the order of exits, and that a user's account and
positions together never shrink, not even in a season end that fails halfway.
*VaultsSeason* follows a single user through more blocks and every paused state. It
shows that the season ends although unlocks may fail, and that Staked positions can
be taken back through both seasons, all pauses and half-done index updates, in
spite of the minimum.

*ExternalIBC* and *ExternalHyperlane* show that the accounts that stand for $USDN
on other chains cover it, together with what is on its way and what is to be
retried, and that yield is never sent twice; for IBC also that none is lost, and
that every packet is settled: a refund never waits for coins that the escrow account
does not have.

*PortalIdeal* shows that the portal implements IdealDollar, so that the promises
above hold of every behaviour, not only of the states one looks at; and that no
deposit is lost for being late: one that was passed over while the peer was rotated
or the portal paused is accepted afterwards, however stale its index and whatever
becomes of the index update inside its `Mint`. What the property asks of the state
(`Welcome`) is an open portal with the deposit's peer, and either an index that has
caught up with the deposit's or a total principal worth at least the supply. The
last alternative cannot be dropped: with the principal worth less, the coin that
`UpdateIndex` builds of the difference (`src/keeper/msg_server.go:145`) panics, which
reverts the delivery, and TLC then finds a deposit that stays out for ever.

*Dollar* shows that the components stay covered together: in its behaviours Season
One ends with positions open, an IBC recipient is paid and has yield to retry,
rewards are on record, coins are bridged out, and a deposit arrives before or after
the older index update, with an update inside it that stops halfway. An export and
import at any of these moments changes no answer.

*NTT* shows that both ends agree on unaltered messages; that the digest is taken of
the manager message as it arrived and that those bytes, parsed on their own with
nothing behind them, make of the delivery what it was; and that $USDN is issued
only for a well-formed payload, although `DecodeTokenPayload` ignores the errors
of both its parsers. The proofs extend all three to messages of any length and any
number of alterations. `DigestDecidesOutcome` names one exception, which the run
reaches: an index payload that is cut short takes its index and chain from the bytes
behind the manager message, since `DecodeIndexPayload` checks no length. The
property shows that no other payload does.

The violated properties restate comments and documentation, and TLC's traces show
where the code departs from them:

* the season end does not unlock every Flexible position: when the yield account
  cannot cover the yield of one, its user is skipped, the season is marked as
  ended, and `Unlock` refuses the position from then on.
* the rewards that a query reports as pending may not be paid: `ClaimRewards`
  takes a vault principal that is not positive to mean that there are no rewards,
  but rounding can bring the principal down while records and coins are still
  there. What the queries say of all users is consistent while the season lasts
  (`PendingWithinTotal`); afterwards it need not be, because an unlock that the season
  end gave up halfway has charged a record and kept its position, which the query
  then counts against that record once more.
* yield to be retried over Hyperlane can be dropped: the retry amount is removed
  before the router is looked up, and `Mint` discards the error when there is not
  exactly one.

Four smaller departures from `spec/` came to light on the way and have no run of
their own: `total_holders` misses an account that had become empty and then claims
its remaining yield, because a yield payout does not look at the count
(`HoldersNeverOverstated` is the half that holds); a `claimable_amount` may exceed
what the yield account holds, because a recipient is credited principal rounded up;
a bridging path that is set to unsupported still carries transfers until a restart
drops it, since `Transfer` asks whether the path has an entry and not what it says
(`src/keeper/msg_server_portal.go:69`); and the stored nonce is the next message's, not the latest one's.

**Bounds.** The passing runs take `Scale = 1` with indices 2 and 3 (1 where an
index that does not move is wanted): with a unit of principal worth two or three,
amounts 1 and 2 are rounded up and down to different principals, the index moves
twice, and an index update can fail halfway, which finer scales reach only with
many more steps. The ratio of index to `Scale` is all that the arithmetic uses.
The runs that show a violation use ratios below two (`Scale = 4`, indices up to
7) where the finding is about amounts, so that the trace is one a real index
would take.

* *Token*: supply at most 4, principals at most 2 in magnitude (negative ones are
  reached), one burn between index updates. Three accounts, a sender, a recipient
  and an onlooker, among them the vault, the warp account and the collector.
* *Portal*: VAAs that between them fail every check of `Deliver` and carry every
  payload type, peers that can be rotated, `NonceModulus = 2` with two posted
  messages, so that the nonce wraps.
* *Vaults*: at most four coins besides the yield; two users, two blocks and three
  locks. Two users are enough to share a
  record and to exit in either order. `Precision = 100`.
* *ExternalIBC*: one channel (channels share nothing but the yield account, which
  users drain as well), two packets under way, three coins besides the yield.
  Reached: a retry that is noted while another yield packet is on its way.
* *ExternalHyperlane*: two routes with zero to two routers, three coins besides
  the yield, which makes shares of one half and of one and two thirds.
* *PortalIdeal*: the owner rotates the transceiver and pauses, one message is posted;
  with indices 2 and 4 the Staked vault has yield to claim, and an update fails
  halfway.
* *VaultsSeason*: three blocks with the season ending after the second, a minimum
  unlock of 2 above single coins, two locks.
* *Dollar*: one user with two coins, so that positions in both vaults or two in one
  are possible; two blocks, one packet, one channel, a portal with one supported
  path and an unsupported one to a chain without a peer, which its owner leaves as it is,
  and two VAAs (an update, and a deposit with a newer index). Hyperlane routes are left
  to *ExternalHyperlane* and to the proofs: they follow the channels in the update.
* *NTT*: five messages, up to two alterations (a message that ends early, a byte
  that differs, a byte more) in any of the three layers, and buffers that end with
  the message or have room behind it.

Amount zero is left out: the send restriction ignores it.

**Fairness.** Safety is stated without any. For liveness the runs assume:

* *PortalIdeal*: for each deposit, strong fairness of its delivery: one that can be
  made again and again is made. `Deliver` is open to anyone and a VAA does not expire,
  so the sender can always try again. `CanDeliver` is the `ENABLED` of `Deliver`
  written out (TLC would evaluate the whole update); it follows the code, so a
  delivery that always reverts is never due.
  Nothing is assumed of the owner. The property's own hypothesis, `Welcome`, does not
  mention whether `Mint` goes through: that it does is what the property says.
* *VaultsSeason*: blocks keep coming (weak fairness of the next block: the chain
  makes blocks whether or not someone transacts); the authority does not keep the
  vaults paused for good (weak fairness of unpausing); and a user keeps asking for
  what it has staked, strong fairness of `Unlock`, written out because TLC would
  evaluate `ENABLED` of that action too often.
* *ExternalIBC*: relayers report each packet back (weak fairness per packet):
  IBC's acknowledgements and timeouts are open to anyone with a proof.

Nobody is obliged to claim, transfer or update the index. The bounds of the MC
modules never hold back a step that is assumed to be fair.

## Proofs

`tlapm M.tla` for each module below; `SumTheorems` and `LedgerProofs` hold lemmas,
the others theorems too. Together they cover every invariant and action property of
the passing runs, and the refinement that *portal_ideal* checks, for every value of
the constants.

**Assumed** of the constants, each where it is declared: `Scale` is a positive
integer; the accounts are finitely many and distinct from the two module
accounts; the Staked vault, the warp account and the collector are accounts, and
the vault is neither of the others; amounts are positive and indices are
integers; the nonce has a positive modulus; the destinations of external yield
are finitely many, the two orders enumerate them, escrow accounts are distinct
from each other and from every other account with a role, and `Precision` is
positive and a multiple of `Scale`; users hold no module account, `UserOrder`
enumerates them, and the account of a Flexible position belongs to nobody else;
no escrow account is one of the Flexible vault or of a position; and the room behind
a message in its buffer is a natural number.
That two positions never share an account needs no assumption: it is the pair of
user and time. TLC evaluates them all on its instances.

Four theorems, `RewardsBackedAlways`, `VaultsTypeCorrect`, `PendingWithinTotalAlways`
and `DollarBackedAlways`, have a hypothesis about behaviours besides: `[]Bounded`,
that the Flexible principal stays below `2 * Precision`. `LegacyDec` rounds the share of a unit of principal to the nearest
multiple of `1 / Precision`, upwards too; multiplied by the principal of a
position, the error stays below one coin, and is truncated, exactly below that
bound. Above it a sole position could be paid a coin more than the record holds.
In the code the bound is two million million $USDN; in the runs it is 200 units of
principal where there are at most four coins. The other theorems do not need it, and
`CustodyBackedAlways` says what is covered without it: everything but the rewards.

* **SumTheorems**: sums over finite sets. The community modules define them by a
  fold, and the fold by `CHOOSE`; the lemmas show by minimal counterexample that
  the chosen table exists, and then how a sum changes when one entry does or one
  is added, how sums over parts of the domain compare, that shares of a whole do not
  add up to more than it, and that the sums of a table over its rows and over its
  columns are the same (`SumExchange`). The last lemmas do the same for a fold with any
  step function.
* **LedgerProofs**: bounds on the three roundings, for negative amounts too; then,
  for each ledger operation, what it changes, and that it preserves `Sound`: the
  ledger is well typed, the index is at least `Scale`, balances add up to the supply,
  principals to at most the total, and holders are not overstated.
* **TokenProofs**: `Inv`, that is `TypeOK`, `Sound` and `SupplyWithinDust`, is
  inductive. From it follow the four invariants of the run, and then its two
  action properties: no step lowers the index, or the principal of an account whose
  balance it leaves alone, and only a transfer moves balances in both directions
  (`StepEffect`); and a transfer rounds the principal it moves up.
* **PortalProofs**: every step of the portal is a step of Token or leaves it alone
  (`PortalImplementsToken`), so `Inv` carries over. `PortalInv` adds what the
  configuration, the nonce and the two logs have to do with each other. From the
  bounds on roundings follows that the index update in the `Mint` of a welcome deposit
  cannot panic, wherever it stops (`WelcomeGetsInAlways`). The last part
  is the refinement, `PortalImplementsIdeal`: the genesis maps to an initial
  state of IdealDollar and each action to a step or a stutter: a delivered deposit
  to one `Accept`, with `DepositAndAccrue` if its index update got past the
  accrual, a transfer out to a burn with the index of that moment, a claim and
  the payouts to vault, collector and warp account to moves out of the pot.
* **ExternalProofs**: `ExternalInv` is inductive, and all five invariants of the
  two runs follow from it.
* **VaultsProofs**: a handler is a function on stores, so the lemmas say what each
  leaves of a store, complete or not: `ClaimRewards` (`ClaimRewardsEffect`), one round
  of an unlock (`UnlockPositionEffect`), the call (`UnlockedKept`), the season end
  (`SeasonEndKept`), the index update (`UpdateIndexStoreEffect`), the lock
  (`LockedSafe`). `VaultsStep` puts them together: every step keeps `VaultsInv`, costs
  no user anything and, within the bound, keeps the rewards backed. The last section
  is about the queries: what one record pays all users is within the record
  (`ToldWithinRecord`), and the sum over the users of what the records pay each is the
  sum over the records of what each pays all.
* **DollarProofs**: `DollarInv`, the invariants of the vaults and of external yield
  with the accounting, is inductive under every step of the whole module and under a
  restart. The lemmas of the components are about stores, so they serve here again;
  what is new is said below.
* **NTTProofs**: what slices show (`Slice`, `SameView`, `Shown`), what each encoder
  puts where (`Prefixed`, `TransferEncoded`), what each parser takes from where
  (`TransceiverParsed`, `ManagerParsed`, `TokenHandled`), and that the two undo each
  other: `ManagerReencoded` and `TransferReencoded` for whatever is accepted,
  `RoundTrip` for what is sent. `HandledSame` goes through the payload types to show
  that only a cut index payload is handled by what lies behind its window. Lengths are compared, and bytes position by position,
  so there is no induction over a message.

**Why the strengthenings are needed.** `PrincipalBacked` and
`HoldersNeverOverstated` are about sums and counts, which only change with a
well-typed ledger; that a burn cannot make the supply negative needs the
balances to add up to it; that the accrual leaves no excess needs the index to
be positive and the truncation of `GetPresentAmount` to go downwards, and so the
total principal to be worth at least the supply.

`NoncesFresh` only speaks of nonces that differ; that they do needs each message
to carry its own count (`NonceCounts`), since the next nonce is computed from
the last. `NoSelfDelivery` is about the past; it needs that no handler, at any
time, gives Noble's own chain a peer (`OwnChainUnpeered`). `SupplyAccounted`
needs Token's `Inv`, for what an index update that fails halfway has minted by
then.

`EscrowBacked` and `ChannelYieldAccounted` need each other's state: a refund pays
out of escrow what a packet carried, and it is `Sound` that lets every coin moved
show in the balances, while distinct packet ids make sure that a packet that is
settled takes away what it carried and nothing else. `WarpBacked` is not
preserved by the steps of an index update one by one: between the claim of the
warp account's yield and the last route, coins are there that no route's
collateral claims yet. `WarpKept` therefore has a spare amount, which the loop
over the routes counts down by one portion a time; that the portions sum to no
more than the claim is the arithmetic of the two truncations
(`PortionsWithinYield`). The invariant holds wherever the update stops, which is
what makes it hold of a `Mint` that swallows the error.

`PositionsBacked` alone says nothing of who is paid: a payout in the Staked vault
leaves the other positions covered because the sum over the positions falls by what
was paid (`Removal`), and a Flexible position because every position has its own
account, which no other handler debits. `RewardsNotOvershared` is kept by an unlock
only because the principal that a partial unlock removes, recomputed at the index of
the position, is never more than what its worth falls by (`RoundedDownParts`), and
because a record is charged only if it is later than the position. During the season
end it does not hold of all users any more: an unlock that failed halfway has charged
the records but kept the position. `SharedBy` therefore speaks of a set of users, and
the loop carries it for the users still to come (`Ending`), which is what the rewards
of the later users need; afterwards it is not needed. In the same way the Flexible
vault's count of users is exact during the season (`Counted`) and only an upper bound
after it (`CountedAtLeast`), which is what keeps it from underflowing. `NothingLost` is about two
sums at once: an index update or the claim of a position's yield may pay an account,
no handler takes from one what does not reappear in a position or the other way round.

The invariants of the components could fail on a common ledger: each was shown to be
kept by steps that know nothing of the other, and an index update pays both from one
account. What makes them compatible is who may lose coins. A step of one component takes
coins only from users and from the accounts that hold coins for it (`Moves`), no account
holds coins for the vaults (`Holding`) and for other chains (`Custody`) at once
(`NobodyTwice`), and an index update takes from neither, except from the Staked vault
what Season Two donates of its yield (`Spares`). `UpdateKeeps` follows an update
through the vaults and then the recipients, complete or not. `RewardsSafe` is kept apart
from `DollarInv`, since it needs the bound. `RestartKeepsAnswers` needs that the
lists of the document have one entry for each key (`PositionsRestored`,
`RewardsRestored`), and that an amount it leaves out reads as the zero that it was
(`AmountsRestored`). `WireInv` holds across restarts because genesis carries the nonce.

The wire format needs two invariants: that what was delivered is what was sent, in a
buffer with some room behind it (`Arrived`), and that a message nobody altered is where
the encoders left it (`Unaltered`). The room is where the slices of a manager message
and of its payload may reach; `ManagerView` shows that what is accepted does not depend
on it.

**Loops.** The distributions of external yield, the positions of an unlock and the
users of the season end are folds, and a fold is again a `CHOOSE` of a table. A lemma
such as `RoundsLead` says of a family of sets, one for each set of rounds done, that a
round leads from one to the next; `FoldTableExists` then gives the table, and
`TableWithin` that its last entry is in the last set. This takes the place of the
induction over the rounds that the prover cannot do with an operator as parameter.

**Only model-checked.** The liveness properties (`DepositsDelivered`,
`PacketsSettled`, `SeasonEnds`, `StakedReturned`): the prover does not
reason about `ENABLED` and fairness. The safety half of `DepositsDelivered` is proved,
though: in every reachable state a `Welcome` deposit that was not accepted yet can be
delivered (`WelcomeGetsInAlways`), so that all that is left to fairness is that someone
does it. That the wire format's other
transfers, with additional payloads of more than eleven scaled bytes, arrive as meant
is neither checked nor proved: a scaled length does not count so far.

## Not modelled

See `components` in `PROJECT.json`. The migration copies three numbers once. Most
of the repository's lines are protobuf code generated from `proto/` (`*.pulsar.go`,
`*.pb.go`), which has no logic of this module; the command line, the wiring and
the simulation app have no state of their own. Queries that return a stored value
are not repeated as operators. The 256-bit limit of `math.Int` (an overflow panics
and reverts), the recovery from a panic in `BeginBlocker`, events, logging, gas,
address formats and the 32-byte length checks of addresses are abstracted away.

## Plan

1. *Done*: Indexing, Ledger, Token, Portal and the proofs about Token.
2. *Done*: Vaults, both seasons and the season end; ExternalYield, IBC and
   Hyperlane.
3. *Done*: IdealDollar and the refinement; liveness of deposits, packets, Staked
   positions and the season end; the composition Dollar; Genesis; NTT.
4. *Done*: the proofs of Token's action properties, of Portal, of its refinement of
   IdealDollar, and of ExternalYield.
5. *Done*: the proofs about Vaults, with the invariant that ties positions, records
   and statistics to the accounts that hold the coins.
6. *Done*: the proofs about the queries on pending rewards, about the whole module and
   its restarts, and about the wire format.
