# Divvyr: the strip_vault program in TLA+

Divvyr locks a position in a tokenized stock ("xStock", a Token-2022 mint with the
ScaledUiAmount extension) in a vault. The vault's owner is whoever holds its *Master
Deed*, a Metaplex Core NFT; shares of the vault's dividends are *Yield NFTs* stripped
from it. A dividend is a rise of the mint's multiplier: a keeper harvests the raw
tokens that carry the rise, swaps them into USDC or SOL, and distributes the result to
the holders of the Yield NFTs, the rest going to the holder of the Master Deed.

Everything the repository implements is one Anchor program,
`src/contracts/programs/strip_vault`. The backend and the frontend are placeholders.
The paths below leave out `src/contracts/programs/strip_vault/src/`.

## Inventory

| component | state | operations | what is hard |
|---|---|---|---|
| vault lifecycle (`creator_initialize_vault.rs`, `owner_redeem_principal.rs`) | `Vault` account, `stock_vault_ata`, Master Deed | open, close | closing looks at one counter; pending stock; opening again at the same address; anybody can create `stock_vault_ata` first |
| positions (`owner_strip_position.rs`, `owner_buyout_yield.rs`, `state/yield_record.rs`) | one `YieldRecord` and one NFT each; `total_yield_allocated_bps` of the vault | strip, buy out, expire | the counter is a cache of the records; NFTs are traded and burned behind the program's back |
| harvest (`keeper_harvest_dividend.rs`) | `last_multiplier`, `total_raw_shares`, `pending_harvest_amount`, `pending_distribution_ata` | harvest | rounding; scheduled multipliers that replace each other |
| swap (`keeper_execute_swap.rs`) | pending amount, swap reserve, payout account | swap at the oracle's or the caller's rate | who may debit the reserve; where SOL goes; `payout_holding_ata` is what the creator said; anybody names the rate |
| distribution (`keeper_distribute_payout.rs`) | payout account, all the records listed | pay, count, expire | the list is the caller's: incomplete, repeated, of stale positions; so is the account the payout comes from |
| arithmetic (`utils/math.rs`) | none | multiplier, harvest, share, swap output | rounding and narrowing |
| ScaledUiAmount (`utils/scaled_ui.rs`) | the mint's extension, written by the issuer | effective multiplier, TLV scan | the clock decides which multiplier is in force |
| Metaplex Core helpers (`utils/metaplex_core.rs`) | NFTs | mint, burn as delegate, burn as owner | the holder can burn too |
| events (`events.rs`), and the indexer that `docs/TO-DO.md:51` plans to follow them | none in the program | one event per instruction | no event says that a position expired, or which positions a distribution ended |
| errors, `ping`, backend, frontend, build files | | | not modelled, see below |

Components interact only through accounts. Every instruction is one atomic
transaction: it runs to its end or fails and changes nothing. There is no thread and
no callback; the concurrency is that of *anybody sending any instruction at any time
with any accounts*, between which the clock advances, the issuer updates the
multiplier and holders trade, burn and donate. What can go wrong is listed at its line
under "hazards" in `PROJECT.json`.

What makes the parts correct: the counter equals the sum of the active shares; a closed
vault has nothing outstanding; recorded amounts are covered by token accounts; harvests
do not eat the principal; a position ends only by its terms or by a paid buyout;
payouts reach the holders of the moment, never more often than agreed, and nothing is
created or lost; harvested stock is in the end swapped and distributed when a keeper
does its work; an owner who pays the agreed prices gets the principal back; the events
tell what an indexer would need of the vault.

## Modules

| module | what it is |
|---|---|
| `Ledger` | sums over finite sets and transfers between accounts. `Total(f, S)` counts units (a cardinality), so that it needs no recursion and can be proved about |
| `StripVaultMath` | `utils/math.rs`, one operator per function, and next to it the predicate that says when it is not an error |
| `StripVault` | the whole program: one action per instruction, the environment, `Spec` |
| `StripVaultProperties` | the type invariant, the invariants and their conjunction `IInv`, action properties, the keeper's fairness, liveness, and the documents' statements that the code does not keep |
| `HoldersOfRecord` | `StripVault` with a history variable, who held each Yield NFT at the last harvest; only the property of finding 8 reads it |
| `DividendRights` | the abstract specification: rights, their holders, an owner and money; no counter, no expiry, no counts, no stock |
| `StripVaultRights` | what of `StripVault` each variable of `DividendRights` is, and `ImplementsRights` |
| `IndexedVault` | `StripVault` with the event that each instruction emits and a reader who knows nothing but the events |
| `ScaledUiMint` | `utils/scaled_ui.rs`: the scan of a mint's bytes for the configuration, a recursive function whose body, `Turn`, is a turn of the loop |
| `MCStripVault`, `MCIndexedVault`, `MCHoldersOfRecord` | constants for TLC: for the program, with its events, with the holders of record |
| `MCUtils` | the functions of `utils/` over small inputs, against what each function is for |
| `LedgerProofs`, `StripVaultMathProofs`, `StripVaultProofs`, `StripVaultSafetyProofs`, `StripVaultMoneyProofs`, `StripVaultRightsProofs`, `IndexedVaultProofs`, `UtilsProofs` | the theorems |

`StripVault` keeps the names of the program: an action has the name of the instruction,
a record field that of the Rust field. Its variables are the accounts: `clock`, `mint`
(the extension), `vault` (with `open` for whether the account exists), `records`, `nft`
(the owner of every asset, or `"unminted"`, or `"burned"`), `stock` and `funds` (the
ledgers: raw stock; SOL, USDC and any `OtherTokens`), `ata_exists` (whether
`stock_vault_ata` has been created, by the program or by somebody else) and the history
variable `principal`, the deposit times the multiplier it came in at, which only
properties read.

* A check of the code is a conjunct of the action's guard; a refused transaction is an
  action that is not enabled. The caller of a keeper instruction is anybody, so it is
  not a parameter.
* The loop of `keeper_distribute_payout` treats each record apart, so the list of
  triples is the number of times each yield asset is in it (`listed`); `TimesPaid` and
  `AfterTriples` say what the loop does to a record met that often. The order of the
  triples changes nothing.
* `SwapDestinations` and `MayDebitReserve` separate the two branches of the swap: a token
  only to `vault.payout_holding_ata`, which is whatever account the creator named, of
  whatever mint (`HoldingChoices`), and nowhere if that is no token account; SOL to any
  account the caller names, if the runtime lets the program take it from the reserve.
* `PayoutSources`: a payout comes from the PDA's SOL, or from any token account of the
  vault's PDA, of any mint, since the program compares the source with nothing. A vault
  that pays in USDC can so "distribute" a token that is worth nothing.
* Everybody may send stock and money to the vault's addresses at any time, before it is
  opened and after it is closed too (`send_stock`, `send_funds`), and anybody may create
  its token account (`create_stock_vault_ata`), which makes `creator_initialize_vault`
  fail from then on (`SquattedForGood`).

`DividendRights` says what a vault owes and to whom: a right is a share of every payout,
granted once, out of what no other right has; a payout goes to the last unit to those
who hold the rights it pays and to the owner, in whatever money it is, of worth or not; a
vault closes when it owes nothing, and a new one owes nothing that an earlier one owed. `StripVaultRights` maps a right to a
record that is active (`OwedShare`), the owner to the wallet that Metaplex Core has for
the Master Deed (`DeedHolder`), and money to `funds`. The counter
`total_yield_allocated_bps`, expiry conditions, counts, stock and multipliers are not in
the abstract state: harvests, the clock and the issuer are stutters, a swap is money that
moves, and which rights a payout pays and ends is open there and decided by the code.

`IndexedVault` joins every instruction to its event (`Emit`); a transaction that fails
emits nothing. `Index(e)` is an indexer that is not written yet; it is as simple as the
events allow and checks that each harvest begins at the multiplier where the last one
ended.

### What is abstracted

* A wallet stands for itself and its token accounts, and `vault_payout` for the vault's
  PDA and its: all accounts of one mint with one owner are one. Token accounts that
  somebody delegates to the vault's PDA, which would do as a source as well, are not
  modelled. Names, URIs, bumps and seeds are left out.
* `OtherTokens` stand for every mint but USDC. The program tells them apart nowhere; only
  the properties do, which ask what a vault that pays in USDC pays.
* Rent and transaction fees are left out, so the lamports at the address of a closed vault
  are those above the rent; a recipient always accepts a payment.
* Metaplex Core, Token-2022, the Token program, the clock and the runtime are external:
  they are modelled by what the program relies on. An address at which an asset was
  minted never has another asset minted at it.
* The literal `10_000` of `calculate_yield_share` and `Vault::MAX_YIELD_BPS` are one
  constant. `Some(0)` as a rate is an error and therefore no step. NaN, infinite and
  non-positive multipliers are refused by the code and are never set by the model's
  issuer. A scheduled multiplier whose time has passed behaves as one set at once.
* `FIXED_UNIT` is the number of grains of an f64 in 1e-9: multipliers of the model are
  counted in grains, so that rounding in `f64_to_fixed_multiplier` happens.
* `StripVault` takes the mint to be one that the program can read: one of the layout that
  `scaled_ui.rs` expects. Finding 7 says what that leaves out.
* `ScaledUiMint` counts bytes; what the eight bytes of an `f64` or an `i64` mean is not
  modelled, and the lengths of a key and of a number are constants.
* The model has one vault: no instruction reads or writes the accounts of two.
* `RESERVE_OWNED_BY_PROGRAM` says whether the program may debit the lamports of
  `swap_reserve_authority`. No instruction of the repository creates that account or
  assigns it, so all runs set it to FALSE; the proofs hold for both values.

## Runs

All the passing runs of the program include the whole environment, less the issuer in
`Positions` and `Rights`, where nothing depends on the multiplier, and the clock in `Rights`
and `Crank`, which have no position that a clock ends. `CHECK_DEADLOCK FALSE` is set
because the system may stop: a closed vault, no stock left and a clock at `MAX_TIME`
leave nothing to do.

| run | instance | checks |
|---|---|---|
| `Positions` | 2 wallets, 2 yield assets (symmetric), shares of 1/4 and 3/4, expiries of all three kinds, up to 2 triples, payouts in USDC and SOL, 2 clock values | `TypeOK`, `AllocationExact`, `ClosedMeansUnwound`, `SharesFitThePayout`, `Conserved`, `PositionsEndByTheirTerms`, `PayoutsReachRightsHolders`, `KeeperPaysEveryRight`, `OrphansHoldTheVault` |
| `Rights` | 2 yield assets, `PayoutCount`s of 0 and 2, up to 3 triples, payouts of 2 units of a token other than USDC, an owner who leaves | `CountsWithinTerms`, `ImplementsRights`, `OwnerCanLeave` |
| `Harvest` | 1 yield asset, 2 deeds (so a vault is opened again), 4 raw shares, multipliers of 1, 4, 8, 12 grains with 4 grains to a unit (0.25 rounds to 0), scheduled updates, 2 swap rates, a `payout_holding_ata` of the vault or of a wallet, a token account that somebody may create first; the events and their reader | `CustodyCovered`, `PrincipalPreserved`, `StockLeavesByRight`, `SquattedForGood`, `EventsTellTheStock`, `EventsTellThePositions` |
| `Crank` | fair keeper, 2 yield assets, two rises (4 to 8 to 16 grains, so that a harvest can come in between), strangers who swap at another rate, payouts of harvests, of sent USDC and of sent SOL | `PendingIsSwapped`, `PayoutIsDistributed` |
| `Utils` | all small arguments of each function of `math.rs`; mints with up to 3 extensions of 3 types and 3 lengths, whole and cut at every byte | each function gives the best integer: the largest harvest that does not dilute, shares that fit and waste less than one unit each, the nearest fixed-point multiplier, a swap in one go no worse than in two parts; the scan reads the first configuration, whatever is before it (`ReadsTheFirstExtension`) |
| `ExpiryReverts`, `SolSwap`, `UnevenPayout`, `SplitIsLost`, `SwapTerms`, `ScanComments`, `HolderAtDividend` | as above, smaller; `ScanComments` with the offsets and lengths of the source, `HolderAtDividend` with the holders of record | each finds the violation of what documents or comments say, see "Findings" |

Why these bounds are enough: the allocation, the counts and the payouts concern single
records and sums, and two positions give every order of two ending, overlapping shares
(1/4 + 3/4 fill the vault, 3/4 + 3/4 overflow it). In `Rights` a record listed three
times in one distribution crosses its `PayoutCount` from every count below it, two
payouts apart or at once, and `U32_MAX` (4) is above every `PayoutCount`, so that the
field cannot hide an excess. `Positions` has payouts of one and two units, where a share
of 1/4 rounds to zero and one of 3/4 does not always. Harvests need two rises to compound rounding and one
fall to test rescheduling. The scan meets an entry before, between and behind two others,
empty, of the right length and one byte longer, filled with bytes that look like a
header; the offsets in `Utils` are small because only their order matters, those in
`ScanComments` are the program's. `U32_MAX` (2, in `Rights` 4), `MAX_TRIPLES`, `MAX_TIME`, the
share, price, rate and multiplier sets are the only bounds; there is no other state
constraint. A small `U32_MAX` lets a position without expiry reach the limit of its count.

`KeeperPaysEveryRight` is what remains of findings 1, 3 and 4 when the caller names every
position once, as the keeper is to: each holder gets the share of every Yield NFT held,
once; the Master Deed holder gets the rest, never less than the unallocated share; and
every position that has expired is ended. It is about the holder at the distribution,
which README.md:33 asks for and ABOUT.md:25 does not (finding 8).

Two more say what a step of anybody can never undo. `OrphansHoldTheVault`: a Yield NFT
that its holder burns (`burn_asset`) while no clock ends it, because it has no expiry or
is short of its `PayoutCount`, is a share that nobody can end, so the vault is never
redeemed. `SquattedForGood`: once somebody has created the token account of a vault that
is not open, `init` fails for ever, the vault is never opened, and stock sent there stays.
No document says otherwise; a reader should know.

The payout asset only matters to the swap: a distribution treats all tokens alike, which is
why `Rights` pays the abstract vault's payouts in a token of no worth and loses nothing by
it. `EventsTellThePositions` is checked with one yield asset; that events of two do not
get in each other's way is left to its theorem.

### Fairness

The program makes nobody act. `KeeperCrank` is weak fairness of the three steps that
`docs/TO-DO.md:47-50` assigns to the keeper: harvest, swap at the oracle's rate, and
distribute everything, naming once each active position that can be named. Owners,
holders and the issuer are not fair, and any of them may act between two steps of the
keeper. The keeper's swap (`KeeperSwap`) takes whatever destination the vault has for USDC, and the
PDA for SOL.

With it, the pending stock of a USDC vault reaches the reserve while the reserve can pay
what the oracle's rate gives for it (`PendingIsSwapped`). Strangers may harvest more in
between, drain the reserve, or swap first, at a rate of their own: the property promises
that the stock is sold, not for how much, and finding 9 shows that nobody can promise
that. Nothing but a swap takes the pending amount to 0, except that the vault is closed. Money in the payout account leaves it as long as somebody holds the deed
(`PayoutIsDistributed`): no listed position can block the others.
Both steps stay enabled until one of the kind happens, so weak fairness is enough.
`Crank` has no position whose count reaches `U32_MAX`: a position without expiry that
did would make the keeper's distribution fail from then on (`checked_add`).

`OwnerLeaves` is weak fairness of the buyout of each position and of the redemption, for
whoever holds the deed; it stands for an owner who wants out, and asks nothing of the
keeper, the holders or the program. While the owner can pay for every active position
and each has a holder (`CanUnwind`), a buyout or the redemption is possible at every
moment, so the condition ends: with the principal returned, or because the deed, the
money or a Yield NFT went elsewhere first, or the owner stripped a position too dear to
buy back (`OwnerCanLeave`). An owner who strips new
positions in between cannot do so for ever: an address takes one NFT in its life, and the
instance has two. A position that expired and was ended by somebody's distribution
needs no buyout; a share that stayed counted after that would block the way, and the
mutant of `Reverted` shows that the property sees it.

## Findings

1. `ExpiredShareReverts` (ABOUT.md:32): an expired position gives its share back only
   in a distribution, which needs a payout above zero.
2. `SolIsSwapped` (docs/PLAN_CONTRACTS.md:256): the SOL branch of the swap debits a PDA
   that the program does not own.
3. `NobodyIsPaidForAnother` (README.md:33): a distribution pays only the positions listed;
   the share of those left out goes to the Master Deed holder,
4. or (docs/PLAN_CONTRACTS.md:278-280) to a position whose triple is listed twice, which is
   paid and counted twice. `UnevenPayout` shows both in one distribution.
5. `SplitsCostNothing` (lib.rs:85): redeeming between a harvest and its swap leaves the
   harvested stock in `pending_distribution_ata`.
6. The same (ABOUT.md:20): a split raises the multiplier as a dividend does, and the harvest
   compares multipliers and nothing else. In `SplitIsLost` the owner loses, to a split,
   half of the stock.
7. `ScanKeepsOneComment` (`utils/scaled_ui.rs:11`, `:74`): the scan begins at byte 83. In the
   layout of Token-2022 (its own code, external to this repository) a mint with
   extensions has 82 bytes of base mint, padding to 165, a byte for the type of the
   account, and its entries from 166. The padding reads as empty entries, the header
   that straddles byte 165 has a length beyond the end, and the mint is refused. The
   unit test builds its buffer from the program's own constant. Token-2022 also
   numbers the extension 25, not 20; the run does not depend on it.
8. `HolderAtTheDividendIsPaid` (ABOUT.md:25): the share goes to who holds the Yield NFT
   at the distribution, not "at the moment a dividend fires". README.md:33 says "current
   owner", as the code does: the two documents disagree.
9. `SwapKeepsOneTerm` (the comment at keeper_execute_swap.rs:88,
   docs/PLAN_CONTRACTS.md:256): whoever sends the swap may give `custom_rate`, so a
   stranger can sell the harvest for next to nothing, or the reserve's money for next to
   no stock.
10. The same (docs/PLAN_CONTRACTS.md:256): `payout_holding_ata` is stored as the creator names
    it; if it is the creator's own account, USDC goes there and the Yield NFTs are paid
    nothing. `SwapTerms` shows both in one swap.
11. `ScanKeepsOneComment` again (the comment at utils/scaled_ui.rs:93, "type = 20 or matching
    length 56"): the code wants both. The code is the safer of the two. `ScanComments` shows
    7 and 11 of one entry.

Where two statements are broken side by side, the property is what either of them alone would
give, so that it fails only where neither is kept, and one run shows both. Either
disagreement also happens without the other.

A disagreement with a comment that no run singles out: keeper_distribute_payout.rs:29 says
that the source of a payout is `vault.payout_holding_ata`, and nothing compares the two, so a
token of another mint can run up counts and end `PayoutCount` positions while no USDC is paid
(`PayoutSources`). This is in all the instances with `OtherTokens`, and in all the proofs: what
is checked and proved of payouts holds for payouts in any token.

## Proofs

Proved for every value of the constants, from the named assumptions of `StripVaultMath`
and `StripVault` (constants are naturals, positive where the code divides by them;
addresses are distinct; wallets and yield assets are finite sets):

* `Ledger`: sums of disjoint unions, of a set and of it without some of its accounts; a
  transfer keeps the sum (`TransferConserves`); a sum taken group by group is the sum
  (`TotalOfTotals`); the sum of multiples is the multiple of the sum (`TotalScaled`). They
  are lemmas: facts about sums, which the theorems about the program rest on.
* `StripVaultMath`: `HarvestDilutesNothing`, for all balances and multipliers, from the
  two facts about a quotient (`q * d <= n < q * d + d`); from the same two, that no
  larger harvest would do (`HarvestIsTheMost`), that swapping in parts pays no more
  (`SwapInParts`), and `YieldShareBounds`.
* `StripVault`: `Spec => []TypeOK` (`TypeCorrect`), one step per action.
* `Spec => []Inv` for `AllocationExact`, `ClosedMeansUnwound`, `CustodyCovered`,
  `PrincipalPreserved` and `CountsWithinTerms`, in `StripVaultSafetyProofs`.
* `Spec => StockLeavesByRight`, an action property: under `IInv` a step that lowers the
  vault's token account is a harvest or a redemption (`StockStep`).
* `Spec => SquattedForGood` (`SquattedStaysSquatted`), also there, with one step per
  action (`SquatStep`).
* `Spec => []SharesFitThePayout`, `Spec => []Conserved`, `Spec => PayoutsReachRightsHolders`,
  `Spec => PositionsEndByTheirTerms`, `Spec => KeeperPaysEveryRight` and
  `Spec => OrphansHoldTheVault`, in `StripVaultMoneyProofs`.
* The safety half of the liveness properties, also there (see below):
  `PayoutCanBeDistributed`, `PayoutWaitsForTheKeeper`, `PendingCanBeSwapped`,
  `OwnerCanAct`, `PositionsRunOut`.
* `Spec => ImplementsRights` (`RightsAreKept`), in `StripVaultRightsProofs`.
* `IndexedSpec => []EventsTellTheStock` and `IndexedSpec => []EventsTellThePositions`, in
  `IndexedVaultProofs`.
* All five invariants of `Utils`, in `UtilsProofs`: for every `BOUND`, every set of
  extension types and fillings, every number of extensions and every layout
  (`LayoutAssumption`), and behind them two theorems about any bytes whatever,
  `ReadsOnlyAtAHeader` and `CutShort`.

The invariants depend on each other, so their conjunction `IInv` is what is proved
inductive (`StartSafe`, `StepSafe`). `PrincipalPreserved` needs `CustodyCovered`, since a
harvest is computed from the balance of the token account and not from
`total_raw_shares`. `ClosedMeansUnwound` needs `AllocationExact`: a sum of positive
shares is zero only over no position, which is why `AllocationExact` also says that
active shares are positive. `AllocationExact` needs, for a strip, that an active
position has an address that is not free, and, for opening a vault, that a closed one
has nothing allocated (`ClosedMeansUnwound`). A distribution is one lemma
(`EndingReleases`): taking a set of positions out of the sum takes out exactly their
shares, so `saturating_sub` never saturates. `EnvironmentLeaves` states once what the
steps of everybody else leave alone.

A sum here is the cardinality of a set of units, so statements about sums are
proved by bijections and not by induction over accounts. `TotalOfTotals` sorts
the units of a sum by the group they belong to: this is what makes the incomes of all
wallets add up to the payout, however many Yield NFTs a wallet holds
(`IncomeIsThePayout`), and so `Conserved`. `TotalScaled` takes a factor out of a sum: the
rounded shares times `MAX_YIELD_BPS` are at most the payout times the sum of the shares,
which `AllocationExact` and the type of the counter bound (`SharesFit`).

The refinement has one lemma per instruction (`InitializeFounds`, `StripGrants`,
`BuyoutBuysBack`, `RedeemCloses`, `DistributionPaysOut`, `SwapMoves`) and for what holders
and senders do. It is proved under `RInv`: `IInv`, and that an open vault names a Master
Deed and not a Yield NFT, without which a burned Yield NFT could change the owner.
`AllocationExact` is what turns the counter's room into room among the rights
(`OwedIsAllocated`), and `ClosedMeansUnwound` what makes a new vault owe nothing.

A step of `IndexedNext` is one of `Next` (`EventsChangeNothing`, and the lemma
`IndexedIsTheProgram`), so `IInv` holds with the events too, and what the events tell (`Told`) is inductive under it. A harvest needs that
the reader's multiplier is the vault's, which is why the two stand in one invariant. What
the reader takes for allocated stays above the counter through a buyout only because the
counter holds the share bought out (`ShareIsAllocated`, from `AllocationExact`), and a
position it holds beyond the active ones stays expired because the clock and the counts
only go up (`ExpiredStays`).

`KeeperPaysEveryRight` says of one step what three lemmas give: the keeper's list has
each due position paid once (`ListedOnce`), a listed record is active afterwards exactly
if its terms leave it so (`ListedOnceAfter`), and what the rounded shares leave covers the
share that is not allocated (`RestCoversUnallocated`, from `SharesWithinAllocation`, the
inequality that `SharesFit` rests on too). `OrphansHoldTheVault` needs `AllocationExact`: an active
position keeps the counter above zero, and nothing but a redemption closes a vault
(`OpenUntilRedeemed`). An orphan short of its `PayoutCount` also stays short of it: a
distribution that lists a burned Yield NFT is refused, so the count does not rise.
`ClosedMeansUnwound` says of a token account that a redemption has closed that it is empty;
one that somebody created before the vault may hold stock.

In `Utils` a step only draws arguments, so each invariant is a fact about the functions,
and `InputsType` says where the arguments lie. The arithmetic compares a quotient with the
best of a set (`HarvestValue`, `ShareValue`, `MultiplierValue`, `SwapValue`). The scan is a
recursive function of the offset. Induction with an operator is out of reach, so it is
done on sets: a set of offsets that holds every offset all of whose successors it holds
is everything (`FromTheEnd`, from the least element of a set, `LeastNatural`). This gives
that the function exists and each turn looks ahead only (`ScanExists`, `ScanTurns`,
`TurnLooksAhead`), that what is read lies behind a proper header (`ReadsOnlyAtAHeader`) and
that cutting a mint short changes nothing but refusals (`CutShort`). Where the entries of a
mint begin (`FlattenPlaces`, `MockMintPlaces`) and that a turn at one goes to the next or
reads it (`EntryTurn`) then give, from the last entry to the first, that the first
configuration is the one that is read (`ChainIsScanned`, `FirstExtensionIsRead`).
`UtilsProofs` also rests on `BOUNDAssumption` and `ExtensionsAssumption` of `MCUtils`:
extension types are naturals and fillings are not empty.

Only model-checked: the three liveness properties `PendingIsSwapped`, `PayoutIsDistributed`
and `OwnerCanLeave` (fairness and ENABLED are out of the prover's reach). What is proved of
them is everything else that the rule for weak fairness asks. An instruction determines
all it changes, so it is enabled exactly when its checks pass: `DistributionApart`,
`SwapApart`, `BuyoutApart` and `RedemptionApart` take an action apart into its checks
(`MayDistribute`, ...) and the values it gives to all the variables (`Distributed`, ...).

* `PayoutIsDistributed`: while a payout waits, the checks of the keeper's distribution pass
  (`PayoutCanBeDistributed`), it waits for the same asset until it is gone or nobody holds
  the deed, and the distribution ends the wait (`PayoutWaitsForTheKeeper`). The premise
  `RoomToCount` is the one that `Crank` meets by having `PayoutCount`s only: a position without
  one must be below `U32_MAX`. That the list fits in a transaction (`MAX_TRIPLES`) is a
  premise of the fairness itself.
* `PendingIsSwapped`: the checks of the swap pass (`PendingCanBeSwapped`), whatever
  account of whatever mint the creator named, if there is no more of any money than a `u64`
  counts; the swap resets the pending amount, which ends the wait.
* `OwnerCanLeave`: while the owner can unwind, every active position can be bought out and
  with none left the vault can be redeemed (`OwnerCanAct`); no step adds to the positions
  that are active or may yet be stripped, and a buyout takes one away (`PositionsRunOut`), so
  only finitely many buyouts come before the redemption, which gives up the deed.

## Not modelled

Which error is reported, `ping`, `fixed_multiplier_to_f64` (no instruction uses it), the
bits of an `f64`, rent, fees, the placeholders of the backend and the frontend, and build
configuration. A position whose Yield NFT its holder burned can be ended by nobody,
unless a clock ends it or its count was complete: the model has such states, `CanUnwind`
leaves them out and no document promises anything of them. `OrphansHoldTheVault` says what they lead to.

## Plan

Done: the core, the abstract vault and the refinement with its proof, splits, the scan of
the mint and its proof for any bytes, the owner's liveness, the events, the proofs about
money, events and `utils/`, the safety half of the liveness properties, and the accounts
that callers choose (`payout_holding_ata`, the source of a payout, a token account that was
there first). Next:

1. What a keeper that cannot name every position in one transaction can still promise:
   partial payouts, position by position.
2. If the keeper service or the indexer is written, models of them in place of
   `KeeperCrank` and `Index`.
