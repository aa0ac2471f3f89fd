# digiforge in TLA+

TLA+ models of [digiforge](../src), a Python library on top of a DigiByte Core
node: the Perpetual Giving Engine and its state file, the client of a DigiDollar
vault and of the price oracle, the operations on DigiAssets, and the scripts that
lock collateral. TLC checks them on small instances. TLAPS proves for every instance
each safety invariant and each action property that these checks pass, that the
giving engine implements an abstract ledger, and that payloads and script numbers
are read back as what they were written from.

## The system

The library is synchronous and has one thread. It talks to the outside in two
ways: JSON-RPC requests to a node (`rpc.py`, over HTTP, with a timeout and no
retry) and one JSON file (`pge.py`). Nothing is locked, neither the file nor the
coins of the wallet, so the concurrency there is comes from several processes that
share a file or a wallet, and from the node, which moves between two requests.

| component | state | operations | talks to |
|---|---|---|---|
| giving engine, `pge.py` | `EngineState`: causes, log of distributions, total; the JSON file | add, remove (soft, hard), update a cause; `distribute`; `load_state`, `save_state`; reports over the log | node (`senddigidollar`), file, CDP and oracle clients |
| vault side of the engine, `pge.py` | none of its own | `open_vault` (dry, live), `vault_status`, `health_check`, `report` | CDP and oracle clients |
| CDP client, `cdp.py` | none; the vault is the node's | `mint`, `calculate_mintable`, `redeem`, `position`, `health`, `oracle_price`, `engine_projection`, `collateral_balance` | node, several requests to a call |
| oracle client, `oracle.py` | `_stale_threshold` | `price`, `trusted_price`, `is_trusted`, `status`, `price_usd`, `is_available`, `set_stale_threshold` | node, two requests to a call |
| asset operations, `assets.py` | none; coins and chain are the node's | `issue`, `transfer` (create, fund, sign, send), `verify_asset_tx` | node, four requests to a call, one for `verify_asset_tx` |
| payloads, `metadata.py`, `utils.py` | none | issuance and transfer payloads, LEB128, hashes, asset ids | - |
| scripts, `scripts.py` | none; outputs and clock are the node's | `encode_script_number`, `push_number`, `push_bytes`, `build_cltv_script`, `build_collateral_output`, `estimate_timelock_blocks` | what is built is evaluated by nodes, much later |
| JSON-RPC client, `rpc.py` | a request counter | `call` and one method for each command | node |

What is hard in it, and what makes each component correct:

* *Giving engine.* A batch is a loop of payments followed by one save. A payment
  may be refused in the middle of it, or made and its answer lost; the process may
  die at any point, between the truncation of the file and its new text too; a
  second process may read and write the same file. Correct means: no record
  without its payment, no cause paid twice by a call, at most one payment missing
  in the log of a living process, what was saved stays, a total that is the sum
  of the log, shares that add up in spite of rounding, reports and projections that
  agree with what was given.
* *Vault.* `mint` reads the price twice and the node executes at a third moment.
  An answer may be lost after the collateral is locked. `health_check` combines
  three readings. A price grows old while a call looks at it, and every query
  handles another part of the ways in which the node may fail. Correct means: an
  automatic mint keeps the ratio asked for, the
  result is true, an exception tells whether the vault has changed, "healthy" is
  never said of a vault in danger, a trusted price has earned it, and what is meant
  to survive a node in trouble survives it.
* *Assets.* Callers are funded from the same coins, which nobody locks; the node
  reorders the outputs; the answer to the broadcast may be lost. Correct means:
  what is on the chain reads back as what was asked for, the caller is told the
  truth about it, and a call fails only for a reason.
* *Scripts.* A mistake shows when the collateral is to be spent, and is final then.
  Numbers have forms of their own at 0, 1 to 16, and wherever the top bit is set;
  pushes at 76 and 256 bytes; a lock time is a height or a time. Correct means: the
  collateral opens to its owner, to nobody else and not before its time, and it
  does open; what is pushed arrives on the stack.

`PROJECT.json` lists every such hazard at its line.

## Modules

| module | models |
|---|---|
| `GivingEngine` | engines, state file and wallet: the state machine |
| `GivingReports` | analytics and projections over a state, as pure operators |
| `GivingSafety` | the engine's properties, the inductive invariants, the refinement mapping |
| `GivingLedger` | the abstract ledger the engines implement |
| `VaultClient`, `VaultSafety` | CDP client, oracle client, vault side of the engine; properties and inductive invariant |
| `Payloads` | payloads and LEB128, written and read, as pure operators |
| `AssetPipeline`, `AssetSafety` | asset operations of several sessions on one wallet, on top of `Payloads`; properties and inductive invariant |
| `Scripts` | script numbers, pushes, the CLTV script and the collateral output, as pure operators |
| `ScriptSpending`, `ScriptSafety` | a builder of `Scripts`, and a node with a clock and an interpreter; properties and inductive invariant |
| `MCGivingEngine`, `MCVault`, `MCAssets`, `MCScripts` | the instances TLC checks |
| `GivingProofs` | proofs: payments, records, registries and the state file |
| `GivingBookProofs` | proofs: totals, reports, shares and projections |
| `GivingRefinement` | proof that the engines implement `GivingLedger` |
| `VaultProofs` | proofs about `VaultSafety` |
| `PayloadProofs`, `AssetProofs` | proofs: what is written is read back; `AssetSafety` |
| `ScriptProofs` | proofs: forms of numbers and pushes; `ScriptSafety` |
| `SumProofs` | lemmas about sums over finite sets, which books and scripts need |

Operators named as mutants in a comment are plausible bugs of the definition that
follows them. They are part of no specification: replacing the definition by one of
them makes TLC report the property that is there to catch it.

### GivingEngine and the code

`state[e]` is `self.state` of the engine in process `e`, `job[e]` the locals of
`distribute` (batch id, amount, remainder, loop index), `mode[e]` the `dry_run` of
its configuration, `file` the JSON file: absent, empty, garbled, or a saved
state. `sent` and `funds` are the node's. `pc[e]` says where the process is:

| `pc` | code |
|---|---|
| `down` | no process; `Start` is the constructor |
| `booting` | the script calls `load_state` first (`LoadOnStart`) |
| `idle` | between calls: `AddCause`, `UpdateAllocation`, `RemoveCause`, `DistributeBegins`, `LoadState`, or the refusals of these |
| `paying` | the loop of `distribute` (pge.py:673-709): one cause a step, `SkipCause`, `PayDry`, `PayLive`, `PayRefused`, `PayReplyLost`; `FinishBatch` leaves it |
| `saving` | before `open(path, "w")` (pge.py:477) |
| `dumping` | the file is truncated, its text not yet written (pge.py:478) |

`Crash` may happen wherever a call is under way, `Exit` between calls. An exception
(`Raise`) returns to `idle` and leaves in memory what the call has done so far, as in
Python.

### VaultClient and the code

`pc` is the request that the call is about to send: `sizing` and `pricing` are the
two `getoracleprice` readings of `mint`, `minting` and `redeeming` the commands,
`position`, `feed`, `chain`, `stats`, `network`, `available`, `balance`, `quoting` the
requests of the queries. `call` holds arguments and locals, `outcome` what was
returned or the class of the exception. `threshold` is `_stale_threshold` of the
oracle client. `feed` (the price, the node's stale flag if it is said at all, the
age and the quorum), `blocked`, `locked`, `vault`, `dgb` are the node's. Between any two
requests `Move` changes the feed, the blocking of mints or the timelock, or liquidates
the position (`Liquidate`: the price is at or below its liquidation price, and the status
stays when the price recovers); collateral, debt and `dgb` change by mints and
redemptions only. The age of the answer in hand may grow in the meantime, since `price`
reads the clock after its second request; `outcome.age` is the age the call has computed
at its end. `call.price`, `call.status` and `call.troubles` are what `health_check` keeps of
the snapshot of the vault, `call.seen` is the oracle's answer. `mints` and `burns` are
histories.

### AssetPipeline and the code

`pc[s]` is the request session `s` is about to send: `create`, `fund`, `sign`, `send`,
or `look`, the one of `verify_asset_tx`, which may run while other sessions send.
`call[s]` is its transaction so far, with the arguments. `chain` is what the node has
accepted; the unspent coins follow from it. Fund picks the coins and the place of
the change output, or is refused: because a given coin is gone, or, at any time, because
what the wallet has is not enough, since coins have no values here. Sign is incomplete
and send rejected when a coin is gone. An
amount is the sequence of its digits to the base 128, so that it may be as large as
the code lets it be. A payload that does not fit into 80 bytes ends the call before
anything is asked of the node (`Submit`).

### ScriptSpending and the code

`Build` is `build_collateral_output`, `ComposeNumber` and `ComposeData` are
`push_number` and `push_bytes` by a caller who puts a script together; the builder
keeps nothing, so a behaviour looks at one output or one script. The rest is the
node, which is external and is modelled from the comments on the scripts and the
opcodes they use: `Tick` its clock, `Spend` a transaction that arrives and is final,
and an action for each opcode (`Push`, `CheckLockTime`, `EqualVerify`, ...). `Fail` and
`Finish` give the verdict. `Spend` takes lock times of four bytes at most, which is the
width of nLockTime: the operand of OP_CHECKLOCKTIMEVERIFY may have five bytes, a lock time
may not. `CompactSize` has its first three forms, for lengths below 2^32.

## What is checked

| run | instance | question |
|---|---|---|
| `engine_faults` | 1 engine, 2 names, dry and live, all four faults, 2 batches, funds for less than was promised | types, unique causes, records, single payments, the log while the process lives, persistence of what returned, memory of what was saved, total, reports, every call returns |
| `engine_pair` | 2 engines on one file, lost replies, funds for 3 payments of 4 | the inductive invariant `IndInv`; the engines implement `GivingLedger` |
| `engine_shares` | all registries of 3 causes with shares from {0, 0.02, 33.33, 33.34, 66.67, 99.99} % within the tolerance, amounts with half cents | shares are fair, a batch gives all and not more, a projection is kept, every accepted batch reaches the file |
| `vault_calls` | 2 calls, 2 moves of the node, 2 prices, ratios at and just below thresholds, ages at and over two thresholds, node, link and reply faults | the vault properties below, the inductive invariant `VaultInv`, every call ends |
| `asset_calls` | 2 sessions, 2 coins of which one holds an asset, 2 calls, 6 argument records of each operation, node and reply faults | the asset properties below, the inductive invariant `AssetInv`, every call ends |
| `script_spends` | an output for each of 15 timelocks and 5 keys, or 2 pushes of 20 numbers and 12 lengths; 7 lock times, 7 stops of the clock | the script properties below, the inductive invariant `ScriptInv`, collateral within reach returns |

The properties that deserve a word:

* `RecordsArePaid`, `PaidOncePerBatch`, `LogKeepsUp` are the audit log's worth: for
  every fault and any number of processes, a record with a txid stands for one
  payment, nothing is paid twice inside a call, and at most the last payment of a batch
  is missing while the process lives.
* `ReturnedIsPersisted` and `SavedIsNeverForgotten` are for one process that loads its
  state when it starts, as the examples do. With two, the last writer wins, and what
  the other one saved is gone; nothing in the repository promises otherwise.
* `BooksAgree`: the reports (by cause, by batch, lifetime, the latest gifts) are three
  ways to cut one log, and agree after any sequence of batches, dry or live, loads and
  changes of the registry: a gift to a cause that has been removed is still counted.
* `BatchGivesAll`, `SharesAreFair`, `ProjectionIsKept` relate three roundings: of the
  shares, of the remainder that the last cause absorbs, and of the breakdown that a
  projection has promised.
* `KeepsLedger`: `GivingLedger` knows payments and logs only. A log accounts for a
  payment because its engine has just made it or because it was copied from the
  other place; it may miss some and be lost as a whole. The refinement maps a log
  to the txids in it.
* `AutoMintsKeepRatio`, `MintResultIsTrue`: with the price moving between the two
  readings and the execution, the promise holds for every mint whose price has not
  fallen since; they also pin down the direction of every rounding.
* `OnlyLostAnswersLeaveDoubt`: after any exception but `NodeConnectionError`, and the
  `JSONDecodeError` of an answer that is cut off, the vault has not changed, so a caller
  may repeat the call.
* `HealthyIsSafe` relates the verdict of `health_check` to the vault, although the node
  may move between its requests: at the price of the first one the vault is above both
  thresholds and away from liquidation, and it is so at the oracle's price and at the
  present one unless these are lower. The status word behind the verdict is a sound one
  unless the position is liquidated, of which the verdict takes no notice: that is
  the run `vault_liquidated`.
* `TrustIsEarned`: a price that `trusted_price` returns, or that a healthy verdict rests
  on, is of a quorum and was not called stale; if the node gives no flag, the age that
  the call computes at its end, not less than the age of the answer, is within the
  threshold, whichever `set_stale_threshold` has set before. If the node does give the
  flag, the age counts for nothing: "fresh" may stand beside any age, and the property
  says nothing of it (see below).
* `TroublesAreContained` says which call survives which failure: the code catches other
  classes of exceptions at every place where it asks for the price.
* `ChainSaysWhatWasAsked`: payloads written byte by byte, put behind a change output or
  not, and read back by the library's own readers, for every amount that they can
  read; for larger ones they give up and never read another amount.
* `InspectionFindsPayload`: whatever `verify_asset_tx` reports is what the call of the
  transaction has put there, and a payload of up to 75 bytes is found. It allows longer
  ones to be found, which the code does not do: that is the run `asset_inspect`.
* `CallTellsTruth`: at most one transaction for a call, exactly one for a result, none
  for an exception, unless a request failed on its way.
* `LosersHaveAWinner`: of two sessions that are after one coin, a loser without a
  fault has lost it to another call, never to itself. The exception is a call that is
  refused at its funding although the coins it was given are there: the wallet has too
  little, whoever has spent the rest.
* `ClosedUntilDue` and `OpensForOwner` are the two sides of one promise, about the bytes
  of the script as a node reads them, `CollateralReturns` its liveness: an encoding
  that is wrong in one bit of one size of numbers breaks one of the three.
* `PushesArrive`, `LeafIsOfScript` read scripts back after any two pushes.
* `TweakCommits`: another owner or timelock gives another tweak, so the script is all
  that can be revealed for an output.

### Bounds

`MaxBatches`, `MaxCalls` and `MaxMoves` bound calls and moves of the node; `Funds`,
`Wallet` and `Coins` the money. Two batches are enough for a batch to follow an
interrupted one, and for two engines to run one each at the same time. Two calls of
the vault client suffice since a call keeps nothing in the client: the first one
fills the vault that the second one asks for. Two moves are enough for the price to
change both between the readings and before the execution. Two asset calls in two
sessions are all there is to a race for a coin; with two coins a transaction can
empty the wallet. The amounts of assets lie at the edges of one digit, of the ten
that the reader takes, of a payload of 75 bytes and of 80. Timelocks and numbers lie
at the edges of the opcodes 1 to 16, of each sign bit, of heights and times, and of
the four bytes of a lock time; the lengths at the edges of the three forms of a push
and, once the push itself is counted, of the compact size of the leaf. The clock
(`Moments`) stops just before and just after these timelocks. TLC's integers are of 32 bits, so amounts are below 2^31 and
money is counted in a few units to the cent.

`CHECK_DEADLOCK FALSE` stands where the bound on calls ends the behaviour: a script
that has made its calls.

### Fairness

`GivingEngine`: weak fairness of `SaveState(e) \/ Distribute(e)`, a process that has
begun a call runs on; the engine has one thread and every request ends by its timeout.
It may crash instead, and nothing makes it start or call anything.
`VaultClient`: weak fairness of `Answer`; `AssetPipeline`: of `Answered(s)`. No fault has
to happen, so a call that would end by a fault only does not count as ending.
`ScriptSpending`: weak fairness of the node's `Evaluate`, strong fairness of `Tick` and of
`OwnerSpends`, since the transactions of others keep the node busy again and again,
and weak fairness would let them keep the chain and the owner waiting for ever.

### Where the code and its documentation disagree

Six runs report a violation: the property says what the documentation says.

| run | what happens |
|---|---|
| `engine_lost` | a payment in the middle of a batch fails: the ones made before are in no file when the process ends (pge.py:690, 711) |
| `engine_crash` | a process dies while it saves: the file is empty and `load_state` fails (pge.py:477) |
| `vault_liquidated` | `health_check` says healthy of a liquidated position whose price has recovered (pge.py:616), with a snapshot of which `is_healthy` (pge.py:284) is false |
| `asset_transfer` | a transfer is reported though its transaction spends no coin of the asset, or its output 1 is the change (assets.py:285, 313) |
| `asset_inspect` | `verify_asset_tx` says of a transaction with a payload of 76 to 80 bytes that it is none of DigiAssets (assets.py:359) |
| `script_default` | an output with the default timelock, documented as about 30 days, opens at once: the default is a number of blocks where a height is expected (scripts.py:379) |

Others have no run of their own; the properties are stated around them:

* Allocations may add up to 100.01 % (pge.py:565), and a batch then gives away as
  much more than its amount. `BatchGivesAll` bounds it.
* The node's stale flag is taken instead of the age (oracle.py:235): a price older than
  the threshold is trusted when the flag says it is fresh, where oracle.py:83 and 251-256
  speak of a price older than the threshold. `TrustIsEarned` speaks of the age when the
  node says nothing.
* `mint` "enforces minimum safe ratio" (cdp.py:444) by comparing its argument `ratio` only: an
  explicit amount is compared with nothing, nor is one whose price falls between the
  two readings (cdp.py:474). `AutoMintsKeepRatio` is about amounts that `mint` computes, at
  the price they were sized with.
* `vault_status` documents `CDPError` for a failing node (pge.py:580) and lets `RPCError`
  and `NodeConnectionError` through, which are none (pge.py:583), so `health_check` and
  `report` end with them. `TroublesAreContained` says that only this request does so.
* metadata.py:14 gives an amount one to nine bytes; as many are written as it needs.
* `decode_leb128` calls ten bytes its 64-bit limit, which are 70 bits (utils.py:71), and
  `encode_leb128` has no limit: amounts from 2^70 on can be issued and not be read.
* The asset id is derived from the transaction's own id (assets.py:237), where
  utils.py:151 speaks of the outpoint of its first input: a transfer is reported with the
  id of an asset that does not exist, and no id is known before the broadcast. Asset
  ids are left out of the models.
* `recent_distributions` returns the whole log for a limit of 0 (pge.py:804).
* The `scriptpubkey` of every collateral output is the same untweaked placeholder
  (scripts.py:419), where scripts.py:289 calls it final. `TweakCommits` is about the tweak, and the node of
  the model evaluates the script: collateral sent to the placeholder itself is in no run.

## What is proved

TLAPS proves the following for any number of processes, sessions, names, coins, calls
and pushes, any amounts, prices, ratios, timelocks and keys, any set of faults and any
bounds. The theorems rest on the named assumptions about the constants in
`GivingEngine`, `VaultClient`, `AssetPipeline` and `ScriptSpending`, all of which TLC
evaluates in the instances. Most are types and ranges. Those that say more:
`EnginesAssumption` and `SeedsAssumption` (there is an engine, and the first registries
name no cause twice), `HashAssumption` (no two valid keys have the same `Hash160`), and
`NumbersAssumption` (no number has 65535 bytes).

| module | theorem | statement |
|---|---|---|
| `GivingProofs` | `TypeCorrect` | `Spec => []TypeOK` |
| | `Inductive` | `Spec => []IndInv` |
| | `CausesAlwaysUnique` | `Spec => []UniqueCauses` |
| | `RecordsAlwaysPaid` | `Spec => []RecordsArePaid` |
| | `AlwaysPaidOnce` | `Spec => []PaidOncePerBatch` |
| | `LogAlwaysKeepsUp` | `Spec => []LogKeepsUp` |
| | `FileInductive` | `OneProcess /\ Spec => []FileInv` |
| | `ReturnedIsAlwaysPersisted` | `OneProcess /\ Spec => []ReturnedIsPersisted` |
| | `SavedIsNeverLost` | `OneProcess /\ LoadOnStart /\ Spec => []SavedIsNeverForgotten` |
| `GivingBookProofs` | `TotalIsAlwaysSumOfLog` | `Spec => []TotalIsSumOfLog` |
| | `BooksInductive`, `BooksAlwaysAgree` | `Spec => []BookInv`, `Spec => []BooksAgree` |
| | `SharesInductive` | `Spec => []ShareInv` |
| | `BatchesGiveAll` | `Spec => []BatchGivesAll` |
| | `SharesAreAlwaysFair` | `Spec => []SharesAreFair` |
| | `ProjectionsAreKept` | `Spec => []ProjectionIsKept` |
| `GivingRefinement` | `EnginesKeepLedger` | `Spec => KeepsLedger`, the refinement of `GivingLedger` |
| `VaultProofs` | `VaultInductive`, `VaultTypeCorrect` | `Spec => []VaultInv`, `Spec => []TypeOK` |
| | `AutoMintsAlwaysKeepRatio` | `Spec => []AutoMintsKeepRatio` |
| | `MintResultsAreTrue` | `Spec => []MintResultIsTrue` |
| | `ExceptionsTellTheTruth` | `Spec => []OnlyLostAnswersLeaveDoubt` |
| | `HealthyIsAlwaysSafe` | `Spec => []HealthyIsSafe` |
| | `TrustIsAlwaysEarned` | `Spec => []TrustIsEarned` |
| | `TroublesAreAlwaysContained` | `Spec => []TroublesAreContained` |
| `PayloadProofs` | `Leb128ReadsBack` | an amount written anywhere in a payload is read back, with its length, if it has ten digits at most, and is unreadable otherwise |
| | `IssuanceReadsBack`, `TransferReadsBack` | so is what an issuance, or a transfer, is made of |
| `AssetProofs` | `AssetInductive`, `AssetTypeCorrect` | `Spec => []AssetInv`, `Spec => []TypeOK` |
| | `CallsTellTheTruth` | `Spec => []CallTellsTruth` |
| | `PayloadsAreFound` | `Spec => []InspectionFindsPayload` |
| | `ChainAlwaysSaysWhatWasAsked` | `Spec => []ChainSaysWhatWasAsked` |
| | `LosersAlwaysHaveAWinner` | `Spec => LosersHaveAWinner`, an action property |
| `ScriptProofs` | `NumberRoundTrip` | the node reads every script number as the number it was encoded from; the encoding is the shortest one |
| | `ScriptInvariant`, `ScriptTypeCorrect` | `Spec => []ScriptInv`, `Spec => []TypeOK` |
| | `ClosedUntilDueAlways`, `OpensForOwnerAlways` | `Spec => []ClosedUntilDue`, `Spec => []OpensForOwner` |
| | `TweakAlwaysCommits` | `Spec => []TweakCommits` |
| | `PushesAlwaysArrive` | `Spec => []PushesArrive` |
| | `LeafIsAlwaysOfScript` | `Spec => []LeafIsOfScript` |

Every one of these invariants is a consequence of an inductive one, which stands in the
`Safety` module of its component. The step lemma of a module has a case for each
disjunct of `Next`.

### Payments and records: IndInv

`RecordsArePaid` alone is nearly inductive: logs are copied, lost or
extended by the payment just made, whose number is above all others. `PaidOncePerBatch`
is not: that a second payment of a cause is not made depends on the loop, on batch
ids being the process's own and on names being unique in a registry. `BatchesAreOwned`
says so: every payment carries a batch id already drawn, no two engines work on
the same batch, and while the loop runs, what the batch has paid are causes that
the loop has gone past. With `UniqueCauses`, the cause reached now is none of them.
`LogKeepsUp` needs the same: an engine whose batch has a payment it does not know of
has left the loop, and no one else can add to that batch.
Steps come in three kinds, each with a lemma: those that move no money and only copy
or keep logs and registries, those that change a registry, and the payments (with
and without an answer).

### The ledger

The refinement needs types only. `DownForgets`, `PaymentPays` and `DryUnseen` map the
end of a process, a payment and a simulated one; a load is `Reload`, a completed save
`Store`, a truncated or garbled file `Lose`; all other steps change no log
(`SameLogsUnseen`).

### The state file: FileInv

With one process, the file can only be what this process has made of it. `FileInv` says
what file and memory have to do with each other at each `pc`: a process that has
returned has its state in the file, one that dumps has truncated it, an absent file has
never been saved, and a process that has loaded knows every record that was ever saved.
The last part is what makes `SavedIsNeverForgotten` survive the next save. It is needed of the script
that it loads first (`LoadOnStart`), or a new process would save an empty log over the old
one. That `OneProcess` is a hypothesis of the theorems is no weakness of the proof: with
two processes both properties are false.

### Totals, reports and shares: BookInv, ShareInv

A sum over a finite set is a fold over a recursive function that picks elements by
`CHOOSE`. `SumProofs` shows that such a function exists, that it is unique, and from
there that a sum does not depend on the order of its elements (`SumUnfolds` and the
lemmas behind it). The induction theorems of the library cannot be used, since they are
about an operator; `NumberInduction` and `SubsetInduction` state the same about a set of
numbers and a set of subsets, by the least counterexample of a well-founded order.

`TotalIsSumOfLog` is inductive by itself, given that. `BooksAgree` needs `BookInv`: a
log has its batches in order and no batch lists a cause twice, which a record keeps
because the loop has not been at its cause yet. The reports are then sums over
several partitions of one set. `DistributionBatches` names the records of a batch by their
places in the log, which are in order, since a selection from a sequence (`SelectSeq`)
is beyond the provers.

`ShareInv` is the loop invariant of `distribute`: the causes gone past have their gifts
(`GiftsOf`), the others nothing, and `left` is the amount less these gifts. At the end
of the loop the three properties are arithmetic about `GiftsOf`: the sum of the shares
rounded down is at most the sum of the percentages and falls short of it by less than a
cent for each active cause; the last cause absorbs the difference, unless the
allocations exceed 100 % and leave it a negative one. That tolerance times the amount is
the slack in `SharesAreFair` and the bound of `BatchGivesAll`.

### Vault: VaultInv

A promise about a result is about what was read several requests before. `VaultInv`
carries it from one request to the next, whatever the node does between them: a call
under way is at a request of its own operation and has no outcome (`AtWork`); what was
checked of the arguments still holds (`ArgumentsChecked`); the amount keeps the ratio
at the price it was sized with (`SizedKeepsRatio`), which is where the direction of the
rounding matters; the vault has no debt without collateral (`DebtIsCovered`), so no
ratio is a division by zero; the histories have one act of the node for a call
(`OneActEach`), by which an exception proves that nothing was done; and a check that has
found no trouble yet is of a vault that was safe at the price it was seen at
(`Observed`). Collateral and debt do not change during a check, so the vault is still safe
at that price when the verdict falls, and, since a ratio grows with the price, at every
higher one.

### Payloads and assets: AssetInv

An amount in LEB128 is its digits, all but the last with the top bit set. The reader
stops at the first byte without it, which is the last one written, wherever the amount
lies in a payload and whatever follows it. `IssuanceReadsBack` and `TransferReadsBack`
put the fields of a payload one behind the other, and take the byte of flags apart.

`CallTellsTruth` needs that the number of a call is its own: `AssetInv` says that no two
sessions have the same one, that a call that is still busy has no transaction on the
chain, and that every transaction on the chain was built whole and for one call.
`InspectionFindsPayload` and `ChainSaysWhatWasAsked` need that funding, which inserts
the change output anywhere, leaves exactly one data output, with the payload of the
arguments (`WellBuilt`); the theorems about payloads do the rest. `LosersHaveAWinner`
follows for every step from the same invariant: a coin that is gone was spent by a transaction,
and none on the chain is of the call that fails.

### Scripts: ScriptInv

`BytesOf` is a recursive function, so the first step is to show that it satisfies its
own equation (`BytesUnfold`). `NumberRoundTrip` treats the sign byte once and for all;
`ReadNumber` and the lemmas about pushes say what the node finds at a place where a push
lies, and how long the push is.

`ScriptInv` follows the node. A script of pushes is its pieces one behind the other
(`LaidOut`), and the node is at the border of two of them with their items on the stack
(`PushesGoOn`), never inside of one, which is what a wrong length would do. The script
of an output has nine stages (`Stages`), each with the place of its opcode and the stack at
it; from the third on the lock time has been compared (`Due`), from the eighth on the
hashes are equal. `StageStep` shows that the node goes from each stage to the next or
declines for one of the reasons in `OpensForOwner`. Acceptance at stage nine then
gives `ClosedUntilDue`: the hash is of the owner's key, and a lock time that is not below
the timelock, of the same kind, and of a transaction that is final, has been passed by
the clock. `TweakCommits` reads the script in the other direction: two equal scripts
have equal pushes of the timelock, hence equal timelocks, and equal hashes of keys.

The attempt to prove `OpensForOwner` failed at a timelock whose script number has six
bytes: OP_CHECKLOCKTIMEVERIFY takes five at most and rejects, and the model had transactions
whose lock time was high enough all the same. nLockTime has four bytes, and `Spend` says so
now.

### What TLC has to do with it

The inductive invariants were checked before they were proved. `IndInv`, `VaultInv`,
`AssetInv` and `ScriptInv` are invariants of the runs in the table above. `FileInv`,
`BookInv` and `ShareInv` are in no configuration: they hold on the instances of
`engine_faults` and `engine_shares`, of which the engine's properties are what a reader asks for.

## What is only model-checked

* Liveness: `CallsReturn`, `BatchReachesDisk`, both `CallsEnd`, `CollateralReturns`. The
  provers have neither fairness nor `ENABLED`.
* The six disagreements with the documentation: a violation is one behaviour, which TLC
  shows.
* The mutants.

Everything else that a passing run checks has its theorem. No module declares a
RECURSIVE operator: `BytesOf` of `Scripts` and `Digits` of `MCAssets` are recursive
functions.

## Abstractions

* A cause stands for its address; names, dates, descriptions and messages are left out.
* `json.dump` reaches the disk in one step after the truncation; two processes that
  write at the same time leave one text or a garbled one.
* A payment whose answer has an empty txid is not told from one with a txid.
* `AuthenticationError` takes the path of `NodeConnectionError`; an answer that is cut off
  or is no JSON is `JSONDecodeError`, which stands for every exception that escapes `call`
  while it reads an answer (an `IncompleteRead` of http, too).
* A position that is liquidated keeps its numbers until the next mint opens a new one, and
  cannot be redeemed.
* Whether the wallet's coins suffice for a transaction is left open: a refusal for
  funds may come at any funding.
* Amounts, prices and ratios are integers, `Cent` of them to a cent: the rounding of the
  code (`Decimal`, down to cents; ratios in tenths) is the integer division.
* The node is external: mint and redeem, the status word of a position, coin
  selection, the place of the change output. It does what the code in `src/` relies
  on, and no more.
* The hash of a metadata document is a value of its length, and whether the document
  validates is an input.
* `Hash160` keeps the first twenty bytes of a key, and keys in the instances differ in
  these; a tagged hash is the term it is computed from. The x coordinate of the NUMS
  point is opaque.
* A leaf is evaluated like the pay-to-public-key-hash pattern that the builder names;
  what Tapscript adds to it (the forms of keys and signatures, the control block, the
  point addition) is in no code of the repository and in no model. In particular the
  leaf has version 0xC0 (scripts.py:239), and Tapscript's rules for keys of other forms
  than 32 bytes are not those of `CheckSig`. The limit of 520 bytes to an element of the
  stack is not enforced by the model's node, either.

## Not modelled

Base58, asset ids, the hash functions and the conversions of hexadecimal of `utils.py`,
and the JSON of `metadata.py`: pure functions of bytes, without a control flow to check. The
table of fixed prices in `engine_projection`, the text of `report`, and the queries
that pass one request through (`node_info`, `wallet_balance`, `new_address`). HTTP, the
configuration and the wrappers of single commands in `rpc.py`. The examples: they are
the environment of `GivingEngine` (one process that loads its state when it starts).

## Plan

Done: `GivingEngine` with its properties, reports and ledger; `VaultClient` with every
query and the stale threshold; `Payloads` and `AssetPipeline` with `verify_asset_tx`;
`Scripts` and `ScriptSpending`; the theorems above, for each safety and action property
of the runs.

Next:

1. Shorter proofs where they are longest, in `ScriptProofs` and `GivingBookProofs`.
2. `TransferReadsBack` for any number of instructions: `TransferPayload` takes a list of
   them, the library's own transfers have one.
3. The size of a timelock, less than `MaxPush` bytes, is an assumption: the code has no
   bound at all, and a push of a longer one is an exception that no model has.
