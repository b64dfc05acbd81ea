# Banknote-Chain: a TLA+ development

Banknote-Chain is an experimental blockchain node in Go. A block moves
*banknotes* (records with a fixed value and an owner) and ordinary account
balances. The transactions of a block are sharded over *peripheral ledgers*,
each of which processes its share with many goroutines; a *core ledger* handles
plain transfers. One leader makes the blocks, peers receive them by gossip and
execute them again. All paths below are under `src/`.

The program is small but densely concurrent: most of its state is shared by
goroutines that meet only at bounded channels, wait groups and a few mutexes,
and some of it is shared without any of these. That is what the models are
about. The tests in the repository run one component at a time on one schedule.

## 1. Inventory

| Component (code) | State | Operations | Hard behaviour | What makes it correct |
|---|---|---|---|---|
| **Peripheral ledgers** (`chain/banknote_processor.go` 190-460, `banknoteChain/`) | pool of active banknotes, banknote objects (owner), `cc.WorkNumberPerPLedger`; per ledger four transaction channels, recycle and account channels, wait group, state trie | dispatch; BG / BS / BT / BR workers; drain of recycled banknotes; fold and commit of account changes | four phases of workers behind one wait group; unsynchronised worker count; channels fuller than expected; unlocked owner writes; look-up then act | phases are barriers; the outcome of a block does not depend on the schedule; nobody panics or waits forever |
| **Block processing, core ledger** (`chain/banknote_processor.go` 20-190, `core/account.go`) | per-ledger lists of the block, core trie, running XOR of hashes, `waitGroupAllLedgers` | classify; apply NT transactions; sort; hash; make the block; execute it on a peer | the list is hashed while it is sorted in place; refused payments; BR transactions are not put into the block | a block holds finished work; what its hash covers; leader and peer agree |
| **Start-up and gossip network** (`cmd/main.go`, `network/p2p.go`) | key file per server, key and place of each node | read or create the key file, publish, subscribe, connect, retry, wait for peers, stop | nodes race for a key file; retries that never help; errors that are logged and then dereferenced | start-up ends; who may die, and of what |
| **Block production and distribution** (`chain/block_generator.go`, `chain/blockchain.go`, `cmd/main.go`) | batch channel (2), `ToBeAddedBlocks` (100), `CurrentBlock`, block counter, published roots | read, generate, add, encode and publish, join, deliver, apply | generator and adder race on the current block and on the slice of roots; gossip loses and reorders; peers join late or die; exit after the last block | chain in order, staleness bounded, every block gets through |
| **Block storage and restart** (`storage/storage.go`, `NewBlockChain`, `AddGenisisBlock`) | header, body and newest-key records; the banknote state in memory | start, genesis, store, crash | body written by a goroutine nobody waits for; restart on an existing database | what is in the database is explained; a leader's chain has no gaps |
| **Transaction pool** (`txPool/txpool.go`) | queue, mutex, condition variable | add at tail or head, pack, hold the lock | a batch is interrupted by waits; lost wakeups | nothing lost, doubled or misplaced; everybody wakes |
| **Data set readers** (`txGenerator/`, `block_generator.go` 23-68) | two channels, the place in the banknote file, the batch being filled | parse, convert, close, `GetTx`, read a group, draw a banknote, fill a batch | end of data; a transaction taken only for a nil test; a file cut off in the middle, or not there; groups that do not begin with an origin row; a nil transaction | which rows reach a block, in which order; the generator never starves |
| **Circulation simulator** (`tx_simulator.py`) | a list of banknotes per account, rows in a buffer and in the file | transfer, split, issue, recycle, finalise a block, flush | lists changed while a loop iterates over them; recycled rows behind the last separator; interrupts | the rows say what the wallets hold; each transfer moves its value |
| **Result writer** (`resultWriter/`) | row channel, buffer, file, completion token | send, close, write, flush, complete | one token with two receivers; one of two flushes takes no lock; a failed write ends the writing | what the token means; when rows reach the disk |
| **Key-value store** (`database/db.go`) | `closed`, `quitLock`, pebble | operations under the read lock, close | close sends under the write lock; a waiting writer keeps readers out | calls return; nothing touches a closed store |
| Encoding (`core/block.go`, `core/transaction.go`), signature simulator (`utils/sig.go`), experiments (`Makefile`, ...) | - | pure functions, timing, figures | - | not modelled |

How they interact. The *simulator* writes, long before, the file that the *data set
reader* reads in banknote mode. On each node the *start-up* opens the storage and
connects the *network*; the leader's goroutines begin when enough peers are there. The
*data set reader* fills batches and sends them on
`TobeProcessedTxsChan`. The *generator* receives a batch, makes a header, calls
*block processing*, which starts the *core ledger*, one *peripheral ledger* per
shard, the sorting and the hashing and waits for all of them, and sends the block
on `ToBeAddedBlocks`. The *adder* tests it, passes it to *block storage*, makes it
the current block, encodes it and hands it to *gossip*. A *peer* receives it on
its own `ToBeAddedBlocks` and its adder calls block processing again. The
ledgers, the adder and the node send measurements to *result writers*.
`PROJECT.json` lists the hazards of each part at the line where they bite.

## 2. The modules

```
AccountLedger ──┬── PeripheralLedger ── PeripheralOutcome ── MCPeripheralLedger
 (operators)    ├── LedgerPromise   implemented by PeripheralLedger (PeripheralOutcome!PromiseKept)
                └── BlockProcessing ── MCBlockProcessing      instantiates LedgerPromise
Lists ──┬── BlockProcessing
        └── TxSimulator ── DatasetFeed
NodeStartup ── BlockPipeline ── MCBlockPipeline           implements ChainPromise (BlockPipelineProofs)
BlockStore     TxPool ── MCTxPool     ResultWriter     KeyValueStore

proofs:  ListsAndSums ──┬── PeripheralProofs        extends PeripheralOutcome
                        ├── BlockProcessingProofs   extends BlockProcessing
                        └── DatasetFeedProofs       extends DatasetFeed
         BlockPipelineProofs   BlockStoreProofs   TxPoolProofs
         ServiceProofs         extends ResultWriter and KeyValueStore
```

**AccountLedger**: accounts and the operators of the state tries: `Deduct`,
`Deposit`, the fold of the account modifications of a block (`Charge`, `Credit`,
`Settle`, `ApplyModifySet`) and one transfer of the core ledger
(`ApplyNormalTx`). A trie is a function from accounts to states. Its root hash
is not modelled separately: every write raises a nonce, so equal functions are
equal roots.

**Lists**: `Keep`, the list that a loop builds by appending some elements of another
one. It is written as a recursive function, which the provers can unfold.

**PeripheralLedger**: `ProcessPeripheralLedgerTx` and
`ProcessPeripheralLedgerTxStateTrie`. One action is one access to something
shared: the read and the write of `cc.WorkNumberPerPLedger *= 2` are two actions
(`LoadWorkNumber`, `DoubleWorkNumber`), the condition of each spawning loop is
evaluated anew at each iteration (`SpawnWorker`, `EndSpawning`), the owner of a
banknote is written in two halves (`WriteOwner`). A worker with a transaction is
a *stage* (`at`); idle workers are interchangeable and only counted (`live`). The
dispatcher is a number, `sent`: what it sent and what it closed follow from it. A
transaction channel is received in the order it was sent in. The recycle and
account channels carry removals and additions, which commute, so they are sets.
`panicked` stands for the end of the process by a negative wait group or a send
on a closed channel.

**PeripheralOutcome**: what a block leaves behind, computed from its transactions
alone, and the refinement `PromiseKept`: with all its goroutines a ledger does
what a single step of **LedgerPromise** does. `LedgerPromise` is the abstract
ledger; `BlockProcessing` uses it for the ledgers, so the composition stays small.

**BlockProcessing**: `ProcessBanknoteTxs` and, with `PeerAdds`, its second
execution on a peer. A transaction hash is a number (its remainder is the
ledger, its order the order of the list), an XOR is the set of hashes that went
in an odd number of times. `sort.Sort` is the insertion sort it is for at most 12
elements, a swap is two stores in either order, and the hash goroutine reads the
slice between any two of them. A peripheral ledger is one step. With `P = 1` it is
`LedgerPromise`, which `PeripheralLedger` implements outright. With several ledgers it
need not be: one that started more workers than it counted may commit its trie before
they have sent their records. `LedgerNext` and `PeerAdds` therefore leave out any set of
the block's BG and BR records then (`Missed`), and `astray` keeps which ledger did so in
which block. A ledger that hangs or panics takes no step.

**NodeStartup**: `startLeader` and `startPeer` up to the moment when the goroutines run,
with the four accesses to the key file (`Stat`, `Create`, `Fill`, `ReadKey`). A key is
known by the node that generated it; `Empty`, a file that is created and not yet filled,
is the key of none. Writing the file may fail, and leaves it as it is, empty or cut
short (`WriteFails`): the leader then follows a nil publisher, a peer goes on without a
key. A `setting`, chosen once, says whether the key
file was copied to every server (as the README of the repository says it should be),
shared by nodes on one server, or missing on several; how many peers the leader waits
for; whether its address is taken; whether the file can be written; whether peers may be
stopped.

**BlockPipeline** extends it: reader, generator, adder, gossip and peers. Roots are "the
last block that wrote this ledger's root", which is all that the properties about
shared roots need. The setting also says how many blocks there are, whether messages
may be lost, whether the leader exits after the last block (`core_limit` set), and
whether blocks are `Unsound`: such that processing one may hang (a share larger than
`PLedgerInnerChanSize`, workers counted and not started, a result writer that takes no
rows) or panic (a nil transaction, another miscount). In such a setting `ProcessLedger`
and `Apply` are not fair, and `Panic` and `PeerPanics` may come instead. A
peer that joins after a block was published may or may not get it from the message
cache of gossip (`Join`).

**ChainPromise** is what the pipeline looks like from outside, with four variables: the
leader's chain and the blocks published grow in turn, one block at a time; a published
message stays as it is; a peer's chain takes published blocks in any order, each at most
once, and gives none back. It is where the order of the leader and the disorder of the
peers are said in one place. `BlockPipelineProofs` proves the refinement.

**BlockStore**: every write of `StoreBlock` and `StoreBlockSync` is an action; a
crash of the process (not of the machine: nothing is synced) can come between any two.
A leader stores its blocks in turn. A peer stores what arrives (`Comes`), because
`AddBlock` only prints that a number is wrong. `pending` are the bodies left to goroutines,
`lost` those whose process died; neither is program state one could read, they
explain what is missing. `hasState` says that `bc.BanknoteState` is not nil.

**TxPool**: all operations that change the pool. The program constructs the pool
and does not call them at this commit, so the callers are chosen: producers with
scripts, packers, and holders of `GetLocked`; nobody is both a producer and a holder, and
no two calls add the same transaction (`DistinctTransactions`: otherwise one could not
tell which of two equal ones was lost). `BatchOrder` is `TailOrder` (what leaves the pool)
and `HeadOrder` (what stands in it). `PackTxsWithBytes` is the action
`Pack` as well, because it adds the size of the struct, a constant.

**TxSimulator**: each operation of `tx_simulator.py` on the wallets. A loop `for bn in
list` over a list that its body shortens is a position that moves on all the same
(`LiveStep`, `Removed`). Rows are records; a hash is the number of its draw. Shards and
turnover counts, which no reader looks at, and the file of statistics are left out.

**DatasetFeed** extends it with the reader goroutine of the leader in its three modes:
both conversion goroutines and `GetTx` in `origin` mode; `ReadBatch` and
`ReadBanknoteDatasetItem` on the file that the simulator left in `banknote` mode; the
random reader in `scalability` mode. Two errors of the code end the leader (`died`): a
file that the simulator never began, whose failed opening is dropped (`ReadNothing`),
and a nil transaction in a batch (`TakeBatch`).

**ResultWriter**: the two goroutines, the channel and the token, with a node (never
closes) or the package's test (closes and waits) as client, and a file that is good, may
refuse a write, or could not be created. Of the two flushes at a tick the first holds the
lock of `safeWriter`; the second, `csvWriter.Flush()`, has a beginning and an end, between
which the writer may write into the same buffer (`OverlappedWrite`). What then happens to
the row is every outcome that the unsynchronised length of `bufio.Writer` allows: it stays,
it is lost, or the flush takes it for a short write and the error sticks. After an error
`MarshalChan` returns and the token follows, with rows still in the channel
(`WriteFails`). **KeyValueStore**: the
lock of the pebble wrapper, with its rule that a waiting writer keeps new readers out,
and the places where callers of the wrapper can be. Its names say `Lock`, so that
`ServiceProofs` can extend both.

Most modules contain a few operators marked `variant`. They are not part of the
specification: each is a plausible wrong version of the definition that follows
it (a guard dropped, an off-by-one, a wakeup forgotten). Replacing the
definition by its variant must make the named property fail; `PROJECT.json`
pairs every property with such a change. This shows that no property holds for
want of anything that could break it.

## 3. The runs

`tlc -config <run>.cfg <module>`; each takes from a second to about a minute
with two workers.

### Runs that pass

| Run | Instance | Shows |
|---|---|---|
| `one_ledger` (`MCPeripheralLedger`) | one ledger, two workers per phase, nine blocks of 3-5 transactions over five banknotes and three accounts | see below |
| `two_ledgers` (`MCPeripheralLedger`) | two ledgers, `BaseWorkers = 0` so that all steps on the shared count happen, two blocks | `PhaseComplete`: a ledger whose count held still is safe whatever the other one does. `PanicOnlyWhenMiscounted`: every panic has a miscount behind it |
| `blocks` (`MCBlockProcessing`) | two ledgers, two batches, lists in and out of order, ledgers that may miss records, a peer that gets the blocks in any order | `BlockComplete`, `HashOfBlock`, `CoreOnlyGrows`, `PeerAgrees`; no deadlock before the last block is with the peer |
| `pipeline` (`MCBlockPipeline`) | one peer, twelve settings: a leader that waits for it (3 blocks), that does not (3), alone (4), on a network with losses and exiting (3), a peer that is stopped (2); with one block, key files shared or apart, an address that is taken, a peer too few, a key file that cannot be written; two blocks that may be unsound | see below |
| `block_store` (`BlockStore`) | a leader and a peer, blocks 0-3, three crashes, with and without `drop_database` | `NothingMissingUnexplained`, `RestartedChainFrozen` |
| `tx_pool` (`MCTxPool`) | two producers with batches longer than the capacity 2, a packer of up to 2, a lock holder | `SleepersMeanFull`, `NothingLostOrDoubled`, `BatchOrder`, `EventuallyPacked` |
| `dataset` (`DatasetFeed`) | 0, 2, 3 and 9 rows of USDT; two accounts, up to three transfers of 0, 2, 3 or 5, blocks of one transfer, recycling every other block, interrupts; two items per batch, two batches | see below |
| `result_writer` (`ResultWriter`) | five rows, a channel of two, a node and the test, a file that is good, may refuse or is missing | see below |
| `key_value_store` (`KeyValueStore`) | four goroutines | `CallsReturn`: an operation that has the lock returns, one that wants it waits for nothing but a `Close`, and a `Close` does not starve. `NothingReturnsAfterClose`: after it, nothing does |

In `one_ledger`:

* `PhaseOrder`: with nobody else to change the worker count, no phase is left
  before its transactions are applied.
* `PoolOutcome`, `SpentInitialBanknote`: which banknotes are active after the
  block, although a split may run before the split that makes its source (the
  recycle channel mends this) and a transfer may take a spent banknote for an
  initial one. The second property records an asymmetry of the code: an initial
  banknote transferred and split in one block is gone afterwards if the node had
  not seen it before, and active again if it had.
* `OwnerOutcome`: with several transfers of one banknote both halves of the owner
  come from their payees, but possibly from two of them.
* `AccountsOutcome`, `PromiseKept`: the trie counts every BG and BR once, charges
  the block's net amount at once and refuses it whole if it would leave nothing.
* `OnlyFittingLeavesBG`, `Terminates`: the dispatcher sends all kinds before it
  closes the first channel, and nobody receives BS, BT or BR during BG. A ledger
  leaves BG only if its BS, BT and BR transactions fit their channels, and then it
  finishes. Two of the nine blocks do not fit, and stop.

In `pipeline`:

* `LeaderChainInOrder`, `ParentLag`: the blocks between generator and adder are the
  successive ones; the parent a header names lags by what the channel and the adder
  hold. (`AddBlock` prints "err parent block hash" for such blocks, and adds them.)
* `PublishedRoots`: the roots a block is published with may be newer than those in its
  hash, by a bounded number of blocks.
* `PeersFollow`: whatever is lost, late or out of order, a peer adds a block at most
  once and only when the leader has.
* `ChainReachesPeers`: the leader adds every block, and a peer it waited for adds them
  all if nothing is lost. A peer that joined late is not promised anything, and nothing
  is promised when blocks are `Unsound`.
* `StartUpEnds`: the leader runs or dies, except when peers are too few or stopped, or a
  peer's key file differs for good. Two nodes that start at once on one server can end
  that way: each generates a key, one file wins, the leader may hold the other key.
* `LeaderDiesOnlyOf`: a leader that has not yet produced dies only of a failed publisher:
  no host or no topic, or no key. It has no key only if the file could not be written, or
  if a peer on its server had created and not yet filled it.

In `blocks`, `PeerAgrees` speaks of a peer that has got the blocks in their order, and of
a ledger that executed no BR and missed no record on either side. Missing one takes
several ledgers (`P > 1`) and the race that `phase_order` shows; with one ledger there is
no such condition.

In `block_store`, `NothingMissingUnexplained`: the newest block and the genesis block have
their headers, those of a leader have no gaps, and every block with a header has its body,
or the goroutine that writes it is pending or died. `RestartedChainFrozen`: a node
restarted on its database adds nothing to it.

In `result_writer`:

* `TokenMeansWritten`: who has the token, the test or the flusher, knows that every row
  was taken from the channel, or that the buffer has failed. It fails only of a bad file
  or of a row written beside the flush without lock. Until then only such rows are lost.
* `ReachesDisk`: all other rows reach the disk while the process runs, at a tick or with
  the token, unless the buffer fails.
* `OneTakesToken`: the flusher or the test gets the token, never both, never neither.

In `dataset`:

* `EverySecondRow`, `RowsArrive`: in origin mode every second row reaches a block. In
  banknote mode every whole row in the file does, once and in order, wherever the
  simulator was interrupted, except the first recycled banknote of a block.
* `AllReceived`: in each mode the generator gets its batches, empty ones at the end, and
  the leader lives, except for two kinds of data set, of which it always dies: a missing
  file in banknote mode, and in origin mode an odd number of rows read to the end.
* `WalletsAreReplay`: who replays the rows has the banknotes of the wallets with their
  values. The owner differs only for the payee's share of a split until it moves,
  because the row of a split names the payer twice.
* `GroupPaysExactly`: the rows of a transfer move its value, also from an account to
  itself and whatever the loops pass over.
* `NewNoteDespiteNotes`, `RecycleMissesNeighbours`: both loops pass over the successor of
  each banknote they take out. A transfer that issues a new banknote leaves the payer
  half of its own; recycling leaves at most as many old ones as it takes.

### Runs that end in a counterexample

Each checks one statement made by a comment, an error test, a log line or a test
of the repository, which the code does not keep.

| Run | Statement | What happens |
|---|---|---|
| `phase_order` | "BG transactions processed", logged after `wg.Wait` (`banknote_processor.go:276`) | two ledgers share `cc.WorkNumberPerPLedger`. One doubles it (line 255) between the other's `wg.Add` (257) and its spawning loop (258), so the other starts more workers than it counted, and `wg.Wait` returns when some of them are through. (Counting more than are started makes `wg.Wait` hang.) |
| `restart` | the newest hash is stored so that block production can go on after a restart (`storage.go:47`) | a restarted node panics: the newest body may be missing, and otherwise the banknote state is nil |
| `first_row` | the first row of a group is the original USDT transfer and no banknote (`banknote_dataset_csv_reader.go:138`) | the rows of a recycling follow the last separator, so the next group begins with a BR row; it is dropped, and the banknote stays active on the node |

Observed without a run of their own: the generator reads the current block while the
adder is behind, so the leader's own blocks name older parents (`ParentLag`); the test of
the result writer waits for good if the flusher takes the token (`OneTakesToken`); the
first `Close` of the key-value store never returns (`NothingReturnsAfterClose`); a transfer
from an account to itself can count one banknote twice (`GroupPaysExactly` counts the rows,
not the banknotes); a peer may add blocks in any order
(`PeersFollow` is what is left); the roots a block is published with may be newer
than those it was hashed with (`PublishedRoots` bounds by how much); the log
speaks of waiting for the other ledgers, but no barrier joins the phases of two
ledgers; a data set of odd length puts a nil transaction into a batch
(`EverySecondRow`), which ends the leader, and so does a missing one (`AllReceived`); a core-ledger payment that is refused is credited all the same
(`CoreOnlyGrows`); BR transactions are not in the block, so peers disagree on the
ledgers that executed one (`PeerAgrees`); a head batch of the pool may leave it
out of order if packing happens while the call waits (`BatchOrder`).

### Bounds

* *Peripheral ledgers.* Channels of 2 and 1 in place of `PLedgerInnerChanSize` and
  `PAccountModifyChanSize` are both overrun by the blocks. Each block was chosen
  for one interaction: a chain of splits, two transfers of one banknote, an
  initial banknote known or unknown, refusals, a full life cycle, and two that
  overflow a channel. Two workers are enough for every race inside a phase, because each
  race is between two transactions. The outcomes speak of banknotes that only one
  transaction makes (`MadeOnce`), because hashes are drawn at random.
* `OneLedgerAhead` (a CONSTRAINT of `two_ledgers` only): at each moment one of the
  two ledgers is still at the steps that write the shared count. The ledgers of
  this run share only that count, and the one behind can write it at any moment
  of the other's run, so nothing is lost for the two properties.
  `phase_order` has no constraint.
* *Pipeline.* `QueueCap = 1` in place of 100: the greatest lag, a full channel and
  a block in the adder's hand, needs `QueueCap + 3` blocks, so 4 are enough.
  `ReaderCap = 1` in place of 2: the channel of batches is only ever full or empty of
  them, and `Read` stops `ReaderCap` batches after the last one that is used. Start-up
  races need one leader and one peer; retries are not bounded.
* *Processing.* Lists of up to three transactions on a ledger have every pattern of
  the insertion sort (in place, one swap, several swaps).
* *Store.* Three blocks and three crashes: a crash at genesis, during a block and
  after a restart in one run.
* *Pool.* Five transactions for a capacity of two: every batch longer than one waits
  in the middle, and two producers sleep at once.
* *Data set.* With `ShardNumber = 3` a banknote that is passed over has one on either
  side. With values of 2 (a whole banknote), 3 (one and a split) and 5
  (more than every other one) each way through a transfer occurs, also after splits.
  A recycle length of 0 and a block per transfer let banknotes age within three
  transfers. A value of 0 (the data set may hold some) makes a group with an origin row
  only. Two batches of two groups read a file of four.
* *Key-value store.* Four goroutines: two readers, a closer and a second closer.
* *Writer.* A tick that finds nothing to flush is left out: it changes nothing. Five rows
  for a channel of two: writes before, during and after a flush, and rows that an error
  leaves in the channel.

`CHECK_DEADLOCK FALSE` is set where the system really stops: blocks that overflow a
channel (`one_ledger`), a wait that never returns after a miscount (`two_ledgers`,
`phase_order`), the last block or a start-up that fails (`pipeline`), the last crash
(`block_store`), the last batch (`dataset`, `first_row`), the exit of the process
(`result_writer`), a `Close` (`key_value_store`).

### Fairness

* `PeripheralLedger`, `DatasetFeed`: `WF_vars(Next)`. No step can be repeated without
  another one being taken, so it is enough that Go's scheduler runs some goroutine
  while one can run.
* `BlockPipeline`, `ResultWriter`, `KeyValueStore`: weak fairness of each goroutine, since
  a goroutine that can go on is scheduled eventually; the loops of the start-up go on.
  `Deliver` is fair because gossip brings what it does not lose; `Lose`, `Exit`, `Stopping`
  and the calls of the store's clients are not. Processing a block is fair only where it
  is not `Unsound`. `ChainReachesPeers` is claimed only for leaders with a copied key file
  that neither exit nor lose peers, and for sound blocks.
* `TxPool`: strong fairness for whoever wants the mutex (`Enter`, `Relock`, `Pack`),
  because `sync.Mutex` hands itself to a goroutine that has waited for a millisecond
  (starvation mode). A packer that packs keeps coming back.

## 4. Proofs

`tlapm <module>Proofs.tla` checks each of these modules; the longest takes a few
minutes. Every theorem holds for all values of the constants that satisfy the named
assumptions of the model, and nothing else is assumed. An invariant named `...Inv`
below is inductive, alone or with the ones it is named with; TLC checked it first on
the instances of section 3 (`SteadyInv` on the one with a single ledger, where it is
claimed; `ReadInv` and the `ChainInv` of `BlockProcessingProofs` with `Keep` and a fold in
place of the functions that the provers unfold them to).

What the assumptions say: capacities and intervals are positive, addresses are finitely
many and zero is none of them, the blocks and scripts are well formed, two transactions of
a batch have different hashes, nobody adds the same transaction to the pool twice, and an
empty key file holds no key.

**`ListsAndSums`** holds what three of the other modules share. The library's induction
theorems take a predicate as a parameter, which the provers cannot instantiate, so
induction is over sets of numbers (`LeastNat`, `Upwards`) and of finite sets
(`SmallestSet`). A fold is unfolded to the recursive function that it chooses, which is
shown to exist and to be the only one; from there on a sum over a set follows when an
element joins, leaves or changes. `Keep` is unfolded in the same way (`KeptExists`,
`KeepPlaces`). `Regroups` names the associativity of concatenation, so that a proof can
cite it for three particular lists; the same is done with every lemma that concludes a
quantified statement about lists (`GrowsByRows`, `ClosedPaid`, `Concatenates`): the
provers carry the name, and a step that needs what it says expands it.

**`PeripheralProofs`**, for every number of ledgers, workers and transactions, every
block, and every capacity.

* `TypeCorrect`, and `WorkersCounted`: `Spec => []IInv`. From it `PhasesComplete`:
  a ledger whose worker count held still does not leave a phase while one of the
  phase's transactions is unprocessed. `PhaseComplete` is not inductive: that a phase
  is done says nothing about why `wg.Wait` returned. `IInv` keeps the books of the wait
  group, for each ledger and phase:

  1. at most as many transactions are in workers' hands as workers are live, and no more
     are live than were started;
  2. once a worker of a phase has returned, its channel is closed and empty, and both
     stay so (the dispatcher sends nothing after the close);
  3. nothing was added or started for later phases;
  4. in the current phase, if the earlier ones were counted well,
     `wg + spawned = added + live`;
  5. no worker of a well-counted past phase is live.

  When `wg.Wait` returns, (4) with `wg = 0` and `added = spawned` gives `live = 0`. At
  least one worker was started, so by (2) the channel is closed and empty, and by (1)
  nobody holds a transaction. The condition `WellCounted` is what the race on
  `cc.WorkNumberPerPLedger` breaks, as `phase_order` shows.
* `NothingTooBigLeavesBG` (`OnlyFittingLeavesBG`) from `ChannelInv`: a channel holds what
  was sent and not taken, and nobody takes from it before its phase.
* `PanicsOnlyMiscounted` (`PanicOnlyWhenMiscounted`): a negative wait group contradicts
  (4), a send on a closed channel contradicts (5), unless some ledger is miscounted.
* `AloneInOrder` (`PhaseOrder` for one ledger) from `SteadyInv`: the shared count is what
  the ledger itself wrote, so it starts the workers that it added.
* `PoolSettles`, `InitialNotesSettle`, `OwnersSettle` (`PoolOutcome`,
  `SpentInitialBanknote`, `OwnerOutcome`). What the block leaves behind is a statement
  about its end; `PoolInv`, `InitialInv` and `OwnerInv` say at every step what the
  transactions done so far, the workers in the middle of one, and the recycle channel
  have left of a banknote. They are claimed of ledgers whose phases were kept apart, and
  rest on `WorkInv`: who can hold a stage, and that the drain runs between BS and BT.
* `AccountsSettle` (`AccountsOutcome`) from `AccountInv`: the records in the account
  channel and in the modify set together are the transactions that entered them. The
  amounts are sums over sets, so the order of the channel does not matter.
* `OrderKeepsPromise` and `AloneKeepsPromise`: the refinement of `LedgerPromise`. The
  commit of the trie maps to the abstract step, by `AccountInv`; every other step to a
  stutter. With several ledgers this needs `[]PhaseOrder`, which the code does not
  guarantee (`phase_order`); for one ledger it is outright.

**`BlockProcessingProofs`**, for every batch, ledger count and set of accounts.

* `FinishedWork` (`BlockComplete`) from `WorkInv`. In the middle of a swap the list holds
  one transaction twice; `Intended` is the list with the pending store done, and that one
  is always a permutation of the kept transactions, sorted up to the cursor. The wait
  group is the number of ledgers and lists whose work is not over.
* `HashCovers` (`HashOfBlock`): the hash goroutine has read a part of the list in places
  that the sort changes under it. If the list was in order, no store ever changes it.
* `CoreOnlyEverGrows` (`CoreOnlyGrows`, an action property): one transfer moves an amount
  or, refused, only credits it; `Total` is a sum over the accounts.
* `PeersAgree` (`PeerAgrees`) from `ChainInv`: each block's tries come from those of the
  block before and its transactions, less the records missed. For one ledger nothing is
  ever missed (`AloneInv`), and the property has no such condition. The peer classifies the joined lists of the block.
  Classifying a concatenation is concatenating the classifications (`PickConcat`), so it
  gets the leader's lists back (`InBlockLists`), in the sorted order and not the
  leader's; but what a block does to a ledger's trie does not depend on the order
  (`OrderIgnored`).

**`BlockPipelineProofs`**, for every set of peers, setting and capacity: `TypeCorrect`;
`ChannelInOrder` (`LeaderChainInOrder`) from `ChainInv`, which numbers the blocks in the
generator's hand, in the channel, in the adder's hand and in the chain without a gap;
from it `ParentNotFar` (`ParentLag`); `RootsBounded` (`PublishedRoots`) from `RootsInv`:
which block a shared root may have been written by; `PeersStayBehind` (`PeersFollow`)
from `PeerInv`: what is on its way to a peer was published, and each block only once
counting what it has; `PipelineKeepsPromise`, the refinement of `ChainPromise`, from all
three: `AddBlock` is its `Add` and `Publish` its `Publish` because `ChainInv` knows which
block the adder has in hand, `Apply` is its `Take` by `PeerInv`, and every other step,
exits, losses and stops included, is a stutter (TLC agrees on the instance of `pipeline`,
and finds a peer's second copy if a delivery leaves the block in the network);
`LeaderSurvives` (`LeaderDiesOnlyOf`) from `LeaderKeyInv`: a leader
that waits for peers has published with a key, and its own file is empty only while it is
about to fill it, or dead.

**`BlockStoreProofs`**, for every number of blocks and crashes: `StoreHolds` is the
inductive `StoreInv`, for a leader and a peer: which writes are done at which step, also
after a crash, and that a chain found at the start stays frozen. From it `NothingMissing`
(`NothingMissingUnexplained`), `OnlyCrashesLose` (without a crash no body is lost and no
start panics) and `RestartFreezes` (`RestartedChainFrozen`, an action property).

**`TxPoolProofs`**, for all callers, scripts, batch sizes and capacities: `TypeCorrect`;
`NoLostWakeup` (`SleepersMeanFull`) from mutual exclusion and `SleepInv`; `Conserved`
(`NothingLostOrDoubled`) from `TodoInv`: what a caller has still to add is the end (at the
head, the beginning) of its batch; `OrderKept` (`BatchOrder`), in the two directions the
two operations go through a batch.

**`ServiceProofs`**: `RowsConserved` is the inductive `WriterInv` (every row sent is in the
channel, in the buffer, in the file or lost, and only a bad file or an overlapped row
breaks the buffer; the token is in one place), `TokenSound` (`TokenMeansWritten`),
`FlusherLeavesNothing` (if the flusher took the token the test never comes through, and
unless the buffer has failed all rows are on disk but those that overlapped a flush); `LockHolds` is the inductive `LockInv`
(the writer of `quitLock` is alone, and inside a closed store is nobody), `NoReturn`
(`NothingReturnsAfterClose`, an action property).

**`DatasetFeedProofs`**, for every data set, value, batch size, interval and capacity.
`FlattenSeq` and the folds over rows are unfolded as above (`FlatSteps`, `MovedFolds`,
`LedgerFolds`).

* `HalfArrives` (`EverySecondRow`) from `OriginInv`: the two channels together hold the
  rows after the ones taken, in order; each is closed behind its last row; and the reader
  has used every second row that it took, between a test and an append one more.
* `GroupsArrive` (`RowsArrive`) from `FileInv` and `ReadInv`. What a whole file would
  deliver is a loop over its rows; `ReadInv` says that the reader's line is a place where
  that loop may stop (the beginning, behind a separator, or the end), and that the batches
  hold what the loop has by then. `NextGroup` shows that `ReadBatch` followed by
  `ReadBanknoteDatasetItem` adds what the loop adds up to the next separator. It needs
  that the first row of a group is never an issue, a transfer or a split (`FileInv`:
  the program writes none before an origin row), and that a last line that is cut off
  counts for neither.
* `TransfersPayExactly` (`GroupPaysExactly`) from `GroupInv`: the rows since the origin row
  of the transfer in hand have moved what the program has counted so far.
* `NotesPassedOver` (`NewNoteDespiteNotes`) from `PassInv`: the loop's position, the rows
  since the origin row and the length of the wallet, which move together.
* `RecyclingMisses` (`RecycleMissesNeighbours`) from `Owned` (only accounts that were
  entered hold banknotes) and `EndsGroup`: each old banknote that stays is the successor
  of one that goes, so there is an injection into the rows that recycling wrote.
* `RowsTellWallets` (`WalletsAreReplay`) from `ReplayInv`: no banknote is in two places,
  every hash in a wallet or a row has been drawn, and the ledger of the rows is related to
  the wallets as the property says. Per operation there is a lemma about its one row
  (`TransferTold`, `SplitTold`, `NewTold`); for recycling an induction over its rows.

### Only model-checked

* Liveness: `Terminates`, `ChainReachesPeers`, `StartUpEnds`, `EventuallyPacked`,
  `AllReceived`, `ReachesDisk`, `OneTakesToken`, `CallsReturn`. They rest on fairness, and
  the provers cannot reason about `ENABLED`.
* The statements of section 3 that the code does not keep have no theorems, of course:
  `PhaseOrder` is proved for one ledger, and the refinement for several ledgers only
  of behaviours in which it holds.

Every invariant and every action property that a run checks is the subject of a theorem.

## 5. Not modelled

* `ProcessTxs` (the account model of the original chain) is always called with an empty
  list at this commit.
* libp2p, pebble, gob and the hash functions: used through what they promise.
* The contents of stored blocks: only the presence of header, body and newest key
  matters for a restart. `AddBlock` also writes a timestamp while the goroutine of
  `StoreBlock` may be encoding the block; the time is the only thing at stake.
* The hosts and subscriptions that failed tries of `NewSubscriber` leave open (listed as
  a hazard: nothing in the code limits them).
* In `database/db.go`: keys, values, batches being filled, iterators and `upperBound` (no
  constructor returns them, and nothing else in the program uses the package); the
  metrics callbacks, which are never registered.
* How pandas writes amounts (with an exponent, or as "3.0" in a column that has gaps: the
  parser takes ".0" off `banknote_value` but not off the two shares of a split), and the
  addresses and hashes of rows.
* The nil `Amount` that the trie goroutine turns into 0 (`banknote_processor.go` 388-390).
* A node opens two result writers on one path (`blockchain.go` 282 and 296), and sends to
  the second; a sender that waits for a writer which has failed is covered by `Unsound`.
* What a leader that exits, or a peer that dies, with blocks in its channel leaves undone:
  both are steps of the model, but the code promises nothing about them.
* `utils/sig.go`, which burns time on signatures and returns nothing that is used;
  `utils/config.go` and `utils/public_ip.go`; gob encoding and hashing in `core/`.
* `sortTxs.py` (sorts a file), flags, logging, figures.

## 6. Plan

Done: all components of section 1 but for what section 5 names, and theorems for every
safety property of the runs. What is left:

1. A composition of `BlockStore` with `BlockPipeline`, for the exit of the leader between
   two writes of the blocks in its queue, with its invariant.
2. That the ledger step of `BlockProcessing` with several ledgers, which may miss records,
   is what `PeripheralLedger` refines when `PhaseOrder` fails; for one ledger
   `AloneKeepsPromise` says so already.
