--------------------------- MODULE BlockProcessing ---------------------------
(***************************************************************************)
(* ProcessBanknoteTxs of chain/banknote_processor.go: a block's banknote   *)
(* transactions are shared out to the ledgers; then the core ledger, the   *)
(* peripheral ledgers, the sorting and the hashing of their lists run side *)
(* by side until a wait group lets the block be made.  The leader does     *)
(* this for every batch, a peer for every block it receives, from the      *)
(* transactions in the block.                                              *)
(*                                                                         *)
(* A transaction hash is a number: its remainder by P is the ledger, its   *)
(* size the place in the sorted list, and an XOR of hashes is the set of   *)
(* those that went into it an odd number of times.  A peripheral ledger    *)
(* is one step here.  A single one is LedgerPromise, which PeripheralLedger*)
(* implements for it; ledgers that share the count of their workers may    *)
(* miss records, which PeripheralLedger shows of them.                     *)
(***************************************************************************)
EXTENDS AccountLedger, Lists, SequencesExt

CONSTANTS P,         \* cc.BanknoteChainPLedgerNumber
          Runs       \* the sequences of batches a leader may read

Ledgers == 0..P - 1
NormalKind == "NT"
Tx == [kind: {"BG", "BS", "BT", "BR", NormalKind}, hash: Nat, amount: Nat,
       from: Addresses, to: Addresses]

ASSUME ProcessingAssumption ==
    /\ P \in Nat \ {0}
    /\ IsFiniteSet(Accounts)    \* addresses have 20 bytes
    /\ Runs \subseteq Seq(Seq(Tx))
    /\ \A run \in Runs : \A n \in DOMAIN run : \A i, j \in DOMAIN run[n] :
          /\ run[n][i].kind = NormalKind => {run[n][i].from, run[n][i].to} \subseteq Accounts
          /\ i # j /\ NormalKind \notin {run[n][i].kind, run[n][j].kind}
                => run[n][i].hash # run[n][j].hash

VARIABLES
    run,        \* the batches; never changes
    blocks,     \* the blocks the leader has made
    pc,         \* "idle" or "working", on the batch after those blocks
    wg,         \* the counter of waitGroupAllLedgers
    lists,      \* BanknoteTxsBlockPerLedger: the slices both sort and hash use
    sorting,    \* per ledger: the insertion sort's place in its list
    store,      \* per ledger: the second store of a swap, or none
    hashing,    \* per ledger: how many elements the hash goroutine has read
    sum,        \* per ledger: txHashsSUM
    allHash,    \* AllTxHash
    coreAt,     \* how many NT transactions are applied
    core,       \* the trie of the core ledger
    over,       \* of the other goroutines: those that have called waitGroupAllLedgers.Done()
    trie, done, \* of the peripheral ledgers, see LedgerPromise
    astray,     \* which ledgers, of the leader or the peer, missed a record, in which block
    peer        \* the state of a peer: the blocks added, in order, and its tries

sortVars == <<lists, sorting, store>>
hashVars == <<hashing, sum, allHash>>
coreVars == <<coreAt, core>>
ledgerVars == <<trie, done, astray>>
vars == <<run, blocks, pc, wg, sortVars, hashVars, coreVars, over, ledgerVars, peer>>

-----------------------------------------------------------------------------
(* The classification, lines 31 to 42: NT transactions go to the core      *)
(* ledger; every other one to the ledger its hash names, to be executed;   *)
(* and all of those but BR into the ledger's list of the block.  Each list *)
(* is built by appending, in one pass.                                     *)
LedgerOf(tx) == tx.hash % P
PlacesOf(txs, kinds, l) ==
    {i \in DOMAIN txs : txs[i].kind \in kinds /\ LedgerOf(txs[i]) = l}
Normal(txs) == Keep(txs, {i \in DOMAIN txs : txs[i].kind = NormalKind})
Actions(txs, l) == Keep(txs, PlacesOf(txs, {"BG", "BS", "BT", "BR"}, l))
NothingGenerated(txs, l) == Keep(txs, PlacesOf(txs, {"BS", "BT"}, l))  \* variant: BG left out as well
Listed(txs, l) == Keep(txs, PlacesOf(txs, {"BG", "BS", "BT"}, l))

batch == run[Len(blocks) + 1]

NoStore == [at |-> 0]
Init ==
    /\ run \in Runs
    /\ blocks = <<>> /\ pc = "idle" /\ wg = 0
    /\ lists = [l \in Ledgers |-> <<>>]
    /\ sorting = [l \in Ledgers |-> [i |-> 2, j |-> 2]]
    /\ store = [l \in Ledgers |-> NoStore]
    /\ hashing = [l \in Ledgers |-> 0]
    /\ sum = [l \in Ledgers |-> {}]
    /\ allHash = {}
    /\ coreAt = 0 /\ core = EmptyTrie
    /\ over = {}
    /\ trie = [l \in Ledgers |-> EmptyTrie] /\ done = {} /\ astray = {}
    /\ peer = [added |-> <<>>, core |-> EmptyTrie, trie |-> [l \in Ledgers |-> EmptyTrie]]

(* ProcessBanknoteTxs is called: classification, waitGroupAllLedgers.Add,  *)
(* and the goroutines are started.                                         *)
OneTooFew == P + 2                                            \* variant
Goroutines == P + 3    \* the ledgers, the core ledger, the sorting, the hashing

Begin ==
    /\ pc = "idle" /\ Len(blocks) < Len(run)
    /\ pc' = "working"
    /\ lists' = [l \in Ledgers |-> Listed(batch, l)]
    /\ wg' = Goroutines
    /\ sorting' = [l \in Ledgers |-> [i |-> 2, j |-> 2]]
    /\ hashing' = [l \in Ledgers |-> 0]
    /\ sum' = [l \in Ledgers |-> {}]
    /\ coreAt' = 0 /\ over' = {} /\ done' = {}
    /\ UNCHANGED <<run, blocks, store, allHash, core, trie, astray, peer>>

Over(g) == /\ pc = "working" /\ g \notin over
           /\ over' = over \cup {g}
           /\ wg' = wg - 1

-----------------------------------------------------------------------------
(* SortBanknoteTxs of one ledger: sort.Sort in place, an insertion sort as *)
(* long as the list has at most 12 elements, biggest hash first.  A swap   *)
(* is two stores; between them the slice holds one element twice.          *)
Ascending(s, i, j) == s[i].hash < s[j].hash                   \* variant
Less(s, i, j) == s[i].hash > s[j].hash
Sorted(l) == sorting[l].i > Len(lists[l]) /\ store[l] = NoStore
Misplaced(l) == sorting[l].j > 1 /\ Less(lists[l], sorting[l].j, sorting[l].j - 1)

NextElement(l) ==
    /\ pc = "working" /\ store[l] = NoStore
    /\ sorting[l].i <= Len(lists[l]) /\ ~Misplaced(l)
    /\ sorting' = [sorting EXCEPT ![l] = [i |-> @.i + 1, j |-> @.i + 1]]
    /\ UNCHANGED <<run, blocks, pc, wg, lists, store, hashVars, coreVars, over, ledgerVars, peer>>

FirstStore(l) ==
    /\ pc = "working" /\ store[l] = NoStore
    /\ sorting[l].i <= Len(lists[l]) /\ Misplaced(l)
    /\ \E a, b \in {sorting[l].j, sorting[l].j - 1} :
          /\ a # b
          /\ lists' = [lists EXCEPT ![l][a] = lists[l][b]]
          /\ store' = [store EXCEPT ![l] = [at |-> b, tx |-> lists[l][a]]]
    /\ UNCHANGED <<run, blocks, pc, wg, sorting, hashVars, coreVars, over, ledgerVars, peer>>

SecondStore(l) ==
    /\ store[l] # NoStore
    /\ lists' = [lists EXCEPT ![l][store[l].at] = store[l].tx]
    /\ store' = [store EXCEPT ![l] = NoStore]
    /\ sorting' = [sorting EXCEPT ![l].j = @ - 1]
    /\ UNCHANGED <<run, blocks, pc, wg, hashVars, coreVars, over, ledgerVars, peer>>

SortOver ==
    /\ Over("sort")
    /\ \A l \in Ledgers : Sorted(l)
    /\ UNCHANGED <<run, blocks, pc, sortVars, hashVars, coreVars, ledgerVars, peer>>

-----------------------------------------------------------------------------
(* The hash goroutine of one ledger ranges over the slice that is being    *)
(* sorted: it XORs whatever it finds at each place when it gets there.     *)
Xor(S, h) == IF h \in S THEN S \ {h} ELSE S \cup {h}

HashNext(l) ==
    /\ pc = "working" /\ hashing[l] < Len(lists[l])
    /\ hashing' = [hashing EXCEPT ![l] = @ + 1]
    /\ sum' = [sum EXCEPT ![l] = Xor(@, lists[l][hashing[l] + 1].hash)]
    /\ UNCHANGED <<run, blocks, pc, wg, sortVars, allHash, coreVars, over, ledgerVars, peer>>

AllButOne(l) == hashing[l] + 1 >= Len(lists[l])               \* variant: off by one
Hashed(l) == hashing[l] = Len(lists[l])

HashOver ==
    /\ Over("hash")
    /\ \A l \in Ledgers : Hashed(l)
    /\ allHash' = UNION {sum[l] : l \in Ledgers}
    /\ UNCHANGED <<run, blocks, pc, sortVars, hashing, sum, coreVars, ledgerVars, peer>>

-----------------------------------------------------------------------------
(* ProcessCoreLedgerTx: one NT transaction after the other.                *)
CoreNext ==
    /\ pc = "working" /\ coreAt < Len(Normal(batch))
    /\ coreAt' = coreAt + 1
    /\ core' = ApplyNormalTx(core, Normal(batch)[coreAt + 1])
    /\ UNCHANGED <<run, blocks, pc, wg, sortVars, hashVars, over, ledgerVars, peer>>

CoreOver ==
    /\ Over("core")
    /\ coreAt = Len(Normal(batch))
    /\ UNCHANGED <<run, blocks, pc, sortVars, hashVars, coreVars, ledgerVars, peer>>

(* ProcessPeripheralLedgerTx.  Ledgers side by side share                  *)
(* cc.WorkNumberPerPLedger (lines 245 to 258): one that starts more workers*)
(* than it counted may leave its last phase, and commit its trie, before   *)
(* they have sent the records of their BG and BR (their sends panic later).*)
(* A ledger that hangs, or panics at once, never calls Done.               *)
Ledger(b) == INSTANCE LedgerPromise WITH block <- b

Records(txs) == {i \in DOMAIN txs : txs[i].kind \in {"BG", "BR"}}
Missed(txs) == IF P = 1 THEN {{}} ELSE SUBSET Records(txs)
Without(txs, missed) == Keep(txs, DOMAIN txs \ missed)

LedgerNext(l) ==
    /\ pc = "working" /\ wg' = wg - 1
    /\ \E missed \in Missed(Actions(batch, l)) :
         /\ Ledger([m \in {l} |-> Without(Actions(batch, l), missed)])!Process(l)
         /\ astray' = IF missed = {} THEN astray ELSE astray \cup {<<l, Len(blocks) + 1>>}
    /\ UNCHANGED <<run, blocks, pc, sortVars, hashVars, coreVars, over, peer>>

-----------------------------------------------------------------------------
(* waitGroupAllLedgers.Wait() and NewBanknoteBlock.                        *)
Return ==
    /\ pc = "working" /\ wg = 0
    /\ blocks' = Append(blocks, [c_ledger |-> Normal(batch), p_ledgers |-> lists,
                                 hash |-> allHash, core |-> core, roots |-> trie])
    /\ pc' = "idle"
    /\ UNCHANGED <<run, wg, sortVars, hashVars, coreVars, over, ledgerVars, peer>>

(* AddBlock of a peer: ProcessBanknoteTxs once more, on the transactions   *)
(* the block lists, whatever number the block has.  The peer gets any of   *)
(* the blocks, in any order (BlockPipeline).                               *)
InBlock(b) == FoldLeft(\o, b.c_ledger, [i \in 1..P |-> b.p_ledgers[i - 1]])
Executed(b) == [l \in Ledgers |-> Actions(InBlock(b), l)]

PeerTrie(b, missed, l) ==
    Ledger(Executed(b))!BlockTrie(peer.trie[l], Without(Executed(b)[l], missed[l]))

PeerAdds ==
    /\ \E n \in DOMAIN blocks \ ToSet(peer.added) :
         LET b == blocks[n] IN
         \E missed \in [Ledgers -> UNION {Missed(Executed(b)[l]) : l \in Ledgers}] :
           /\ \A l \in Ledgers : missed[l] \in Missed(Executed(b)[l])
           /\ astray' = astray \cup {<<l, n>> : l \in {m \in Ledgers : missed[m] # {}}}
           /\ peer' = [added |-> Append(peer.added, n),
                       core |-> FoldLeft(ApplyNormalTx, peer.core, Normal(InBlock(b))),
                       trie |-> [l \in Ledgers |-> PeerTrie(b, missed, l)]]
    /\ UNCHANGED <<run, blocks, pc, wg, sortVars, hashVars, coreVars, over, trie, done>>

Finished == Len(blocks) = Len(run) /\ Len(peer.added) = Len(run) /\ UNCHANGED vars

Working ==
    \/ SortOver \/ HashOver \/ CoreNext \/ CoreOver
    \/ \E l \in Ledgers : \/ NextElement(l) \/ FirstStore(l) \/ SecondStore(l)
                          \/ HashNext(l) \/ LedgerNext(l)

Next == Begin \/ Working \/ Return \/ PeerAdds \/ Finished

Spec == Init /\ [][Next]_vars

-----------------------------------------------------------------------------
(* The block is made from finished work only: every list in it holds just  *)
(* the ledger's transactions, once each, biggest hash first; the core      *)
(* ledger has applied the whole batch and every ledger has committed       *)
(* (waitGroupAllLedgers, lines 51 to 107).                                 *)
Hashes(txs) == [i \in DOMAIN txs |-> txs[i].hash]
BlockComplete ==
    \A n \in DOMAIN blocks :
        /\ \A l \in Ledgers :
              LET s == blocks[n].p_ledgers[l] IN
              /\ ToSet(s) = ToSet(Listed(run[n], l)) /\ Len(s) = Len(Listed(run[n], l))
              /\ \A i, j \in DOMAIN s : i < j => s[i].hash > s[j].hash
        /\ n = Len(blocks) /\ pc = "idle" => blocks[n].core = core /\ done = Ledgers

(* AllTxHash covers the listed transactions, once each, if every ledger's  *)
(* list was in order already: then the sort stores nothing.  (Otherwise it *)
(* depends on the schedule; what it never contains is a transaction of     *)
(* another kind or of an earlier block.)                                   *)
InOrder(txs) == \A i, j \in DOMAIN txs : i < j => txs[i].hash > txs[j].hash
ListedHashes(txs, l) == ToSet(Hashes(Listed(txs, l)))
HashOfBlock ==
    \A n \in DOMAIN blocks :
        LET all == UNION {ListedHashes(run[n], l) : l \in Ledgers} IN
        /\ blocks[n].hash \subseteq all
        /\ (\A l \in Ledgers : InOrder(Listed(run[n], l))) => blocks[n].hash = all

(* The core ledger never loses money: what the accounts hold together is   *)
(* what they held at the start, or more by refused payments that the payee *)
(* was credited with all the same (line 147 drops what Deduct returns).    *)
Total(t) == FoldSet(LAMBDA a, s : t[a].balance + s, 0, Accounts)
CoreOnlyGrows ==
    [][Total(core') >= Total(core)
       /\ (Total(core') > Total(core) =>
             ~Affords(core[Normal(batch)[coreAt'].from], Normal(batch)[coreAt'].amount))]_core

(* A peer that has added the first n blocks in their order has the core    *)
(* trie of the leader's, and the trie of every ledger that executed no BR, *)
(* since a BR is not in the block (line 39) and the peer never credits it, *)
(* and that missed no record, on either side: a single ledger never does.  *)
InSequence == \A i \in DOMAIN peer.added : peer.added[i] = i
Faithful(l, n) == \A m \in 1..n : <<l, m>> \notin astray
NoBR(l, n) == \A m \in 1..n : \A i \in DOMAIN run[m] :
                 run[m][i].kind = "BR" => LedgerOf(run[m][i]) # l
PeerAgrees ==
    LET n == Len(peer.added) IN
    n > 0 /\ InSequence =>
        /\ peer.core = blocks[n].core
        /\ \A l \in Ledgers :
              NoBR(l, n) /\ (P = 1 \/ Faithful(l, n)) => peer.trie[l] = blocks[n].roots[l]
=============================================================================
