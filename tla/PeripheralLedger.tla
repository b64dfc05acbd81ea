-------------------------- MODULE PeripheralLedger --------------------------
(***************************************************************************)
(* The concurrent processing of one block's banknote transactions by the   *)
(* peripheral ledgers: ProcessPeripheralLedgerTx and                       *)
(* ProcessPeripheralLedgerTxStateTrie of chain/banknote_processor.go.      *)
(*                                                                         *)
(* Every ledger runs a main goroutine, a dispatcher that sorts the         *)
(* transactions into four bounded channels, a pool of workers per phase    *)
(* (BG, BS, BT, BR, in this order) and a goroutine that folds the account  *)
(* changes and commits the state trie.  The ledgers share the pool of      *)
(* active banknotes and, without any synchronisation, the number of        *)
(* workers, cc.WorkNumberPerPLedger.                                       *)
(*                                                                         *)
(* A transaction is known by its index in its ledger's list (a "task").    *)
(* A channel is the set of the tasks in it: those of a transaction channel *)
(* are received in index order, the order they were sent in; the account   *)
(* and recycle channels carry commuting updates, so their order is left    *)
(* open.  Goroutines of one kind are interchangeable and only counted.     *)
(***************************************************************************)
EXTENDS AccountLedger, Sequences, FiniteSets

CONSTANTS Ledgers,                \* the peripheral ledgers
          Banknotes,              \* banknote hashes
          NoBanknote,             \* nil returned by GetBanknote
          NoTask,                 \* maker of the banknotes older than the block
          Workloads,              \* blocks to process, each with the pool it meets
          MaxLedgerTxs,           \* bound on the transactions of one ledger
          InitAmount,             \* the 100000000 an initial banknote is worth
          BaseWorkers,            \* NumCPU() / P, or CoreLimit / P: may be 0
          PLedgerInnerChanSize,   \* capacity of the transaction channels
          PAccountModifyChanSize  \* capacity of the account channel

Kinds == {"BG", "BS", "BT", "BR"}
Phases == <<"BG", "BS", "BT", "BR">>    \* the order the phases run in
ClosePos == <<1, 3, 2, 4>>              \* the order their channels are closed in
PhaseIds == 1..4

BanknoteTx == [kind: Kinds, note: Banknotes, amount: Nat, from: Addresses, to: Addresses,
               note1: Banknotes, amount1: Nat, note2: Banknotes, amount2: Nat]

TaskIds == 1..MaxLedgerTxs
Makers == {NoTask} \cup (Ledgers \X TaskIds)
Objects == Banknotes \X Makers          \* a *Banknote: its hash and who allocated it

ASSUME PeripheralAssumption ==
    /\ MaxLedgerTxs \in Nat
    /\ InitAmount \in Nat
    /\ BaseWorkers \in Nat
    /\ PLedgerInnerChanSize \in Nat \ {0}
    /\ PAccountModifyChanSize \in Nat \ {0}
    /\ NoBanknote \notin Objects
    /\ \A w \in Workloads :
          /\ w.txs \in [Ledgers -> Seq(BanknoteTx)]
          /\ \A l \in Ledgers : Len(w.txs[l]) <= MaxLedgerTxs
          /\ w.pool \in SUBSET Banknotes     \* notes active before the block
          /\ w.value \in [Banknotes -> Nat]  \* what each of those is worth
          /\ w.owner \in [Banknotes -> Addresses]

VARIABLES
    workload,    \* the block and the pool it meets; never changes
    \* shared by the ledgers
    pool,        \* ActiveBanknotesPool: hash -> object, or NoBanknote
    owner,       \* object -> Owner, an array written in two halves
    workNumber,  \* cc.WorkNumberPerPLedger
    \* the main goroutine of each ledger
    pc, phase,   \* where it is
    loaded,      \* the operand of "cc.WorkNumberPerPLedger * 2"
    added,       \* per phase: what wg.Add was called with
    spawned,     \* per phase: how many workers were started
    wg,          \* the counter of the wait group
    \* the other goroutines of each ledger
    sent,        \* how far the dispatcher is: transactions sent + channels closed
    live,        \* per phase: the workers that have not returned
    at,          \* per task: how far its worker is
    held,        \* per task: the *Banknote its worker holds
    recycle,     \* toBeRecycledBSSourceBanknotesChan
    modify,      \* accountStateModifyChan
    modifySet,   \* accountModifySet
    committed,   \* the state-trie goroutine has sent on okChan
    trie,        \* the ledger's state trie, PLedgerStateRoots[l]
    panicked     \* a goroutine panicked: the process is gone

mainVars == <<pc, phase, loaded, added, spawned, wg, workNumber>>
poolVars == <<pool, owner>>
trieVars == <<modifySet, committed, trie>>
chanVars == <<sent, recycle, modify>>
workVars == <<live, at, held>>
vars == <<workload, mainVars, poolVars, trieVars, chanVars, workVars, panicked>>

\* what a step of a main goroutine, and of a worker with a transaction, leaves alone
counters == <<loaded, added, spawned, wg>>
others == <<workload, poolVars, trieVars, chanVars, workVars, panicked>>
restOfWork == <<workload, mainVars, trieVars, live, panicked>>

-----------------------------------------------------------------------------
Txs(l) == workload.txs[l]
Tasks(l, p) == {i \in DOMAIN Txs(l) : Txs(l)[i].kind = Phases[p]}

ClosedBesides(l, p) == sent[l] + 1 >= ClosePos[p]      \* variant: does not wait for the sends
Closed(l, p) == sent[l] >= Len(Txs(l)) + ClosePos[p]
Queue(l, p) == {i \in Tasks(l, p) : i <= sent[l] /\ at[l][i] = "waiting"}
RecycleClosed(l) == phase[l] > 2
ModifyClosedEarly(l) == phase[l] >= 4 /\ pc[l] # "add"   \* variant: closed before wg.Wait
ModifyClosed(l) == pc[l] \in {"ack", "finished"}

Active(l, p) == {i \in Tasks(l, p) : at[l][i] \notin {"waiting", "done"}}
Idle(l, p) == live[l][p] > Cardinality(Active(l, p))

Stages == {"waiting", "charge", "issue", "lookup", "recycle", "remove", "first", "second",
           "materialise", "ownerHi", "ownerLo", "store", "credit", "done"}
FirstStage == [BG |-> "charge", BS |-> "lookup", BT |-> "lookup", BR |-> "credit"]

Init ==
    /\ workload \in Workloads
    /\ pool = [b \in Banknotes |-> IF b \in workload.pool THEN <<b, NoTask>> ELSE NoBanknote]
    /\ owner = [o \in Objects |-> <<workload.owner[o[1]], workload.owner[o[1]]>>]
    /\ workNumber = 0
    /\ pc = [l \in Ledgers |-> "reset"]
    /\ phase = [l \in Ledgers |-> 1]
    /\ loaded = [l \in Ledgers |-> 0]
    /\ added = [l \in Ledgers |-> [p \in PhaseIds |-> 0]]
    /\ spawned = [l \in Ledgers |-> [p \in PhaseIds |-> 0]]
    /\ wg = [l \in Ledgers |-> 0]
    /\ sent = [l \in Ledgers |-> 0]
    /\ live = [l \in Ledgers |-> [p \in PhaseIds |-> 0]]
    /\ at = [l \in Ledgers |-> [i \in DOMAIN Txs(l) |-> "waiting"]]
    /\ held = [l \in Ledgers |-> [i \in DOMAIN Txs(l) |-> NoBanknote]]
    /\ recycle = [l \in Ledgers |-> {}]
    /\ modify = [l \in Ledgers |-> {}]
    /\ modifySet = [l \in Ledgers |-> NoModification]
    /\ committed = [l \in Ledgers |-> FALSE]
    /\ trie = [l \in Ledgers |-> EmptyTrie]
    /\ panicked = FALSE

-----------------------------------------------------------------------------
(* The dispatcher: one transaction after the other, blocked while the      *)
(* channel of its kind is full; then it closes the four channels.          *)
OneMore(l, p) == Cardinality(Queue(l, p)) <= PLedgerInnerChanSize   \* variant: off by one
HasRoom(l, p) == Cardinality(Queue(l, p)) < PLedgerInnerChanSize

Dispatch(l) ==
    /\ sent[l] < Len(Txs(l)) + 4
    /\ \A p \in PhaseIds : sent[l] + 1 \in Tasks(l, p) => HasRoom(l, p)
    /\ sent' = [sent EXCEPT ![l] = @ + 1]
    /\ UNCHANGED <<workload, mainVars, poolVars, trieVars, recycle, modify, workVars, panicked>>

-----------------------------------------------------------------------------
(* The main goroutine.                                                     *)

(* cc.WorkNumberPerPLedger = NumCPU / P (or CoreLimit / P)                 *)
ResetWorkNumber(l) ==
    /\ pc[l] = "reset"
    /\ workNumber' = BaseWorkers
    /\ pc' = [pc EXCEPT ![l] = "floor"]
    /\ UNCHANGED <<phase, counters, others>>

(* if cc.WorkNumberPerPLedger == 0 ...                                     *)
TestWorkNumber(l) ==
    /\ pc[l] = "floor"
    /\ pc' = [pc EXCEPT ![l] = IF workNumber = 0 THEN "one" ELSE "load"]
    /\ UNCHANGED <<phase, workNumber, counters, others>>

(* ... { cc.WorkNumberPerPLedger = 1 }                                     *)
FloorWorkNumber(l) ==
    /\ pc[l] = "one"
    /\ workNumber' = 1
    /\ pc' = [pc EXCEPT ![l] = "load"]
    /\ UNCHANGED <<phase, counters, others>>

(* cc.WorkNumberPerPLedger = cc.WorkNumberPerPLedger * 2: a read ...       *)
LoadWorkNumber(l) ==
    /\ pc[l] = "load"
    /\ loaded' = [loaded EXCEPT ![l] = workNumber]
    /\ pc' = [pc EXCEPT ![l] = "double"]
    /\ UNCHANGED <<phase, added, spawned, wg, workNumber, others>>

(* ... and a write.                                                        *)
DoubleWorkNumber(l) ==
    /\ pc[l] = "double"
    /\ workNumber' = 2 * loaded[l]
    /\ pc' = [pc EXCEPT ![l] = "add"]
    /\ UNCHANGED <<phase, counters, others>>

(* wg.Add(cc.WorkNumberPerPLedger)                                         *)
AddWorkers(l) ==
    /\ pc[l] = "add"
    /\ added' = [added EXCEPT ![l][phase[l]] = workNumber]
    /\ wg' = [wg EXCEPT ![l] = @ + workNumber]
    /\ pc' = [pc EXCEPT ![l] = "spawn"]
    /\ UNCHANGED <<phase, loaded, spawned, workNumber, others>>

(* One more iteration of "for i := 0; i < cc.WorkNumberPerPLedger; i++":   *)
(* the bound is read again every time.  In the BR phase the iteration ends *)
(* with the loop that empties the recycle channel.                         *)
SpawnWorker(l) ==
    /\ pc[l] = "spawn"
    /\ spawned[l][phase[l]] < workNumber
    /\ spawned' = [spawned EXCEPT ![l][phase[l]] = @ + 1]
    /\ live' = [live EXCEPT ![l][phase[l]] = @ + 1]
    /\ pc' = [pc EXCEPT ![l] = IF phase[l] = 4 THEN "drain" ELSE "spawn"]
    /\ UNCHANGED <<workload, phase, loaded, added, wg, workNumber, poolVars, trieVars, chanVars, at, held, panicked>>

EndSpawning(l) ==
    /\ pc[l] = "spawn"
    /\ spawned[l][phase[l]] >= workNumber
    /\ pc' = [pc EXCEPT ![l] = "wait"]
    /\ UNCHANGED <<phase, workNumber, counters, others>>

(* for bnHash := range toBeRecycledBSSourceBanknotesChan                   *)
DrainForever(l) ==                     \* variant: the hashes stay in the channel
    /\ pc[l] = "drain" /\ recycle[l] # {}
    /\ pool' = [b \in Banknotes |-> IF \E i \in recycle[l] : Txs(l)[i].note = b
                                    THEN NoBanknote ELSE pool[b]]
    /\ UNCHANGED <<workload, mainVars, owner, trieVars, chanVars, workVars, panicked>>
Drain(l) ==
    /\ pc[l] = "drain"
    /\ \E i \in recycle[l] :
         /\ recycle' = [recycle EXCEPT ![l] = @ \ {i}]
         /\ pool' = [pool EXCEPT ![Txs(l)[i].note] = NoBanknote]
    /\ UNCHANGED <<workload, mainVars, owner, trieVars, sent, modify, workVars, panicked>>

EndDrain(l) ==
    /\ pc[l] = "drain"
    /\ recycle[l] = {}
    /\ pc' = [pc EXCEPT ![l] = "spawn"]
    /\ UNCHANGED <<phase, workNumber, counters, others>>

(* wg.Wait() returns.  After BS the recycle channel is closed, after BR    *)
(* the account channel, and the ledger waits for its state trie.           *)
EndPhase(l) ==
    /\ pc[l] = "wait"
    /\ wg[l] = 0
    /\ phase' = [phase EXCEPT ![l] = @ + 1]
    /\ pc' = [pc EXCEPT ![l] = IF phase[l] = 4 THEN "ack" ELSE "add"]
    /\ UNCHANGED <<workNumber, counters, others>>

(* <-okChanPStateModify; waitGroupAllLedgers.Done()                        *)
Finish(l) ==
    /\ pc[l] = "ack"
    /\ committed[l]
    /\ pc' = [pc EXCEPT ![l] = "finished"]
    /\ UNCHANGED <<phase, workNumber, counters, others>>

-----------------------------------------------------------------------------
(* The workers: receive a transaction and go through its steps.  Each step *)
(* is one access to a shared structure.                                    *)

Goto(l, i, stage) == at' = [at EXCEPT ![l][i] = stage]

TakeTx(l, p) ==
    /\ Idle(l, p)
    /\ \E i \in Queue(l, p) :
         /\ \A j \in Queue(l, p) : i <= j
         /\ Goto(l, i, FirstStage[Phases[p]])
    /\ UNCHANGED <<restOfWork, poolVars, chanVars, held>>

(* The channel is closed and empty: wg.Done() and return.                  *)
ExitWorker(l, p) ==
    /\ Idle(l, p)
    /\ Closed(l, p)
    /\ Queue(l, p) = {}
    /\ wg[l] > 0
    /\ live' = [live EXCEPT ![l][p] = @ - 1]
    /\ wg' = [wg EXCEPT ![l] = @ - 1]
    /\ UNCHANGED <<workload, pc, phase, loaded, added, spawned, workNumber, poolVars, trieVars, chanVars, at, held, panicked>>

Crash == /\ panicked' = TRUE
         /\ UNCHANGED <<workload, mainVars, poolVars, trieVars, chanVars, workVars>>

(* panic: sync: negative WaitGroup counter                                 *)
NegativeWaitGroup(l, p) ==
    /\ Idle(l, p)
    /\ Closed(l, p)
    /\ Queue(l, p) = {}
    /\ wg[l] = 0
    /\ Crash

(* accountStateModifyChan <- ..., of a BG or of a BR transaction           *)
SendModify(l, i) ==
    /\ at[l][i] \in {"charge", "credit"}
    /\ ~ModifyClosed(l)
    /\ Cardinality(modify[l]) < PAccountModifyChanSize
    /\ modify' = [modify EXCEPT ![l] = @ \cup {i}]
    /\ Goto(l, i, IF at[l][i] = "charge" THEN "issue" ELSE "lookup")
    /\ UNCHANGED <<restOfWork, poolVars, sent, recycle, held>>

(* panic: send on closed channel                                           *)
SendOnClosed(l, i) ==
    /\ \/ at[l][i] \in {"charge", "credit"} /\ ModifyClosed(l)
       \/ at[l][i] = "recycle" /\ RecycleClosed(l)
    /\ Crash

(* NewBanknote(hash, ..., holder) and AddBanknote                          *)
Add(l, i, b, holder) ==
    /\ owner' = [owner EXCEPT ![<<b, <<l, i>>>>] = <<holder, holder>>]
    /\ pool' = [pool EXCEPT ![b] = <<b, <<l, i>>>>]

(* BG: the new banknote.                                                   *)
Issue(l, i) ==
    LET tx == Txs(l)[i] IN
    /\ at[l][i] = "issue"
    /\ Add(l, i, tx.note, tx.from)
    /\ Goto(l, i, "done")
    /\ UNCHANGED <<restOfWork, chanVars, held>>

(* GetBanknote, in BS, BT and BR: what to do next depends on the kind and  *)
(* on whether the banknote is active at this moment.  A BT of an unknown   *)
(* banknote worth InitAmount takes it for an initial one.                  *)
SkipRecycling(found) == IF found THEN "remove" ELSE "first"         \* variant
AfterLookupBS(found) == IF found THEN "remove" ELSE "recycle"

NoInitialNotes(tx, found) == IF found THEN "ownerHi" ELSE "done"    \* variants
KeepOwner(tx, found) == IF found THEN "store"
                        ELSE IF tx.amount = InitAmount THEN "materialise" ELSE "done"
AfterLookupBT(tx, found) == IF found THEN "ownerHi"
                            ELSE IF tx.amount = InitAmount THEN "materialise" ELSE "done"

AfterLookupBR(found) == IF found THEN "remove" ELSE "done"

AfterLookup(tx, found) ==
    CASE tx.kind = "BS" -> AfterLookupBS(found)
      [] tx.kind = "BT" -> AfterLookupBT(tx, found)
      [] OTHER          -> AfterLookupBR(found)

Lookup(l, i) ==
    LET tx == Txs(l)[i]
        found == pool[tx.note] # NoBanknote
    IN
    /\ at[l][i] = "lookup"
    /\ Goto(l, i, AfterLookup(tx, found))
    /\ held' = [held EXCEPT ![l][i] = pool[tx.note]]
    /\ UNCHANGED <<restOfWork, poolVars, chanVars>>

(* RemoveBanknote, by hash: of the source of a BS, of a recycled banknote. *)
Remove(l, i) ==
    LET tx == Txs(l)[i] IN
    /\ at[l][i] = "remove"
    /\ pool' = [pool EXCEPT ![tx.note] = NoBanknote]
    /\ Goto(l, i, IF tx.kind = "BS" THEN "first" ELSE "done")
    /\ UNCHANGED <<restOfWork, owner, chanVars, held>>

(* BS of a banknote that is not active yet: leave its hash for later.      *)
Recycle(l, i) ==
    /\ at[l][i] = "recycle"
    /\ ~RecycleClosed(l)
    /\ Cardinality(recycle[l]) < PLedgerInnerChanSize
    /\ recycle' = [recycle EXCEPT ![l] = @ \cup {i}]
    /\ Goto(l, i, "first")
    /\ UNCHANGED <<restOfWork, poolVars, sent, modify, held>>

(* BS: the change stays with the payer, the other banknote goes to the     *)
(* payee.                                                                  *)
AddFirst(l, i) ==
    LET tx == Txs(l)[i] IN
    /\ at[l][i] = "first"
    /\ Add(l, i, tx.note1, tx.from)
    /\ Goto(l, i, "second")
    /\ UNCHANGED <<restOfWork, chanVars, held>>

AddSecond(l, i) ==
    LET tx == Txs(l)[i] IN
    /\ at[l][i] = "second"
    /\ Add(l, i, tx.note2, tx.to)
    /\ Goto(l, i, "done")
    /\ UNCHANGED <<restOfWork, chanVars, held>>

(* BT of an unknown banknote worth InitAmount: it is taken for an initial  *)
(* banknote and created on the spot.                                       *)
Materialise(l, i) ==
    LET tx == Txs(l)[i] IN
    /\ at[l][i] = "materialise"
    /\ Add(l, i, tx.note, tx.to)
    /\ held' = [held EXCEPT ![l][i] = <<tx.note, <<l, i>>>>]
    /\ Goto(l, i, "ownerHi")
    /\ UNCHANGED <<restOfWork, chanVars>>

(* banknote.Owner = tx.To: 20 bytes of a shared object, no lock held, so   *)
(* two stores that another worker's stores can come between.               *)
WriteOwner(l, i) ==
    LET half == IF at[l][i] = "ownerHi" THEN 1 ELSE 2 IN
    /\ at[l][i] \in {"ownerHi", "ownerLo"}
    /\ owner' = [owner EXCEPT ![held[l][i]][half] = Txs(l)[i].to]
    /\ Goto(l, i, IF half = 1 THEN "ownerLo" ELSE "store")
    /\ UNCHANGED <<restOfWork, pool, chanVars, held>>

(* SetBanknote(banknote)                                                   *)
Store(l, i) ==
    /\ at[l][i] = "store"
    /\ pool' = [pool EXCEPT ![held[l][i][1]] = held[l][i]]
    /\ Goto(l, i, "done")
    /\ UNCHANGED <<restOfWork, owner, chanVars, held>>

-----------------------------------------------------------------------------
(* The state-trie goroutine: it folds the records it receives, and once    *)
(* the channel is closed and empty it applies and commits them.            *)
ChargeOnly(m, tx) == Charge(m, tx.from, tx.amount)     \* variant: a BR is taken for a BG
Record(m, tx) ==
    IF tx.kind = "BG" THEN Charge(m, tx.from, tx.amount) ELSE Credit(m, tx.to, tx.amount)

Receive(l) ==
    /\ \E i \in modify[l] :
         /\ modify' = [modify EXCEPT ![l] = @ \ {i}]
         /\ modifySet' = [modifySet EXCEPT ![l] = Record(@, Txs(l)[i])]
    /\ UNCHANGED <<workload, mainVars, poolVars, committed, trie, sent, recycle, workVars, panicked>>

Commit(l) ==
    /\ ModifyClosed(l)
    /\ modify[l] = {}
    /\ ~committed[l]
    /\ trie' = [trie EXCEPT ![l] = ApplyModifySet(@, modifySet[l])]
    /\ committed' = [committed EXCEPT ![l] = TRUE]
    /\ UNCHANGED <<workload, mainVars, poolVars, modifySet, chanVars, workVars, panicked>>

-----------------------------------------------------------------------------
MainStep(l) ==
    \/ ResetWorkNumber(l) \/ TestWorkNumber(l) \/ FloorWorkNumber(l)
    \/ LoadWorkNumber(l) \/ DoubleWorkNumber(l)
    \/ AddWorkers(l) \/ SpawnWorker(l) \/ EndSpawning(l)
    \/ Drain(l) \/ EndDrain(l) \/ EndPhase(l) \/ Finish(l)

TaskStep(l, i) ==
    \/ SendModify(l, i) \/ SendOnClosed(l, i) \/ Issue(l, i)
    \/ Lookup(l, i) \/ Remove(l, i) \/ Recycle(l, i)
    \/ AddFirst(l, i) \/ AddSecond(l, i)
    \/ Materialise(l, i) \/ WriteOwner(l, i) \/ Store(l, i)

LedgerStep(l) ==
    \/ Dispatch(l)
    \/ MainStep(l)
    \/ \E p \in PhaseIds : TakeTx(l, p) \/ ExitWorker(l, p) \/ NegativeWaitGroup(l, p)
    \/ \E i \in DOMAIN Txs(l) : TaskStep(l, i)
    \/ Receive(l)
    \/ Commit(l)

AllFinished == \A l \in Ledgers : pc[l] = "finished"

(* The block is processed, or the process is gone: nothing more happens.   *)
Terminated == (AllFinished \/ panicked) /\ UNCHANGED vars

Next == \/ ~panicked /\ \E l \in Ledgers : LedgerStep(l)
        \/ Terminated

Spec == Init /\ [][Next]_vars

(* Go's scheduler runs some goroutine as long as one can run.  No step can *)
(* be repeated, so this is all the fairness that progress needs.           *)
FairSpec == Spec /\ WF_vars(Next)

-----------------------------------------------------------------------------
(* Properties.                                                             *)

TypeOK ==
    /\ workload \in Workloads
    /\ pool \in [Banknotes -> Objects \cup {NoBanknote}]
    /\ owner \in [Objects -> Addresses \X Addresses]
    /\ workNumber \in Nat
    /\ pc \in [Ledgers -> {"reset", "floor", "one", "load", "double", "add", "spawn", "drain",
                           "wait", "ack", "finished"}]
    /\ phase \in [Ledgers -> 1..5]
    /\ loaded \in [Ledgers -> Nat]
    /\ added \in [Ledgers -> [PhaseIds -> Nat]]
    /\ spawned \in [Ledgers -> [PhaseIds -> Nat]]
    /\ wg \in [Ledgers -> Nat]
    /\ sent \in [Ledgers -> Nat]
    /\ live \in [Ledgers -> [PhaseIds -> Nat]]
    /\ DOMAIN at = Ledgers
    /\ \A l \in Ledgers : at[l] \in [DOMAIN Txs(l) -> Stages]
    /\ DOMAIN held = Ledgers
    /\ \A l \in Ledgers : held[l] \in [DOMAIN Txs(l) -> Objects \cup {NoBanknote}]
    /\ recycle \in [Ledgers -> SUBSET TaskIds]
    /\ modify \in [Ledgers -> SUBSET TaskIds]
    /\ \A l \in Ledgers : modify[l] \subseteq DOMAIN Txs(l)
    /\ modifySet \in [Ledgers -> ModifySets]
    /\ committed \in [Ledgers -> BOOLEAN]
    /\ trie \in [Ledgers -> Tries]
    /\ panicked \in BOOLEAN

(* wg.Add was told of exactly the workers that were started, and of one at *)
(* least, in every phase up to p: cc.WorkNumberPerPLedger did not change   *)
(* under the ledger's feet.                                                *)
Matched(l, p) == added[l][p] = spawned[l][p] /\ added[l][p] > 0
WellCounted(l, p) == \A q \in 1..p : Matched(l, q)

PhaseDone(l, p) == \A i \in Tasks(l, p) : at[l][i] = "done"

(* A ledger whose worker count held still goes on to the next phase only   *)
(* when every transaction of the current one is fully applied: the wait    *)
(* group, the closing of the channels and the workers' loops together make *)
(* a barrier inside the ledger (wg.Wait, lines 275, 305, 336, 363).        *)
PhaseComplete ==
    \A l \in Ledgers : \A p \in PhaseIds :
        phase[l] > p /\ WellCounted(l, p) => PhaseDone(l, p)

(* The same without the condition on the worker count, which is what the   *)
(* log lines "... processed" after each wg.Wait say.                       *)
PhaseOrder ==
    \A l \in Ledgers : \A p \in PhaseIds : phase[l] > p => PhaseDone(l, p)

(* The dispatcher closes the BG channel only after it has sent everything, *)
(* and nobody receives BS, BT or BR before the BG phase ends: a ledger     *)
(* whose share of a kind exceeds PLedgerInnerChanSize never leaves BG.     *)
Fits(l) == \A p \in 2..4 : Cardinality(Tasks(l, p)) <= PLedgerInnerChanSize
OnlyFittingLeavesBG ==
    \A l \in Ledgers : phase[l] > 1 /\ WellCounted(l, 1) => Fits(l)

(* The process panics (negative wait group, send on a closed channel) only *)
(* after some ledger started a different number of workers than it waits   *)
(* for.                                                                    *)
Miscounted(l) ==
    \E p \in PhaseIds : \/ spawned[l][p] > added[l][p]
                        \/ phase[l] > p /\ ~Matched(l, p)
PanicOnlyWhenMiscounted == panicked => \E l \in Ledgers : Miscounted(l)

(* A block that fits its channels is processed to the end.                 *)
Terminates == (\A l \in Ledgers : Fits(l)) => <>AllFinished
=============================================================================
