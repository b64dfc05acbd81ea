-------------------------- MODULE PeripheralProofs --------------------------
(***************************************************************************)
(* Theorems about the peripheral ledgers, for every number of ledgers,     *)
(* workers and transactions and every capacity of the channels: first how  *)
(* a block is processed (PeripheralLedger), then what a processed block    *)
(* leaves behind (PeripheralOutcome), whatever the order in which the      *)
(* workers of the ledgers came by.                                         *)
(***************************************************************************)
EXTENDS PeripheralOutcome, ListsAndSums

-----------------------------------------------------------------------------
(* The operators of AccountLedger keep accounts and tries what they are.   *)
LEMMA DeductType ==
    ASSUME NEW acc \in Account, NEW v \in Nat
    PROVE  Deduct(acc, v) \in Account
  BY DEF Deduct, Affords, Account

(* BumpNonce gives an account.                                             *)
LEMMA BumpNonceType ==
    ASSUME NEW acc \in Account
    PROVE  BumpNonce(acc) \in Account
  BY DEF BumpNonce, Account

(* So does one turn of the loop over accountModifySet, whatever the net.   *)
LEMMA SettleType ==
    ASSUME NEW acc \in Account, NEW net \in Int
    PROVE  Settle(acc, net) \in Account
  <1>1. CASE net < 0
    <2>1. -net \in Nat
      BY <1>1
    <2>2. Deduct(acc, -net) \in Account
      BY <2>1, DeductType
    <2>3. Settle(acc, net) = BumpNonce(Deduct(acc, -net))
      BY <1>1 DEF Settle
    <2> QED  BY <2>2, <2>3, BumpNonceType
  <1>2. CASE ~(net < 0)
    <2>1. Deposit(acc, net) \in Account
      BY <1>2 DEF Deposit, Account
    <2>2. Settle(acc, net) = BumpNonce(Deposit(acc, net))
      BY <1>2 DEF Settle
    <2> QED  BY <2>1, <2>2, BumpNonceType
  <1> QED  BY <1>1, <1>2

(* Folding in a BG or a BR keeps accountModifySet well formed.             *)
LEMMA RecordType ==
    ASSUME NEW m \in ModifySets, NEW tx \in BanknoteTx
    PROVE  Record(m, tx) \in ModifySets
  <1>1. /\ tx.from \in Accounts \cup {ZeroAddress}
        /\ tx.to \in Accounts \cup {ZeroAddress}
        /\ tx.amount \in Nat
    BY DEF BanknoteTx, Addresses
  <1> QED  BY <1>1 DEF Record, Charge, Credit, ModifySets

(* The state trie after the block is a trie.                               *)
LEMMA ApplyModifySetType ==
    ASSUME NEW t \in Tries, NEW m \in ModifySets
    PROVE  ApplyModifySet(t, m) \in Tries
  <1>1. ASSUME NEW a \in Accounts
        PROVE  /\ Settle(t[a], m.net[a]) \in Account
               /\ t[a] \in Account
    <2>1. t[a] \in Account /\ m.net[a] \in Int
      BY DEF Tries, ModifySets
    <2> QED  BY <2>1, SettleType
  <1> QED  BY <1>1 DEF ApplyModifySet, Tries

-----------------------------------------------------------------------------
(* Type correctness.                                                       *)

(* What is known of a transaction of a ledger and of the worker it has.    *)
LEMMA TaskType ==
    ASSUME TypeOK, NEW l \in Ledgers, NEW i \in DOMAIN Txs(l)
    PROVE  /\ Txs(l)[i] \in BanknoteTx
           /\ i \in TaskIds
           /\ <<l, i>> \in Makers
           /\ at[l][i] \in Stages
           /\ held[l][i] \in Objects \cup {NoBanknote}
  <1>1. /\ workload.txs \in [Ledgers -> Seq(BanknoteTx)]
        /\ Len(Txs(l)) <= MaxLedgerTxs
        /\ MaxLedgerTxs \in Nat
    BY PeripheralAssumption DEF TypeOK, Txs
  <1>2. Txs(l) \in Seq(BanknoteTx)
    BY <1>1 DEF Txs
  <1>3. Txs(l)[i] \in BanknoteTx /\ i \in 1..Len(Txs(l))
    BY <1>2
  <1>4. i \in TaskIds
    BY <1>1, <1>2, <1>3 DEF TaskIds
  <1> QED  BY <1>3, <1>4 DEF TypeOK, Makers

(* The structures are well formed when the block arrives.                  *)
LEMMA TypeInit == Init => TypeOK
  <1> SUFFICES ASSUME Init PROVE TypeOK
    OBVIOUS
  <1>1. workload \in Workloads /\ workload.owner \in [Banknotes -> Addresses]
    BY PeripheralAssumption DEF Init
  <1>2. \A b \in Banknotes : <<b, NoTask>> \in Objects
    BY DEF Objects, Makers
  <1>3. pool \in [Banknotes -> Objects \cup {NoBanknote}]
    BY <1>2 DEF Init
  <1>4. owner \in [Objects -> Addresses \X Addresses]
    <2>1. \A o \in Objects : o[1] \in Banknotes
      BY DEF Objects
    <2>2. \A o \in Objects : <<workload.owner[o[1]], workload.owner[o[1]]>> \in Addresses \X Addresses
      BY <1>1, <2>1
    <2> QED  BY <2>2 DEF Init
  <1>5. modifySet \in [Ledgers -> ModifySets]
    BY DEF Init, NoModification, ModifySets
  <1>6. trie \in [Ledgers -> Tries]
    BY AccountAssumption DEF Init, EmptyTrie, FreshAccount, Tries, Account
  <1>7. \A l \in Ledgers : /\ at[l] \in [DOMAIN Txs(l) -> Stages]
                           /\ held[l] \in [DOMAIN Txs(l) -> Objects \cup {NoBanknote}]
    BY DEF Init, Stages
  <1>8. DOMAIN at = Ledgers /\ DOMAIN held = Ledgers
    BY DEF Init
  <1>9. /\ pc \in [Ledgers -> {"reset"}]
        /\ phase \in [Ledgers -> {1}]
        /\ loaded \in [Ledgers -> Nat] /\ wg \in [Ledgers -> Nat] /\ sent \in [Ledgers -> Nat]
        /\ added \in [Ledgers -> [PhaseIds -> Nat]]
        /\ spawned \in [Ledgers -> [PhaseIds -> Nat]]
        /\ live \in [Ledgers -> [PhaseIds -> Nat]]
    BY DEF Init
  <1>10. /\ recycle \in [Ledgers -> SUBSET TaskIds]
         /\ modify \in [Ledgers -> SUBSET TaskIds]
         /\ \A l \in Ledgers : modify[l] \subseteq DOMAIN Txs(l)
         /\ committed \in [Ledgers -> BOOLEAN]
         /\ workNumber \in Nat /\ panicked \in BOOLEAN
    BY DEF Init
  <1> QED  BY <1>1, <1>3, <1>4, <1>5, <1>6, <1>7, <1>8, <1>9, <1>10 DEF TypeOK

(* A main goroutine is past its last phase exactly when it waits for its   *)
(* state trie or has returned.                                             *)
PhaseOK == \A l \in Ledgers : phase[l] = 5 <=> pc[l] \in {"ack", "finished"}

(* The steps of the main goroutine.                                        *)
LEMMA TypeMain ==
    ASSUME TypeOK, PhaseOK, NEW l \in Ledgers, MainStep(l)
    PROVE  TypeOK' /\ PhaseOK'
  <1> USE DEF TypeOK, counters, others, poolVars, trieVars, chanVars, workVars
  <1>0. BaseWorkers \in Nat /\ phase[l] \in 1..5
    BY PeripheralAssumption
  <1>a. ASSUME pc[l] \notin {"ack", "finished"}
        PROVE  phase[l] \in PhaseIds
    BY <1>0, <1>a DEF PhaseOK, PhaseIds
  <1>1. CASE ResetWorkNumber(l)
    BY <1>0, <1>1 DEF ResetWorkNumber, Txs, PhaseOK
  <1>2. CASE TestWorkNumber(l)
    BY <1>2 DEF TestWorkNumber, Txs, PhaseOK
  <1>3. CASE FloorWorkNumber(l)
    BY <1>3 DEF FloorWorkNumber, Txs, PhaseOK
  <1>4. CASE LoadWorkNumber(l)
    BY <1>4 DEF LoadWorkNumber, Txs, PhaseOK
  <1>5. CASE DoubleWorkNumber(l)
    BY <1>5 DEF DoubleWorkNumber, Txs, PhaseOK
  <1>6. CASE AddWorkers(l)
    <2>1. phase[l] \in PhaseIds /\ added[l] \in [PhaseIds -> Nat]
      BY <1>6, <1>a DEF AddWorkers
    <2>2. added' \in [Ledgers -> [PhaseIds -> Nat]]
      BY <1>6, <2>1 DEF AddWorkers
    <2> QED  BY <1>6, <2>2 DEF AddWorkers, Txs, PhaseOK
  <1>7. CASE SpawnWorker(l)
    <2>1. /\ phase[l] \in PhaseIds
          /\ spawned[l] \in [PhaseIds -> Nat]
          /\ live[l] \in [PhaseIds -> Nat]
      BY <1>7, <1>a DEF SpawnWorker
    <2>2. /\ [spawned[l] EXCEPT ![phase[l]] = @ + 1] \in [PhaseIds -> Nat]
          /\ [live[l] EXCEPT ![phase[l]] = @ + 1] \in [PhaseIds -> Nat]
      BY <2>1
    <2>3. /\ spawned' \in [Ledgers -> [PhaseIds -> Nat]]
          /\ live' \in [Ledgers -> [PhaseIds -> Nat]]
      BY <1>7, <2>1, <2>2 DEF SpawnWorker
    <2>4. pc' \in [Ledgers -> {"reset", "floor", "one", "load", "double", "add", "spawn",
                              "drain", "wait", "ack", "finished"}]
      BY <1>7 DEF SpawnWorker
    <2>5. PhaseOK'
      BY <1>7 DEF SpawnWorker, PhaseOK
    <2> QED  BY <1>7, <2>3, <2>4, <2>5 DEF SpawnWorker, Txs
  <1>8. CASE EndSpawning(l)
    BY <1>8 DEF EndSpawning, Txs, PhaseOK
  <1>9. CASE Drain(l)
    <2>1. PICK i \in recycle[l] :
            /\ recycle' = [recycle EXCEPT ![l] = @ \ {i}]
            /\ pool' = [pool EXCEPT ![Txs(l)[i].note] = NoBanknote]
      BY <1>9 DEF Drain
    <2>2. recycle' \in [Ledgers -> SUBSET TaskIds]
      BY <2>1
    <2>3. pool' \in [Banknotes -> Objects \cup {NoBanknote}]
      BY <2>1
    <2> QED  BY <1>9, <2>2, <2>3 DEF Drain, mainVars, Txs, PhaseOK
  <1>10. CASE EndDrain(l)
    BY <1>10 DEF EndDrain, Txs, PhaseOK
  <1>11. CASE EndPhase(l)
    <2>1. phase[l] \in PhaseIds
      BY <1>11, <1>a DEF EndPhase
    <2> QED  BY <1>11, <2>1 DEF EndPhase, Txs, PhaseOK, PhaseIds
  <1>12. CASE Finish(l)
    BY <1>12 DEF Finish, Txs, PhaseOK
  <1> QED
    BY <1>1, <1>2, <1>3, <1>4, <1>5, <1>6, <1>7, <1>8, <1>9, <1>10, <1>11, <1>12
       DEF MainStep

(* The steps of a worker that holds a transaction.                         *)
LEMMA TypeTask ==
    ASSUME TypeOK, PhaseOK, NEW l \in Ledgers, NEW i \in DOMAIN Txs(l), TaskStep(l, i)
    PROVE  TypeOK' /\ PhaseOK'
  <1> DEFINE tx == Txs(l)[i]
  <1>0. /\ tx.note \in Banknotes /\ tx.note1 \in Banknotes /\ tx.note2 \in Banknotes
        /\ tx.from \in Addresses /\ tx.to \in Addresses
        /\ i \in TaskIds /\ <<l, i>> \in Makers
        /\ held[l][i] \in Objects \cup {NoBanknote}
    BY TaskType DEF BanknoteTx
  <1>a. ASSUME NEW stage \in Stages, Goto(l, i, stage), UNCHANGED workload
        PROVE  DOMAIN at' = Ledgers /\ \A m \in Ledgers : at'[m] \in [DOMAIN Txs(m)' -> Stages]
    BY <1>a DEF TypeOK, Goto, Txs
  <1>b. ASSUME NEW b \in Banknotes, NEW holder \in Addresses, Add(l, i, b, holder)
        PROVE  /\ pool' \in [Banknotes -> Objects \cup {NoBanknote}]
               /\ owner' \in [Objects -> Addresses \X Addresses]
    <2>1. <<b, <<l, i>>>> \in Objects /\ <<holder, holder>> \in Addresses \X Addresses
      BY <1>0, <1>b DEF Objects
    <2> QED  BY <1>b, <2>1 DEF Add, TypeOK
  <1> USE DEF mainVars, poolVars, trieVars, chanVars, workVars, restOfWork
  <1>1. CASE SendModify(l, i)
    <2>1. /\ modify' \in [Ledgers -> SUBSET TaskIds]
          /\ \A m \in Ledgers : modify'[m] \subseteq DOMAIN Txs(m)'
      BY <1>0, <1>1 DEF SendModify, TypeOK, Txs
    <2>2. DOMAIN at' = Ledgers /\ \A m \in Ledgers : at'[m] \in [DOMAIN Txs(m)' -> Stages]
      BY <1>1, <1>a DEF SendModify, Stages
    <2> QED  BY <1>1, <2>1, <2>2 DEF SendModify, TypeOK, Txs, PhaseOK
  <1>2. CASE SendOnClosed(l, i)
    BY <1>2 DEF SendOnClosed, Crash, TypeOK, Txs, PhaseOK
  <1>3. CASE Issue(l, i)
    <2>1. /\ pool' \in [Banknotes -> Objects \cup {NoBanknote}]
          /\ owner' \in [Objects -> Addresses \X Addresses]
      BY <1>0, <1>3, <1>b DEF Issue
    <2>2. DOMAIN at' = Ledgers /\ \A m \in Ledgers : at'[m] \in [DOMAIN Txs(m)' -> Stages]
      BY <1>3, <1>a DEF Issue, Stages
    <2> QED  BY <1>3, <2>1, <2>2 DEF Issue, TypeOK, Txs, PhaseOK
  <1>4. CASE Lookup(l, i)
    <2>1. AfterLookup(tx, pool[tx.note] # NoBanknote) \in Stages
      BY DEF AfterLookup, AfterLookupBS, AfterLookupBT, AfterLookupBR, Stages
    <2>2. DOMAIN at' = Ledgers /\ \A m \in Ledgers : at'[m] \in [DOMAIN Txs(m)' -> Stages]
      BY <1>4, <2>1, <1>a DEF Lookup
    <2>3. pool[tx.note] \in Objects \cup {NoBanknote}
      BY <1>0 DEF TypeOK
    <2>4. /\ DOMAIN held' = Ledgers
          /\ \A m \in Ledgers : held'[m] \in [DOMAIN Txs(m)' -> Objects \cup {NoBanknote}]
      BY <1>4, <2>3 DEF Lookup, TypeOK, Txs
    <2> QED  BY <1>4, <2>2, <2>4 DEF Lookup, TypeOK, PhaseOK, Txs
  <1>5. CASE Remove(l, i)
    <2>1. pool' \in [Banknotes -> Objects \cup {NoBanknote}]
      BY <1>5 DEF Remove, TypeOK
    <2>2. DOMAIN at' = Ledgers /\ \A m \in Ledgers : at'[m] \in [DOMAIN Txs(m)' -> Stages]
      BY <1>5, <1>a DEF Remove, Stages
    <2> QED  BY <1>5, <2>1, <2>2 DEF Remove, TypeOK, Txs, PhaseOK
  <1>6. CASE Recycle(l, i)
    <2>1. recycle' \in [Ledgers -> SUBSET TaskIds]
      BY <1>0, <1>6 DEF Recycle, TypeOK
    <2>2. DOMAIN at' = Ledgers /\ \A m \in Ledgers : at'[m] \in [DOMAIN Txs(m)' -> Stages]
      BY <1>6, <1>a DEF Recycle, Stages
    <2> QED  BY <1>6, <2>1, <2>2 DEF Recycle, TypeOK, Txs, PhaseOK
  <1>7. CASE AddFirst(l, i)
    <2>1. /\ pool' \in [Banknotes -> Objects \cup {NoBanknote}]
          /\ owner' \in [Objects -> Addresses \X Addresses]
      BY <1>0, <1>7, <1>b DEF AddFirst
    <2>2. DOMAIN at' = Ledgers /\ \A m \in Ledgers : at'[m] \in [DOMAIN Txs(m)' -> Stages]
      BY <1>7, <1>a DEF AddFirst, Stages
    <2> QED  BY <1>7, <2>1, <2>2 DEF AddFirst, TypeOK, Txs, PhaseOK
  <1>8. CASE AddSecond(l, i)
    <2>1. /\ pool' \in [Banknotes -> Objects \cup {NoBanknote}]
          /\ owner' \in [Objects -> Addresses \X Addresses]
      BY <1>0, <1>8, <1>b DEF AddSecond
    <2>2. DOMAIN at' = Ledgers /\ \A m \in Ledgers : at'[m] \in [DOMAIN Txs(m)' -> Stages]
      BY <1>8, <1>a DEF AddSecond, Stages
    <2> QED  BY <1>8, <2>1, <2>2 DEF AddSecond, TypeOK, Txs, PhaseOK
  <1>9. CASE Materialise(l, i)
    <2>1. /\ pool' \in [Banknotes -> Objects \cup {NoBanknote}]
          /\ owner' \in [Objects -> Addresses \X Addresses]
      BY <1>0, <1>9, <1>b DEF Materialise
    <2>2. DOMAIN at' = Ledgers /\ \A m \in Ledgers : at'[m] \in [DOMAIN Txs(m)' -> Stages]
      BY <1>9, <1>a DEF Materialise, Stages
    <2>3. <<tx.note, <<l, i>>>> \in Objects
      BY <1>0 DEF Objects
    <2>4. /\ DOMAIN held' = Ledgers
          /\ \A m \in Ledgers : held'[m] \in [DOMAIN Txs(m)' -> Objects \cup {NoBanknote}]
      BY <1>9, <2>3 DEF Materialise, TypeOK, Txs
    <2> QED  BY <1>9, <2>1, <2>2, <2>4 DEF Materialise, TypeOK, PhaseOK, Txs
  <1>10. CASE WriteOwner(l, i)
    <2> DEFINE half == IF at[l][i] = "ownerHi" THEN 1 ELSE 2
    <2>1. half \in {1, 2} /\ owner' = [owner EXCEPT ![held[l][i]][half] = tx.to]
      BY <1>10 DEF WriteOwner
    <2>2. ASSUME NEW pair \in Addresses \X Addresses, NEW h \in {1, 2}
          PROVE  [pair EXCEPT ![h] = tx.to] \in Addresses \X Addresses
      BY <1>0, <2>2
    <2>3. owner' \in [Objects -> Addresses \X Addresses]
      <3> DEFINE o == held[l][i]
      <3>1. owner \in [Objects -> Addresses \X Addresses]
        BY DEF TypeOK
      <3>2. owner' = [owner EXCEPT ![o] = [owner[o] EXCEPT ![half] = tx.to]]
        BY <2>1
      <3> HIDE DEF o, half
      <3>3. CASE o \in Objects
        <4>1. [owner[o] EXCEPT ![half] = tx.to] \in Addresses \X Addresses
          BY <2>1, <2>2, <3>1, <3>3
        <4> QED  BY <3>1, <3>2, <4>1
      <3>4. CASE o \notin Objects
        BY <3>1, <3>2, <3>4
      <3> QED  BY <3>3, <3>4
    <2>4. DOMAIN at' = Ledgers /\ \A m \in Ledgers : at'[m] \in [DOMAIN Txs(m)' -> Stages]
      BY <1>10, <1>a DEF WriteOwner, Stages
    <2> QED  BY <1>10, <2>3, <2>4 DEF WriteOwner, TypeOK, Txs, PhaseOK
  <1>11. CASE Store(l, i)
    <2>1. pool' \in [Banknotes -> Objects \cup {NoBanknote}]
      BY <1>0, <1>11 DEF Store, TypeOK
    <2>2. DOMAIN at' = Ledgers /\ \A m \in Ledgers : at'[m] \in [DOMAIN Txs(m)' -> Stages]
      BY <1>11, <1>a DEF Store, Stages
    <2> QED  BY <1>11, <2>1, <2>2 DEF Store, TypeOK, Txs, PhaseOK
  <1> QED
    BY <1>1, <1>2, <1>3, <1>4, <1>5, <1>6, <1>7, <1>8, <1>9, <1>10, <1>11 DEF TaskStep

(* The steps of the dispatcher, of a worker between two transactions and   *)
(* of the state-trie goroutine.                                            *)
LEMMA TypeRest ==
    ASSUME TypeOK, PhaseOK, NEW l \in Ledgers,
           \/ Dispatch(l) \/ Receive(l) \/ Commit(l)
           \/ \E p \in PhaseIds : TakeTx(l, p) \/ ExitWorker(l, p) \/ NegativeWaitGroup(l, p)
    PROVE  TypeOK' /\ PhaseOK'
  <1> USE DEF mainVars, poolVars, trieVars, chanVars, workVars, restOfWork
  <1>1. CASE Dispatch(l)
    <2>1. sent' \in [Ledgers -> Nat]
      BY <1>1 DEF Dispatch, TypeOK
    <2> QED  BY <1>1, <2>1 DEF Dispatch, TypeOK, Txs, PhaseOK
  <1>2. CASE Receive(l)
    <2>1. PICK i \in modify[l] :
            /\ modify' = [modify EXCEPT ![l] = @ \ {i}]
            /\ modifySet' = [modifySet EXCEPT ![l] = Record(@, Txs(l)[i])]
      BY <1>2 DEF Receive
    <2>2. /\ modify' \in [Ledgers -> SUBSET TaskIds]
          /\ \A m \in Ledgers : modify'[m] \subseteq DOMAIN Txs(m)'
      BY <1>2, <2>1 DEF Receive, TypeOK, Txs
    <2>3. Record(modifySet[l], Txs(l)[i]) \in ModifySets
      <3>1. i \in DOMAIN Txs(l) /\ modifySet[l] \in ModifySets
        BY <2>1 DEF TypeOK
      <3>2. Txs(l)[i] \in BanknoteTx
        BY <3>1, TaskType
      <3> QED  BY <3>1, <3>2, RecordType
    <2>4. modifySet' \in [Ledgers -> ModifySets]
      BY <2>1, <2>3 DEF TypeOK
    <2> QED  BY <1>2, <2>2, <2>4 DEF Receive, TypeOK, Txs, PhaseOK
  <1>3. CASE Commit(l)
    <2>1. trie' \in [Ledgers -> Tries]
      BY <1>3, ApplyModifySetType DEF Commit, TypeOK
    <2> QED  BY <1>3, <2>1 DEF Commit, TypeOK, Txs, PhaseOK
  <1>4. ASSUME NEW p \in PhaseIds, TakeTx(l, p)
        PROVE  TypeOK' /\ PhaseOK'
    <2>1. PICK i \in Queue(l, p) : Goto(l, i, FirstStage[Phases[p]])
      BY <1>4 DEF TakeTx
    <2>2. FirstStage[Phases[p]] \in Stages
      BY DEF FirstStage, Phases, PhaseIds, Stages
    <2>3. DOMAIN at' = Ledgers /\ \A m \in Ledgers : at'[m] \in [DOMAIN Txs(m)' -> Stages]
      BY <1>4, <2>1, <2>2 DEF TakeTx, Goto, TypeOK, Txs
    <2> QED  BY <1>4, <2>3 DEF TakeTx, TypeOK, Txs, PhaseOK
  <1>5. ASSUME NEW p \in PhaseIds, ExitWorker(l, p)
        PROVE  TypeOK' /\ PhaseOK'
    <2>1. live[l] \in [PhaseIds -> Nat] /\ wg[l] \in Nat
      BY DEF TypeOK
    <2>2. live[l][p] > 0
      <3>1. live[l][p] > Cardinality(Active(l, p))
        BY <1>5 DEF ExitWorker, Idle
      <3>2. Cardinality(Active(l, p)) \in Nat
        <4>1. Txs(l) \in Seq(BanknoteTx)
          BY PeripheralAssumption DEF TypeOK, Txs
        <4>2. Active(l, p) \subseteq 1..Len(Txs(l))
          BY <4>1 DEF Active, Tasks
        <4>3. IsFiniteSet(1..Len(Txs(l)))
          BY <4>1, FS_Interval
        <4>4. IsFiniteSet(Active(l, p))
          BY <4>2, <4>3, FS_Subset
        <4> QED  BY <4>4, FS_CardinalityType
      <3> QED  BY <2>1, <3>1, <3>2
    <2>3. [live[l] EXCEPT ![p] = @ - 1] \in [PhaseIds -> Nat] /\ wg[l] - 1 \in Nat
      BY <1>5, <2>1, <2>2 DEF ExitWorker
    <2>4. live' \in [Ledgers -> [PhaseIds -> Nat]] /\ wg' \in [Ledgers -> Nat]
      BY <1>5, <2>3 DEF ExitWorker, TypeOK
    <2> QED  BY <1>5, <2>4 DEF ExitWorker, TypeOK, Txs, PhaseOK
  <1>6. ASSUME NEW p \in PhaseIds, NegativeWaitGroup(l, p)
        PROVE  TypeOK' /\ PhaseOK'
    BY <1>6 DEF NegativeWaitGroup, Crash, TypeOK, Txs, PhaseOK
  <1> QED  BY <1>1, <1>2, <1>3, <1>4, <1>5, <1>6

(* Every state of every run is well typed: what the goroutines keep in the *)
(* shared and private structures of banknote_processor.go is always of the *)
(* kind the next step expects.                                             *)
THEOREM TypeCorrect == Spec => [](TypeOK /\ PhaseOK)
  <1>1. Init => TypeOK /\ PhaseOK
    BY TypeInit DEF Init, PhaseOK
  <1>2. TypeOK /\ PhaseOK /\ [Next]_vars => TypeOK' /\ PhaseOK'
    <2> SUFFICES ASSUME TypeOK, PhaseOK, [Next]_vars PROVE TypeOK' /\ PhaseOK'
      OBVIOUS
    <2>1. ASSUME NEW l \in Ledgers, LedgerStep(l) PROVE TypeOK' /\ PhaseOK'
      BY <2>1, TypeMain, TypeTask, TypeRest DEF LedgerStep
    <2>2. CASE UNCHANGED vars
      BY <2>2 DEF vars, mainVars, poolVars, trieVars, chanVars, workVars, TypeOK, Txs, PhaseOK
    <2> QED  BY <2>1, <2>2 DEF Next, Terminated
  <1> QED  BY <1>1, <1>2, PTL DEF Spec
-----------------------------------------------------------------------------
(* The wait group inside a ledger.  In phase p of ledger l: workers return *)
(* only once their channel is closed and empty; a worker holds one         *)
(* transaction at most; as long as the earlier phases left no worker       *)
(* behind, the counter of the wait group is the number of workers waited   *)
(* for minus those that returned; and a well-counted phase leaves none.    *)
PreAdd == {"reset", "floor", "one", "load", "double", "add"}

CountAt(l, p) ==
    /\ live[l][p] <= spawned[l][p]
    /\ Cardinality(Active(l, p)) <= live[l][p]
    /\ live[l][p] < spawned[l][p] => Closed(l, p) /\ Queue(l, p) = {}
    /\ p > phase[l] \/ (p = phase[l] /\ pc[l] \in PreAdd)
          => added[l][p] = 0 /\ spawned[l][p] = 0
    /\ p = phase[l] /\ WellCounted(l, p - 1)
          => wg[l] + spawned[l][p] = added[l][p] + live[l][p]
    /\ p < phase[l] /\ WellCounted(l, p) => live[l][p] = 0

CountInv(l) == \A p \in PhaseIds : CountAt(l, p)

IInv == TypeOK /\ PhaseOK /\ \A l \in Ledgers : CountInv(l)

(* The transactions of a kind are finitely many, and so are those at work. *)
LEMMA FiniteTasks ==
    ASSUME TypeOK, NEW l \in Ledgers, NEW p \in PhaseIds
    PROVE  /\ Txs(l) \in Seq(BanknoteTx)
           /\ Tasks(l, p) \subseteq 1..Len(Txs(l))
           /\ IsFiniteSet(Tasks(l, p))
           /\ IsFiniteSet(Active(l, p))
           /\ Cardinality(Active(l, p)) \in Nat
  <1>1. Txs(l) \in Seq(BanknoteTx)
    BY PeripheralAssumption DEF TypeOK, Txs
  <1>2. Tasks(l, p) \subseteq 1..Len(Txs(l)) /\ Active(l, p) \subseteq Tasks(l, p)
    BY <1>1 DEF Active, Tasks
  <1>3. IsFiniteSet(1..Len(Txs(l)))
    BY <1>1, FS_Interval
  <1>4. IsFiniteSet(Tasks(l, p)) /\ IsFiniteSet(Active(l, p))
    BY <1>2, <1>3, FS_Subset
  <1> QED  BY <1>1, <1>2, <1>4, FS_CardinalityType

(* What a ledger's counts depend on.                                       *)
LEMMA CountFrame ==
    ASSUME NEW m \in Ledgers, CountInv(m), workload' = workload,
           phase'[m] = phase[m], pc'[m] = pc[m], added'[m] = added[m],
           spawned'[m] = spawned[m], wg'[m] = wg[m], sent'[m] = sent[m],
           live'[m] = live[m], at'[m] = at[m]
    PROVE  CountInv(m)'
  <1>1. Txs(m)' = Txs(m) /\ \A p \in PhaseIds : Tasks(m, p)' = Tasks(m, p)
    BY DEF Txs, Tasks
  <1>2. \A p \in PhaseIds : Active(m, p)' = Active(m, p) /\ Queue(m, p)' = Queue(m, p)
    BY <1>1 DEF Active, Queue
  <1>3. \A p \in PhaseIds : Closed(m, p)' = Closed(m, p)
    BY <1>1 DEF Closed
  <1>4. \A n : WellCounted(m, n)' = WellCounted(m, n)
    BY DEF WellCounted, Matched
  <1>5. ASSUME NEW p \in PhaseIds PROVE CountAt(m, p)'
    <2>1. CountAt(m, p)
      BY DEF CountInv
    <2> QED  BY <1>2, <1>3, <1>4, <2>1 DEF CountAt
  <1> QED  BY <1>5 DEF CountInv

(* A step inside a transaction never makes a task active or waiting.       *)
LEMMA TaskMove ==
    ASSUME TypeOK, NEW l \in Ledgers, CountInv(l), NEW i \in DOMAIN Txs(l),
           NEW stage, stage # "waiting", at[l][i] \notin {"waiting", "done"},
           Goto(l, i, stage), UNCHANGED <<workload, mainVars, sent, live>>
    PROVE  CountInv(l)'
  <1> SUFFICES ASSUME NEW p \in PhaseIds PROVE CountAt(l, p)'
    BY DEF CountInv
  <1>1. CountAt(l, p)
    BY DEF CountInv
  <1>2. at' = [at EXCEPT ![l][i] = stage] /\ at[l] \in [DOMAIN Txs(l) -> Stages] /\ DOMAIN at = Ledgers
    BY DEF Goto, TypeOK
  <1>3. Tasks(l, p)' = Tasks(l, p) /\ Tasks(l, p) \subseteq DOMAIN Txs(l)
    BY DEF Tasks, Txs
  <1>4. Active(l, p)' \subseteq Active(l, p)
    BY <1>2, <1>3 DEF Active
  <1>5. Queue(l, p)' = Queue(l, p)
    BY <1>2, <1>3 DEF Queue
  <1>6. /\ Cardinality(Active(l, p)') <= Cardinality(Active(l, p))
        /\ Cardinality(Active(l, p)') \in Nat /\ Cardinality(Active(l, p)) \in Nat
    BY <1>4, FiniteTasks, FS_Subset, FS_CardinalityType
  <1>7. Closed(l, p)' = Closed(l, p)
    BY DEF Closed, Txs
  <1>8. /\ WellCounted(l, p)' = WellCounted(l, p)
        /\ WellCounted(l, p - 1)' = WellCounted(l, p - 1)
    BY DEF WellCounted, Matched, mainVars
  <1>9. live[l][p] \in Nat
    BY DEF TypeOK
  <1>10. Cardinality(Active(l, p)') <= live[l][p]
    BY <1>1, <1>6, <1>9 DEF CountAt
  <1> QED  BY <1>1, <1>5, <1>7, <1>8, <1>10 DEF CountAt, mainVars

(* Steps of the main goroutine.                                            *)
LEMMA CountMain ==
    ASSUME TypeOK, PhaseOK, NEW l \in Ledgers, CountInv(l), MainStep(l)
    PROVE  CountInv(l)'
  <1> SUFFICES ASSUME NEW p \in PhaseIds PROVE CountAt(l, p)'
    BY DEF CountInv
  <1> USE DEF counters, others, chanVars, workVars
  <1>1. CountAt(l, p)
    BY DEF CountInv
  <1>2. /\ phase[l] \in 1..5 /\ wg[l] \in Nat /\ workNumber \in Nat
        /\ added[l] \in [PhaseIds -> Nat] /\ spawned[l] \in [PhaseIds -> Nat]
        /\ live[l] \in [PhaseIds -> Nat]
        /\ DOMAIN live = Ledgers
    BY DEF TypeOK
  <1>a. pc[l] \notin {"ack", "finished"} => phase[l] \in PhaseIds
    BY <1>2 DEF PhaseOK, PhaseIds
  <1>3. \A q \in 1..p : q \in PhaseIds
    BY DEF PhaseIds
  <1>4. p \in 1..4
    BY DEF PhaseIds
  <1>5. ASSUME UNCHANGED <<workload, sent, at>>
        PROVE  /\ Active(l, p)' = Active(l, p) /\ Queue(l, p)' = Queue(l, p)
               /\ Closed(l, p)' = Closed(l, p)
    BY <1>5 DEF Active, Queue, Closed, Tasks, Txs
  <1>6. Cardinality(Active(l, p)) \in Nat
    BY FiniteTasks
  <1>7. CASE \/ ResetWorkNumber(l) \/ TestWorkNumber(l) \/ FloorWorkNumber(l)
             \/ LoadWorkNumber(l) \/ DoubleWorkNumber(l)
    <2>1. /\ pc[l] \in PreAdd /\ pc'[l] \in PreAdd
          /\ UNCHANGED <<workload, phase, added, spawned, wg, sent, live, at>>
      BY <1>7 DEF ResetWorkNumber, TestWorkNumber, FloorWorkNumber, LoadWorkNumber,
                  DoubleWorkNumber, PreAdd, TypeOK
    <2> QED  BY <1>1, <1>5, <2>1 DEF CountAt, WellCounted, Matched
  <1>8. CASE AddWorkers(l)
    <2>1. /\ UNCHANGED <<workload, phase, spawned, sent, live, at>>
          /\ pc[l] = "add" /\ pc'[l] = "spawn" /\ phase[l] \in PhaseIds
          /\ added' = [added EXCEPT ![l][phase[l]] = workNumber]
          /\ wg'[l] = wg[l] + workNumber
      BY <1>2, <1>8, <1>a DEF AddWorkers, TypeOK
    <2>2. /\ added'[l][phase[l]] = workNumber
          /\ \A q \in PhaseIds : q # phase[l] => added'[l][q] = added[l][q]
      BY <1>2, <2>1 DEF TypeOK
    <2>3. \A q \in PhaseIds : q < phase[l] => (WellCounted(l, q)' <=> WellCounted(l, q))
      BY <1>2, <2>1, <2>2 DEF WellCounted, Matched, PhaseIds
    <2>4. CASE p = phase[l]
      <3>1. added[l][p] = 0 /\ spawned[l][p] = 0
        BY <1>1, <2>1, <2>4 DEF CountAt, PreAdd
      <3>2. WellCounted(l, p - 1)' <=> WellCounted(l, p - 1)
        BY <1>2, <1>4, <2>1, <2>2, <2>4 DEF WellCounted, Matched, PhaseIds
      <3>3. WellCounted(l, p - 1) => wg'[l] + spawned[l][p] = added'[l][p] + live[l][p]
        BY <1>1, <1>2, <2>1, <2>2, <2>4, <3>1 DEF CountAt
      <3> QED  BY <1>1, <1>2, <1>5, <2>1, <2>2, <2>4, <3>2, <3>3 DEF CountAt, PreAdd
    <2>5. CASE p # phase[l]
      BY <1>1, <1>2, <1>5, <2>1, <2>2, <2>3, <2>5 DEF CountAt, PreAdd
    <2> QED  BY <2>4, <2>5
  <1>9. CASE SpawnWorker(l)
    <2>1. /\ UNCHANGED <<workload, phase, added, wg, sent, at>>
          /\ pc[l] = "spawn" /\ pc'[l] \in {"spawn", "drain"} /\ phase[l] \in PhaseIds
          /\ spawned' = [spawned EXCEPT ![l][phase[l]] = @ + 1]
          /\ live' = [live EXCEPT ![l][phase[l]] = @ + 1]
      BY <1>2, <1>9, <1>a DEF SpawnWorker, TypeOK
    <2>2. /\ spawned'[l][phase[l]] = spawned[l][phase[l]] + 1
          /\ live'[l][phase[l]] = live[l][phase[l]] + 1
          /\ \A q \in PhaseIds : q # phase[l] => /\ spawned'[l][q] = spawned[l][q]
                                              /\ live'[l][q] = live[l][q]
      BY <1>2, <2>1 DEF TypeOK
    <2>3. \A q \in PhaseIds : q < phase[l] => (WellCounted(l, q)' <=> WellCounted(l, q))
      BY <1>2, <2>1, <2>2 DEF WellCounted, Matched, PhaseIds
    <2>4. CASE p = phase[l]
      <3>1. WellCounted(l, p - 1)' <=> WellCounted(l, p - 1)
        BY <1>2, <1>4, <2>1, <2>2, <2>4 DEF WellCounted, Matched, PhaseIds
      <3> QED  BY <1>1, <1>2, <1>5, <1>6, <2>1, <2>2, <2>4, <3>1 DEF CountAt, PreAdd
    <2>5. CASE p # phase[l]
      BY <1>1, <1>2, <1>5, <2>1, <2>2, <2>3, <2>5 DEF CountAt, PreAdd
    <2> QED  BY <2>4, <2>5
  <1>10. CASE EndSpawning(l) \/ EndDrain(l) \/ Finish(l)
    <2>1. /\ UNCHANGED <<workload, phase, added, spawned, wg, sent, live, at>>
          /\ pc'[l] \notin PreAdd
      BY <1>10 DEF EndSpawning, EndDrain, Finish, PreAdd, TypeOK
    <2> QED  BY <1>1, <1>5, <2>1 DEF CountAt, WellCounted, Matched
  <1>11. CASE Drain(l)
    BY <1>11, CountFrame DEF Drain, mainVars, CountInv
  <1>12. CASE EndPhase(l)
    <2>1. /\ UNCHANGED <<workload, added, spawned, wg, sent, live, at>>
          /\ pc[l] = "wait" /\ wg[l] = 0
          /\ phase'[l] = phase[l] + 1 /\ phase[l] \in PhaseIds
      BY <1>2, <1>12, <1>a DEF EndPhase, TypeOK
    <2>2. /\ WellCounted(l, p)' <=> WellCounted(l, p)
          /\ WellCounted(l, p - 1)' <=> WellCounted(l, p - 1)
      BY <2>1 DEF WellCounted, Matched
    <2>3. CASE p = phase[l]
      <3>1. WellCounted(l, p) => WellCounted(l, p - 1) /\ added[l][p] = spawned[l][p]
        BY <1>4 DEF WellCounted, Matched
      <3>2. WellCounted(l, p) => live[l][p] = 0
        BY <1>1, <1>2, <2>1, <2>3, <3>1 DEF CountAt
      <3> QED  BY <1>1, <1>2, <1>5, <2>1, <2>2, <2>3, <3>2 DEF CountAt
    <2>4. CASE p = phase[l] + 1
      <3>1. added[l][p] = 0 /\ spawned[l][p] = 0 /\ live[l][p] = 0
        BY <1>1, <1>2, <2>4 DEF CountAt
      <3> QED  BY <1>1, <1>2, <1>5, <2>1, <2>2, <2>4, <3>1 DEF CountAt
    <2>5. CASE p # phase[l] /\ p # phase[l] + 1
      BY <1>1, <1>2, <1>4, <1>5, <2>1, <2>2, <2>5 DEF CountAt
    <2> QED  BY <2>3, <2>4, <2>5
  <1> QED  BY <1>7, <1>8, <1>9, <1>10, <1>11, <1>12 DEF MainStep

(* Steps of a worker with a transaction.                                   *)
LEMMA CountTask ==
    ASSUME TypeOK, PhaseOK, NEW l \in Ledgers, CountInv(l),
           NEW i \in DOMAIN Txs(l), TaskStep(l, i)
    PROVE  CountInv(l)'
  <1> USE DEF restOfWork, chanVars
  <1>1. CASE SendOnClosed(l, i)
    BY <1>1, CountFrame DEF SendOnClosed, Crash, mainVars, workVars
  <1>2. AfterLookup(Txs(l)[i], pool[Txs(l)[i].note] # NoBanknote) # "waiting"
    BY DEF AfterLookup, AfterLookupBS, AfterLookupBT, AfterLookupBR
  <1>3. CASE SendModify(l, i)
    BY <1>3, TaskMove DEF SendModify
  <1>4. CASE Lookup(l, i)
    BY <1>2, <1>4, TaskMove DEF Lookup
  <1>5. CASE Issue(l, i)
    BY <1>5, TaskMove DEF Issue
  <1>6. CASE Remove(l, i)
    BY <1>6, TaskMove DEF Remove
  <1>7. CASE Recycle(l, i)
    BY <1>7, TaskMove DEF Recycle
  <1>8. CASE AddFirst(l, i)
    BY <1>8, TaskMove DEF AddFirst
  <1>9. CASE AddSecond(l, i)
    BY <1>9, TaskMove DEF AddSecond
  <1>10. CASE Materialise(l, i)
    BY <1>10, TaskMove DEF Materialise
  <1>11. CASE WriteOwner(l, i)
    BY <1>11, TaskMove DEF WriteOwner
  <1>12. CASE Store(l, i)
    BY <1>12, TaskMove DEF Store
  <1> QED
    BY <1>1, <1>3, <1>4, <1>5, <1>6, <1>7, <1>8, <1>9, <1>10, <1>11, <1>12 DEF TaskStep

(* Steps of the dispatcher, of a worker between two transactions and of    *)
(* the state-trie goroutine.                                               *)
LEMMA CountRest ==
    ASSUME TypeOK, PhaseOK, NEW l \in Ledgers, CountInv(l),
           \/ Dispatch(l) \/ Receive(l) \/ Commit(l)
           \/ \E q \in PhaseIds : TakeTx(l, q) \/ ExitWorker(l, q) \/ NegativeWaitGroup(l, q)
    PROVE  CountInv(l)'
  <1> USE DEF mainVars, workVars, chanVars, restOfWork
  <1>1. CASE Receive(l) \/ Commit(l)
    BY <1>1, CountFrame DEF Receive, Commit
  <1>2. CASE \E q \in PhaseIds : NegativeWaitGroup(l, q)
    BY <1>2, CountFrame DEF NegativeWaitGroup, Crash
  <1>0. /\ phase[l] \in 1..5 /\ wg[l] \in Nat /\ sent[l] \in Nat
        /\ added[l] \in [PhaseIds -> Nat] /\ spawned[l] \in [PhaseIds -> Nat]
        /\ live[l] \in [PhaseIds -> Nat]
        /\ at[l] \in [DOMAIN Txs(l) -> Stages]
        /\ DOMAIN live = Ledgers /\ DOMAIN at = Ledgers /\ DOMAIN sent = Ledgers /\ DOMAIN wg = Ledgers
    BY DEF TypeOK
  <1>3. CASE Dispatch(l)
    <2> SUFFICES ASSUME NEW p \in PhaseIds PROVE CountAt(l, p)'
      BY DEF CountInv
    <2>1. CountAt(l, p)
      BY DEF CountInv
    <2>2. /\ UNCHANGED <<workload, pc, phase, added, spawned, wg, live, at>>
          /\ sent'[l] = sent[l] + 1
      BY <1>0, <1>3 DEF Dispatch
    <2>3. Active(l, p)' = Active(l, p)
      BY <2>2 DEF Active, Tasks, Txs
    <2>4. ASSUME Closed(l, p), Queue(l, p) = {}
          PROVE  Closed(l, p)' /\ Queue(l, p)' = {}
      <3>1. Len(Txs(l)) \in Nat /\ DOMAIN Txs(l) = 1..Len(Txs(l))
        BY FiniteTasks
      <3>2. ClosePos[p] \in Nat
        BY DEF ClosePos, PhaseIds
      <3>3. sent[l] >= Len(Txs(l))
        BY <1>0, <2>4, <3>1, <3>2 DEF Closed
      <3>4. Closed(l, p)'
        BY <1>0, <2>2, <2>4, <3>1, <3>2 DEF Closed, Txs
      <3>5. Tasks(l, p)' = Tasks(l, p) /\ \A i \in Tasks(l, p) : i \in Nat /\ i <= sent[l]
        BY <1>0, <2>2, <3>1, <3>3 DEF Tasks, Txs
      <3>6. Queue(l, p)' \subseteq Queue(l, p)
        BY <2>2, <3>5 DEF Queue
      <3> QED  BY <2>4, <3>4, <3>6
    <2> QED  BY <2>1, <2>2, <2>3, <2>4 DEF CountAt, WellCounted, Matched
  <1>4. ASSUME NEW q \in PhaseIds, TakeTx(l, q)
        PROVE  CountInv(l)'
    <2> SUFFICES ASSUME NEW p \in PhaseIds PROVE CountAt(l, p)'
      BY DEF CountInv
    <2>1. CountAt(l, p)
      BY DEF CountInv
    <2>2. PICK i \in Queue(l, q) : Goto(l, i, FirstStage[Phases[q]])
      BY <1>4 DEF TakeTx
    <2>3. UNCHANGED <<workload, pc, phase, added, spawned, wg, live, sent>>
      BY <1>4 DEF TakeTx
    <2>4. /\ i \in DOMAIN Txs(l)
          /\ at'[l] = [at[l] EXCEPT ![i] = FirstStage[Phases[q]]]
          /\ FirstStage[Phases[q]] \notin {"waiting", "done"}
      BY <1>0, <2>2 DEF Goto, Queue, Tasks, FirstStage, Phases, PhaseIds
    <2>5. Tasks(l, p)' = Tasks(l, p) /\ Closed(l, p)' = Closed(l, p)
      BY <2>3 DEF Tasks, Closed, Txs
    <2>6. Queue(l, p)' \subseteq Queue(l, p)
      BY <1>0, <2>3, <2>4, <2>5 DEF Queue, Tasks
    <2>7. Cardinality(Active(l, p)') <= live[l][p]
      <3>1. Cardinality(Active(l, p)) \in Nat /\ IsFiniteSet(Active(l, p))
        BY FiniteTasks
      <3>2. CASE p = q
        <4>1. Active(l, p)' = Active(l, p) \cup {i}
          BY <1>0, <2>2, <2>4, <2>5, <3>2 DEF Active, Queue, Tasks
        <4>2. i \notin Active(l, p)
          BY <2>2 DEF Queue, Active
        <4>3. Cardinality(Active(l, p)') = Cardinality(Active(l, p)) + 1
          BY <3>1, <4>1, <4>2, FS_AddElement
        <4>4. live[l][p] > Cardinality(Active(l, p))
          BY <1>4, <3>2 DEF TakeTx, Idle
        <4> QED  BY <1>0, <3>1, <4>3, <4>4
      <3>3. CASE p # q
        <4>1. i \notin Tasks(l, p)
          BY <2>2, <3>3 DEF Queue, Tasks, Phases, PhaseIds
        <4>2. Active(l, p)' = Active(l, p)
          BY <1>0, <2>4, <2>5, <4>1 DEF Active, Tasks
        <4> QED  BY <2>1, <4>2 DEF CountAt
      <3> QED  BY <3>2, <3>3
    <2> QED  BY <2>1, <2>3, <2>5, <2>6, <2>7 DEF CountAt, WellCounted, Matched
  <1>5. ASSUME NEW q \in PhaseIds, ExitWorker(l, q)
        PROVE  CountInv(l)'
    <2> SUFFICES ASSUME NEW p \in PhaseIds PROVE CountAt(l, p)'
      BY DEF CountInv
    <2>1. CountAt(l, p) /\ CountAt(l, q)
      BY DEF CountInv
    <2>2. /\ UNCHANGED <<workload, pc, phase, added, spawned, sent, at>>
          /\ live' = [live EXCEPT ![l][q] = @ - 1]
          /\ wg'[l] = wg[l] - 1 /\ wg[l] > 0
          /\ live[l][q] > Cardinality(Active(l, q))
          /\ Closed(l, q) /\ Queue(l, q) = {}
      BY <1>0, <1>5 DEF ExitWorker, Idle
    <2>3. /\ live'[l][q] = live[l][q] - 1
          /\ \A r \in PhaseIds : r # q => live'[l][r] = live[l][r]
      BY <1>0, <2>2
    <2>4. /\ Active(l, p)' = Active(l, p) /\ Queue(l, p)' = Queue(l, p)
          /\ Closed(l, p)' = Closed(l, p) /\ WellCounted(l, p)' = WellCounted(l, p)
          /\ WellCounted(l, p - 1)' = WellCounted(l, p - 1)
      BY <2>2 DEF Active, Queue, Closed, Tasks, Txs, WellCounted, Matched
    <2>5. Cardinality(Active(l, q)) \in Nat /\ Cardinality(Active(l, p)) \in Nat
      BY FiniteTasks
    <2>6. p \in 1..4 /\ q \in 1..4
      BY DEF PhaseIds
    <2>7. CASE p = q
      BY <1>0, <2>1, <2>2, <2>3, <2>4, <2>5, <2>7 DEF CountAt
    <2>8. CASE p # q
      <3>1. ASSUME p = phase[l], WellCounted(l, p - 1)
            PROVE  FALSE
        <4>1. CASE q < p
          <5>1. WellCounted(l, q)
            BY <2>6, <3>1, <4>1 DEF WellCounted
          <5>2. live[l][q] = 0
            BY <2>1, <3>1, <4>1, <5>1 DEF CountAt
          <5> QED  BY <2>2, <2>5, <5>2
        <4>2. CASE q > p
          <5>1. live[l][q] = 0
            BY <1>0, <2>1, <3>1, <4>2 DEF CountAt
          <5> QED  BY <2>2, <2>5, <5>1
        <4> QED  BY <2>6, <2>8, <4>1, <4>2
      <3> QED  BY <1>0, <2>1, <2>2, <2>3, <2>4, <2>8, <3>1 DEF CountAt
    <2> QED  BY <2>7, <2>8
  <1> QED  BY <1>1, <1>2, <1>3, <1>4, <1>5

(* A step of one ledger leaves the goroutines of the others alone.         *)
LEMMA Untouched ==
    ASSUME TypeOK, NEW l \in Ledgers, LedgerStep(l), NEW m \in Ledgers, m # l
    PROVE  /\ workload' = workload
           /\ phase'[m] = phase[m] /\ pc'[m] = pc[m]
           /\ added'[m] = added[m] /\ spawned'[m] = spawned[m] /\ wg'[m] = wg[m]
           /\ sent'[m] = sent[m] /\ live'[m] = live[m] /\ at'[m] = at[m]
  <1> USE DEF mainVars, workVars, chanVars, restOfWork, counters, others, TypeOK
  <1>1. CASE MainStep(l)
    BY <1>1 DEF MainStep, ResetWorkNumber, TestWorkNumber, FloorWorkNumber, LoadWorkNumber,
                DoubleWorkNumber, AddWorkers, SpawnWorker, EndSpawning, Drain, EndDrain,
                EndPhase, Finish
  <1>2. CASE \E i \in DOMAIN Txs(l) : TaskStep(l, i)
    BY <1>2 DEF TaskStep, Goto, Crash, SendModify, SendOnClosed, Issue, Lookup, Remove,
                Recycle, AddFirst, AddSecond, Materialise, WriteOwner, Store
  <1>3. CASE Dispatch(l) \/ Receive(l) \/ Commit(l)
    BY <1>3 DEF Dispatch, Receive, Commit
  <1>4. CASE \E p \in PhaseIds : TakeTx(l, p) \/ ExitWorker(l, p) \/ NegativeWaitGroup(l, p)
    BY <1>4 DEF TakeTx, ExitWorker, NegativeWaitGroup, Goto, Crash
  <1> QED  BY <1>1, <1>2, <1>3, <1>4 DEF LedgerStep

(* ... and so their counts.                                                *)
LEMMA OtherLedgers ==
    ASSUME TypeOK, NEW l \in Ledgers, LedgerStep(l),
           NEW m \in Ledgers, m # l, CountInv(m)
    PROVE  CountInv(m)'
  BY Untouched, CountFrame

(* Before the block nothing is added, started or at work.                  *)
LEMMA InitIInv == Init => IInv
  <1> SUFFICES ASSUME Init PROVE IInv
    OBVIOUS
  <1>1. TypeOK /\ PhaseOK
    BY TypeInit DEF Init, PhaseOK
  <1>2. ASSUME NEW l \in Ledgers, NEW p \in PhaseIds PROVE CountAt(l, p)
    <2>1. /\ phase[l] = 1 /\ pc[l] \in PreAdd /\ wg[l] = 0
          /\ added[l][p] = 0 /\ spawned[l][p] = 0 /\ live[l][p] = 0
      BY DEF Init, PreAdd
    <2>2. Active(l, p) = {}
      BY DEF Init, Active, Tasks
    <2>3. Cardinality(Active(l, p)) = 0
      BY <2>2, FS_EmptySet
    <2> QED  BY <2>1, <2>3 DEF CountAt, PhaseIds
  <1> QED  BY <1>1, <1>2 DEF IInv, CountInv

(* Every step of every goroutine keeps the books.                          *)
LEMMA NextIInv == IInv /\ [Next]_vars => IInv'
  <1> SUFFICES ASSUME IInv, [Next]_vars PROVE IInv'
    OBVIOUS
  <1> USE DEF IInv
  <1>1. ASSUME NEW l \in Ledgers, LedgerStep(l) PROVE IInv'
    <2>1. TypeOK' /\ PhaseOK'
      BY <1>1, TypeMain, TypeTask, TypeRest DEF LedgerStep
    <2>2. CountInv(l)'
      BY <1>1, CountMain, CountTask, CountRest DEF LedgerStep
    <2>3. \A m \in Ledgers : m # l => CountInv(m)'
      BY <1>1, OtherLedgers
    <2> QED  BY <2>1, <2>2, <2>3
  <1>2. CASE UNCHANGED vars
    <2>1. TypeOK' /\ PhaseOK'
      BY <1>2 DEF vars, mainVars, poolVars, trieVars, chanVars, workVars, TypeOK, Txs, PhaseOK
    <2>2. \A m \in Ledgers : CountInv(m)'
      BY <1>2, CountFrame DEF vars, mainVars, chanVars, workVars
    <2> QED  BY <2>1, <2>2
  <1> QED  BY <1>1, <1>2 DEF Next, Terminated

(* The books a ledger keeps of its workers: while wg.Add and the loop that *)
(* starts them agree, the wait group counts those that have not returned,  *)
(* and a worker of a phase that has returned left a closed, empty channel. *)
THEOREM WorkersCounted == Spec => []IInv
  BY InitIInv, NextIInv, PTL DEF Spec

(* No ledger whose worker count held still leaves a phase while one of the *)
(* phase's transactions is unsent, queued or in the hands of a worker      *)
(* (the wg.Wait of lines 275, 305, 336 and 363).                           *)
THEOREM PhasesComplete == Spec => []PhaseComplete
  <1>1. IInv => PhaseComplete
    <2> SUFFICES ASSUME IInv, NEW l \in Ledgers, NEW p \in PhaseIds,
                        phase[l] > p, WellCounted(l, p), NEW i \in Tasks(l, p)
                 PROVE  at[l][i] = "done"
      BY DEF PhaseComplete, PhaseDone
    <2>1. CountAt(l, p) /\ TypeOK
      BY DEF IInv, CountInv
    <2>2. live[l][p] = 0 /\ spawned[l][p] > 0
      <3>1. p \in 1..p /\ added[l][p] = spawned[l][p] /\ added[l][p] > 0
        BY DEF WellCounted, Matched, PhaseIds
      <3>2. p < phase[l]
        BY <2>1 DEF TypeOK, PhaseIds
      <3> QED  BY <2>1, <3>1, <3>2 DEF CountAt
    <2>3. Closed(l, p) /\ Queue(l, p) = {}
      BY <2>1, <2>2 DEF CountAt
    <2>4. Active(l, p) = {}
      <3>1. Cardinality(Active(l, p)) = 0 /\ IsFiniteSet(Active(l, p))
        BY <2>1, <2>2, FiniteTasks DEF CountAt
      <3> QED  BY <3>1, FS_EmptySet
    <2>5. i <= sent[l]
      <3>1. i \in 1..Len(Txs(l)) /\ Len(Txs(l)) \in Nat /\ sent[l] \in Nat
        BY <2>1, FiniteTasks DEF TypeOK
      <3>2. ClosePos[p] \in Nat
        BY DEF ClosePos, PhaseIds
      <3> QED  BY <2>3, <3>1, <3>2 DEF Closed
    <2> QED  BY <2>3, <2>4, <2>5 DEF Active, Queue
  <1> QED  BY <1>1, WorkersCounted, PTL
-----------------------------------------------------------------------------
(* The channels of a ledger.  None holds more than fits, nobody receives   *)
(* what belongs to a later phase, and so a ledger can only leave the BG    *)
(* phase, after everything was sent, if all the rest fits its channels.    *)
ChannelsOf(l) ==
    /\ \A p \in PhaseIds : Cardinality(Queue(l, p)) <= PLedgerInnerChanSize
    /\ \A p \in PhaseIds : p > phase[l] => \A i \in Tasks(l, p) : at[l][i] = "waiting"
    /\ phase[l] > 1 /\ WellCounted(l, 1) => Fits(l)

(* Only a BS puts a hash into the recycle channel.                         *)
StagesOf(l) == \A i \in DOMAIN Txs(l) : at[l][i] = "recycle" => Txs(l)[i].kind = "BS"

ChannelInv == \A l \in Ledgers : ChannelsOf(l) /\ StagesOf(l)

(* What the channels of a ledger depend on.                                *)
LEMMA ChannelFrame ==
    ASSUME NEW m \in Ledgers, ChannelsOf(m), StagesOf(m), workload' = workload,
           phase'[m] = phase[m], added'[m] = added[m], spawned'[m] = spawned[m],
           sent'[m] = sent[m], at'[m] = at[m]
    PROVE  ChannelsOf(m)' /\ StagesOf(m)'
  BY DEF ChannelsOf, StagesOf, Queue, Fits, Tasks, Txs, WellCounted, Matched

(* A channel is a finite set.                                              *)
LEMMA FiniteQueue ==
    ASSUME TypeOK, NEW l \in Ledgers, NEW p \in PhaseIds
    PROVE  /\ IsFiniteSet(Queue(l, p)) /\ Cardinality(Queue(l, p)) \in Nat
           /\ PLedgerInnerChanSize \in Nat \ {0}
  <1>1. Queue(l, p) \subseteq Tasks(l, p)
    BY DEF Queue
  <1> QED  BY <1>1, FiniteTasks, FS_Subset, FS_CardinalityType, PeripheralAssumption

(* A worker is at a transaction of its ledger's current phase, or of one   *)
(* that a miscounted wait let go by.                                       *)
LEMMA BusyPhase ==
    ASSUME TypeOK, NEW l \in Ledgers, CountInv(l), NEW q \in PhaseIds, Idle(l, q)
    PROVE  q <= phase[l]
  <1>1. live[l][q] \in Nat /\ spawned[l][q] \in Nat /\ phase[l] \in 1..5
    BY DEF TypeOK
  <1>2. CountAt(l, q) /\ q \in 1..4
    BY DEF CountInv, PhaseIds
  <1>3. Cardinality(Active(l, q)) \in Nat
    BY FiniteTasks
  <1> QED  BY <1>1, <1>2, <1>3 DEF CountAt, Idle

(* The main goroutine sends nothing and works on no transaction; it leaves *)
(* the BG phase, if it counted well, once everything is sent.              *)
LEMMA ChannelMain ==
    ASSUME TypeOK, PhaseOK, NEW l \in Ledgers, CountInv(l), CountInv(l)',
           ChannelsOf(l), StagesOf(l), MainStep(l)
    PROVE  ChannelsOf(l)' /\ StagesOf(l)'
  <1>1. UNCHANGED <<workload, sent, at>>
    BY DEF MainStep, ResetWorkNumber, TestWorkNumber, FloorWorkNumber, LoadWorkNumber,
           DoubleWorkNumber, AddWorkers, SpawnWorker, EndSpawning, Drain, EndDrain, EndPhase,
           Finish, others, chanVars, workVars
  <1>2. /\ \A p \in PhaseIds : Queue(l, p)' = Queue(l, p) /\ Tasks(l, p)' = Tasks(l, p)
        /\ Fits(l)' = Fits(l) /\ StagesOf(l)' /\ Txs(l)' = Txs(l)
    BY <1>1 DEF Queue, Tasks, Fits, Txs, StagesOf
  <1>3. /\ phase[l] \in 1..5 /\ phase'[l] \in {phase[l], phase[l] + 1}
        /\ phase'[l] = phase[l] \/ EndPhase(l)
    BY DEF MainStep, ResetWorkNumber, TestWorkNumber, FloorWorkNumber, LoadWorkNumber,
           DoubleWorkNumber, AddWorkers, SpawnWorker, EndSpawning, Drain, EndDrain, EndPhase,
           Finish, mainVars, TypeOK
  <1>4. \A p \in PhaseIds : p > phase'[l] => p > phase[l]
    BY <1>3 DEF PhaseIds
  <1>5. ASSUME phase'[l] > 1, WellCounted(l, 1)'
        PROVE  Fits(l)
    <2>1. CASE phase[l] > 1
      <3>1. added'[l][1] = added[l][1] /\ spawned'[l][1] = spawned[l][1]
        <4>1. /\ added \in [Ledgers -> [PhaseIds -> Nat]] /\ spawned \in [Ledgers -> [PhaseIds -> Nat]]
              /\ 1 \in PhaseIds /\ phase[l] # 1
          BY <1>3, <2>1 DEF TypeOK, PhaseIds
        <4> QED  BY <4>1 DEF MainStep, ResetWorkNumber, TestWorkNumber, FloorWorkNumber,
                     LoadWorkNumber, DoubleWorkNumber, AddWorkers, SpawnWorker, EndSpawning,
                     Drain, EndDrain, EndPhase, Finish, mainVars, counters
      <3>2. WellCounted(l, 1)
        BY <1>5, <3>1 DEF WellCounted, Matched
      <3> QED  BY <2>1, <3>2 DEF ChannelsOf
    <2>2. CASE phase[l] = 1
      <3>1. CountAt(l, 1)' /\ 1 \in PhaseIds
        BY DEF CountInv, PhaseIds
      <3>2. live'[l][1] = 0 /\ spawned'[l][1] > 0
        <4>1. Matched(l, 1)'
          BY <1>5 DEF WellCounted
        <4> QED  BY <1>5, <3>1, <4>1 DEF CountAt, Matched
      <3>3. Closed(l, 1)
        BY <1>1, <3>1, <3>2 DEF CountAt, Closed, Txs
      <3>4. Len(Txs(l)) \in Nat /\ sent[l] \in Nat /\ sent[l] >= Len(Txs(l))
        <4>1. Len(Txs(l)) \in Nat /\ sent[l] \in Nat
          BY <3>1, FiniteTasks DEF TypeOK
        <4> QED  BY <3>3, <4>1 DEF Closed, ClosePos
      <3>5. ASSUME NEW p \in 2..4
            PROVE  Cardinality(Tasks(l, p)) <= PLedgerInnerChanSize
        <4>1. p \in PhaseIds /\ p > phase[l]
          BY <2>2 DEF PhaseIds
        <4>2. \A j \in Tasks(l, p) : j \in 1..Len(Txs(l))
          BY <4>1, FiniteTasks
        <4>3. \A j \in Tasks(l, p) : j <= sent[l]
          BY <3>4, <4>2
        <4>4. Queue(l, p) = Tasks(l, p)
          BY <4>1, <4>3 DEF ChannelsOf, Queue
        <4> QED  BY <4>1, <4>4 DEF ChannelsOf
      <3> QED  BY <3>5 DEF Fits
    <2> QED  BY <1>3, <2>1, <2>2
  <1> QED  BY <1>2, <1>4, <1>5, <1>1 DEF ChannelsOf

(* A worker moves a transaction it has, from stage to stage.               *)
LEMMA TaskStage ==
    ASSUME TypeOK, NEW l \in Ledgers, NEW i \in DOMAIN Txs(l), TaskStep(l, i)
    PROVE  /\ UNCHANGED <<workload, phase, added, spawned, sent>>
           /\ at[l][i] \notin {"waiting", "done"}
           /\ \/ at' = at
              \/ \E stage : /\ Goto(l, i, stage) /\ stage # "waiting"
                            /\ stage = "recycle" => Txs(l)[i].kind = "BS"
  <1> USE DEF restOfWork, chanVars, mainVars, workVars
  <1>1. AfterLookup(Txs(l)[i], pool[Txs(l)[i].note] # NoBanknote) # "waiting"
    BY DEF AfterLookup, AfterLookupBS, AfterLookupBT, AfterLookupBR
  <1>2. AfterLookup(Txs(l)[i], pool[Txs(l)[i].note] # NoBanknote) = "recycle"
            => Txs(l)[i].kind = "BS"
    BY DEF AfterLookup, AfterLookupBT, AfterLookupBR
  <1>3. CASE Lookup(l, i)
    BY <1>1, <1>2, <1>3 DEF Lookup
  <1>4. CASE SendOnClosed(l, i)
    BY <1>4 DEF SendOnClosed, Crash
  <1>5. CASE SendModify(l, i)
    BY <1>5 DEF SendModify
  <1>6. CASE Issue(l, i) \/ Remove(l, i) \/ Recycle(l, i) \/ AddFirst(l, i) \/ AddSecond(l, i)
    BY <1>6 DEF Issue, Remove, Recycle, AddFirst, AddSecond
  <1>7. CASE Materialise(l, i) \/ WriteOwner(l, i) \/ Store(l, i)
    BY <1>7 DEF Materialise, WriteOwner, Store
  <1> QED  BY <1>3, <1>4, <1>5, <1>6, <1>7 DEF TaskStep

(* That leaves the channels alone.                                         *)
LEMMA ChannelTask ==
    ASSUME TypeOK, NEW l \in Ledgers, ChannelsOf(l), StagesOf(l),
           NEW i \in DOMAIN Txs(l), TaskStep(l, i)
    PROVE  ChannelsOf(l)' /\ StagesOf(l)'
  <1>1. /\ UNCHANGED <<workload, phase, added, spawned, sent>>
        /\ at[l][i] \notin {"waiting", "done"}
    BY TaskStage
  <1>2. CASE at' = at
    BY <1>1, <1>2, ChannelFrame
  <1>3. ASSUME NEW stage, Goto(l, i, stage), stage # "waiting",
               stage = "recycle" => Txs(l)[i].kind = "BS"
        PROVE  ChannelsOf(l)' /\ StagesOf(l)'
    <2>1. \A j \in DOMAIN Txs(l) : at'[l][j] = IF j = i THEN stage ELSE at[l][j]
      BY <1>3 DEF Goto, TypeOK
    <2>2. Txs(l)' = Txs(l) /\ \A p \in PhaseIds : Tasks(l, p)' = Tasks(l, p) /\ Tasks(l, p) \subseteq DOMAIN Txs(l)
      BY <1>1 DEF Tasks, Txs
    <2>3. \A p \in PhaseIds : Queue(l, p)' = Queue(l, p)
      BY <1>1, <1>3, <2>1, <2>2 DEF Queue
    <2>4. StagesOf(l)'
      BY <1>3, <2>1, <2>2 DEF StagesOf
    <2>5. \A p \in PhaseIds : p > phase[l] => \A j \in Tasks(l, p) : at'[l][j] = "waiting"
      BY <1>1, <2>1, <2>2 DEF ChannelsOf
    <2>6. Fits(l)' = Fits(l) /\ WellCounted(l, 1)' = WellCounted(l, 1)
      BY <1>1 DEF Fits, Tasks, Txs, WellCounted, Matched
    <2> QED  BY <1>1, <2>2, <2>3, <2>4, <2>5, <2>6 DEF ChannelsOf
  <1> QED  BY <1>2, <1>3, TaskStage

(* The dispatcher waits for room; a worker takes what belongs to a phase   *)
(* that has begun.                                                         *)
LEMMA ChannelRest ==
    ASSUME TypeOK, NEW l \in Ledgers, CountInv(l), ChannelsOf(l), StagesOf(l),
           \/ Dispatch(l) \/ Receive(l) \/ Commit(l)
           \/ \E q \in PhaseIds : TakeTx(l, q) \/ ExitWorker(l, q) \/ NegativeWaitGroup(l, q)
    PROVE  ChannelsOf(l)' /\ StagesOf(l)'
  <1> USE DEF mainVars, workVars, chanVars, restOfWork
  <1>1. CASE Receive(l) \/ Commit(l)
    BY <1>1, ChannelFrame DEF Receive, Commit
  <1>2. CASE \E q \in PhaseIds : ExitWorker(l, q) \/ NegativeWaitGroup(l, q)
    BY <1>2, ChannelFrame DEF ExitWorker, NegativeWaitGroup, Crash
  <1>3. CASE Dispatch(l)
    <2>1. /\ UNCHANGED <<workload, phase, added, spawned, at>>
          /\ sent[l] \in Nat /\ sent'[l] = sent[l] + 1
          /\ \A p \in PhaseIds : sent[l] + 1 \in Tasks(l, p) => HasRoom(l, p)
      BY <1>3 DEF Dispatch, TypeOK
    <2>2. \A p \in PhaseIds : Tasks(l, p)' = Tasks(l, p) /\ Tasks(l, p) \subseteq Nat
      <3>1. \A p \in PhaseIds : Tasks(l, p) \subseteq 1..Len(Txs(l))
        BY FiniteTasks
      <3> QED  BY <2>1, <3>1 DEF Tasks, Txs
    <2>3. ASSUME NEW p \in PhaseIds
          PROVE  Cardinality(Queue(l, p)') <= PLedgerInnerChanSize
      <3>1. IsFiniteSet(Queue(l, p)) /\ Cardinality(Queue(l, p)) \in Nat /\ PLedgerInnerChanSize \in Nat
        BY FiniteQueue
      <3>2. CASE sent[l] + 1 \in Tasks(l, p)
        <4>1. Queue(l, p)' \subseteq Queue(l, p) \cup {sent[l] + 1}
          BY <2>1, <2>2 DEF Queue
        <4>2. Cardinality(Queue(l, p) \cup {sent[l] + 1})
                  \in {Cardinality(Queue(l, p)), Cardinality(Queue(l, p)) + 1}
          BY <3>1, FS_AddElement
        <4>3. Cardinality(Queue(l, p)) < PLedgerInnerChanSize
          BY <2>1, <3>2 DEF HasRoom
        <4>4. IsFiniteSet(Queue(l, p) \cup {sent[l] + 1})
          BY <3>1, FS_AddElement
        <4>5. /\ IsFiniteSet(Queue(l, p)')
              /\ Cardinality(Queue(l, p)') <= Cardinality(Queue(l, p) \cup {sent[l] + 1})
          BY <4>1, <4>4, FS_Subset
        <4>6. Cardinality(Queue(l, p)') \in Nat /\ Cardinality(Queue(l, p) \cup {sent[l] + 1}) \in Nat
          BY <4>4, <4>5, FS_CardinalityType
        <4> QED  BY <3>1, <4>2, <4>3, <4>5, <4>6
      <3>3. CASE sent[l] + 1 \notin Tasks(l, p)
        <4>1. Queue(l, p)' = Queue(l, p)
          BY <2>1, <2>2, <3>3 DEF Queue
        <4> QED  BY <4>1 DEF ChannelsOf
      <3> QED  BY <3>2, <3>3
    <2>4. Fits(l)' = Fits(l) /\ WellCounted(l, 1)' = WellCounted(l, 1) /\ StagesOf(l)'
      BY <2>1 DEF Fits, Tasks, Txs, WellCounted, Matched, StagesOf
    <2> QED  BY <2>1, <2>2, <2>3, <2>4 DEF ChannelsOf
  <1>4. ASSUME NEW q \in PhaseIds, TakeTx(l, q)
        PROVE  ChannelsOf(l)' /\ StagesOf(l)'
    <2>1. PICK i \in Queue(l, q) : Goto(l, i, FirstStage[Phases[q]])
      BY <1>4 DEF TakeTx
    <2>2. UNCHANGED <<workload, phase, added, spawned, sent>> /\ q <= phase[l]
      BY <1>4, BusyPhase DEF TakeTx
    <2>3. FirstStage[Phases[q]] \notin {"waiting", "recycle"}
      BY DEF FirstStage, Phases, PhaseIds
    <2>4. \A j \in DOMAIN Txs(l) : at'[l][j] = IF j = i THEN FirstStage[Phases[q]] ELSE at[l][j]
      BY <2>1 DEF Goto, TypeOK
    <2>5. /\ Txs(l)' = Txs(l)
          /\ \A p \in PhaseIds : Tasks(l, p)' = Tasks(l, p) /\ Tasks(l, p) \subseteq DOMAIN Txs(l)
      BY <2>2 DEF Tasks, Txs
    <2>6. ASSUME NEW p \in PhaseIds
          PROVE  Cardinality(Queue(l, p)') <= PLedgerInnerChanSize
      <3>1. IsFiniteSet(Queue(l, p)) /\ Cardinality(Queue(l, p)) \in Nat /\ PLedgerInnerChanSize \in Nat
        BY FiniteQueue
      <3>2. Queue(l, p)' \subseteq Queue(l, p)
        BY <2>2, <2>3, <2>4, <2>5 DEF Queue
      <3>3. IsFiniteSet(Queue(l, p)') /\ Cardinality(Queue(l, p)') <= Cardinality(Queue(l, p))
        BY <3>1, <3>2, FS_Subset
      <3>4. Cardinality(Queue(l, p)') \in Nat
        BY <3>3, FS_CardinalityType
      <3> QED  BY <3>1, <3>3, <3>4 DEF ChannelsOf
    <2>7. ASSUME NEW p \in PhaseIds, p > phase[l]
          PROVE  i \notin Tasks(l, p)
      <3>1. p # q
        <4>1. phase[l] \in 1..5
          BY DEF TypeOK
        <4> QED  BY <2>2, <2>7, <4>1 DEF PhaseIds
      <3> QED  BY <2>1, <3>1 DEF Queue, Tasks, Phases, PhaseIds
    <2>8. \A p \in PhaseIds : p > phase[l] => \A j \in Tasks(l, p) : at'[l][j] = "waiting"
      BY <2>4, <2>5, <2>7 DEF ChannelsOf
    <2>9. Fits(l)' = Fits(l) /\ WellCounted(l, 1)' = WellCounted(l, 1)
      BY <2>2 DEF Fits, Tasks, Txs, WellCounted, Matched
    <2>10. StagesOf(l)'
      BY <2>3, <2>4, <2>5 DEF StagesOf
    <2> QED  BY <2>2, <2>5, <2>6, <2>8, <2>9, <2>10 DEF ChannelsOf
  <1> QED  BY <1>1, <1>2, <1>3, <1>4

(* Every step of every goroutine keeps that.                               *)
LEMMA NextChannel == IInv /\ IInv' /\ ChannelInv /\ [Next]_vars => ChannelInv'
  <1> SUFFICES ASSUME IInv, IInv', ChannelInv, [Next]_vars, NEW m \in Ledgers
               PROVE  ChannelsOf(m)' /\ StagesOf(m)'
    BY DEF ChannelInv
  <1>1. ChannelsOf(m) /\ StagesOf(m) /\ TypeOK /\ PhaseOK /\ CountInv(m) /\ CountInv(m)'
    BY DEF ChannelInv, IInv
  <1>2. ASSUME NEW l \in Ledgers, LedgerStep(l), m # l
        PROVE  ChannelsOf(m)' /\ StagesOf(m)'
    BY <1>1, <1>2, Untouched, ChannelFrame
  <1>3. CASE LedgerStep(m)
    BY <1>1, <1>3, ChannelMain, ChannelTask, ChannelRest DEF LedgerStep
  <1>4. CASE UNCHANGED vars
    BY <1>1, <1>4, ChannelFrame DEF vars, mainVars, chanVars, workVars
  <1> QED  BY <1>2, <1>3, <1>4 DEF Next, Terminated

(* The bounded channels against the order of the phases: a ledger that     *)
(* counted its BG workers well never leaves the BG phase with a block      *)
(* whose BS, BT or BR do not fit their channel, as only the full dispatch  *)
(* closes the BG channel (lines 218 to 236) and nobody empties the others. *)
THEOREM NothingTooBigLeavesBG == Spec => [](ChannelInv /\ OnlyFittingLeavesBG)
  <1>1. Init => ChannelInv
    <2> SUFFICES ASSUME Init, NEW l \in Ledgers PROVE ChannelsOf(l) /\ StagesOf(l)
      BY DEF ChannelInv
    <2>1. /\ phase[l] = 1 /\ sent[l] = 0 /\ \A i \in DOMAIN Txs(l) : at[l][i] = "waiting"
          /\ TypeOK
      BY TypeInit DEF Init
    <2>2. ASSUME NEW p \in PhaseIds
          PROVE  Cardinality(Queue(l, p)) <= PLedgerInnerChanSize
      <3>1. \A i \in Tasks(l, p) : i \in Nat /\ i > 0
        BY <2>1, FiniteTasks
      <3>2. Queue(l, p) = {}
        BY <2>1, <3>1 DEF Queue
      <3> QED  BY <3>2, FS_EmptySet, PeripheralAssumption
    <2> QED  BY <2>1, <2>2 DEF ChannelsOf, StagesOf, Tasks
  <1>2. ChannelInv => OnlyFittingLeavesBG
    BY DEF ChannelInv, ChannelsOf, OnlyFittingLeavesBG
  <1> QED  BY <1>1, <1>2, NextChannel, WorkersCounted, PTL DEF Spec

-----------------------------------------------------------------------------
(* With one ledger nobody else writes cc.WorkNumberPerPLedger.             *)
SteadyOf(l) ==
    /\ pc[l] \notin {"reset", "floor", "one", "double"} => workNumber > 0
    /\ pc[l] = "double" => loaded[l] > 0
    /\ pc[l] \in {"spawn", "drain", "wait"} =>
          added[l][phase[l]] = workNumber /\ spawned[l][phase[l]] <= workNumber
    /\ pc[l] = "wait" => spawned[l][phase[l]] = workNumber
    /\ \A q \in PhaseIds : q < phase[l] => Matched(l, q)
SteadyInv == \A l \in Ledgers : SteadyOf(l)

(* If no ledger is miscounted, those that left a phase counted it well.    *)
LEMMA NotMiscounted ==
    ASSUME TypeOK, NEW l \in Ledgers, ~Miscounted(l), NEW p \in PhaseIds
    PROVE  /\ spawned[l][p] <= added[l][p]
           /\ p < phase[l] => WellCounted(l, p)
           /\ p = phase[l] => WellCounted(l, p - 1)
  <1>1. /\ spawned[l][p] \in Nat /\ added[l][p] \in Nat /\ phase[l] \in 1..5 /\ p \in 1..4
        /\ \A q \in 1..p : q \in PhaseIds
    BY DEF TypeOK, PhaseIds
  <1>2. \A q \in PhaseIds : q < phase[l] => Matched(l, q)
    BY <1>1 DEF Miscounted, PhaseIds
  <1> QED  BY <1>1, <1>2 DEF Miscounted, WellCounted

(* A worker that finds the wait group at zero was not waited for.          *)
LEMMA NegativeMeansMiscounted ==
    ASSUME TypeOK, NEW l \in Ledgers, CountInv(l),
           NEW p \in PhaseIds, NegativeWaitGroup(l, p)
    PROVE  Miscounted(l)
  <1> SUFFICES ASSUME ~Miscounted(l) PROVE FALSE
    OBVIOUS
  <1>1. /\ wg[l] = 0 /\ live[l][p] \in Nat /\ spawned[l][p] \in Nat /\ added[l][p] \in Nat
        /\ phase[l] \in 1..5 /\ p \in 1..4
    BY DEF NegativeWaitGroup, TypeOK, PhaseIds
  <1>2. live[l][p] > 0
    <2>1. Cardinality(Active(l, p)) \in Nat
      BY FiniteTasks
    <2> QED  BY <1>1, <2>1 DEF NegativeWaitGroup, Idle
  <1>3. CountAt(l, p) /\ p <= phase[l]
    BY BusyPhase DEF CountInv, NegativeWaitGroup
  <1>4. /\ spawned[l][p] <= added[l][p]
        /\ p < phase[l] => WellCounted(l, p)
        /\ p = phase[l] => WellCounted(l, p - 1)
    BY NotMiscounted
  <1> QED  BY <1>1, <1>2, <1>3, <1>4 DEF CountAt

(* A worker that sends on a closed channel was not waited for.             *)
LEMMA ClosedMeansMiscounted ==
    ASSUME TypeOK, PhaseOK, PhaseComplete, NEW l \in Ledgers, StagesOf(l),
           NEW i \in DOMAIN Txs(l), SendOnClosed(l, i)
    PROVE  Miscounted(l)
  <1> SUFFICES ASSUME ~Miscounted(l) PROVE FALSE
    OBVIOUS
  <1>1. PICK p \in PhaseIds : i \in Tasks(l, p)
    <2>1. Txs(l)[i].kind \in Kinds
      BY TaskType DEF BanknoteTx
    <2> QED  BY <2>1 DEF Kinds, Tasks, Phases, PhaseIds
  <1>2. p < phase[l]
    <2>1. phase[l] \in 1..5 /\ p \in 1..4
      BY DEF TypeOK, PhaseIds
    <2>2. CASE at[l][i] \in {"charge", "credit"} /\ ModifyClosed(l)
      BY <2>1, <2>2 DEF ModifyClosed, PhaseOK
    <2>3. CASE at[l][i] = "recycle" /\ RecycleClosed(l)
      <3>1. p = 2
        BY <1>1, <2>3 DEF StagesOf, Tasks, Phases, PhaseIds
      <3> QED  BY <2>1, <2>3, <3>1 DEF RecycleClosed
    <2> QED  BY <2>2, <2>3 DEF SendOnClosed
  <1>3. WellCounted(l, p)
    BY <1>2, NotMiscounted
  <1>4. at[l][i] = "done"
    BY <1>1, <1>2, <1>3 DEF PhaseComplete, PhaseDone, TypeOK, PhaseIds
  <1> QED  BY <1>4 DEF SendOnClosed

(* The process dies of a negative wait group or of a send on a closed      *)
(* channel only if some ledger started more workers than it waited for, or *)
(* other than it waited for in a phase it has left: the unsynchronised     *)
(* cc.WorkNumberPerPLedger (lines 246 to 256) is the only cause.           *)
THEOREM PanicsOnlyMiscounted == Spec => []PanicOnlyWhenMiscounted
  <1>1. Init => PanicOnlyWhenMiscounted
    BY DEF Init, PanicOnlyWhenMiscounted
  <1>2. IInv /\ ChannelInv /\ PhaseComplete /\ PanicOnlyWhenMiscounted /\ [Next]_vars
            => PanicOnlyWhenMiscounted'
    <2> SUFFICES ASSUME IInv, ChannelInv, PhaseComplete, PanicOnlyWhenMiscounted, [Next]_vars
                 PROVE  PanicOnlyWhenMiscounted'
      OBVIOUS
    <2> USE DEF mainVars, workVars, chanVars, restOfWork, counters, others
    <2>1. CASE UNCHANGED vars
      BY <2>1 DEF vars, PanicOnlyWhenMiscounted, Miscounted, Matched
    <2>2. ASSUME ~panicked, NEW l \in Ledgers, LedgerStep(l)
          PROVE  PanicOnlyWhenMiscounted'
      <3>1. ASSUME Miscounted(l), UNCHANGED <<spawned, added, phase>>
            PROVE  PanicOnlyWhenMiscounted'
        BY <3>1 DEF PanicOnlyWhenMiscounted, Miscounted, Matched
      <3>2. CASE panicked' = panicked
        BY <2>2, <3>2 DEF PanicOnlyWhenMiscounted
      <3>3. CASE \E p \in PhaseIds : NegativeWaitGroup(l, p)
        BY <3>1, <3>3, NegativeMeansMiscounted DEF IInv, NegativeWaitGroup, Crash
      <3>4. CASE \E i \in DOMAIN Txs(l) : SendOnClosed(l, i)
        BY <3>1, <3>4, ClosedMeansMiscounted DEF IInv, ChannelInv, SendOnClosed, Crash
      <3>5. MainStep(l) => panicked' = panicked
        BY DEF MainStep, ResetWorkNumber, TestWorkNumber, FloorWorkNumber, LoadWorkNumber,
               DoubleWorkNumber, AddWorkers, SpawnWorker, EndSpawning, Drain, EndDrain,
               EndPhase, Finish
      <3>6. ASSUME NEW i \in DOMAIN Txs(l), TaskStep(l, i)
            PROVE  panicked' = panicked \/ SendOnClosed(l, i)
        BY <3>6 DEF TaskStep, SendModify, Issue, Lookup, Remove, Recycle, AddFirst, AddSecond,
               Materialise, WriteOwner, Store
      <3>7. Dispatch(l) \/ Receive(l) \/ Commit(l) => panicked' = panicked
        BY DEF Dispatch, Receive, Commit
      <3>8. \A p \in PhaseIds : TakeTx(l, p) \/ ExitWorker(l, p) => panicked' = panicked
        BY DEF TakeTx, ExitWorker
      <3> QED  BY <2>2, <3>2, <3>3, <3>4, <3>5, <3>6, <3>7, <3>8 DEF LedgerStep
    <2> QED  BY <2>1, <2>2 DEF Next, Terminated
  <1> QED  BY <1>1, <1>2, WorkersCounted, NothingTooBigLeavesBG, PhasesComplete, PTL DEF Spec

-----------------------------------------------------------------------------
(* The only ledger sets its worker count once, before the first phase.     *)
LEMMA SteadyMain ==
    ASSUME TypeOK, PhaseOK, NEW l \in Ledgers, CountInv(l), SteadyOf(l), MainStep(l)
    PROVE  SteadyOf(l)'
  <1>0. /\ phase \in [Ledgers -> 1..5] /\ workNumber \in Nat /\ loaded \in [Ledgers -> Nat]
        /\ added \in [Ledgers -> [PhaseIds -> Nat]] /\ spawned \in [Ledgers -> [PhaseIds -> Nat]]
        /\ pc \in [Ledgers -> {"reset", "floor", "one", "load", "double", "add", "spawn",
                               "drain", "wait", "ack", "finished"}]
        /\ PhaseIds = 1..4
    BY DEF TypeOK, PhaseIds
  <1>a. pc[l] \notin {"ack", "finished"} => phase[l] \in PhaseIds
    BY <1>0 DEF PhaseOK
  <1> USE <1>0, <1>a DEF SteadyOf, Matched, counters
  <1>1. CASE ResetWorkNumber(l) \/ TestWorkNumber(l) \/ FloorWorkNumber(l)
    BY <1>1 DEF ResetWorkNumber, TestWorkNumber, FloorWorkNumber
  <1>2. CASE LoadWorkNumber(l) \/ DoubleWorkNumber(l)
    BY <1>2 DEF LoadWorkNumber, DoubleWorkNumber
  <1>3. CASE AddWorkers(l)
    <2>1. spawned[l][phase[l]] = 0
      BY <1>3 DEF AddWorkers, CountInv, CountAt, PreAdd
    <2> QED  BY <1>3, <2>1 DEF AddWorkers
  <1>4. CASE SpawnWorker(l)
    BY <1>4 DEF SpawnWorker
  <1>5. CASE EndSpawning(l) \/ Drain(l) \/ EndDrain(l)
    BY <1>5 DEF EndSpawning, Drain, EndDrain, mainVars
  <1>6. CASE EndPhase(l)
    BY <1>6 DEF EndPhase
  <1>7. CASE Finish(l)
    BY <1>7 DEF Finish
  <1> QED  BY <1>1, <1>2, <1>3, <1>4, <1>5, <1>6, <1>7 DEF MainStep

(* One ledger alone, as with cc.BanknoteChainPLedgerNumber = 1: nothing    *)
(* disturbs its worker count, and every phase is over when the next one    *)
(* begins, just as the log lines after each wg.Wait say.                   *)
THEOREM AloneInOrder ==
    ASSUME NEW l, Ledgers = {l}
    PROVE  Spec => [](SteadyInv /\ PhaseOrder)
  <1>1. Init => SteadyInv
    BY DEF Init, SteadyInv, SteadyOf, PhaseIds
  <1>2. IInv /\ SteadyInv /\ [Next]_vars => SteadyInv'
    <2> SUFFICES ASSUME IInv, SteadyInv, [Next]_vars PROVE SteadyOf(l)'
      BY DEF SteadyInv
    <2>1. /\ l \in Ledgers /\ SteadyOf(l) /\ TypeOK /\ PhaseOK /\ CountInv(l)
      BY DEF SteadyInv, IInv
    <2>2. CASE MainStep(l)
      BY <2>1, <2>2, SteadyMain
    <2>3. CASE UNCHANGED mainVars
      BY <2>1, <2>3 DEF SteadyOf, Matched, mainVars
    <2>4. ASSUME NEW p \in PhaseIds, ExitWorker(l, p)
          PROVE  SteadyOf(l)'
      BY <2>1, <2>4 DEF ExitWorker, SteadyOf, Matched
    <2>5. \A i \in DOMAIN Txs(l) : TaskStep(l, i) => UNCHANGED mainVars
      BY DEF TaskStep, SendModify, SendOnClosed, Crash, Issue, Lookup, Remove, Recycle, AddFirst,
             AddSecond, Materialise, WriteOwner, Store, restOfWork
    <2>6. Dispatch(l) \/ Receive(l) \/ Commit(l) => UNCHANGED mainVars
      BY DEF Dispatch, Receive, Commit
    <2>7. \A p \in PhaseIds : TakeTx(l, p) \/ NegativeWaitGroup(l, p) => UNCHANGED mainVars
      BY DEF TakeTx, NegativeWaitGroup, Crash, restOfWork
    <2>8. UNCHANGED vars => UNCHANGED mainVars
      BY DEF vars
    <2> QED  BY <2>2, <2>3, <2>4, <2>5, <2>6, <2>7, <2>8 DEF Next, LedgerStep, Terminated
  <1>3. IInv /\ SteadyInv /\ PhaseComplete => PhaseOrder
    <2> SUFFICES ASSUME IInv, SteadyInv, PhaseComplete, NEW p \in PhaseIds, phase[l] > p
                 PROVE  PhaseDone(l, p)
      BY DEF PhaseOrder
    <2>1. /\ l \in Ledgers /\ phase[l] \in 1..5 /\ p \in 1..4 /\ SteadyOf(l)
      BY DEF IInv, TypeOK, PhaseIds, SteadyInv
    <2>2. \A q \in 1..p : q \in PhaseIds /\ q < phase[l]
      BY <2>1 DEF PhaseIds
    <2>3. WellCounted(l, p)
      BY <2>1, <2>2 DEF SteadyOf, WellCounted
    <2> QED  BY <2>1, <2>3 DEF PhaseComplete
  <1> QED  BY <1>1, <1>2, <1>3, WorkersCounted, PhasesComplete, PTL DEF Spec

-----------------------------------------------------------------------------
(* What a worker at each stage is busy with, and the *Banknote it holds.   *)
StageOf(l, i) ==
    LET tx == Txs(l)[i] IN
    /\ at[l][i] \in {"charge", "issue"} => tx.kind = "BG"
    /\ at[l][i] \in {"recycle", "first", "second"} => tx.kind = "BS"
    /\ at[l][i] \in {"materialise", "ownerHi", "ownerLo", "store"} => tx.kind = "BT"
    /\ at[l][i] = "materialise" => tx.amount = InitAmount
    /\ at[l][i] = "remove" => tx.kind \in {"BS", "BR"}
    /\ at[l][i] = "lookup" => tx.kind # "BG"
    /\ at[l][i] = "credit" => tx.kind = "BR"
    /\ at[l][i] \in {"ownerHi", "ownerLo", "store"} => held[l][i] # NoBanknote
    /\ held[l][i] # NoBanknote => held[l][i][1] = tx.note

(* The pool is keyed by the hash of what it holds.                         *)
PoolKeyed == \A b \in Banknotes : pool[b] # NoBanknote => pool[b][1] = b

(* The recycle channel carries sources of splits, and it is empty at the   *)
(* end of every iteration that starts a BR worker.                         *)
DrainOf(l) ==
    /\ recycle[l] \subseteq Tasks(l, 2)
    /\ pc[l] = "drain" => phase[l] = 4
    /\ phase[l] = 4 /\ pc[l] \in {"spawn", "wait"} /\ spawned[l][4] > 0 => recycle[l] = {}
    /\ phase[l] = 5 /\ spawned[l][4] > 0 => recycle[l] = {}

WorkInv == /\ PoolKeyed
           /\ \A l \in Ledgers : DrainOf(l) /\ \A i \in DOMAIN Txs(l) : StageOf(l, i)

-----------------------------------------------------------------------------
(* A banknote whose transactions are all in one ledger, l, while the       *)
(* phases l has left counted their workers well.                           *)
Home(l, b) ==
    \A m \in Ledgers \ {l} : \A i \in DOMAIN Txs(m) :
        /\ Txs(m)[i].note # b
        /\ Txs(m)[i].kind = "BS" => b \notin {Txs(m)[i].note1, Txs(m)[i].note2}
Orderly(l) == \A q \in PhaseIds : q < phase[l] => Matched(l, q)

MintsOf(l, b) == {i \in DOMAIN Txs(l) :
                    \/ Txs(l)[i].kind = "BG" /\ Txs(l)[i].note = b
                    \/ Txs(l)[i].kind = "BS" /\ b \in {Txs(l)[i].note1, Txs(l)[i].note2}}
UsesOf(l, k, b) == {i \in DOMAIN Txs(l) : Txs(l)[i].kind = k /\ Txs(l)[i].note = b}

(* The step that adds b to the pool was made, or is still to come.         *)
Passed(l, b, i) == at[l][i] = "done" \/ (at[l][i] = "second" /\ Txs(l)[i].note1 = b)
Came(l, b) == b \in workload.pool \/ \E i \in MintsOf(l, b) : Passed(l, b, i)
Coming(l, b) == \E i \in MintsOf(l, b) : ~Passed(l, b, i)

MadeOnceIn(l, b) ==
    /\ \A i, j \in MintsOf(l, b) : i = j
    /\ b \in workload.pool => MintsOf(l, b) = {}
    /\ \A i \in MintsOf(l, b) : Txs(l)[i].kind = "BS" => Txs(l)[i].note1 # Txs(l)[i].note2

(* A split that is through with its source either left the hash in the     *)
(* recycle channel or removed a banknote that will not come again.         *)
PoolOf(l, b) ==
    /\ pool[b] # NoBanknote => Came(l, b)
    /\ Came(l, b) /\ UsesOf(l, "BS", b) \cup UsesOf(l, "BR", b) = {} => pool[b] # NoBanknote
    /\ \A i \in UsesOf(l, "BS", b) :
          /\ at[l][i] = "remove" => Came(l, b)
          /\ at[l][i] \in {"first", "second", "done"} =>
                i \in recycle[l] \/ (pool[b] = NoBanknote /\ ~Coming(l, b))
    /\ \A i \in UsesOf(l, "BT", b) :
          at[l][i] \in {"ownerHi", "ownerLo", "store"} => pool[b] # NoBanknote
    /\ \A i \in UsesOf(l, "BR", b) : at[l][i] = "done" => pool[b] = NoBanknote
PlainIn(l, b) == /\ Home(l, b) /\ MadeOnceIn(l, b)
                 /\ \A i \in UsesOf(l, "BT", b) : Txs(l)[i].amount # InitAmount
PoolInv == \A l \in Ledgers, b \in Banknotes : PlainIn(l, b) /\ Orderly(l) => PoolOf(l, b)

(* A banknote that may be an initial one and that one split spends: the    *)
(* split leaves its hash in the recycle channel if nobody made it before.  *)
KnownBefore(l, b) == b \in workload.pool \/ MintsOf(l, b) # {}
InitialOf(l, b) ==
    /\ ~KnownBefore(l, b) /\ phase[l] \in {1, 2} => pool[b] = NoBanknote
    /\ \A i \in UsesOf(l, "BS", b) :
          /\ at[l][i] \in {"waiting", "lookup", "remove"} /\ Came(l, b) => pool[b] # NoBanknote
          /\ at[l][i] = "remove" => KnownBefore(l, b)
          /\ at[l][i] = "recycle" \/ i \in recycle[l] => ~KnownBefore(l, b)
          /\ at[l][i] \in {"first", "second", "done"} /\ ~KnownBefore(l, b) =>
                i \in recycle[l] \/ (phase[l] \in {4, 5} /\ pool[b] = NoBanknote)
    /\ \A i \in UsesOf(l, "BT", b) :
          /\ Txs(l)[i].amount = InitAmount /\ KnownBefore(l, b)
          /\ at[l][i] \in {"ownerHi", "ownerLo", "store", "done"}
          => pool[b] # NoBanknote
SpentOnce(l, b) == /\ Home(l, b)
                   /\ \E i \in DOMAIN Txs(l) : UsesOf(l, "BS", b) = {i}
                   /\ UsesOf(l, "BR", b) = {}
                   /\ \A i \in MintsOf(l, b) : Txs(l)[i].kind = "BG"
InitialInv == \A l \in Ledgers, b \in Banknotes : SpentOnce(l, b) /\ Orderly(l) => InitialOf(l, b)

(* The owner that a transfer is writing, or has written.                   *)
Payees(l, b) == {Txs(l)[i].to : i \in UsesOf(l, "BT", b)}
OwnerOf(l, b) ==
    \A i \in UsesOf(l, "BT", b) :
        /\ at[l][i] = "ownerLo" => owner[held[l][i]][1] \in Payees(l, b)
        /\ at[l][i] = "store" => \A half \in {1, 2} : owner[held[l][i]][half] \in Payees(l, b)
        /\ at[l][i] = "done" /\ pool[b] # NoBanknote =>
              \A half \in {1, 2} : owner[pool[b]][half] \in Payees(l, b)
OwnerInv == \A l \in Ledgers, b \in Banknotes : Home(l, b) /\ Orderly(l) => OwnerOf(l, b)

-----------------------------------------------------------------------------
(* Stages of workers, keys of the pool and the recycle channel.            *)

(* A step of one ledger leaves the workers and the recycle channels of the *)
(* others alone.                                                           *)
LEMMA UntouchedWork ==
    ASSUME TypeOK, NEW l \in Ledgers, LedgerStep(l), NEW m \in Ledgers, m # l
    PROVE  held'[m] = held[m] /\ recycle'[m] = recycle[m]
  <1> USE DEF mainVars, workVars, chanVars, restOfWork, counters, others, TypeOK
  <1>1. CASE MainStep(l)
    BY <1>1 DEF MainStep, ResetWorkNumber, TestWorkNumber, FloorWorkNumber, LoadWorkNumber,
                DoubleWorkNumber, AddWorkers, SpawnWorker, EndSpawning, Drain, EndDrain,
                EndPhase, Finish
  <1>2. CASE \E i \in DOMAIN Txs(l) : TaskStep(l, i)
    BY <1>2 DEF TaskStep, Goto, Crash, SendModify, SendOnClosed, Issue, Lookup, Remove,
                Recycle, AddFirst, AddSecond, Materialise, WriteOwner, Store
  <1>3. CASE Dispatch(l) \/ Receive(l) \/ Commit(l)
    BY <1>3 DEF Dispatch, Receive, Commit
  <1>4. CASE \E p \in PhaseIds : TakeTx(l, p) \/ ExitWorker(l, p) \/ NegativeWaitGroup(l, p)
    BY <1>4 DEF TakeTx, ExitWorker, NegativeWaitGroup, Goto, Crash
  <1> QED  BY <1>1, <1>2, <1>3, <1>4 DEF LedgerStep

(* The main goroutine empties the recycle channel before it goes on.       *)
LEMMA DrainMain ==
    ASSUME TypeOK, PhaseOK, NEW l \in Ledgers, CountInv(l), DrainOf(l), MainStep(l)
    PROVE  DrainOf(l)'
  <1>0. /\ phase \in [Ledgers -> 1..5] /\ spawned \in [Ledgers -> [PhaseIds -> Nat]]
        /\ pc \in [Ledgers -> {"reset", "floor", "one", "load", "double", "add", "spawn",
                               "drain", "wait", "ack", "finished"}]
        /\ recycle \in [Ledgers -> SUBSET TaskIds]
        /\ PhaseIds = 1..4
    BY DEF TypeOK, PhaseIds
  <1>a. pc[l] \notin {"ack", "finished"} => phase[l] \in PhaseIds
    BY <1>0 DEF PhaseOK
  <1>b. ASSUME workload' = workload PROVE Tasks(l, 2)' = Tasks(l, 2)
    BY <1>b DEF Tasks, Txs
  <1> USE <1>0, <1>a, <1>b DEF DrainOf, counters, others, chanVars, mainVars
  <1>1. CASE ResetWorkNumber(l) \/ TestWorkNumber(l) \/ FloorWorkNumber(l)
             \/ LoadWorkNumber(l) \/ DoubleWorkNumber(l)
    BY <1>1 DEF ResetWorkNumber, TestWorkNumber, FloorWorkNumber, LoadWorkNumber, DoubleWorkNumber
  <1>2. CASE AddWorkers(l)
    <2>1. spawned[l][phase[l]] = 0
      BY <1>2 DEF AddWorkers, CountInv, CountAt, PreAdd
    <2> QED  BY <1>2, <2>1 DEF AddWorkers
  <1>3. CASE SpawnWorker(l)
    BY <1>3 DEF SpawnWorker
  <1>4. CASE EndSpawning(l)
    BY <1>4 DEF EndSpawning
  <1>5. CASE Drain(l)
    <2>1. /\ pc[l] = "drain" /\ UNCHANGED <<workload, pc, phase, spawned>>
          /\ recycle'[l] \subseteq recycle[l]
      BY <1>5 DEF Drain
    <2> QED  BY <2>1
  <1>6. CASE EndDrain(l)
    BY <1>6 DEF EndDrain
  <1>7. CASE EndPhase(l)
    BY <1>7 DEF EndPhase
  <1>8. CASE Finish(l)
    BY <1>8 DEF Finish
  <1> QED  BY <1>1, <1>2, <1>3, <1>4, <1>5, <1>6, <1>7, <1>8 DEF MainStep

(* The other goroutines put nothing there after the BS phase.              *)
LEMMA DrainTask ==
    ASSUME TypeOK, NEW l \in Ledgers, NEW i \in DOMAIN Txs(l), StageOf(l, i),
           DrainOf(l), TaskStep(l, i)
    PROVE  DrainOf(l)'
  <1> USE DEF restOfWork, mainVars, chanVars
  <1>1. CASE Recycle(l, i)
    <2>1. /\ UNCHANGED <<workload, pc, phase, spawned>> /\ phase[l] \in 1..5 /\ ~(phase[l] > 2)
          /\ recycle'[l] = recycle[l] \cup {i}
      BY <1>1 DEF Recycle, RecycleClosed, TypeOK
    <2>2. i \in Tasks(l, 2)
      BY <1>1 DEF Recycle, StageOf, Tasks, Phases
    <2> QED  BY <2>1, <2>2 DEF DrainOf, Tasks, Txs
  <1>2. CASE ~Recycle(l, i)
    <2>1. UNCHANGED <<workload, pc, phase, spawned, recycle>>
      BY <1>2 DEF TaskStep, Crash, SendModify, SendOnClosed, Issue, Lookup, Remove,
                  AddFirst, AddSecond, Materialise, WriteOwner, Store
    <2> QED  BY <2>1 DEF DrainOf, Tasks, Txs
  <1> QED  BY <1>1, <1>2

(* Each step of a worker brings it to a stage of its transaction's kind.   *)
LEMMA StageTask ==
    ASSUME TypeOK, PoolKeyed, NEW l \in Ledgers, NEW i \in DOMAIN Txs(l), StageOf(l, i),
           TaskStep(l, i)
    PROVE  StageOf(l, i)'
  <1> DEFINE tx == Txs(l)[i]
  <1>0. /\ tx.kind \in {"BG", "BS", "BT", "BR"} /\ tx.note \in Banknotes
        /\ held[l][i] \in Objects \cup {NoBanknote}
    BY TaskType DEF BanknoteTx, Kinds
  <1>1. ASSUME NEW stage, Goto(l, i, stage) PROVE at'[l][i] = stage
    BY <1>1 DEF Goto, TypeOK
  <1>2. workload' = workload => Txs(l)' = Txs(l)
    BY DEF Txs
  <1> USE DEF restOfWork, StageOf, workVars
  <1>3. CASE SendModify(l, i)
    BY <1>0, <1>1, <1>2, <1>3 DEF SendModify
  <1>4. CASE SendOnClosed(l, i)
    BY <1>2, <1>4 DEF SendOnClosed, Crash
  <1>5. CASE Issue(l, i) \/ Recycle(l, i) \/ AddFirst(l, i) \/ AddSecond(l, i)
    BY <1>0, <1>1, <1>2, <1>5 DEF Issue, Recycle, AddFirst, AddSecond
  <1>6. CASE Remove(l, i)
    BY <1>0, <1>1, <1>2, <1>6 DEF Remove
  <1>7. CASE WriteOwner(l, i) \/ Store(l, i)
    BY <1>0, <1>1, <1>2, <1>7 DEF WriteOwner, Store
  <1>8. CASE Lookup(l, i)
    <2>1. at'[l][i] = AfterLookup(tx, pool[tx.note] # NoBanknote)
      BY <1>1, <1>8 DEF Lookup
    <2>2. held'[l][i] = pool[tx.note] /\ Txs(l)' = Txs(l)
      BY <1>2, <1>8 DEF Lookup, TypeOK
    <2>3. pool[tx.note] # NoBanknote => pool[tx.note][1] = tx.note
      BY <1>0 DEF PoolKeyed
    <2>4. tx.kind # "BG"
      BY <1>8 DEF Lookup
    <2> QED
      BY <1>0, <2>1, <2>2, <2>3, <2>4 DEF AfterLookup, AfterLookupBS, AfterLookupBT, AfterLookupBR
  <1>9. CASE Materialise(l, i)
    <2>1. at'[l][i] = "ownerHi" /\ held'[l][i] = <<tx.note, <<l, i>>>> /\ Txs(l)' = Txs(l)
      BY <1>1, <1>2, <1>9 DEF Materialise, TypeOK
    <2>2. <<tx.note, <<l, i>>>> \in Objects
      BY <1>0, TaskType DEF Objects
    <2>3. <<tx.note, <<l, i>>>> # NoBanknote
      BY <2>2, PeripheralAssumption
    <2>4. tx.kind = "BT"
      BY <1>9 DEF Materialise
    <2> QED  BY <2>1, <2>3, <2>4
  <1> QED  BY <1>3, <1>4, <1>5, <1>6, <1>7, <1>8, <1>9 DEF TaskStep

(* The pool stays keyed by hash.                                           *)
LEMMA PoolKeyedTask ==
    ASSUME TypeOK, PoolKeyed, NEW l \in Ledgers, NEW i \in DOMAIN Txs(l), StageOf(l, i),
           TaskStep(l, i)
    PROVE  PoolKeyed'
  <1> DEFINE tx == Txs(l)[i]
  <1>0. /\ tx.note \in Banknotes /\ tx.note1 \in Banknotes /\ tx.note2 \in Banknotes
        /\ held[l][i] \in Objects \cup {NoBanknote} /\ DOMAIN pool = Banknotes
    BY TaskType DEF BanknoteTx, TypeOK
  <1>1. ASSUME NEW b \in Banknotes, NEW holder, Add(l, i, b, holder) PROVE PoolKeyed'
    BY <1>0, <1>1 DEF Add, PoolKeyed
  <1> USE DEF restOfWork, poolVars
  <1>2. CASE UNCHANGED pool
    BY <1>2 DEF PoolKeyed
  <1>3. CASE Issue(l, i)
    BY <1>0, <1>1, <1>3 DEF Issue
  <1>4. CASE Remove(l, i)
    BY <1>0, <1>4 DEF Remove, PoolKeyed
  <1>5. CASE AddFirst(l, i)
    BY <1>0, <1>1, <1>5 DEF AddFirst
  <1>6. CASE AddSecond(l, i)
    BY <1>0, <1>1, <1>6 DEF AddSecond
  <1>7. CASE Materialise(l, i)
    BY <1>0, <1>1, <1>7 DEF Materialise
  <1>8. CASE Store(l, i)
    BY <1>0, <1>8 DEF Store, PoolKeyed, StageOf
  <1>9. SendModify(l, i) \/ SendOnClosed(l, i) \/ Lookup(l, i) \/ Recycle(l, i) \/ WriteOwner(l, i)
            => UNCHANGED pool
    BY DEF SendModify, SendOnClosed, Crash, Lookup, Recycle, WriteOwner
  <1> QED  BY <1>2, <1>3, <1>4, <1>5, <1>6, <1>7, <1>8, <1>9 DEF TaskStep

(* A step with one transaction leaves the stages of the others alone.      *)
LEMMA OtherTasks ==
    ASSUME TypeOK, NEW l \in Ledgers, NEW i \in DOMAIN Txs(l), TaskStep(l, i),
           NEW j \in DOMAIN Txs(l), j # i
    PROVE  at'[l][j] = at[l][j] /\ held'[l][j] = held[l][j]
  BY DEF TaskStep, Goto, Crash, SendModify, SendOnClosed, Issue, Lookup, Remove,
         Recycle, AddFirst, AddSecond, Materialise, WriteOwner, Store, restOfWork, workVars, TypeOK

(* What a step of the main goroutine leaves alone, and what it may do to   *)
(* the pool: take one hash out of the recycle channel and remove it.       *)
LEMMA MainEffect ==
    ASSUME TypeOK, NEW l \in Ledgers, WorkInv, MainStep(l)
    PROVE  /\ UNCHANGED <<workload, owner, at, held>>
           /\ \/ pool' = pool /\ recycle' = recycle
              \/ /\ phase' = phase /\ phase[l] = 4
                 /\ \E i \in recycle[l] :
                       /\ pool' = [pool EXCEPT ![Txs(l)[i].note] = NoBanknote]
                       /\ recycle'[l] = recycle[l] \ {i}
  <1> USE DEF counters, others, poolVars, chanVars, workVars, mainVars
  <1>1. CASE Drain(l)
    <2>1. phase[l] = 4 /\ DOMAIN recycle = Ledgers
      BY <1>1 DEF Drain, WorkInv, DrainOf, TypeOK
    <2> QED  BY <1>1, <2>1 DEF Drain
  <1>2. CASE ~Drain(l)
    BY <1>2 DEF MainStep, ResetWorkNumber, TestWorkNumber, FloorWorkNumber, LoadWorkNumber,
                DoubleWorkNumber, AddWorkers, SpawnWorker, EndSpawning, EndDrain, EndPhase, Finish
  <1> QED  BY <1>1, <1>2

(* The other steps outside a transaction start a worker on one, at most.   *)
LEMMA RestEffect ==
    ASSUME TypeOK, NEW l \in Ledgers,
           \/ Dispatch(l) \/ Receive(l) \/ Commit(l)
           \/ \E p \in PhaseIds : TakeTx(l, p) \/ ExitWorker(l, p) \/ NegativeWaitGroup(l, p)
    PROVE  /\ UNCHANGED <<workload, owner, held, pool, recycle, pc, phase, added, spawned>>
           /\ \/ at' = at
              \/ \E p \in PhaseIds : \E i \in Tasks(l, p) :
                    at[l][i] = "waiting" /\ Goto(l, i, FirstStage[Phases[p]])
  <1> USE DEF mainVars, poolVars, chanVars, workVars, restOfWork
  <1>1. CASE Dispatch(l) \/ Receive(l) \/ Commit(l)
    BY <1>1 DEF Dispatch, Receive, Commit
  <1>2. CASE \E p \in PhaseIds : ExitWorker(l, p) \/ NegativeWaitGroup(l, p)
    BY <1>2 DEF ExitWorker, NegativeWaitGroup, Crash
  <1>3. ASSUME NEW p \in PhaseIds, TakeTx(l, p)
        PROVE  /\ UNCHANGED <<workload, owner, held, pool, recycle, pc, phase, added, spawned>>
               /\ \E i \in Tasks(l, p) : at[l][i] = "waiting" /\ Goto(l, i, FirstStage[Phases[p]])
    BY <1>3 DEF TakeTx, Queue
  <1> QED  BY <1>1, <1>2, <1>3

(* A worker only touches banknotes that its transaction names.             *)
LEMMA Nameless ==
    ASSUME TypeOK, NEW l \in Ledgers, NEW i \in DOMAIN Txs(l), StageOf(l, i), TaskStep(l, i),
           NEW b \in Banknotes, Txs(l)[i].note # b,
           Txs(l)[i].kind = "BS" => b \notin {Txs(l)[i].note1, Txs(l)[i].note2}
    PROVE  /\ pool'[b] = pool[b]
           /\ \A o \in Objects : o[1] = b => owner'[o] = owner[o]
  <1> DEFINE tx == Txs(l)[i]
  <1>0. /\ tx.note \in Banknotes /\ tx.note1 \in Banknotes /\ tx.note2 \in Banknotes
        /\ held[l][i] \in Objects \cup {NoBanknote}
        /\ DOMAIN pool = Banknotes /\ DOMAIN owner = Objects
    BY TaskType DEF BanknoteTx, TypeOK
  <1>1. ASSUME NEW c \in Banknotes, NEW holder, Add(l, i, c, holder), c # b
        PROVE  /\ pool'[b] = pool[b]
               /\ \A o \in Objects : o[1] = b => owner'[o] = owner[o]
    BY <1>0, <1>1 DEF Add
  <1> USE DEF restOfWork, poolVars
  <1>2. CASE Issue(l, i) \/ Materialise(l, i)
    BY <1>0, <1>1, <1>2 DEF Issue, Materialise
  <1>3. CASE AddFirst(l, i) \/ AddSecond(l, i)
    BY <1>0, <1>1, <1>3 DEF AddFirst, AddSecond, StageOf
  <1>4. CASE Remove(l, i)
    BY <1>0, <1>4 DEF Remove
  <1>5. CASE Store(l, i)
    <2>1. held[l][i][1] = tx.note /\ pool' = [pool EXCEPT ![held[l][i][1]] = held[l][i]]
          /\ UNCHANGED owner
      BY <1>5 DEF Store, StageOf
    <2> QED  BY <1>0, <2>1
  <1>6. CASE WriteOwner(l, i)
    <2>1. held[l][i][1] = tx.note
      BY <1>6 DEF WriteOwner, StageOf
    <2> QED  BY <1>0, <1>6, <2>1 DEF WriteOwner
  <1>7. CASE SendModify(l, i) \/ SendOnClosed(l, i) \/ Lookup(l, i) \/ Recycle(l, i)
    BY <1>7 DEF SendModify, SendOnClosed, Crash, Lookup, Recycle
  <1> QED  BY <1>2, <1>3, <1>4, <1>5, <1>6, <1>7 DEF TaskStep

(* Every step of every goroutine keeps stages, keys and channel in order.  *)
LEMMA NextWork == IInv /\ WorkInv /\ [Next]_vars => WorkInv'
  <1> SUFFICES ASSUME IInv, WorkInv, [Next]_vars PROVE WorkInv'
    OBVIOUS
  <1>0. TypeOK /\ PhaseOK /\ (\A l \in Ledgers : CountInv(l)) /\ PoolKeyed
        /\ \A l \in Ledgers : DrainOf(l) /\ \A i \in DOMAIN Txs(l) : StageOf(l, i)
    BY DEF IInv, WorkInv
  <1>1. ASSUME NEW l \in Ledgers, LedgerStep(l), NEW m \in Ledgers, m # l
        PROVE  DrainOf(m)' /\ \A i \in DOMAIN Txs(m)' : StageOf(m, i)'
    BY <1>0, <1>1, Untouched, UntouchedWork DEF DrainOf, StageOf, Tasks, Txs
  <1>2. ASSUME NEW l \in Ledgers, LedgerStep(l)
        PROVE  PoolKeyed' /\ DrainOf(l)' /\ \A i \in DOMAIN Txs(l)' : StageOf(l, i)'
    <2>1. CASE MainStep(l)
      <3>1. DrainOf(l)'
        BY <1>0, <2>1, DrainMain
      <3>2. UNCHANGED <<workload, at, held>>
            /\ (pool' = pool \/ \E b : pool' = [pool EXCEPT ![b] = NoBanknote])
        BY <1>0, <2>1, MainEffect
      <3>3. \A i \in DOMAIN Txs(l)' : StageOf(l, i)'
        BY <1>0, <3>2 DEF StageOf, Txs
      <3>4. PoolKeyed'
        BY <1>0, <3>2 DEF PoolKeyed, TypeOK
      <3> QED  BY <3>1, <3>3, <3>4
    <2>2. ASSUME NEW i \in DOMAIN Txs(l), TaskStep(l, i)
          PROVE  PoolKeyed' /\ DrainOf(l)' /\ \A j \in DOMAIN Txs(l)' : StageOf(l, j)'
      <3>1. workload' = workload
        BY <2>2 DEF TaskStep, SendModify, SendOnClosed, Crash, Issue, Lookup, Remove, Recycle,
                    AddFirst, AddSecond, Materialise, WriteOwner, Store, restOfWork
      <3>2. PoolKeyed' /\ DrainOf(l)' /\ StageOf(l, i)'
        BY <1>0, <2>2, PoolKeyedTask, DrainTask, StageTask
      <3>3. \A j \in DOMAIN Txs(l) : j # i => StageOf(l, j)'
        BY <1>0, <2>2, <3>1, OtherTasks DEF StageOf, Txs
      <3> QED  BY <3>1, <3>2, <3>3 DEF Txs
    <2>3. CASE \/ Dispatch(l) \/ Receive(l) \/ Commit(l)
               \/ \E p \in PhaseIds : TakeTx(l, p) \/ ExitWorker(l, p) \/ NegativeWaitGroup(l, p)
      <3>1. UNCHANGED <<workload, held, pool, recycle, pc, phase, spawned>>
            /\ \/ at' = at
               \/ \E p \in PhaseIds : \E i \in Tasks(l, p) :
                     at[l][i] = "waiting" /\ Goto(l, i, FirstStage[Phases[p]])
        BY <1>0, <2>3, RestEffect
      <3>2. PoolKeyed' /\ DrainOf(l)'
        BY <1>0, <3>1 DEF PoolKeyed, DrainOf, Tasks, Txs
      <3>3. ASSUME NEW p \in PhaseIds, NEW i \in Tasks(l, p), Goto(l, i, FirstStage[Phases[p]])
            PROVE  /\ \A j \in DOMAIN Txs(l) : j # i => at'[l][j] = at[l][j]
                   /\ at'[l][i] \in {"charge", "lookup", "credit"}
                   /\ at'[l][i] = "charge" => Txs(l)[i].kind = "BG"
                   /\ at'[l][i] = "credit" => Txs(l)[i].kind = "BR"
                   /\ at'[l][i] = "lookup" => Txs(l)[i].kind # "BG"
        <4>1. at'[l][i] = FirstStage[Phases[p]] /\ Txs(l)[i].kind = Phases[p]
              /\ \A j \in DOMAIN Txs(l) : j # i => at'[l][j] = at[l][j]
          BY <1>0, <3>3 DEF Goto, TypeOK, Tasks
        <4> QED  BY <4>1 DEF FirstStage, Phases, PhaseIds
      <3>4. \A i \in DOMAIN Txs(l) : StageOf(l, i)'
        BY <1>0, <3>1, <3>3 DEF StageOf, Tasks, Txs
      <3> QED  BY <3>1, <3>2, <3>4 DEF Txs
    <2> QED  BY <1>2, <2>1, <2>2, <2>3 DEF LedgerStep
  <1>3. CASE UNCHANGED vars
    BY <1>0, <1>3 DEF vars, mainVars, poolVars, chanVars, workVars, WorkInv, PoolKeyed, DrainOf,
                      StageOf, Tasks, Txs
  <1> QED  BY <1>1, <1>2, <1>3 DEF Next, Terminated, WorkInv

-----------------------------------------------------------------------------
(* Which banknotes are active.                                             *)

(* While a ledger counts its workers well, the transactions of the earlier *)
(* phases are through, those of the later ones wait.                       *)
LEMMA InPhase ==
    ASSUME TypeOK, PhaseComplete, ChannelInv, NEW l \in Ledgers, Orderly(l),
           NEW i \in DOMAIN Txs(l), NEW p \in PhaseIds, Txs(l)[i].kind = Phases[p]
    PROVE  /\ p < phase[l] => at[l][i] = "done"
           /\ p > phase[l] => at[l][i] = "waiting"
           /\ at[l][i] \notin {"waiting", "done"} => phase[l] = p
  <1>1. i \in Tasks(l, p) /\ phase[l] \in 1..5 /\ p \in 1..4 /\ PhaseIds = 1..4
    BY DEF Tasks, TypeOK, PhaseIds
  <1>2. ASSUME p < phase[l] PROVE at[l][i] = "done"
    <2>1. WellCounted(l, p)
      BY <1>1, <1>2 DEF Orderly, WellCounted
    <2> QED  BY <1>1, <1>2, <2>1 DEF PhaseComplete, PhaseDone
  <1>3. p > phase[l] => at[l][i] = "waiting"
    BY <1>1 DEF ChannelInv, ChannelsOf
  <1> QED  BY <1>1, <1>2, <1>3

(* The same, kind by kind.                                                 *)
LEMMA InKind ==
    ASSUME TypeOK, PhaseComplete, ChannelInv, NEW l \in Ledgers, Orderly(l)
    PROVE  /\ phase[l] \in 1..5
           /\ \A i \in DOMAIN Txs(l) :
                /\ Txs(l)[i].kind \in {"BG", "BS", "BT", "BR"}
                /\ Txs(l)[i].kind = "BG" /\ phase[l] > 1 => at[l][i] = "done"
                /\ Txs(l)[i].kind = "BS" /\ phase[l] > 2 => at[l][i] = "done"
                /\ Txs(l)[i].kind = "BT" /\ phase[l] > 3 => at[l][i] = "done"
                /\ Txs(l)[i].kind = "BR" /\ phase[l] > 4 => at[l][i] = "done"
                /\ Txs(l)[i].kind = "BS" /\ phase[l] < 2 => at[l][i] = "waiting"
                /\ Txs(l)[i].kind = "BT" /\ phase[l] < 3 => at[l][i] = "waiting"
                /\ Txs(l)[i].kind = "BR" /\ phase[l] < 4 => at[l][i] = "waiting"
  <1>1. phase[l] \in 1..5
    BY DEF TypeOK
  <1>2. ASSUME NEW i \in DOMAIN Txs(l)
        PROVE  /\ Txs(l)[i].kind \in {"BG", "BS", "BT", "BR"}
               /\ \A p \in PhaseIds : Txs(l)[i].kind = Phases[p] =>
                     /\ p < phase[l] => at[l][i] = "done"
                     /\ p > phase[l] => at[l][i] = "waiting"
    <2>1. Txs(l)[i].kind \in {"BG", "BS", "BT", "BR"}
      BY TaskType DEF BanknoteTx, Kinds
    <2>2. ASSUME NEW p \in PhaseIds, Txs(l)[i].kind = Phases[p]
          PROVE  /\ p < phase[l] => at[l][i] = "done"
                 /\ p > phase[l] => at[l][i] = "waiting"
      BY <2>2, InPhase
    <2> QED  BY <2>1, <2>2
  <1>3. /\ PhaseIds = 1..4
        /\ Phases[1] = "BG" /\ Phases[2] = "BS" /\ Phases[3] = "BT" /\ Phases[4] = "BR"
    BY DEF PhaseIds, Phases
  <1> QED  BY <1>1, <1>2, <1>3

(* Who makes a banknote, and who uses it.                                  *)
LEMMA Naming ==
    ASSUME NEW l, NEW b, NEW i \in DOMAIN Txs(l)
    PROVE  /\ i \in MintsOf(l, b) <=>
                 \/ Txs(l)[i].kind = "BG" /\ Txs(l)[i].note = b
                 \/ Txs(l)[i].kind = "BS" /\ (b = Txs(l)[i].note1 \/ b = Txs(l)[i].note2)
           /\ i \in UsesOf(l, "BS", b) <=> Txs(l)[i].kind = "BS" /\ Txs(l)[i].note = b
           /\ i \in UsesOf(l, "BT", b) <=> Txs(l)[i].kind = "BT" /\ Txs(l)[i].note = b
           /\ i \in UsesOf(l, "BR", b) <=> Txs(l)[i].kind = "BR" /\ Txs(l)[i].note = b
  <1>1. i \in MintsOf(l, b) <=>
                 \/ Txs(l)[i].kind = "BG" /\ Txs(l)[i].note = b
                 \/ Txs(l)[i].kind = "BS" /\ (b = Txs(l)[i].note1 \/ b = Txs(l)[i].note2)
    BY DEF MintsOf
  <1>2. \A k \in {"BS", "BT", "BR"} :
           i \in UsesOf(l, k, b) <=> Txs(l)[i].kind = k /\ Txs(l)[i].note = b
    BY DEF UsesOf
  <1> QED  BY <1>1, <1>2

(* What is made once is not still to come when it came.                    *)
LEMMA CameOnce ==
    ASSUME NEW l, NEW b, MadeOnceIn(l, b), Came(l, b)
    PROVE  ~Coming(l, b)
  BY DEF MadeOnceIn, Came, Coming

(* What a step of a worker changes of the stages and of the channel.       *)
LEMMA TaskEffect ==
    ASSUME TypeOK, NEW l \in Ledgers, NEW i \in DOMAIN Txs(l), TaskStep(l, i)
    PROVE  /\ workload' = workload /\ phase' = phase /\ added' = added /\ spawned' = spawned
           /\ \A j \in DOMAIN Txs(l) : j # i => at'[l][j] = at[l][j] /\ held'[l][j] = held[l][j]
           /\ recycle[l] \subseteq recycle'[l] /\ recycle'[l] \subseteq recycle[l] \cup {i}
           /\ at[l][i] \notin {"waiting", "done"}
  <1>1. /\ workload' = workload /\ phase' = phase /\ added' = added /\ spawned' = spawned
        /\ at[l][i] \notin {"waiting", "done"}
    BY DEF TaskStep, SendModify, SendOnClosed, Crash, Issue, Lookup, Remove, Recycle,
           AddFirst, AddSecond, Materialise, WriteOwner, Store, restOfWork, mainVars
  <1>2. recycle[l] \subseteq recycle'[l] /\ recycle'[l] \subseteq recycle[l] \cup {i}
    BY DEF TaskStep, SendModify, SendOnClosed, Crash, Issue, Lookup, Remove, Recycle,
           AddFirst, AddSecond, Materialise, WriteOwner, Store, chanVars, TypeOK
  <1> QED  BY <1>1, <1>2, OtherTasks

(* A step of a worker that does not touch the banknote's place in the pool *)
(* and brings nobody who makes it past the step that does.                 *)
LEMMA PoolQuiet ==
    ASSUME TypeOK, NEW l \in Ledgers, NEW b \in Banknotes, PoolOf(l, b),
           NEW i \in DOMAIN Txs(l), TaskStep(l, i), pool'[b] = pool[b],
           i \in MintsOf(l, b) => (Passed(l, b, i)' <=> Passed(l, b, i)),
           i \in UsesOf(l, "BS", b) =>
              /\ at'[l][i] = "remove" => Came(l, b)
              /\ at'[l][i] \in {"first", "second", "done"} =>
                    i \in recycle'[l] \/ (pool[b] = NoBanknote /\ ~Coming(l, b)),
           i \in UsesOf(l, "BT", b) =>
              (at'[l][i] \in {"ownerHi", "ownerLo", "store"} => pool[b] # NoBanknote),
           i \in UsesOf(l, "BR", b) => (at'[l][i] = "done" => pool[b] = NoBanknote)
    PROVE  PoolOf(l, b)'
  <1>1. /\ MintsOf(l, b)' = MintsOf(l, b) /\ workload' = workload
        /\ \A k \in Kinds : UsesOf(l, k, b)' = UsesOf(l, k, b)
    BY TaskEffect DEF MintsOf, UsesOf, Txs
  <1>2. /\ \A j \in DOMAIN Txs(l) : j # i => at'[l][j] = at[l][j]
        /\ recycle[l] \subseteq recycle'[l]
        /\ \A k \in Kinds : UsesOf(l, k, b) \subseteq DOMAIN Txs(l)
        /\ MintsOf(l, b) \subseteq DOMAIN Txs(l)
    BY TaskEffect DEF UsesOf, MintsOf
  <1>3. \A j \in MintsOf(l, b) : (Passed(l, b, j)' <=> Passed(l, b, j))
    BY <1>1, <1>2 DEF Passed, Txs
  <1>4. (Came(l, b)' <=> Came(l, b)) /\ (Coming(l, b)' <=> Coming(l, b))
    BY <1>1, <1>3 DEF Came, Coming
  <1> QED  BY <1>1, <1>2, <1>4 DEF PoolOf, Kinds

(* Steps of a worker.                                                      *)
LEMMA PoolTask ==
    ASSUME TypeOK, PhaseComplete, ChannelInv, WorkInv, NEW l \in Ledgers, NEW b \in Banknotes,
           PlainIn(l, b), Orderly(l), PoolOf(l, b), NEW i \in DOMAIN Txs(l), TaskStep(l, i)
    PROVE  PoolOf(l, b)'
  <1> DEFINE tx == Txs(l)[i]
  <1>0. /\ tx.kind \in {"BG", "BS", "BT", "BR"}
        /\ tx.note \in Banknotes /\ tx.note1 \in Banknotes /\ tx.note2 \in Banknotes
        /\ StageOf(l, i) /\ held[l][i] \in Objects \cup {NoBanknote}
        /\ pool \in [Banknotes -> Objects \cup {NoBanknote}]
    BY TaskType DEF BanknoteTx, Kinds, WorkInv, TypeOK
  <1>1. /\ MintsOf(l, b)' = MintsOf(l, b) /\ workload' = workload /\ Txs(l)' = Txs(l)
        /\ \A k \in Kinds : UsesOf(l, k, b)' = UsesOf(l, k, b)
        /\ \A k \in Kinds : UsesOf(l, k, b) \subseteq DOMAIN Txs(l)
        /\ MintsOf(l, b) \subseteq DOMAIN Txs(l)
        /\ \A j \in DOMAIN Txs(l) : j # i => at'[l][j] = at[l][j]
        /\ recycle[l] \subseteq recycle'[l]
        /\ at[l][i] \notin {"waiting", "done"}
    BY TaskEffect DEF MintsOf, UsesOf, Txs
  <1>2. \A stage : Goto(l, i, stage) => at'[l][i] = stage
    BY DEF Goto, TypeOK
  <1>3. /\ i \in MintsOf(l, b) <=> (tx.kind = "BG" /\ tx.note = b)
                                    \/ (tx.kind = "BS" /\ (b = tx.note1 \/ b = tx.note2))
        /\ i \in UsesOf(l, "BS", b) <=> (tx.kind = "BS" /\ tx.note = b)
        /\ i \in UsesOf(l, "BT", b) <=> (tx.kind = "BT" /\ tx.note = b)
        /\ i \in UsesOf(l, "BR", b) <=> (tx.kind = "BR" /\ tx.note = b)
    BY Naming
  <1>4. Passed(l, b, i) <=> at[l][i] = "second" /\ tx.note1 = b
    BY <1>1 DEF Passed
  <1>5. Passed(l, b, i)' <=> at'[l][i] = "done" \/ (at'[l][i] = "second" /\ tx.note1 = b)
    BY <1>1 DEF Passed
  \* The step that adds the banknote.
  <1>a. ASSUME i \in MintsOf(l, b), ~Passed(l, b, i), Passed(l, b, i)', pool'[b] # NoBanknote,
               tx.kind \in {"BG", "BS"}
        PROVE  PoolOf(l, b)'
    <2>1. Came(l, b)' /\ Coming(l, b)
      BY <1>1, <1>a DEF Came, Coming
    <2>2. phase[l] \in {1, 2}
      BY <1>1, <1>a, InKind
    <2>3. \A j \in UsesOf(l, "BT", b) \cup UsesOf(l, "BR", b) : at'[l][j] = "waiting"
      BY <1>0, <1>1, <1>a, <2>2, InKind DEF UsesOf
    <2>4. ASSUME NEW j \in UsesOf(l, "BS", b), at'[l][j] \in {"remove", "first", "second", "done"}
          PROVE  at'[l][j] # "remove" /\ j \in recycle'[l]
      <3>1. CASE j = i
        <4>1. tx.kind = "BS" /\ at[l][i] \in {"first", "second"} /\ at'[l][i] # "remove"
          <5>1. tx.kind = "BS"
            BY <2>4, <3>1 DEF UsesOf
          <5>2. AddFirst(l, i) \/ AddSecond(l, i)
            <6>1. CASE Issue(l, i) \/ SendModify(l, i)
              BY <1>0, <5>1, <6>1 DEF Issue, SendModify, StageOf
            <6>2. CASE Lookup(l, i)
              BY <1>2, <1>a, <1>5, <5>1, <6>2 DEF Lookup, AfterLookup, AfterLookupBS
            <6>3. CASE Remove(l, i) \/ Recycle(l, i)
              BY <1>2, <1>a, <1>5, <5>1, <6>3 DEF Remove, Recycle
            <6>4. CASE Materialise(l, i) \/ WriteOwner(l, i) \/ Store(l, i)
              BY <1>0, <5>1, <6>4 DEF Materialise, WriteOwner, Store, StageOf
            <6>5. CASE SendOnClosed(l, i)
              BY <1>1, <1>a, <6>5 DEF SendOnClosed, Crash, workVars, Passed
            <6> QED  BY <6>1, <6>2, <6>3, <6>4, <6>5 DEF TaskStep
          <5> QED  BY <1>2, <5>1, <5>2 DEF AddFirst, AddSecond
        <4> QED  BY <1>1, <2>1, <2>4, <3>1, <4>1 DEF PoolOf
      <3>2. CASE j # i
        <4>1. at'[l][j] = at[l][j]
          BY <1>1, <2>4, <3>2 DEF UsesOf
        <4>2. at[l][j] # "remove"
          BY <2>1, <2>4, CameOnce DEF PoolOf, PlainIn
        <4> QED  BY <1>1, <2>1, <2>4, <4>1, <4>2 DEF PoolOf
      <3> QED  BY <3>1, <3>2
    <2> QED  BY <1>1, <1>a, <2>1, <2>3, <2>4 DEF PoolOf, Kinds
  \* Steps that leave the banknote's place in the pool alone.
  <1>6. CASE tx.note # b /\ i \notin MintsOf(l, b)
    <2>1. pool'[b] = pool[b]
      BY <1>0, <1>3, <1>6, Nameless
    <2> QED  BY <1>3, <1>6, <2>1, PoolQuiet
  <1>7. CASE SendModify(l, i) \/ SendOnClosed(l, i)
    <2>1. UNCHANGED pool /\ (at' = at \/ at'[l][i] \in {"issue", "lookup"})
      BY <1>2, <1>7 DEF SendModify, SendOnClosed, Crash, workVars, poolVars
    <2>2. at[l][i] \in {"charge", "credit"} \/ at' = at
      BY <1>7 DEF SendModify, SendOnClosed, Crash, workVars
    <2>3. (Passed(l, b, i)' <=> Passed(l, b, i))
      BY <1>1, <2>1, <2>2 DEF Passed
    <2>4. at' = at => recycle' = recycle
      BY <1>0, <1>7, <1>2 DEF SendModify, SendOnClosed, Crash, chanVars
    <2> QED  BY <1>1, <2>1, <2>3, <2>4, PoolQuiet DEF PoolOf
  <1>8. CASE Lookup(l, i)
    <2>1. pool' = pool /\ at[l][i] = "lookup" /\ tx.kind # "BG"
      BY <1>0, <1>8 DEF Lookup, poolVars, StageOf
    <2>2. at'[l][i] = AfterLookup(tx, pool[tx.note] # NoBanknote)
      BY <1>2, <1>8 DEF Lookup
    <2>3. CASE tx.kind = "BS"
      <3>1. at'[l][i] = IF pool[tx.note] # NoBanknote THEN "remove" ELSE "recycle"
        BY <2>2, <2>3 DEF AfterLookup, AfterLookupBS
      <3>2. tx.note = b /\ at'[l][i] = "remove" => Came(l, b)
        BY <3>1 DEF PoolOf
      <3> QED  BY <1>3, <1>4, <1>5, <2>1, <2>3, <3>1, <3>2, PoolQuiet
    <2>4. CASE tx.kind = "BT"
      <3>1. tx.note = b => at'[l][i] = IF pool[b] # NoBanknote THEN "ownerHi" ELSE "done"
        BY <1>3, <2>2, <2>4 DEF AfterLookup, AfterLookupBT, PlainIn
      <3> QED  BY <1>3, <2>1, <2>4, <3>1, PoolQuiet
    <2>5. CASE tx.kind = "BR"
      <3>1. tx.note = b => at'[l][i] = IF pool[b] # NoBanknote THEN "remove" ELSE "done"
        BY <2>2, <2>5 DEF AfterLookup, AfterLookupBR
      <3> QED  BY <1>3, <2>1, <2>5, <3>1, PoolQuiet
    <2> QED  BY <1>0, <2>1, <2>3, <2>4, <2>5
  <1>9. CASE Recycle(l, i)
    <2>1. /\ pool' = pool /\ at[l][i] = "recycle" /\ at'[l][i] = "first" /\ i \in recycle'[l]
          /\ tx.kind = "BS"
      BY <1>0, <1>2, <1>9 DEF Recycle, poolVars, StageOf, TypeOK
    <2> QED  BY <1>3, <1>4, <1>5, <2>1, PoolQuiet
  <1>10. CASE WriteOwner(l, i)
    <2>1. /\ pool' = pool /\ at[l][i] \in {"ownerHi", "ownerLo"} /\ tx.kind = "BT"
          /\ at'[l][i] \in {"ownerLo", "store"}
      BY <1>0, <1>2, <1>10 DEF WriteOwner, StageOf
    <2>2. i \in UsesOf(l, "BT", b) => pool[b] # NoBanknote
      BY <2>1 DEF PoolOf
    <2> QED  BY <1>3, <2>1, <2>2, PoolQuiet
  \* Steps that change it.
  <1>11. CASE Issue(l, i) /\ tx.note = b
    <2>1. /\ at[l][i] = "issue" /\ tx.kind = "BG" /\ at'[l][i] = "done"
          /\ pool'[b] = <<b, <<l, i>>>>
      BY <1>0, <1>2, <1>11 DEF Issue, StageOf, Add
    <2>2. <<b, <<l, i>>>> # NoBanknote
      BY TaskType, PeripheralAssumption DEF Objects
    <2>3. i \in MintsOf(l, b) /\ pool'[b] # NoBanknote
      BY <1>3, <1>11, <2>1, <2>2
    <2>4. ~Passed(l, b, i) /\ Passed(l, b, i)'
      BY <1>4, <1>5, <2>1
    <2> QED  BY <1>a, <2>1, <2>3, <2>4
  <1>12. CASE AddFirst(l, i)
    <2>1. /\ at[l][i] = "first" /\ tx.kind = "BS" /\ at'[l][i] = "second"
          /\ pool' = [pool EXCEPT ![tx.note1] = <<tx.note1, <<l, i>>>>]
      BY <1>0, <1>2, <1>12 DEF AddFirst, StageOf, Add
    <2>2. CASE tx.note1 = b
      <3>1. <<b, <<l, i>>>> # NoBanknote
        BY TaskType, PeripheralAssumption DEF Objects
      <3>2. pool'[b] # NoBanknote
        BY <1>0, <2>1, <2>2, <3>1
      <3> QED  BY <1>3, <1>4, <1>5, <1>a, <2>1, <2>2, <3>2
    <2>3. CASE tx.note1 # b
      <3>1. pool'[b] = pool[b]
        BY <1>0, <2>1, <2>3
      <3>2. i \in UsesOf(l, "BS", b) =>
               i \in recycle'[l] \/ (pool[b] = NoBanknote /\ ~Coming(l, b))
        BY <1>1, <2>1 DEF PoolOf
      <3> QED  BY <1>3, <1>4, <1>5, <2>1, <2>3, <3>1, <3>2, PoolQuiet
    <2> QED  BY <2>2, <2>3
  <1>13. CASE AddSecond(l, i)
    <2>1. /\ at[l][i] = "second" /\ tx.kind = "BS" /\ at'[l][i] = "done"
          /\ pool' = [pool EXCEPT ![tx.note2] = <<tx.note2, <<l, i>>>>]
      BY <1>0, <1>2, <1>13 DEF AddSecond, StageOf, Add
    <2>2. i \in MintsOf(l, b) => tx.note1 # tx.note2
      BY <2>1 DEF PlainIn, MadeOnceIn
    <2>3. CASE tx.note2 = b
      <3>1. <<b, <<l, i>>>> # NoBanknote
        BY TaskType, PeripheralAssumption DEF Objects
      <3>2. pool'[b] # NoBanknote
        BY <1>0, <2>1, <2>3, <3>1
      <3> QED  BY <1>3, <1>4, <1>5, <1>a, <2>1, <2>2, <2>3, <3>2
    <2>4. CASE tx.note2 # b
      <3>1. pool'[b] = pool[b]
        BY <1>0, <2>1, <2>4
      <3>2. i \in UsesOf(l, "BS", b) =>
               i \in recycle'[l] \/ (pool[b] = NoBanknote /\ ~Coming(l, b))
        BY <1>1, <2>1 DEF PoolOf
      <3> QED  BY <1>3, <1>4, <1>5, <2>1, <2>4, <3>1, <3>2, PoolQuiet
    <2> QED  BY <2>3, <2>4
  <1>14. CASE Remove(l, i) /\ tx.note = b
    <2>1. /\ at[l][i] = "remove" /\ tx.kind \in {"BS", "BR"} /\ pool'[b] = NoBanknote
          /\ at'[l][i] = IF tx.kind = "BS" THEN "first" ELSE "done"
      BY <1>0, <1>2, <1>14 DEF Remove, StageOf
    <2>2. i \in UsesOf(l, "BS", b) \cup UsesOf(l, "BR", b)
      BY <1>3, <1>14, <2>1
    <2>3. \A j \in MintsOf(l, b) : (Passed(l, b, j)' <=> Passed(l, b, j))
      <3>1. i \in MintsOf(l, b) => (Passed(l, b, i)' <=> Passed(l, b, i))
        BY <1>3, <1>4, <1>5, <2>1
      <3> QED  BY <1>1, <3>1 DEF Passed
    <2>4. (Came(l, b)' <=> Came(l, b)) /\ (Coming(l, b)' <=> Coming(l, b))
      BY <1>1, <2>3 DEF Came, Coming
    <2>5. \A j \in UsesOf(l, "BT", b) : at'[l][j] \in {"waiting", "done"}
      BY <1>1, <2>1, InKind DEF UsesOf
    <2>6. tx.kind = "BS" => ~Coming(l, b)
      BY <1>3, <1>14, <2>1, CameOnce DEF PoolOf, PlainIn
    <2>7. tx.kind = "BR" => \A j \in UsesOf(l, "BS", b) : at'[l][j] = "done"
      BY <1>1, <2>1, InKind DEF UsesOf
    <2>8. tx.kind = "BR" => ~Coming(l, b)
      BY <1>1, <2>1, InKind DEF Coming, MintsOf, Passed
    <2>9. ASSUME NEW j \in UsesOf(l, "BS", b), at'[l][j] = "remove"
          PROVE  Came(l, b)
      <3>1. j \in DOMAIN Txs(l) /\ j # i
        BY <2>1, <2>9 DEF UsesOf
      <3> QED  BY <1>1, <2>9, <3>1 DEF PoolOf
    <2> QED  BY <1>1, <2>1, <2>2, <2>4, <2>5, <2>6, <2>8, <2>9 DEF PoolOf, Kinds
  <1>15. CASE Materialise(l, i)
    <2>1. tx.kind = "BT" /\ tx.note # b
      BY <1>0, <1>3, <1>15 DEF Materialise, StageOf, PlainIn
    <2> QED  BY <1>3, <1>6, <2>1
  <1>16. CASE Store(l, i) /\ tx.note = b
    <2>1. /\ at[l][i] = "store" /\ tx.kind = "BT" /\ at'[l][i] = "done"
          /\ held[l][i] # NoBanknote /\ held[l][i][1] = b
          /\ pool' = [pool EXCEPT ![held[l][i][1]] = held[l][i]]
      BY <1>0, <1>2, <1>16 DEF Store, StageOf
    <2>2. pool'[b] # NoBanknote /\ pool[b] # NoBanknote
      <3>1. i \in UsesOf(l, "BT", b)
        BY <1>3, <1>16, <2>1
      <3> QED  BY <1>0, <2>1, <3>1 DEF PoolOf
    <2>3. \A j \in MintsOf(l, b) : (Passed(l, b, j)' <=> Passed(l, b, j))
      <3>1. i \notin MintsOf(l, b)
        BY <1>3, <2>1
      <3> QED  BY <1>1, <3>1 DEF Passed
    <2>4. (Came(l, b)' <=> Came(l, b)) /\ (Coming(l, b)' <=> Coming(l, b))
      BY <1>1, <2>3 DEF Came, Coming
    <2>5. \A j \in UsesOf(l, "BR", b) : at'[l][j] = "waiting"
      BY <1>1, <2>1, InKind DEF UsesOf
    <2>6. \A j \in UsesOf(l, "BS", b) : j # i
      BY <2>1 DEF UsesOf
    <2> QED  BY <1>1, <2>2, <2>4, <2>5, <2>6 DEF PoolOf, Kinds
  <1>17. CASE tx.note # b /\ i \in MintsOf(l, b)
    <2>1. tx.kind = "BS"
      BY <1>3, <1>17
    <2>2. ~Issue(l, i) /\ ~Materialise(l, i) /\ ~WriteOwner(l, i) /\ ~Store(l, i)
      BY <1>0, <2>1 DEF StageOf, Issue, Materialise, WriteOwner, Store
    <2>3. CASE Remove(l, i)
      <3>1. /\ pool' = [pool EXCEPT ![tx.note] = NoBanknote]
            /\ at[l][i] = "remove" /\ at'[l][i] = "first"
        BY <1>2, <2>1, <2>3 DEF Remove
      <3>2. pool'[b] = pool[b]
        BY <1>0, <1>17, <3>1
      <3> QED  BY <1>3, <1>4, <1>5, <1>17, <3>1, <3>2, PoolQuiet
    <2> QED  BY <1>7, <1>8, <1>9, <1>12, <1>13, <2>2, <2>3 DEF TaskStep
  <1> QED
    BY <1>6, <1>7, <1>8, <1>9, <1>10, <1>11, <1>12, <1>13, <1>14, <1>15, <1>16, <1>17 DEF TaskStep

(* A ledger that has counted well so far had before.                       *)
LEMMA OrderlyBefore ==
    ASSUME TypeOK, PhaseOK, WorkInv, NEW l \in Ledgers, LedgerStep(l), Orderly(l)'
    PROVE  Orderly(l)
  <1>0. /\ phase \in [Ledgers -> 1..5] /\ PhaseIds = 1..4
        /\ added \in [Ledgers -> [PhaseIds -> Nat]] /\ spawned \in [Ledgers -> [PhaseIds -> Nat]]
    BY DEF TypeOK, PhaseIds
  <1>1. CASE UNCHANGED <<phase, added, spawned>>
    BY <1>1 DEF Orderly, Matched
  <1>2. CASE MainStep(l)
    <2>1. pc[l] \notin {"ack", "finished"} => phase[l] \in PhaseIds
      BY <1>0 DEF PhaseOK
    <2> USE DEF counters, mainVars
    <2>2. CASE AddWorkers(l) \/ SpawnWorker(l)
      <3>1. /\ phase' = phase
            /\ \A q \in PhaseIds : q # phase[l] =>
                  added'[l][q] = added[l][q] /\ spawned'[l][q] = spawned[l][q]
        BY <1>0, <2>1, <2>2 DEF AddWorkers, SpawnWorker
      <3> QED  BY <1>0, <3>1 DEF Orderly, Matched
    <2>3. CASE EndPhase(l)
      <3>1. phase'[l] = phase[l] + 1 /\ added' = added /\ spawned' = spawned
        BY <1>0, <2>3 DEF EndPhase
      <3> QED  BY <1>0, <3>1 DEF Orderly, Matched
    <2> QED
      BY <1>1, <1>2, <2>2, <2>3
         DEF MainStep, ResetWorkNumber, TestWorkNumber, FloorWorkNumber, LoadWorkNumber,
             DoubleWorkNumber, EndSpawning, Drain, EndDrain, Finish
  <1> QED  BY <1>1, <1>2, TaskEffect, RestEffect DEF LedgerStep

(* Steps of the main goroutine.                                            *)
LEMMA PoolMain ==
    ASSUME TypeOK, PhaseComplete, ChannelInv, WorkInv, NEW l \in Ledgers, NEW b \in Banknotes,
           Orderly(l), PoolOf(l, b), MainStep(l)
    PROVE  PoolOf(l, b)'
  <1>1. /\ UNCHANGED <<workload, at>>
        /\ MintsOf(l, b)' = MintsOf(l, b)
        /\ \A k \in Kinds : UsesOf(l, k, b)' = UsesOf(l, k, b)
    BY MainEffect DEF MintsOf, UsesOf, Txs
  <1>2. (Came(l, b)' <=> Came(l, b)) /\ (Coming(l, b)' <=> Coming(l, b))
    BY <1>1 DEF Came, Coming, Passed, Txs
  <1>3. CASE pool' = pool /\ recycle' = recycle
    BY <1>1, <1>2, <1>3 DEF PoolOf, Kinds
  <1>4. ASSUME phase[l] = 4, NEW i \in recycle[l],
               pool' = [pool EXCEPT ![Txs(l)[i].note] = NoBanknote],
               recycle'[l] = recycle[l] \ {i}
        PROVE  PoolOf(l, b)'
    <2>1. i \in DOMAIN Txs(l) /\ Txs(l)[i].kind = "BS" /\ DOMAIN pool = Banknotes
      BY <1>4 DEF WorkInv, DrainOf, Tasks, Phases, TypeOK
    <2>2. CASE Txs(l)[i].note = b
      <3>1. pool'[b] = NoBanknote /\ i \in UsesOf(l, "BS", b)
        BY <1>4, <2>1, <2>2, Naming
      <3>2. /\ \A j \in UsesOf(l, "BS", b) : at[l][j] = "done"
            /\ \A j \in UsesOf(l, "BT", b) : at[l][j] = "done"
            /\ \A j \in MintsOf(l, b) : at[l][j] = "done"
        BY <1>4, InKind DEF UsesOf, MintsOf
      <3>3. ~Coming(l, b)
        BY <3>2 DEF Coming, Passed
      <3> QED  BY <1>1, <1>2, <3>1, <3>2, <3>3 DEF PoolOf, Kinds
    <2>3. CASE Txs(l)[i].note # b
      <3>1. pool'[b] = pool[b] /\ i \notin UsesOf(l, "BS", b)
        BY <1>4, <2>1, <2>3, Naming
      <3>2. \A j \in UsesOf(l, "BS", b) : j \in recycle[l] => j \in recycle'[l]
        BY <1>4, <3>1
      <3> QED  BY <1>1, <1>2, <3>1, <3>2 DEF PoolOf, Kinds
    <2> QED  BY <2>2, <2>3
  <1> QED  BY <1>3, <1>4, MainEffect

(* A worker that starts on a transaction has done nothing yet.             *)
LEMMA PoolRest ==
    ASSUME TypeOK, NEW l \in Ledgers, NEW b \in Banknotes, PoolOf(l, b),
           \/ Dispatch(l) \/ Receive(l) \/ Commit(l)
           \/ \E p \in PhaseIds : TakeTx(l, p) \/ ExitWorker(l, p) \/ NegativeWaitGroup(l, p)
    PROVE  PoolOf(l, b)'
  <1>1. /\ UNCHANGED <<workload, pool, recycle>>
        /\ MintsOf(l, b)' = MintsOf(l, b) /\ MintsOf(l, b) \subseteq DOMAIN Txs(l)
        /\ \A k \in Kinds : /\ UsesOf(l, k, b)' = UsesOf(l, k, b)
                            /\ UsesOf(l, k, b) \subseteq DOMAIN Txs(l)
        /\ \/ at' = at
           \/ \E p \in PhaseIds : \E i \in Tasks(l, p) :
                 at[l][i] = "waiting" /\ Goto(l, i, FirstStage[Phases[p]])
    BY RestEffect DEF MintsOf, UsesOf, Txs
  <1>2. CASE at' = at
    <2>1. (Came(l, b)' <=> Came(l, b)) /\ (Coming(l, b)' <=> Coming(l, b))
      BY <1>1, <1>2 DEF Came, Coming, Passed, Txs
    <2> QED  BY <1>1, <1>2, <2>1 DEF PoolOf, Kinds
  <1>3. ASSUME NEW p \in PhaseIds, NEW i \in Tasks(l, p), at[l][i] = "waiting",
               Goto(l, i, FirstStage[Phases[p]])
        PROVE  PoolOf(l, b)'
    <2>1. /\ \A j \in DOMAIN Txs(l) : j # i => at'[l][j] = at[l][j]
          /\ at'[l][i] = FirstStage[Phases[p]]
      BY <1>3 DEF Goto, TypeOK, Tasks
    <2>2. at'[l][i] \in {"charge", "lookup", "credit"}
      BY <2>1 DEF FirstStage, Phases, PhaseIds
    <2>3. \A j \in MintsOf(l, b) : Passed(l, b, j)' <=> Passed(l, b, j)
      BY <1>1, <1>3, <2>1, <2>2 DEF Passed, Txs
    <2>4. (Came(l, b)' <=> Came(l, b)) /\ (Coming(l, b)' <=> Coming(l, b))
      BY <1>1, <2>3 DEF Came, Coming
    <2> QED  BY <1>1, <2>1, <2>2, <2>4 DEF PoolOf, Kinds
  <1> QED  BY <1>1, <1>2, <1>3

(* Another ledger has nothing to do with a banknote at home in this one.   *)
LEMMA Elsewhere ==
    ASSUME TypeOK, WorkInv, NEW l \in Ledgers, NEW b \in Banknotes, Home(l, b),
           NEW m \in Ledgers, m # l, LedgerStep(m)
    PROVE  /\ UNCHANGED <<workload, pool[b], at[l], held[l], recycle[l], phase[l], added[l], spawned[l]>>
           /\ \A o \in Objects : o[1] = b => owner'[o] = owner[o]
  <1>1. /\ UNCHANGED <<workload, at[l], held[l], recycle[l], phase[l], added[l], spawned[l]>>
    BY Untouched, UntouchedWork
  <1>2. CASE MainStep(m)
    <2>1. \A i \in recycle[m] : i \in DOMAIN Txs(m)
      BY DEF WorkInv, DrainOf, Tasks
    <2>2. \A i \in recycle[m] : Txs(m)[i].note # b
      BY <2>1 DEF Home
    <2>3. pool'[b] = pool[b] /\ owner' = owner
      BY <1>2, <2>2, MainEffect DEF TypeOK
    <2> QED  BY <1>1, <2>3
  <1>3. ASSUME NEW i \in DOMAIN Txs(m), TaskStep(m, i)
        PROVE  pool'[b] = pool[b] /\ \A o \in Objects : o[1] = b => owner'[o] = owner[o]
    BY <1>3, Nameless DEF Home, WorkInv
  <1>4. CASE \/ Dispatch(m) \/ Receive(m) \/ Commit(m)
             \/ \E p \in PhaseIds : TakeTx(m, p) \/ ExitWorker(m, p) \/ NegativeWaitGroup(m, p)
    BY <1>1, <1>4, RestEffect
  <1> QED  BY <1>1, <1>2, <1>3, <1>4 DEF LedgerStep

(* What is known of a banknote depends on little.                          *)
LEMMA PoolFrame ==
    ASSUME NEW l \in Ledgers, NEW b \in Banknotes, PoolOf(l, b),
           UNCHANGED <<workload, pool[b], at[l], recycle[l]>>
    PROVE  PoolOf(l, b)'
  <1>1. /\ MintsOf(l, b)' = MintsOf(l, b)
        /\ \A k \in Kinds : UsesOf(l, k, b)' = UsesOf(l, k, b)
    BY DEF MintsOf, UsesOf, Txs
  <1>2. (Came(l, b)' <=> Came(l, b)) /\ (Coming(l, b)' <=> Coming(l, b))
    BY <1>1 DEF Came, Coming, Passed, Txs
  <1> QED  BY <1>1, <1>2 DEF PoolOf, Kinds

(* Where the transactions of a banknote are does not change.               *)
LEMMA NamesStay ==
    ASSUME NEW l, NEW b, workload' = workload
    PROVE  /\ Home(l, b)' <=> Home(l, b)
           /\ PlainIn(l, b)' <=> PlainIn(l, b)
           /\ SpentOnce(l, b)' <=> SpentOnce(l, b)
  BY DEF Home, PlainIn, SpentOnce, MadeOnceIn, MintsOf, UsesOf, Txs

(* Every step of every goroutine keeps what is known of the pool.          *)
LEMMA NextPool ==
    IInv /\ ChannelInv /\ PhaseComplete /\ WorkInv /\ PoolInv /\ [Next]_vars => PoolInv'
  <1> SUFFICES ASSUME IInv, ChannelInv, PhaseComplete, WorkInv, PoolInv, [Next]_vars,
                      NEW l \in Ledgers, NEW b \in Banknotes, PlainIn(l, b)', Orderly(l)'
               PROVE  PoolOf(l, b)'
    BY DEF PoolInv
  <1>0. TypeOK /\ PhaseOK
    BY DEF IInv
  <1>1. CASE UNCHANGED vars
    <2>1. UNCHANGED <<workload, pool, at, recycle, phase, added, spawned>>
      BY <1>1 DEF vars, mainVars, poolVars, chanVars, workVars
    <2>2. PlainIn(l, b) /\ Orderly(l)
      BY <2>1, NamesStay DEF Orderly, Matched
    <2> QED  BY <2>1, <2>2, PoolFrame DEF PoolInv
  <1>2. ASSUME NEW m \in Ledgers, LedgerStep(m), m # l
        PROVE  PoolOf(l, b)'
    <2>1. UNCHANGED <<workload, phase[l], added[l], spawned[l]>>
      BY <1>0, <1>2, Untouched
    <2>2. PlainIn(l, b) /\ Orderly(l)
      BY <2>1, NamesStay DEF Orderly, Matched
    <2>3. UNCHANGED <<workload, pool[b], at[l], recycle[l]>>
      BY <1>0, <1>2, <2>2, Elsewhere DEF PlainIn
    <2> QED  BY <2>2, <2>3, PoolFrame DEF PoolInv
  <1>3. CASE LedgerStep(l)
    <2>1. workload' = workload
      BY <1>0, <1>3, MainEffect, TaskEffect, RestEffect DEF LedgerStep
    <2>2. PlainIn(l, b) /\ Orderly(l) /\ PoolOf(l, b)
      BY <1>0, <1>3, <2>1, NamesStay, OrderlyBefore DEF PoolInv
    <2> QED  BY <1>0, <1>3, <2>2, PoolMain, PoolTask, PoolRest DEF LedgerStep
  <1> QED  BY <1>1, <1>2, <1>3 DEF Next, Terminated

(* Before the block, every worker is at its start.                         *)
LEMMA InitNotes == Init => WorkInv /\ PoolInv /\ InitialInv /\ OwnerInv
  <1> SUFFICES ASSUME Init PROVE WorkInv /\ PoolInv /\ InitialInv /\ OwnerInv
    OBVIOUS
  <1>1. /\ \A l \in Ledgers : \A i \in DOMAIN Txs(l) : at[l][i] = "waiting" /\ held[l][i] = NoBanknote
        /\ \A l \in Ledgers : recycle[l] = {} /\ phase[l] = 1 /\ pc[l] = "reset"
        /\ \A b \in Banknotes : pool[b] = IF b \in workload.pool THEN <<b, NoTask>> ELSE NoBanknote
        /\ \A b \in Banknotes : <<b, NoTask>> # NoBanknote
    BY PeripheralAssumption DEF Init, Objects, Makers
  <1>2. WorkInv
    <2>1. PoolKeyed
      <3>1. \A b \in Banknotes : pool[b] # NoBanknote => pool[b] = <<b, NoTask>>
        BY <1>1
      <3> QED  BY <3>1 DEF PoolKeyed
    <2>2. \A l \in Ledgers : DrainOf(l)
      BY <1>1 DEF DrainOf
    <2>3. \A l \in Ledgers : \A i \in DOMAIN Txs(l) : StageOf(l, i)
      BY <1>1 DEF StageOf
    <2> QED  BY <2>1, <2>2, <2>3 DEF WorkInv
  <1>3. ASSUME NEW l \in Ledgers, NEW b \in Banknotes
        PROVE  PoolOf(l, b) /\ InitialOf(l, b) /\ OwnerOf(l, b)
    <2>1. /\ \A i \in MintsOf(l, b) : ~Passed(l, b, i)
          /\ \A k \in Kinds : \A i \in UsesOf(l, k, b) : at[l][i] = "waiting"
      BY <1>1 DEF MintsOf, UsesOf, Passed
    <2>2. /\ Came(l, b) <=> b \in workload.pool
          /\ pool[b] # NoBanknote <=> b \in workload.pool
          /\ b \in workload.pool => KnownBefore(l, b)
          /\ recycle[l] = {}
      <3>1. Came(l, b) <=> b \in workload.pool
        BY <2>1 DEF Came
      <3>2. pool[b] # NoBanknote <=> b \in workload.pool
        <4>1. pool[b] = (IF b \in workload.pool THEN <<b, NoTask>> ELSE NoBanknote)
          BY <1>1
        <4>2. <<b, NoTask>> # NoBanknote
          BY <1>1
        <4> QED  BY ONLY <4>1, <4>2
      <3>3. b \in workload.pool => KnownBefore(l, b)
        BY DEF KnownBefore
      <3>4. recycle[l] = {}
        BY <1>1
      <3> QED  BY <3>1, <3>2, <3>3, <3>4
    <2> QED  BY <2>1, <2>2 DEF PoolOf, InitialOf, OwnerOf, Kinds
  <1> QED  BY <1>2, <1>3 DEF PoolInv, InitialInv, OwnerInv

(* What the properties say of all ledgers, for the ledger of a banknote.   *)
LEMMA AtHome ==
    ASSUME TypeOK, NEW b, NEW l \in Ledgers,
           \A t \in Mints(b) \cup UNION {Uses(k, b) : k \in Kinds} : t[1] = l
    PROVE  /\ Home(l, b)
           /\ MadeOnce(b) => MadeOnceIn(l, b)
           /\ Made(b) <=> KnownBefore(l, b)
           /\ \A k \in Kinds : Uses(k, b) = {<<l, i>> : i \in UsesOf(l, k, b)}
           /\ Mints(b) = {<<l, i>> : i \in MintsOf(l, b)}
           /\ \A i \in DOMAIN Txs(l) : Tx(<<l, i>>) = Txs(l)[i]
  <1>1. /\ \A m \in Ledgers : \A i \in DOMAIN Txs(m) : <<m, i>> \in AllTasks
        /\ \A t \in AllTasks : \E m \in Ledgers : \E i \in DOMAIN Txs(m) : t = <<m, i>>
    BY DEF AllTasks
  <1>2. \A m \in Ledgers : \A i \in DOMAIN Txs(m) :
            Tx(<<m, i>>) = Txs(m)[i] /\ Txs(m)[i].kind \in Kinds
    BY TaskType DEF Tx, BanknoteTx
  <1>3. \A m \in Ledgers : \A i \in DOMAIN Txs(m) :
            /\ \A k \in Kinds : <<m, i>> \in Uses(k, b) <=> Txs(m)[i].kind = k /\ Txs(m)[i].note = b
            /\ <<m, i>> \in Mints(b) <=>
                  \/ Txs(m)[i].kind = "BG" /\ Txs(m)[i].note = b
                  \/ Txs(m)[i].kind = "BS" /\ b \in {Txs(m)[i].note1, Txs(m)[i].note2}
    BY <1>1, <1>2 DEF Uses, Mints
  <1>4. Home(l, b)
    <2> SUFFICES ASSUME NEW m \in Ledgers \ {l}, NEW i \in DOMAIN Txs(m),
                        \/ Txs(m)[i].note = b
                        \/ Txs(m)[i].kind = "BS" /\ b \in {Txs(m)[i].note1, Txs(m)[i].note2}
                 PROVE  FALSE
      BY DEF Home
    <2>1. <<m, i>>[1] = m
      OBVIOUS
    <2>2. <<m, i>> \in Mints(b) \cup Uses(Txs(m)[i].kind, b)
      BY <1>2, <1>3
    <2> QED  BY <1>2, <2>1, <2>2
  <1>5. Mints(b) = {<<l, i>> : i \in MintsOf(l, b)}
    <2>1. ASSUME NEW t \in Mints(b) PROVE \E i \in MintsOf(l, b) : t = <<l, i>>
      <3>1. PICK m \in Ledgers : \E i \in DOMAIN Txs(m) : t = <<m, i>>
        BY <1>1 DEF Mints
      <3>2. PICK i \in DOMAIN Txs(m) : t = <<m, i>>
        BY <3>1
      <3>3. m = l
        BY <3>2
      <3> QED  BY <1>3, <2>1, <3>2, <3>3, Naming
    <2>2. ASSUME NEW i \in MintsOf(l, b) PROVE <<l, i>> \in Mints(b)
      BY <1>3 DEF MintsOf
    <2> QED  BY <2>1, <2>2
  <1>6. ASSUME NEW k \in Kinds PROVE Uses(k, b) = {<<l, i>> : i \in UsesOf(l, k, b)}
    <2>1. ASSUME NEW t \in Uses(k, b) PROVE \E i \in UsesOf(l, k, b) : t = <<l, i>>
      <3>1. PICK m \in Ledgers : \E i \in DOMAIN Txs(m) : t = <<m, i>>
        BY <1>1 DEF Uses
      <3>2. PICK i \in DOMAIN Txs(m) : t = <<m, i>>
        BY <3>1
      <3>3. m = l
        BY <3>2
      <3> QED  BY <1>3, <2>1, <3>2, <3>3 DEF UsesOf
    <2>2. ASSUME NEW i \in UsesOf(l, k, b) PROVE <<l, i>> \in Uses(k, b)
      BY <1>3 DEF UsesOf
    <2> QED  BY <2>1, <2>2
  <1>7. ASSUME MadeOnce(b) PROVE MadeOnceIn(l, b)
    <2>1. \A i, j \in MintsOf(l, b) : <<l, i>> = <<l, j>>
      BY <1>5, <1>7 DEF MadeOnce
    <2>2. \A i \in MintsOf(l, b) : i \in DOMAIN Txs(l) /\ <<l, i>> \in Mints(b)
      BY <1>5 DEF MintsOf
    <2> QED  BY <1>2, <1>5, <1>7, <2>1, <2>2 DEF MadeOnce, MadeOnceIn
  <1>8. Made(b) <=> KnownBefore(l, b)
    BY <1>5 DEF Made, KnownBefore
  <1> QED  BY <1>2, <1>4, <1>5, <1>6, <1>7, <1>8

(* A ledger that has finished with well-counted phases is through with     *)
(* every transaction and every hash of its recycle channel.                *)
LEMMA AllThrough ==
    ASSUME TypeOK, PhaseOK, PhaseComplete, ChannelInv, WorkInv,
           NEW l \in Ledgers, pc[l] = "finished", WellCounted(l, 4)
    PROVE  /\ Orderly(l) /\ phase[l] = 5 /\ recycle[l] = {}
           /\ \A i \in DOMAIN Txs(l) : at[l][i] = "done"
  <1>1. phase[l] = 5
    BY DEF PhaseOK
  <1>2. Orderly(l) /\ spawned[l][4] > 0
    BY DEF Orderly, WellCounted, Matched, PhaseIds
  <1>3. recycle[l] = {}
    BY <1>1, <1>2 DEF WorkInv, DrainOf
  <1> QED  BY <1>1, <1>2, <1>3, InKind

(* Workers, recycle channel and pool stay in order, for every number of    *)
(* ledgers and workers.                                                    *)
THEOREM PoolFollows == Spec => [](WorkInv /\ PoolInv)
  BY InitNotes, NextWork, NextPool, WorkersCounted, NothingTooBigLeavesBG, PhasesComplete, PTL
     DEF Spec

(* Whatever the order in which the workers came by: a banknote whose       *)
(* transactions are in one well-counted ledger is active after the block   *)
(* if it was made, before or in it, and no BS or BR of the block spent it, *)
(* be it that the split that spends it ran before the one that makes it.   *)
THEOREM PoolSettles == Spec => []PoolOutcome
  <1>1. IInv /\ ChannelInv /\ PhaseComplete /\ WorkInv /\ PoolInv => PoolOutcome
    <2> SUFFICES ASSUME IInv, ChannelInv, PhaseComplete, WorkInv, PoolInv, NEW b \in Banknotes,
                        Settled(b), MadeOnce(b), Materialises(b) = {}
                 PROVE  pool[b] # NoBanknote <=> Made(b) /\ Uses("BS", b) \cup Uses("BR", b) = {}
      BY DEF PoolOutcome
    <2>1. TypeOK /\ PhaseOK
      BY DEF IInv
    <2>2. PICK l \in Ledgers :
            /\ pc[l] = "finished" /\ WellCounted(l, 4)
            /\ \A t \in Mints(b) \cup UNION {Uses(k, b) : k \in Kinds} : t[1] = l
      BY DEF Settled
    <2>3. /\ Home(l, b) /\ MadeOnceIn(l, b) /\ (Made(b) <=> KnownBefore(l, b))
          /\ \A k \in Kinds : Uses(k, b) = {<<l, i>> : i \in UsesOf(l, k, b)}
          /\ \A i \in DOMAIN Txs(l) : Tx(<<l, i>>) = Txs(l)[i]
      BY <2>1, <2>2, AtHome
    <2>4. \A i \in UsesOf(l, "BT", b) : Txs(l)[i].amount # InitAmount
      <3>1. \A i \in UsesOf(l, "BT", b) : <<l, i>> \in Uses("BT", b) /\ i \in DOMAIN Txs(l)
        BY <2>3 DEF Kinds, UsesOf
      <3> QED  BY <2>3, <3>1 DEF Materialises
    <2>5. /\ Orderly(l) /\ recycle[l] = {}
          /\ \A i \in DOMAIN Txs(l) : at[l][i] = "done"
      BY <2>1, <2>2, AllThrough
    <2>6. PoolOf(l, b)
      BY <2>3, <2>4, <2>5 DEF PlainIn, PoolInv
    <2>7. Came(l, b) <=> KnownBefore(l, b)
      BY <2>5 DEF Came, KnownBefore, Passed, MintsOf
    <2>8. ASSUME NEW k \in {"BS", "BR"}, NEW i \in UsesOf(l, k, b) PROVE pool[b] = NoBanknote
      <3>1. at[l][i] = "done"
        BY <2>5 DEF UsesOf
      <3> QED  BY <2>5, <2>6, <2>8, <3>1 DEF PoolOf
    <2>9. Uses("BS", b) \cup Uses("BR", b) = {} <=> UsesOf(l, "BS", b) \cup UsesOf(l, "BR", b) = {}
      <3>1. ASSUME NEW k \in {"BS", "BR"} PROVE Uses(k, b) = {} <=> UsesOf(l, k, b) = {}
        <4>1. Uses(k, b) = {<<l, i>> : i \in UsesOf(l, k, b)}
          BY <2>3 DEF Kinds
        <4>2. \A i \in UsesOf(l, k, b) : <<l, i>> \in Uses(k, b)
          BY <4>1
        <4>3. \A t \in Uses(k, b) : \E i \in UsesOf(l, k, b) : TRUE
          BY <4>1
        <4> QED  BY <4>2, <4>3
      <3> QED  BY <3>1
    <2> QED  BY <2>3, <2>6, <2>7, <2>8, <2>9 DEF PoolOf
  <1> QED  BY <1>1, PoolFollows, WorkersCounted, NothingTooBigLeavesBG, PhasesComplete, PTL

-----------------------------------------------------------------------------
(* Initial banknotes.                                                      *)

(* A step of a worker that does not touch the banknote's place in the pool *)
(* and does not make it.                                                   *)
LEMMA InitialQuiet ==
    ASSUME TypeOK, NEW l \in Ledgers, NEW b \in Banknotes, InitialOf(l, b),
           NEW i \in DOMAIN Txs(l), TaskStep(l, i), pool'[b] = pool[b],
           i \in MintsOf(l, b) => (Passed(l, b, i)' <=> Passed(l, b, i)),
           i \in UsesOf(l, "BS", b) =>
              /\ at'[l][i] \in {"waiting", "lookup", "remove"} /\ Came(l, b) => pool[b] # NoBanknote
              /\ at'[l][i] = "remove" => KnownBefore(l, b)
              /\ at'[l][i] = "recycle" \/ i \in recycle'[l] => ~KnownBefore(l, b)
              /\ at'[l][i] \in {"first", "second", "done"} /\ ~KnownBefore(l, b) =>
                    i \in recycle'[l] \/ (phase[l] \in {4, 5} /\ pool[b] = NoBanknote),
           i \in UsesOf(l, "BT", b) =>
              (/\ Txs(l)[i].amount = InitAmount /\ KnownBefore(l, b)
               /\ at'[l][i] \in {"ownerHi", "ownerLo", "store", "done"}
               => pool[b] # NoBanknote)
    PROVE  InitialOf(l, b)'
  <1>1. /\ MintsOf(l, b)' = MintsOf(l, b) /\ workload' = workload /\ Txs(l)' = Txs(l)
        /\ \A k \in Kinds : UsesOf(l, k, b)' = UsesOf(l, k, b)
        /\ phase' = phase
    BY TaskEffect DEF MintsOf, UsesOf, Txs
  <1>2. /\ \A j \in DOMAIN Txs(l) : j # i => at'[l][j] = at[l][j]
        /\ \A j : j # i => (j \in recycle'[l] <=> j \in recycle[l])
        /\ \A k \in Kinds : UsesOf(l, k, b) \subseteq DOMAIN Txs(l)
        /\ MintsOf(l, b) \subseteq DOMAIN Txs(l)
    BY TaskEffect DEF UsesOf, MintsOf
  <1>3. \A j \in MintsOf(l, b) : Passed(l, b, j)' <=> Passed(l, b, j)
    BY <1>1, <1>2 DEF Passed, Txs
  <1>4. (Came(l, b)' <=> Came(l, b)) /\ (KnownBefore(l, b)' <=> KnownBefore(l, b))
    BY <1>1, <1>3 DEF Came, KnownBefore
  <1> QED  BY <1>1, <1>2, <1>4 DEF InitialOf, Kinds

(* Steps of a worker.                                                      *)
LEMMA InitialTask ==
    ASSUME TypeOK, PhaseComplete, ChannelInv, WorkInv, NEW l \in Ledgers, NEW b \in Banknotes,
           SpentOnce(l, b), Orderly(l), InitialOf(l, b), NEW i \in DOMAIN Txs(l), TaskStep(l, i)
    PROVE  InitialOf(l, b)'
  <1> DEFINE tx == Txs(l)[i]
  <1>0. /\ tx.kind \in {"BG", "BS", "BT", "BR"}
        /\ tx.note \in Banknotes /\ tx.note1 \in Banknotes /\ tx.note2 \in Banknotes
        /\ StageOf(l, i) /\ held[l][i] \in Objects \cup {NoBanknote}
        /\ pool \in [Banknotes -> Objects \cup {NoBanknote}]
    BY TaskType DEF BanknoteTx, Kinds, WorkInv, TypeOK
  <1>1. /\ MintsOf(l, b)' = MintsOf(l, b) /\ workload' = workload /\ Txs(l)' = Txs(l)
        /\ \A k \in Kinds : UsesOf(l, k, b)' = UsesOf(l, k, b)
        /\ \A k \in Kinds : UsesOf(l, k, b) \subseteq DOMAIN Txs(l)
        /\ MintsOf(l, b) \subseteq DOMAIN Txs(l)
        /\ \A j \in DOMAIN Txs(l) : j # i => at'[l][j] = at[l][j]
        /\ \A j : j # i => (j \in recycle'[l] <=> j \in recycle[l])
        /\ at[l][i] \notin {"waiting", "done"} /\ phase' = phase
    BY TaskEffect DEF MintsOf, UsesOf, Txs
  <1>2. \A stage : Goto(l, i, stage) => at'[l][i] = stage
    BY DEF Goto, TypeOK
  <1>3. /\ i \in MintsOf(l, b) <=> (tx.kind = "BG" /\ tx.note = b)
                                    \/ (tx.kind = "BS" /\ (b = tx.note1 \/ b = tx.note2))
        /\ i \in UsesOf(l, "BS", b) <=> (tx.kind = "BS" /\ tx.note = b)
        /\ i \in UsesOf(l, "BT", b) <=> (tx.kind = "BT" /\ tx.note = b)
        /\ i \in UsesOf(l, "BR", b) <=> (tx.kind = "BR" /\ tx.note = b)
    BY Naming
  <1>4. /\ i \in MintsOf(l, b) => tx.kind = "BG"
        /\ ~(tx.kind = "BR" /\ tx.note = b)
    BY <1>3 DEF SpentOnce
  <1>5. KnownBefore(l, b)' <=> KnownBefore(l, b)
    BY <1>1 DEF KnownBefore
  <1>6. /\ tx.kind = "BG" => phase[l] = 1
        /\ tx.kind = "BS" => phase[l] = 2
        /\ tx.kind = "BT" => phase[l] = 3
    BY <1>0, <1>1, InKind
  <1>7. i \in MintsOf(l, b) => ~Passed(l, b, i)
    BY <1>0, <1>1, <1>4 DEF Passed, StageOf
  \* Steps that leave the banknote's place in the pool alone.
  <1>8. CASE tx.note # b
    <2>1. i \notin MintsOf(l, b)
      BY <1>3, <1>4, <1>8
    <2>2. pool'[b] = pool[b]
      BY <1>0, <1>3, <1>8, <2>1, Nameless
    <2> QED  BY <1>3, <1>8, <2>1, <2>2, InitialQuiet
  <1>9. CASE SendModify(l, i) \/ SendOnClosed(l, i)
    <2>1. /\ UNCHANGED pool /\ (at' = at \/ at'[l][i] \in {"issue", "lookup"})
          /\ at[l][i] \in {"charge", "credit"} \/ at' = at
          /\ recycle' = recycle
      BY <1>2, <1>9 DEF SendModify, SendOnClosed, Crash, workVars, poolVars, chanVars
    <2>2. Passed(l, b, i)' <=> Passed(l, b, i)
      BY <1>1, <2>1 DEF Passed
    <2>3. at' = at \/ tx.kind \in {"BG", "BR"}
      BY <1>0, <2>1 DEF StageOf
    <2> QED  BY <1>3, <2>1, <2>2, <2>3, InitialQuiet DEF InitialOf
  <1>10. CASE Lookup(l, i) /\ tx.note = b
    <2>1. pool' = pool /\ at[l][i] = "lookup" /\ tx.kind # "BG" /\ recycle' = recycle
      BY <1>0, <1>10 DEF Lookup, poolVars, chanVars, StageOf
    <2>2. at'[l][i] = AfterLookup(tx, pool[b] # NoBanknote)
      BY <1>2, <1>10 DEF Lookup
    <2>3. CASE tx.kind = "BS"
      <3>1. at'[l][i] = IF pool[b] # NoBanknote THEN "remove" ELSE "recycle"
        BY <2>2, <2>3 DEF AfterLookup, AfterLookupBS
      <3>2. KnownBefore(l, b) => Came(l, b)
        BY <1>6, <2>3, InKind DEF KnownBefore, Came, Passed, MintsOf, SpentOnce
      <3>3. KnownBefore(l, b) <=> pool[b] # NoBanknote
        BY <1>3, <1>6, <1>10, <2>1, <2>3, <3>2 DEF InitialOf
      <3>4. i \notin recycle[l] \/ ~KnownBefore(l, b)
        BY <1>3, <1>10, <2>3 DEF InitialOf
      <3> QED  BY <1>3, <1>4, <2>1, <2>3, <3>1, <3>3, <3>4, InitialQuiet
    <2>4. CASE tx.kind = "BT"
      <3>1. at'[l][i] = IF pool[b] # NoBanknote THEN "ownerHi"
                        ELSE IF tx.amount = InitAmount THEN "materialise" ELSE "done"
        BY <2>2, <2>4 DEF AfterLookup, AfterLookupBT
      <3> QED  BY <1>3, <2>1, <2>4, <3>1, InitialQuiet
    <2> QED  BY <1>0, <1>4, <1>10, <2>1, <2>3, <2>4
  <1>11. CASE Recycle(l, i) /\ tx.note = b
    <2>1. /\ pool' = pool /\ at[l][i] = "recycle" /\ at'[l][i] = "first" /\ i \in recycle'[l]
          /\ tx.kind = "BS"
      BY <1>0, <1>2, <1>11 DEF Recycle, poolVars, StageOf, TypeOK
    <2>2. ~KnownBefore(l, b)
      BY <1>3, <1>11, <2>1 DEF InitialOf
    <2> QED  BY <1>3, <1>4, <2>1, <2>2, InitialQuiet
  <1>12. CASE WriteOwner(l, i)
    <2>1. /\ pool' = pool /\ at[l][i] \in {"ownerHi", "ownerLo"} /\ tx.kind = "BT"
      BY <1>0, <1>2, <1>12 DEF WriteOwner, StageOf
    <2>2. i \in UsesOf(l, "BT", b) /\ tx.amount = InitAmount /\ KnownBefore(l, b)
             => pool[b] # NoBanknote
      BY <2>1 DEF InitialOf
    <2> QED  BY <1>3, <2>1, <2>2, InitialQuiet
  <1>13. CASE (AddFirst(l, i) \/ AddSecond(l, i)) /\ tx.note = b
    <2>1. tx.kind = "BS" /\ tx.note1 # b /\ tx.note2 # b
      BY <1>0, <1>3, <1>4, <1>13 DEF AddFirst, AddSecond, StageOf
    <2>2. pool'[b] = pool[b] /\ recycle' = recycle
      BY <1>0, <1>13, <2>1 DEF AddFirst, AddSecond, Add, chanVars
    <2>3. at[l][i] \in {"first", "second"} /\ at'[l][i] \in {"second", "done"}
      BY <1>2, <1>13 DEF AddFirst, AddSecond
    <2>4. /\ i \in recycle[l] => ~KnownBefore(l, b)
          /\ ~KnownBefore(l, b) => i \in recycle[l] \/ (phase[l] \in {4, 5} /\ pool[b] = NoBanknote)
      BY <1>3, <1>13, <2>1, <2>3 DEF InitialOf
    <2> QED  BY <1>3, <1>4, <2>1, <2>2, <2>3, <2>4, InitialQuiet
  \* Steps that change it.
  <1>14. CASE Issue(l, i) /\ tx.note = b
    <2>1. tx.kind = "BG" /\ pool'[b] = <<b, <<l, i>>>> /\ recycle' = recycle
      BY <1>0, <1>14 DEF Issue, StageOf, Add, chanVars
    <2>2. pool'[b] # NoBanknote
      BY <2>1, TaskType, PeripheralAssumption DEF Objects
    <2>3. KnownBefore(l, b)
      BY <1>3, <1>14, <2>1 DEF KnownBefore
    <2>4. \A j \in UsesOf(l, "BS", b) : at'[l][j] = "waiting" /\ j \notin recycle'[l]
      BY <1>1, <1>6, <2>1, <2>3, InKind DEF UsesOf, InitialOf
    <2> QED  BY <1>1, <1>5, <2>2, <2>3, <2>4 DEF InitialOf, Kinds
  <1>15. CASE Remove(l, i) /\ tx.note = b
    <2>1. /\ tx.kind = "BS" /\ pool'[b] = NoBanknote /\ recycle' = recycle
          /\ at[l][i] = "remove" /\ at'[l][i] = "first"
      BY <1>0, <1>2, <1>4, <1>15 DEF Remove, StageOf, chanVars
    <2>2. i \in UsesOf(l, "BS", b) /\ KnownBefore(l, b)
      BY <1>3, <1>15, <2>1 DEF InitialOf
    <2>3. \A j \in UsesOf(l, "BS", b) : j = i
      BY <2>2 DEF SpentOnce
    <2>4. \A j \in UsesOf(l, "BT", b) : at'[l][j] = "waiting"
      BY <1>0, <1>1, <1>6, <2>1, InKind DEF UsesOf
    <2> QED  BY <1>1, <1>5, <2>1, <2>2, <2>3, <2>4 DEF InitialOf, Kinds
  <1>16. CASE (Materialise(l, i) \/ Store(l, i)) /\ tx.note = b
    <2>1. tx.kind = "BT" /\ recycle' = recycle
      BY <1>0, <1>16 DEF Materialise, Store, StageOf, chanVars
    <2>2. pool'[b] # NoBanknote
      <3>1. CASE Materialise(l, i)
        <4>1. pool'[b] = <<b, <<l, i>>>>
          BY <1>0, <1>16, <3>1 DEF Materialise, Add
        <4> QED  BY <4>1, TaskType, PeripheralAssumption DEF Objects
      <3>2. CASE Store(l, i)
        <4>1. held[l][i] # NoBanknote /\ held[l][i][1] = b
              /\ pool' = [pool EXCEPT ![held[l][i][1]] = held[l][i]]
          BY <1>0, <1>16, <3>2 DEF Store, StageOf
        <4> QED  BY <1>0, <4>1
      <3> QED  BY <1>16, <3>1, <3>2
    <2>3. \A j \in UsesOf(l, "BS", b) : at[l][j] = "done" /\ j # i
      BY <1>6, <2>1, InKind DEF UsesOf
    <2>4. \A j \in UsesOf(l, "BS", b) : at'[l][j] = "done"
      BY <1>1, <2>3 DEF Kinds
    <2>5. \A j \in UsesOf(l, "BS", b) :
             /\ j \in recycle[l] => ~KnownBefore(l, b)
             /\ ~KnownBefore(l, b) => j \in recycle[l]
      BY <1>6, <2>1, <2>3 DEF InitialOf
    <2> QED  BY <1>1, <1>5, <1>6, <2>1, <2>2, <2>4, <2>5 DEF InitialOf, Kinds
  <1> QED
    BY <1>8, <1>9, <1>10, <1>11, <1>12, <1>13, <1>14, <1>15, <1>16 DEF TaskStep

(* A main goroutine goes from a phase to the next.                         *)
LEMMA PhaseMoves ==
    ASSUME TypeOK, PhaseOK, NEW l \in Ledgers, MainStep(l)
    PROVE  phase'[l] \in 1..5 /\ phase[l] \in 1..5 /\ phase'[l] \in {phase[l], phase[l] + 1}
  <1>1. TypeOK'
    BY TypeMain
  <1>2. phase'[l] \in 1..5 /\ phase[l] \in 1..5 /\ DOMAIN phase = Ledgers
    BY <1>1 DEF TypeOK
  <1> QED
    BY <1>2 DEF MainStep, ResetWorkNumber, TestWorkNumber, FloorWorkNumber, LoadWorkNumber,
                DoubleWorkNumber, AddWorkers, SpawnWorker, EndSpawning, Drain, EndDrain,
                EndPhase, Finish, mainVars

(* Steps of the main goroutine.                                            *)
LEMMA InitialMain ==
    ASSUME TypeOK, PhaseOK, PhaseComplete, ChannelInv, WorkInv, NEW l \in Ledgers,
           NEW b \in Banknotes, Orderly(l), SpentOnce(l, b), InitialOf(l, b), MainStep(l)
    PROVE  InitialOf(l, b)'
  <1>1. /\ UNCHANGED <<workload, at>>
        /\ MintsOf(l, b)' = MintsOf(l, b)
        /\ \A k \in Kinds : UsesOf(l, k, b)' = UsesOf(l, k, b)
        /\ Txs(l)' = Txs(l)
    BY MainEffect DEF MintsOf, UsesOf, Txs
  <1>2. (Came(l, b)' <=> Came(l, b)) /\ (KnownBefore(l, b)' <=> KnownBefore(l, b))
    BY <1>1 DEF Came, KnownBefore, Passed, Txs
  <1>3. CASE pool' = pool /\ recycle' = recycle
    <2>1. /\ phase'[l] \in {1, 2} => phase[l] \in {1, 2}
          /\ phase[l] \in {4, 5} => phase'[l] \in {4, 5}
      BY PhaseMoves
    <2> QED  BY <1>1, <1>2, <1>3, <2>1 DEF InitialOf, Kinds
  <1>4. ASSUME phase' = phase, phase[l] = 4, NEW i \in recycle[l],
               pool' = [pool EXCEPT ![Txs(l)[i].note] = NoBanknote],
               recycle'[l] = recycle[l] \ {i}
        PROVE  InitialOf(l, b)'
    <2>1. i \in DOMAIN Txs(l) /\ Txs(l)[i].kind = "BS" /\ DOMAIN pool = Banknotes
      BY <1>4 DEF WorkInv, DrainOf, Tasks, Phases, TypeOK
    <2>2. CASE Txs(l)[i].note = b
      <3>1. pool'[b] = NoBanknote /\ i \in UsesOf(l, "BS", b)
        BY <1>4, <2>1, <2>2, Naming
      <3>2. ~KnownBefore(l, b)
        BY <1>4, <3>1 DEF InitialOf
      <3>3. \A j \in UsesOf(l, "BS", b) : at[l][j] = "done"
        BY <1>4, InKind DEF UsesOf
      <3> QED  BY <1>1, <1>2, <1>4, <3>1, <3>2, <3>3 DEF InitialOf, Kinds
    <2>3. CASE Txs(l)[i].note # b
      <3>1. pool'[b] = pool[b] /\ i \notin UsesOf(l, "BS", b)
        BY <1>4, <2>1, <2>3, Naming
      <3>2. \A j \in UsesOf(l, "BS", b) : j \in recycle[l] <=> j \in recycle'[l]
        BY <1>4, <3>1
      <3> QED  BY <1>1, <1>2, <1>4, <3>1, <3>2 DEF InitialOf, Kinds
    <2> QED  BY <2>2, <2>3
  <1> QED  BY <1>3, <1>4, MainEffect

(* A worker that starts on a transaction has done nothing yet.             *)
LEMMA InitialRest ==
    ASSUME TypeOK, NEW l \in Ledgers, NEW b \in Banknotes, InitialOf(l, b),
           \/ Dispatch(l) \/ Receive(l) \/ Commit(l)
           \/ \E p \in PhaseIds : TakeTx(l, p) \/ ExitWorker(l, p) \/ NegativeWaitGroup(l, p)
    PROVE  InitialOf(l, b)'
  <1>1. /\ UNCHANGED <<workload, pool, recycle, phase>> /\ Txs(l)' = Txs(l)
        /\ MintsOf(l, b)' = MintsOf(l, b) /\ MintsOf(l, b) \subseteq DOMAIN Txs(l)
        /\ \A k \in Kinds : /\ UsesOf(l, k, b)' = UsesOf(l, k, b)
                            /\ UsesOf(l, k, b) \subseteq DOMAIN Txs(l)
        /\ \/ at' = at
           \/ \E p \in PhaseIds : \E i \in Tasks(l, p) :
                 at[l][i] = "waiting" /\ Goto(l, i, FirstStage[Phases[p]])
    BY RestEffect DEF MintsOf, UsesOf, Txs
  <1>2. KnownBefore(l, b)' <=> KnownBefore(l, b)
    BY <1>1 DEF KnownBefore
  <1>3. CASE at' = at
    <2>1. Came(l, b)' <=> Came(l, b)
      BY <1>1, <1>3 DEF Came, Passed, Txs
    <2> QED  BY <1>1, <1>2, <1>3, <2>1 DEF InitialOf, Kinds
  <1>4. ASSUME NEW p \in PhaseIds, NEW i \in Tasks(l, p), at[l][i] = "waiting",
               Goto(l, i, FirstStage[Phases[p]])
        PROVE  InitialOf(l, b)'
    <2>1. /\ \A j \in DOMAIN Txs(l) : j # i => at'[l][j] = at[l][j]
          /\ at'[l][i] = FirstStage[Phases[p]] /\ Txs(l)[i].kind = Phases[p]
          /\ i \in DOMAIN Txs(l)
      BY <1>4 DEF Goto, TypeOK, Tasks
    <2>2. /\ at'[l][i] \in {"charge", "lookup", "credit"}
          /\ Txs(l)[i].kind = "BS" => at'[l][i] = "lookup"
      BY <2>1 DEF FirstStage, Phases, PhaseIds
    <2>3. \A j \in MintsOf(l, b) : Passed(l, b, j)' <=> Passed(l, b, j)
      BY <1>1, <1>4, <2>1, <2>2 DEF Passed, Txs
    <2>4. Came(l, b)' <=> Came(l, b)
      BY <1>1, <2>3 DEF Came
    <2> QED  BY <1>1, <1>2, <1>4, <2>1, <2>2, <2>4 DEF InitialOf, Kinds
  <1> QED  BY <1>1, <1>3, <1>4

(* What is known of a banknote depends on little.                          *)
LEMMA InitialFrame ==
    ASSUME NEW l \in Ledgers, NEW b \in Banknotes, InitialOf(l, b),
           UNCHANGED <<workload, pool[b], at[l], recycle[l], phase[l]>>
    PROVE  InitialOf(l, b)'
  <1>1. /\ MintsOf(l, b)' = MintsOf(l, b) /\ Txs(l)' = Txs(l)
        /\ \A k \in Kinds : UsesOf(l, k, b)' = UsesOf(l, k, b)
    BY DEF MintsOf, UsesOf, Txs
  <1>2. (Came(l, b)' <=> Came(l, b)) /\ (KnownBefore(l, b)' <=> KnownBefore(l, b))
    BY <1>1 DEF Came, KnownBefore, Passed, Txs
  <1> QED  BY <1>1, <1>2 DEF InitialOf, Kinds

(* Every step of every goroutine keeps what is known of initial banknotes. *)
LEMMA NextInitial ==
    IInv /\ ChannelInv /\ PhaseComplete /\ WorkInv /\ InitialInv /\ [Next]_vars => InitialInv'
  <1> SUFFICES ASSUME IInv, ChannelInv, PhaseComplete, WorkInv, InitialInv, [Next]_vars,
                      NEW l \in Ledgers, NEW b \in Banknotes, SpentOnce(l, b)', Orderly(l)'
               PROVE  InitialOf(l, b)'
    BY DEF InitialInv
  <1>0. TypeOK /\ PhaseOK
    BY DEF IInv
  <1>1. CASE UNCHANGED vars
    <2>1. UNCHANGED <<workload, pool, at, recycle, phase, added, spawned>>
      BY <1>1 DEF vars, mainVars, poolVars, chanVars, workVars
    <2>2. SpentOnce(l, b) /\ Orderly(l)
      BY <2>1, NamesStay DEF Orderly, Matched
    <2> QED  BY <2>1, <2>2, InitialFrame DEF InitialInv
  <1>2. ASSUME NEW m \in Ledgers, LedgerStep(m), m # l
        PROVE  InitialOf(l, b)'
    <2>1. UNCHANGED <<workload, phase[l], added[l], spawned[l]>>
      BY <1>0, <1>2, Untouched
    <2>2. SpentOnce(l, b) /\ Orderly(l)
      BY <2>1, NamesStay DEF Orderly, Matched
    <2>3. UNCHANGED <<workload, pool[b], at[l], recycle[l], phase[l]>>
      BY <1>0, <1>2, <2>2, Elsewhere DEF SpentOnce
    <2> QED  BY <2>2, <2>3, InitialFrame DEF InitialInv
  <1>3. CASE LedgerStep(l)
    <2>1. workload' = workload
      BY <1>0, <1>3, MainEffect, TaskEffect, RestEffect DEF LedgerStep
    <2>2. SpentOnce(l, b) /\ Orderly(l) /\ InitialOf(l, b)
      BY <1>0, <1>3, <2>1, NamesStay, OrderlyBefore DEF InitialInv
    <2> QED  BY <1>0, <1>3, <2>2, InitialMain, InitialTask, InitialRest DEF LedgerStep
  <1> QED  BY <1>1, <1>2, <1>3 DEF Next, Terminated

(* An initial banknote, created when the BT phase meets a hash it does not *)
(* know, that one BS of the block spends: it is gone after the block if    *)
(* nobody knew it before, and active, spent or not, if somebody did        *)
(* (lines 290 to 294, 320 to 326 and 359 to 361).                          *)
THEOREM InitialNotesSettle == Spec => [](InitialInv /\ SpentInitialBanknote)
  <1>1. IInv /\ ChannelInv /\ PhaseComplete /\ WorkInv /\ InitialInv => SpentInitialBanknote
    <2> SUFFICES ASSUME IInv, ChannelInv, PhaseComplete, WorkInv, InitialInv, NEW b \in Banknotes,
                        Settled(b), MadeOnce(b), Materialises(b) # {},
                        NEW spender \in AllTasks, Uses("BS", b) = {spender}, Uses("BR", b) = {},
                        \A t \in Mints(b) : Tx(t).kind = "BG"
                 PROVE  pool[b] # NoBanknote <=> Made(b)
      BY DEF SpentInitialBanknote
    <2>1. TypeOK /\ PhaseOK
      BY DEF IInv
    <2>2. PICK l \in Ledgers :
            /\ pc[l] = "finished" /\ WellCounted(l, 4)
            /\ \A t \in Mints(b) \cup UNION {Uses(k, b) : k \in Kinds} : t[1] = l
      BY DEF Settled
    <2>3. /\ Home(l, b) /\ (Made(b) <=> KnownBefore(l, b))
          /\ \A k \in Kinds : Uses(k, b) = {<<l, i>> : i \in UsesOf(l, k, b)}
          /\ Mints(b) = {<<l, i>> : i \in MintsOf(l, b)}
          /\ \A i \in DOMAIN Txs(l) : Tx(<<l, i>>) = Txs(l)[i]
      BY <2>1, <2>2, AtHome
    <2>4. Uses("BS", b) = {<<l, i>> : i \in UsesOf(l, "BS", b)}
          /\ Uses("BR", b) = {<<l, i>> : i \in UsesOf(l, "BR", b)}
          /\ Uses("BT", b) = {<<l, i>> : i \in UsesOf(l, "BT", b)}
      BY <2>3 DEF Kinds
    <2>5. PICK s \in UsesOf(l, "BS", b) : spender = <<l, s>>
      BY <2>4
    <2>6. UsesOf(l, "BS", b) = {s} /\ s \in DOMAIN Txs(l)
      <3>1. \A i \in UsesOf(l, "BS", b) : <<l, i>> = <<l, s>>
        BY <2>4, <2>5
      <3> QED  BY <2>5, <3>1 DEF UsesOf
    <2>7. UsesOf(l, "BR", b) = {}
      <3>1. \A i \in UsesOf(l, "BR", b) : <<l, i>> \in Uses("BR", b)
        BY <2>4
      <3> QED  BY <3>1
    <2>8. \A i \in MintsOf(l, b) : Txs(l)[i].kind = "BG"
      <3>1. \A i \in MintsOf(l, b) : i \in DOMAIN Txs(l) /\ <<l, i>> \in Mints(b)
        BY <2>3 DEF MintsOf
      <3> QED  BY <2>3, <3>1
    <2>9. SpentOnce(l, b)
      BY <2>3, <2>6, <2>7, <2>8 DEF SpentOnce
    <2>10. /\ Orderly(l) /\ recycle[l] = {}
           /\ \A i \in DOMAIN Txs(l) : at[l][i] = "done"
      BY <2>1, <2>2, AllThrough
    <2>11. InitialOf(l, b)
      BY <2>9, <2>10 DEF InitialInv
    <2>12. PICK t \in UsesOf(l, "BT", b) : Txs(l)[t].amount = InitAmount
      <3>1. PICK u \in Uses("BT", b) : Tx(u).amount = InitAmount
        BY DEF Materialises
      <3>2. PICK t \in UsesOf(l, "BT", b) : u = <<l, t>>
        BY <2>4
      <3> QED  BY <2>3, <3>1, <3>2 DEF UsesOf
    <2>13. at[l][s] = "done" /\ at[l][t] = "done"
      BY <2>6, <2>10 DEF UsesOf
    <2>14. CASE KnownBefore(l, b)
      BY <2>3, <2>11, <2>12, <2>13, <2>14 DEF InitialOf
    <2>15. CASE ~KnownBefore(l, b)
      BY <2>3, <2>6, <2>10, <2>11, <2>13, <2>15 DEF InitialOf
    <2> QED  BY <2>14, <2>15
  <1> QED
    BY <1>1, InitNotes, NextInitial, PoolFollows, WorkersCounted, NothingTooBigLeavesBG,
       PhasesComplete, PTL DEF Spec

-----------------------------------------------------------------------------
(* Owners.                                                                 *)

(* Steps of a worker.                                                      *)
LEMMA OwnerTask ==
    ASSUME TypeOK, PhaseComplete, ChannelInv, WorkInv, NEW l \in Ledgers, NEW b \in Banknotes,
           Orderly(l), OwnerOf(l, b), NEW i \in DOMAIN Txs(l), TaskStep(l, i)
    PROVE  OwnerOf(l, b)'
  <1> DEFINE tx == Txs(l)[i]
             T == UsesOf(l, "BT", b)
             P == Payees(l, b)
             Theirs(o, half) == owner[o][half] \in P
  <1>0. /\ tx.kind \in {"BG", "BS", "BT", "BR"}
        /\ tx.note \in Banknotes /\ tx.note1 \in Banknotes /\ tx.note2 \in Banknotes
        /\ StageOf(l, i) /\ held[l][i] \in Objects \cup {NoBanknote}
        /\ pool \in [Banknotes -> Objects \cup {NoBanknote}]
        /\ owner \in [Objects -> Addresses \X Addresses]
    BY TaskType DEF BanknoteTx, Kinds, WorkInv, TypeOK
  <1>1. /\ workload' = workload /\ Txs(l)' = Txs(l) /\ T' = T /\ P' = P /\ T \subseteq DOMAIN Txs(l)
        /\ \A j \in DOMAIN Txs(l) : j # i => at'[l][j] = at[l][j] /\ held'[l][j] = held[l][j]
        /\ at[l][i] \notin {"waiting", "done"}
    BY TaskEffect DEF UsesOf, Txs, Payees
  <1>2. \A stage : Goto(l, i, stage) => at'[l][i] = stage
    BY DEF Goto, TypeOK
  <1>3. (i \in T <=> (tx.kind = "BT" /\ tx.note = b)) /\ (i \in T => tx.to \in P)
    BY Naming DEF Payees
  <1>4. CASE tx.kind \in {"BG", "BS"}
    <2>1. \A j \in T : at'[l][j] = "waiting"
      BY <1>0, <1>1, <1>4, InKind DEF UsesOf
    <2> QED  BY <1>1, <2>1 DEF OwnerOf
  <1>5. CASE tx.kind \in {"BT", "BR"}
    \* What is a payee's stays a payee's.
    <2>1. ASSUME NEW o \in Objects, o[1] = b, NEW half \in {1, 2}, Theirs(o, half)
          PROVE  owner'[o][half] \in P
      <3>1. CASE tx.note # b
        <4>1. owner'[o] = owner[o]
          BY <1>0, <1>5, <2>1, <3>1, Nameless
        <4> QED  BY <2>1, <4>1
      <3>2. CASE UNCHANGED owner
        BY <2>1, <3>2
      <3>3. CASE Materialise(l, i) /\ tx.note = b
        <4>1. i \in T /\ owner' = [owner EXCEPT ![<<b, <<l, i>>>>] = <<tx.to, tx.to>>]
          BY <1>0, <1>3, <3>3 DEF Materialise, Add, StageOf
        <4>2. owner'[o] = owner[o] \/ owner'[o] = <<tx.to, tx.to>>
          BY <1>0, <4>1
        <4> QED  BY <1>3, <2>1, <4>1, <4>2
      <3>4. CASE WriteOwner(l, i) /\ tx.note = b
        <4>1. /\ i \in T
              /\ \E h \in {1, 2} : owner' = [owner EXCEPT ![held[l][i]][h] = tx.to]
          BY <1>0, <1>3, <3>4 DEF WriteOwner, StageOf
        <4>2. owner[o] \in Addresses \X Addresses
          BY <1>0
        <4>3. owner'[o][half] = owner[o][half] \/ owner'[o][half] = tx.to
          BY <1>0, <4>1, <4>2
        <4> QED  BY <1>3, <2>1, <4>1, <4>3
      <3>5. ~Issue(l, i) /\ ~AddFirst(l, i) /\ ~AddSecond(l, i)
        BY <1>0, <1>5 DEF Issue, AddFirst, AddSecond, StageOf
      <3>6. SendModify(l, i) \/ SendOnClosed(l, i) \/ Lookup(l, i) \/ Remove(l, i)
              \/ Recycle(l, i) \/ Store(l, i) => UNCHANGED owner
        BY DEF SendModify, SendOnClosed, Crash, Lookup, Remove, Recycle, Store, poolVars
      <3> QED  BY <3>1, <3>2, <3>3, <3>4, <3>5, <3>6 DEF TaskStep
    \* What the pool gets in is a payee's.
    <2>2. ASSUME pool'[b] # NoBanknote, pool'[b] # pool[b]
          PROVE  \A half \in {1, 2} : owner'[pool'[b]][half] \in P
      <3>1. tx.note = b
        BY <1>0, <1>5, <2>2, Nameless
      <3>2. Materialise(l, i) \/ Store(l, i)
        <4>1. ~Issue(l, i) /\ ~AddFirst(l, i) /\ ~AddSecond(l, i)
          BY <1>0, <1>5 DEF Issue, AddFirst, AddSecond, StageOf
        <4>2. ~Remove(l, i)
          BY <1>0, <2>2, <3>1 DEF Remove
        <4>3. SendModify(l, i) \/ SendOnClosed(l, i) \/ Lookup(l, i) \/ WriteOwner(l, i)
                \/ Recycle(l, i) => UNCHANGED pool
          BY DEF SendModify, SendOnClosed, Crash, Lookup, Recycle, WriteOwner, poolVars
        <4> QED  BY <2>2, <4>1, <4>2, <4>3 DEF TaskStep
      <3>3. i \in T
        BY <1>0, <1>3, <3>1, <3>2 DEF Materialise, Store, StageOf
      <3>4. CASE Materialise(l, i)
        <4>1. /\ pool'[b] = <<b, <<l, i>>>> /\ <<b, <<l, i>>>> \in Objects
              /\ owner' = [owner EXCEPT ![<<b, <<l, i>>>>] = <<tx.to, tx.to>>]
          BY <1>0, <3>1, <3>4, TaskType DEF Materialise, Add, Objects
        <4>2. owner'[pool'[b]] = <<tx.to, tx.to>>
          BY <1>0, <4>1
        <4> QED  BY <1>3, <3>3, <4>2
      <3>5. CASE Store(l, i)
        <4>1. /\ pool' = [pool EXCEPT ![held[l][i][1]] = held[l][i]] /\ owner' = owner
              /\ held[l][i][1] = b /\ at[l][i] = "store"
          BY <1>0, <3>1, <3>5 DEF Store, StageOf
        <4>2. pool'[b] = held[l][i]
          BY <1>0, <4>1
        <4> QED  BY <3>3, <4>1, <4>2 DEF OwnerOf
      <3> QED  BY <3>2, <3>4, <3>5
    <2>3. pool[b] # NoBanknote => pool[b] \in Objects /\ pool[b][1] = b
      BY <1>0 DEF WorkInv, PoolKeyed
    <2> SUFFICES ASSUME NEW j \in T
                 PROVE  /\ at'[l][j] = "ownerLo" => owner'[held'[l][j]][1] \in P
                        /\ at'[l][j] = "store" =>
                              \A half \in {1, 2} : owner'[held'[l][j]][half] \in P
                        /\ at'[l][j] = "done" /\ pool'[b] # NoBanknote =>
                              \A half \in {1, 2} : owner'[pool'[b]][half] \in P
      BY <1>1 DEF OwnerOf
    <2>4. CASE j # i
      <3>1. at'[l][j] = at[l][j] /\ held'[l][j] = held[l][j] /\ j \in DOMAIN Txs(l)
        BY <1>1, <2>4
      <3>2. at[l][j] \in {"ownerLo", "store"} => held[l][j] \in Objects /\ held[l][j][1] = b
        BY <3>1 DEF TypeOK, WorkInv, StageOf, UsesOf
      <3>3. CASE at[l][j] \in {"ownerLo", "store"}
        <4>1. \A half \in {1, 2} : Theirs(held[l][j], half) => owner'[held[l][j]][half] \in P
          BY <2>1, <3>2, <3>3
        <4> QED  BY <3>1, <3>3, <4>1 DEF OwnerOf
      <3>4. CASE at[l][j] = "done" /\ pool'[b] # NoBanknote
        <4>1. CASE pool'[b] = pool[b]
          <5>1. \A half \in {1, 2} : Theirs(pool[b], half)
            BY <3>4, <4>1 DEF OwnerOf
          <5> QED  BY <2>1, <2>3, <3>1, <3>4, <4>1, <5>1
        <4> QED  BY <2>2, <3>1, <3>4, <4>1
      <3> QED  BY <3>1, <3>3, <3>4
    <2>5. CASE j = i
      <3>1. tx.kind = "BT" /\ tx.note = b /\ tx.to \in P
        BY <1>3, <2>5
      <3>2. CASE WriteOwner(l, i)
        <4>1. /\ held[l][i] \in Objects /\ held' = held /\ at[l][i] \in {"ownerHi", "ownerLo"}
          BY <1>0, <3>2 DEF WriteOwner, StageOf
        <4>2. owner[held[l][i]] \in Addresses \X Addresses
          BY <1>0, <4>1
        <4>3. CASE at[l][i] = "ownerHi"
          <5>1. at'[l][i] = "ownerLo" /\ owner' = [owner EXCEPT ![held[l][i]][1] = tx.to]
            BY <1>2, <3>2, <4>3 DEF WriteOwner
          <5>2. owner'[held[l][i]][1] = tx.to
            BY <1>0, <4>1, <4>2, <5>1
          <5> QED  BY <2>5, <3>1, <4>1, <5>1, <5>2
        <4>4. CASE at[l][i] = "ownerLo"
          <5>1. at'[l][i] = "store" /\ owner' = [owner EXCEPT ![held[l][i]][2] = tx.to]
            BY <1>2, <3>2, <4>4 DEF WriteOwner
          <5>2. owner'[held[l][i]][2] = tx.to /\ owner'[held[l][i]][1] = owner[held[l][i]][1]
            BY <1>0, <4>1, <4>2, <5>1
          <5>3. owner[held[l][i]][1] \in P
            BY <2>5, <4>4 DEF OwnerOf
          <5> QED  BY <2>5, <3>1, <4>1, <5>1, <5>2, <5>3
        <4> QED  BY <4>1, <4>3, <4>4
      <3>3. CASE Store(l, i)
        <4>1. /\ at[l][i] = "store" /\ at'[l][i] = "done" /\ owner' = owner
              /\ held[l][i][1] = b /\ pool' = [pool EXCEPT ![held[l][i][1]] = held[l][i]]
          BY <1>0, <1>2, <3>1, <3>3 DEF Store, StageOf
        <4>2. pool'[b] = held[l][i]
          BY <1>0, <4>1
        <4>3. \A half \in {1, 2} : owner[held[l][i]][half] \in P
          BY <2>5, <4>1 DEF OwnerOf
        <4> QED  BY <2>5, <4>1, <4>2, <4>3
      <3>4. CASE Lookup(l, i)
        <4>1. /\ at'[l][i] = IF pool[b] # NoBanknote THEN "ownerHi"
                             ELSE IF tx.amount = InitAmount THEN "materialise" ELSE "done"
              /\ pool' = pool
          BY <1>2, <3>1, <3>4 DEF Lookup, AfterLookup, AfterLookupBT, poolVars
        <4> QED  BY <2>5, <4>1
      <3>5. CASE Materialise(l, i)
        <4>1. at'[l][i] = "ownerHi"
          BY <1>2, <3>5 DEF Materialise
        <4> QED  BY <2>5, <4>1
      <3>6. /\ ~SendModify(l, i) /\ ~Issue(l, i) /\ ~Remove(l, i) /\ ~Recycle(l, i)
            /\ ~AddFirst(l, i) /\ ~AddSecond(l, i)
        BY <1>0, <3>1 DEF SendModify, Issue, Remove, Recycle, AddFirst, AddSecond, StageOf
      <3>7. ~SendOnClosed(l, i)
        BY <1>0, <3>1 DEF SendOnClosed, StageOf
      <3> QED  BY <3>2, <3>3, <3>4, <3>5, <3>6, <3>7 DEF TaskStep
    <2> QED  BY <2>4, <2>5
  <1> QED  BY <1>0, <1>4, <1>5

(* Steps of the main goroutine: it only takes banknotes out of the pool.   *)
LEMMA OwnerMain ==
    ASSUME TypeOK, WorkInv, NEW l \in Ledgers, NEW b \in Banknotes, OwnerOf(l, b), MainStep(l)
    PROVE  OwnerOf(l, b)'
  <1>1. UNCHANGED <<workload, owner, at, held>>
    BY MainEffect
  <1>2. UsesOf(l, "BT", b)' = UsesOf(l, "BT", b) /\ Payees(l, b)' = Payees(l, b)
    BY <1>1 DEF UsesOf, Payees, Txs
  <1>3. pool'[b] = pool[b] \/ pool'[b] = NoBanknote
    BY MainEffect DEF TypeOK
  <1> QED  BY <1>1, <1>2, <1>3 DEF OwnerOf

(* A worker that starts on a transfer has not come to the owner yet.       *)
LEMMA OwnerRest ==
    ASSUME TypeOK, NEW l \in Ledgers, NEW b \in Banknotes, OwnerOf(l, b),
           \/ Dispatch(l) \/ Receive(l) \/ Commit(l)
           \/ \E p \in PhaseIds : TakeTx(l, p) \/ ExitWorker(l, p) \/ NegativeWaitGroup(l, p)
    PROVE  OwnerOf(l, b)'
  <1>1. /\ UNCHANGED <<workload, owner, held, pool>>
        /\ \/ at' = at
           \/ \E p \in PhaseIds : \E i \in Tasks(l, p) :
                 at[l][i] = "waiting" /\ Goto(l, i, FirstStage[Phases[p]])
    BY RestEffect
  <1>2. /\ UsesOf(l, "BT", b)' = UsesOf(l, "BT", b) /\ Payees(l, b)' = Payees(l, b)
        /\ UsesOf(l, "BT", b) \subseteq DOMAIN Txs(l)
    BY <1>1 DEF UsesOf, Payees, Txs
  <1>3. CASE at' = at
    BY <1>1, <1>2, <1>3 DEF OwnerOf
  <1>4. ASSUME NEW p \in PhaseIds, NEW i \in Tasks(l, p), at[l][i] = "waiting",
               Goto(l, i, FirstStage[Phases[p]])
        PROVE  OwnerOf(l, b)'
    <2>1. /\ \A j \in DOMAIN Txs(l) : j # i => at'[l][j] = at[l][j]
          /\ at'[l][i] = FirstStage[Phases[p]] /\ i \in DOMAIN Txs(l)
      BY <1>4 DEF Goto, TypeOK, Tasks
    <2>2. at'[l][i] \in {"charge", "lookup", "credit"}
      BY <2>1 DEF FirstStage, Phases, PhaseIds
    <2> QED  BY <1>1, <1>2, <1>4, <2>1, <2>2 DEF OwnerOf
  <1> QED  BY <1>1, <1>3, <1>4

(* What is known of the owners depends on the banknote's objects only.     *)
LEMMA OwnerFrame ==
    ASSUME TypeOK, WorkInv, NEW l \in Ledgers, NEW b \in Banknotes, OwnerOf(l, b),
           UNCHANGED <<workload, pool[b], at[l], held[l]>>,
           \A o \in Objects : o[1] = b => owner'[o] = owner[o]
    PROVE  OwnerOf(l, b)'
  <1>1. UsesOf(l, "BT", b)' = UsesOf(l, "BT", b) /\ Payees(l, b)' = Payees(l, b)
    BY DEF UsesOf, Payees, Txs
  <1>2. pool[b] # NoBanknote => owner'[pool[b]] = owner[pool[b]]
    BY DEF TypeOK, WorkInv, PoolKeyed
  <1>3. \A i \in UsesOf(l, "BT", b) :
           at[l][i] \in {"ownerLo", "store"} => owner'[held[l][i]] = owner[held[l][i]]
    BY DEF TypeOK, WorkInv, StageOf, UsesOf
  <1> QED  BY <1>1, <1>2, <1>3 DEF OwnerOf

(* Every step of every goroutine keeps what is known of the owners.        *)
LEMMA NextOwner ==
    IInv /\ ChannelInv /\ PhaseComplete /\ WorkInv /\ OwnerInv /\ [Next]_vars => OwnerInv'
  <1> SUFFICES ASSUME IInv, ChannelInv, PhaseComplete, WorkInv, OwnerInv, [Next]_vars,
                      NEW l \in Ledgers, NEW b \in Banknotes, Home(l, b)', Orderly(l)'
               PROVE  OwnerOf(l, b)'
    BY DEF OwnerInv
  <1>0. TypeOK /\ PhaseOK
    BY DEF IInv
  <1>1. CASE UNCHANGED vars
    <2>1. UNCHANGED <<workload, pool, owner, at, held, phase, added, spawned>>
      BY <1>1 DEF vars, mainVars, poolVars, workVars
    <2>2. Home(l, b) /\ Orderly(l)
      BY <2>1, NamesStay DEF Orderly, Matched
    <2> QED  BY <1>0, <2>1, <2>2, OwnerFrame DEF OwnerInv
  <1>2. ASSUME NEW m \in Ledgers, LedgerStep(m), m # l
        PROVE  OwnerOf(l, b)'
    <2>1. UNCHANGED <<workload, phase[l], added[l], spawned[l]>>
      BY <1>0, <1>2, Untouched
    <2>2. Home(l, b) /\ Orderly(l)
      BY <2>1, NamesStay DEF Orderly, Matched
    <2>3. /\ UNCHANGED <<workload, pool[b], at[l], held[l]>>
          /\ \A o \in Objects : o[1] = b => owner'[o] = owner[o]
      BY <1>0, <1>2, <2>2, Elsewhere
    <2> QED  BY <1>0, <2>2, <2>3, OwnerFrame DEF OwnerInv
  <1>3. CASE LedgerStep(l)
    <2>1. workload' = workload
      BY <1>0, <1>3, MainEffect, TaskEffect, RestEffect DEF LedgerStep
    <2>2. Home(l, b) /\ Orderly(l) /\ OwnerOf(l, b)
      BY <1>0, <1>3, <2>1, NamesStay, OrderlyBefore DEF OwnerInv
    <2> QED  BY <1>0, <1>3, <2>2, OwnerMain, OwnerTask, OwnerRest DEF LedgerStep
  <1> QED  BY <1>1, <1>2, <1>3 DEF Next, Terminated

(* Two transfers of one banknote in a block write its Owner without a      *)
(* lock (lines 330 and 331), and the 20 bytes may come from both of them;  *)
(* they never come from anyone but a payee of one of the block's           *)
(* transfers, nor is any half left as it was before the block.             *)
THEOREM OwnersSettle == Spec => [](OwnerInv /\ OwnerOutcome)
  <1>1. IInv /\ ChannelInv /\ PhaseComplete /\ WorkInv /\ OwnerInv => OwnerOutcome
    <2> SUFFICES ASSUME IInv, ChannelInv, PhaseComplete, WorkInv, OwnerInv, NEW b \in Banknotes,
                        Settled(b), MadeOnce(b), pool[b] # NoBanknote,
                        NEW u \in Uses("BT", b), NEW half \in {1, 2}
                 PROVE  owner[pool[b]][half] \in {Tx(t).to : t \in Uses("BT", b)}
      BY DEF OwnerOutcome
    <2>1. TypeOK /\ PhaseOK
      BY DEF IInv
    <2>2. PICK l \in Ledgers :
            /\ pc[l] = "finished" /\ WellCounted(l, 4)
            /\ \A t \in Mints(b) \cup UNION {Uses(k, b) : k \in Kinds} : t[1] = l
      BY DEF Settled
    <2>3. /\ Home(l, b)
          /\ Uses("BT", b) = {<<l, i>> : i \in UsesOf(l, "BT", b)}
          /\ \A i \in DOMAIN Txs(l) : Tx(<<l, i>>) = Txs(l)[i]
      BY <2>1, <2>2, AtHome DEF Kinds
    <2>4. Orderly(l) /\ \A i \in DOMAIN Txs(l) : at[l][i] = "done"
      BY <2>1, <2>2, AllThrough
    <2>5. OwnerOf(l, b)
      BY <2>3, <2>4 DEF OwnerInv
    <2>6. PICK i \in UsesOf(l, "BT", b) : u = <<l, i>>
      BY <2>3
    <2>7. owner[pool[b]][half] \in Payees(l, b)
      BY <2>4, <2>5 DEF OwnerOf, UsesOf
    <2>8. PICK j \in UsesOf(l, "BT", b) : owner[pool[b]][half] = Txs(l)[j].to
      BY <2>7 DEF Payees
    <2>9. <<l, j>> \in Uses("BT", b) /\ Tx(<<l, j>>).to = Txs(l)[j].to
      BY <2>3 DEF UsesOf
    <2> QED  BY <2>8, <2>9
  <1> QED
    BY <1>1, InitNotes, NextOwner, PoolFollows, WorkersCounted, NothingTooBigLeavesBG,
       PhasesComplete, PTL DEF Spec

-----------------------------------------------------------------------------
(* Accounts.                                                               *)

(* The BG and BR transactions whose record is sent, those whose record is  *)
(* received, and what those change of an account.                          *)
Entered(l) ==
    {i \in Tasks(l, 1) \cup Tasks(l, 4) : at[l][i] \notin {"waiting", "charge", "credit"}}
Recorded(l) == Entered(l) \ modify[l]
Payments(l, a) == {i \in Tasks(l, 1) : Txs(l)[i].from = a}
Receipts(l, a) == {i \in Tasks(l, 4) : Txs(l)[i].to = a}
NetOf(l, a) ==
    LET paid == Recorded(l) \cap Payments(l, a)
        got == Recorded(l) \cap Receipts(l, a)
    IN /\ a \in modifySet[l].touched <=> paid \cup got # {}
       /\ modifySet[l].net[a] = Amounts(Txs(l), got) - Amounts(Txs(l), paid)

(* The trie is written once, from all that was received, and nothing is    *)
(* sent or received after that.                                            *)
AccountOf(l) ==
    /\ modify[l] \subseteq Entered(l)
    /\ \A a \in Accounts : NetOf(l, a)
    /\ trie[l] = IF committed[l] THEN ApplyModifySet(EmptyTrie, modifySet[l]) ELSE EmptyTrie
    /\ committed[l] => ModifyClosed(l) /\ modify[l] = {}
    /\ pc[l] = "finished" => committed[l]
AccountInv == \A l \in Ledgers : AccountOf(l)

(* A step that neither sends nor receives a record.                        *)
LEMMA AccountFrame ==
    ASSUME NEW l \in Ledgers, AccountOf(l), workload' = workload, Entered(l)' = Entered(l),
           modify'[l] = modify[l], modifySet'[l] = modifySet[l],
           committed'[l] = committed[l], trie'[l] = trie[l],
           ModifyClosed(l) => ModifyClosed(l)', pc'[l] = "finished" => committed[l]
    PROVE  AccountOf(l)'
  <1>1. /\ Recorded(l)' = Recorded(l) /\ Txs(l)' = Txs(l)
        /\ \A a : Payments(l, a)' = Payments(l, a) /\ Receipts(l, a)' = Receipts(l, a)
    BY DEF Recorded, Txs, Payments, Receipts, Tasks
  <1>2. \A a \in Accounts : NetOf(l, a)'
    BY <1>1 DEF AccountOf, NetOf
  <1> QED  BY <1>2 DEF AccountOf

(* The main goroutine only closes the account channel and waits.           *)
LEMMA AccountMain ==
    ASSUME TypeOK, WorkInv, NEW l \in Ledgers, AccountOf(l), MainStep(l)
    PROVE  AccountOf(l)'
  <1>1. UNCHANGED <<workload, at>>
    BY MainEffect
  <1>2. /\ UNCHANGED <<modify, modifySet, committed, trie>>
        /\ ModifyClosed(l) => ModifyClosed(l)'
        /\ pc'[l] = "finished" => committed[l]
    <2>1. UNCHANGED <<modify, modifySet, committed, trie>>
      BY DEF MainStep, ResetWorkNumber, TestWorkNumber, FloorWorkNumber, LoadWorkNumber,
             DoubleWorkNumber, AddWorkers, SpawnWorker, EndSpawning, Drain, EndDrain,
             EndPhase, Finish, others, trieVars, chanVars
    <2>2. DOMAIN pc = Ledgers
      BY DEF TypeOK
    <2>3. /\ pc[l] # "finished" /\ (pc[l] = "ack" => pc'[l] = "finished")
          /\ pc'[l] = "finished" => committed[l]
      BY <2>2 DEF MainStep, ResetWorkNumber, TestWorkNumber, FloorWorkNumber, LoadWorkNumber,
                  DoubleWorkNumber, AddWorkers, SpawnWorker, EndSpawning, Drain, EndDrain,
                  EndPhase, Finish, mainVars
    <2> QED  BY <2>1, <2>3 DEF ModifyClosed
  <1>3. Entered(l)' = Entered(l)
    BY <1>1 DEF Entered, Tasks, Txs
  <1> QED  BY <1>1, <1>2, <1>3, AccountFrame

(* A worker sends one record, and does not come back to that.              *)
LEMMA AccountTask ==
    ASSUME TypeOK, WorkInv, NEW l \in Ledgers, AccountOf(l), NEW i \in DOMAIN Txs(l),
           TaskStep(l, i)
    PROVE  AccountOf(l)'
  <1>1. /\ workload' = workload /\ Txs(l)' = Txs(l)
        /\ \A j \in DOMAIN Txs(l) : j # i => at'[l][j] = at[l][j]
        /\ \A p : Tasks(l, p)' = Tasks(l, p) /\ Tasks(l, p) \subseteq DOMAIN Txs(l)
    BY TaskEffect DEF Txs, Tasks
  <1>2. UNCHANGED <<pc, modifySet, committed, trie>> /\ (ModifyClosed(l)' <=> ModifyClosed(l))
    BY DEF TaskStep, Crash, SendModify, SendOnClosed, Issue, Lookup, Remove, Recycle, AddFirst,
           AddSecond, Materialise, WriteOwner, Store, restOfWork, mainVars, trieVars, ModifyClosed
  <1>3. CASE SendModify(l, i)
    <2>1. /\ at[l][i] \in {"charge", "credit"} /\ at'[l][i] \in {"issue", "lookup"}
          /\ ~ModifyClosed(l) /\ modify'[l] = modify[l] \cup {i}
      BY <1>3 DEF SendModify, Goto, TypeOK
    <2>2. i \in Tasks(l, 1) \cup Tasks(l, 4) /\ i \notin Entered(l)
      BY <2>1 DEF WorkInv, StageOf, Tasks, Phases, Entered
    <2>3. Entered(l)' = Entered(l) \cup {i}
      BY <1>1, <2>1, <2>2 DEF Entered
    <2>4. Recorded(l)' = Recorded(l)
      BY <2>1, <2>2, <2>3 DEF Recorded
    <2>5. \A a : Payments(l, a)' = Payments(l, a) /\ Receipts(l, a)' = Receipts(l, a)
      BY <1>1 DEF Payments, Receipts
    <2>6. \A a \in Accounts : NetOf(l, a)'
      BY <1>1, <1>2, <2>4, <2>5 DEF AccountOf, NetOf
    <2> QED  BY <1>2, <2>1, <2>3, <2>6 DEF AccountOf
  <1>4. CASE ~SendModify(l, i)
    <2>1. modify' = modify
      BY <1>4 DEF TaskStep, Crash, SendOnClosed, Issue, Lookup, Remove, Recycle, AddFirst,
                  AddSecond, Materialise, WriteOwner, Store, chanVars
    <2>2. \/ at'[l][i] = at[l][i]
          \/ /\ at[l][i] \notin {"waiting", "charge", "credit"}
             /\ at'[l][i] \notin {"waiting", "charge", "credit"}
      BY <1>4 DEF TaskStep, Crash, SendOnClosed, Issue, Lookup, Remove, Recycle, AddFirst,
                  AddSecond, Materialise, WriteOwner, Store, workVars, Goto, TypeOK,
                  AfterLookup, AfterLookupBS, AfterLookupBT, AfterLookupBR
    <2>3. Entered(l)' = Entered(l)
      BY <1>1, <2>2 DEF Entered
    <2> QED  BY <1>1, <1>2, <2>1, <2>3, AccountFrame DEF AccountOf
  <1> QED  BY <1>3, <1>4

(* Amounts are numbers.                                                    *)
LEMMA TaskAmount ==
    ASSUME TypeOK, NEW l \in Ledgers, NEW i \in DOMAIN Txs(l)
    PROVE  Txs(l)[i].amount \in Nat /\ Txs(l)[i].amount \in Int
  <1>1. Txs(l)[i] \in BanknoteTx
    BY TaskType
  <1>2. Txs(l)[i].amount \in Nat
    BY <1>1 DEF BanknoteTx
  <1> QED  BY <1>2

(* What one more record changes of an account.                             *)
LEMMA NetRecord ==
    ASSUME TypeOK, NEW l \in Ledgers, NEW a \in Accounts, NetOf(l, a),
           NEW i \in Entered(l), i \in modify[l], UNCHANGED <<workload, at>>,
           modify' = [modify EXCEPT ![l] = @ \ {i}],
           modifySet' = [modifySet EXCEPT ![l] = Record(@, Txs(l)[i])]
    PROVE  NetOf(l, a)'
  <1> DEFINE tx == Txs(l)[i]
             paid == Recorded(l) \cap Payments(l, a)
             got == Recorded(l) \cap Receipts(l, a)
             m == modifySet[l]
  <1>1. /\ Txs(l)' = Txs(l) /\ Entered(l)' = Entered(l)
        /\ Payments(l, a)' = Payments(l, a) /\ Receipts(l, a)' = Receipts(l, a)
    BY DEF Txs, Entered, Payments, Receipts, Tasks
  <1>2. Recorded(l)' = Recorded(l) \cup {i} /\ i \notin Recorded(l)
    BY <1>1 DEF Recorded, TypeOK
  <1>3. /\ i \in DOMAIN Txs(l) /\ tx.kind \in {"BG", "BR"} /\ tx.amount \in Int
        /\ tx.kind = "BG" => (i \in Payments(l, a) <=> tx.from = a) /\ i \notin Receipts(l, a)
        /\ tx.kind = "BR" => (i \in Receipts(l, a) <=> tx.to = a) /\ i \notin Payments(l, a)
    <2>1. i \in DOMAIN Txs(l) /\ tx.kind \in {"BG", "BR"}
      BY DEF Entered, Tasks, Phases
    <2>2. tx.amount \in Int
      BY <2>1, TaskAmount
    <2>3. (i \in Tasks(l, 1) <=> tx.kind = "BG") /\ (i \in Tasks(l, 4) <=> tx.kind = "BR")
      BY <2>1 DEF Tasks, Phases
    <2> QED  BY <2>1, <2>2, <2>3 DEF Payments, Receipts
  <1>4. /\ IsFiniteSet(paid) /\ IsFiniteSet(got)
        /\ \A j \in paid \cup got : Txs(l)[j].amount \in Int
    <2>1. \A j \in paid \cup got : j \in DOMAIN Txs(l)
      BY DEF Payments, Receipts, Tasks
    <2>2. paid \subseteq Tasks(l, 1) /\ got \subseteq Tasks(l, 4)
      BY DEF Payments, Receipts
    <2>3. IsFiniteSet(paid) /\ IsFiniteSet(got)
      <3>1. 1 \in PhaseIds /\ 4 \in PhaseIds
        BY DEF PhaseIds
      <3>2. IsFiniteSet(Tasks(l, 1)) /\ IsFiniteSet(Tasks(l, 4))
        BY <3>1, FiniteTasks
      <3> QED  BY <2>2, <3>2, FS_Subset
    <2> QED  BY <2>1, <2>3, TaskAmount
  <1>5. ZeroAddress # a /\ m \in ModifySets /\ modifySet'[l] = Record(m, tx)
    BY AccountAssumption DEF TypeOK
  <1>6. /\ a \in m.touched <=> paid \cup got # {}
        /\ m.net[a] = Amounts(Txs(l), got) - Amounts(Txs(l), paid)
        /\ Amounts(Txs(l), got) \in Int /\ Amounts(Txs(l), paid) \in Int
    BY <1>4, AmountsIn DEF NetOf
  <1>7. CASE tx.kind = "BG"
    <2>1. modifySet'[l] = Charge(m, tx.from, tx.amount)
      BY <1>5, <1>7 DEF Record
    <2>2. (Recorded(l) \cap Receipts(l, a))' = got
      BY <1>1, <1>2, <1>3, <1>7
    <2>3. CASE tx.from = a
      <3>1. (Recorded(l) \cap Payments(l, a))' = paid \cup {i} /\ i \notin paid
        BY <1>1, <1>2, <1>3, <1>7, <2>3
      <3>2. /\ a \in modifySet'[l].touched
            /\ modifySet'[l].net[a] = m.net[a] - tx.amount
        BY <1>5, <2>1, <2>3 DEF Charge, ModifySets
      <3>3. Amounts(Txs(l), paid \cup {i}) = tx.amount + Amounts(Txs(l), paid)
        BY <1>3, <1>4, <3>1, AmountsAdd
      <3>4. modifySet'[l].net[a] = Amounts(Txs(l), got) - Amounts(Txs(l), paid \cup {i})
        <4> HIDE DEF paid, got, m, tx
        <4> QED  BY <1>3, <1>6, <3>2, <3>3
      <3> QED  BY <1>1, <2>2, <3>1, <3>2, <3>4 DEF NetOf
    <2>4. CASE tx.from # a
      <3>1. (Recorded(l) \cap Payments(l, a))' = paid
        BY <1>1, <1>2, <1>3, <1>7, <2>4
      <3>2. /\ a \in modifySet'[l].touched <=> a \in m.touched
            /\ modifySet'[l].net[a] = m.net[a]
        BY <1>5, <2>1, <2>4 DEF Charge, ModifySets
      <3> QED  BY <1>1, <1>6, <2>2, <3>1, <3>2 DEF NetOf
    <2> QED  BY <2>3, <2>4
  <1>8. CASE tx.kind = "BR"
    <2>1. modifySet'[l] = Credit(m, tx.to, tx.amount)
      BY <1>5, <1>8 DEF Record
    <2>2. (Recorded(l) \cap Payments(l, a))' = paid
      BY <1>1, <1>2, <1>3, <1>8
    <2>3. CASE tx.to = a
      <3>1. (Recorded(l) \cap Receipts(l, a))' = got \cup {i} /\ i \notin got
        BY <1>1, <1>2, <1>3, <1>8, <2>3
      <3>2. /\ a \in modifySet'[l].touched
            /\ modifySet'[l].net[a] = m.net[a] + tx.amount
        BY <1>5, <2>1, <2>3 DEF Credit, ModifySets
      <3>3. Amounts(Txs(l), got \cup {i}) = tx.amount + Amounts(Txs(l), got)
        BY <1>3, <1>4, <3>1, AmountsAdd
      <3>4. modifySet'[l].net[a] = Amounts(Txs(l), got \cup {i}) - Amounts(Txs(l), paid)
        <4> HIDE DEF paid, got, m, tx
        <4> QED  BY <1>3, <1>6, <3>2, <3>3
      <3> QED  BY <1>1, <2>2, <3>1, <3>2, <3>4 DEF NetOf
    <2>4. CASE tx.to # a
      <3>1. (Recorded(l) \cap Receipts(l, a))' = got
        BY <1>1, <1>2, <1>3, <1>8, <2>4
      <3>2. /\ a \in modifySet'[l].touched <=> a \in m.touched
            /\ modifySet'[l].net[a] = m.net[a]
        BY <1>5, <2>1, <2>4 DEF Credit, ModifySets
      <3> QED  BY <1>1, <1>6, <2>2, <3>1, <3>2 DEF NetOf
    <2> QED  BY <2>3, <2>4
  <1> QED  BY <1>3, <1>7, <1>8

(* The other steps: a worker takes a transaction, a record is received,    *)
(* the trie is committed.                                                  *)
LEMMA AccountRest ==
    ASSUME TypeOK, NEW l \in Ledgers, AccountOf(l),
           \/ Dispatch(l) \/ Receive(l) \/ Commit(l)
           \/ \E p \in PhaseIds : TakeTx(l, p) \/ ExitWorker(l, p) \/ NegativeWaitGroup(l, p)
    PROVE  AccountOf(l)'
  <1>1. /\ workload' = workload /\ Txs(l)' = Txs(l) /\ pc' = pc
        /\ ModifyClosed(l)' <=> ModifyClosed(l)
        /\ \/ at' = at
           \/ \E p \in PhaseIds : \E i \in Tasks(l, p) :
                 at[l][i] = "waiting" /\ Goto(l, i, FirstStage[Phases[p]])
    BY RestEffect DEF Txs, ModifyClosed
  <1>2. Entered(l)' = Entered(l)
    <2>1. CASE at' = at
      BY <1>1, <2>1 DEF Entered, Tasks
    <2>2. ASSUME NEW p \in PhaseIds, NEW i \in Tasks(l, p), at[l][i] = "waiting",
                 Goto(l, i, FirstStage[Phases[p]])
          PROVE  Entered(l)' = Entered(l)
      <3>1. /\ \A j \in DOMAIN Txs(l) : j # i => at'[l][j] = at[l][j]
            /\ at'[l][i] = FirstStage[Phases[p]]
            /\ Txs(l)[i].kind = Phases[p] /\ i \in DOMAIN Txs(l)
        BY <2>2 DEF Goto, TypeOK, Tasks
      <3>2. Txs(l)[i].kind \in {"BG", "BR"} => at'[l][i] \in {"charge", "credit"}
        BY <3>1 DEF FirstStage
      <3>3. \A q \in {1, 4} : Tasks(l, q)' = Tasks(l, q) /\ Tasks(l, q) \subseteq DOMAIN Txs(l)
        BY <1>1 DEF Tasks
      <3>4. i \in Tasks(l, 1) \cup Tasks(l, 4) => Txs(l)[i].kind \in {"BG", "BR"}
        BY DEF Tasks, Phases
      <3> QED  BY <2>2, <3>1, <3>2, <3>3, <3>4 DEF Entered
    <2> QED  BY <1>1, <2>1, <2>2
  <1>3. CASE Receive(l)
    <2>1. PICK i \in modify[l] :
             /\ modify' = [modify EXCEPT ![l] = @ \ {i}]
             /\ modifySet' = [modifySet EXCEPT ![l] = Record(@, Txs(l)[i])]
      BY <1>3 DEF Receive
    <2>2. UNCHANGED <<committed, trie, at>> /\ i \in Entered(l)
      BY <1>3 DEF Receive, workVars, AccountOf
    <2>3. \A a \in Accounts : NetOf(l, a)'
      BY <1>1, <2>1, <2>2, NetRecord DEF AccountOf
    <2>4. modify'[l] \subseteq modify[l] /\ ~committed[l]
      BY <2>1 DEF AccountOf, TypeOK
    <2> QED  BY <1>1, <1>2, <2>2, <2>3, <2>4 DEF AccountOf
  <1>4. CASE Commit(l)
    <2>1. /\ trie'[l] = ApplyModifySet(trie[l], modifySet[l]) /\ committed'[l]
          /\ ModifyClosed(l) /\ modify[l] = {} /\ ~committed[l]
          /\ UNCHANGED <<modify, modifySet, at>>
      BY <1>4 DEF Commit, chanVars, workVars, TypeOK
    <2>2. \A a \in Accounts : NetOf(l, a)'
      <3>1. Recorded(l)' = Recorded(l)
        BY <1>2, <2>1 DEF Recorded
      <3>2. \A a : Payments(l, a)' = Payments(l, a) /\ Receipts(l, a)' = Receipts(l, a)
        BY <1>1 DEF Payments, Receipts, Tasks
      <3> QED  BY <1>1, <2>1, <3>1, <3>2 DEF AccountOf, NetOf
    <2> QED  BY <1>1, <1>2, <2>1, <2>2 DEF AccountOf
  <1>5. CASE ~Receive(l) /\ ~Commit(l)
    <2>1. UNCHANGED <<modify, modifySet, committed, trie>>
      BY <1>5 DEF Dispatch, TakeTx, ExitWorker, NegativeWaitGroup, Crash, restOfWork,
                  trieVars, chanVars
    <2> QED  BY <1>1, <1>2, <2>1, AccountFrame DEF AccountOf
  <1> QED  BY <1>3, <1>4, <1>5

(* A step of one ledger leaves the accounts of the others alone.           *)
LEMMA UntouchedAccounts ==
    ASSUME TypeOK, NEW l \in Ledgers, LedgerStep(l), NEW m \in Ledgers, m # l
    PROVE  /\ modify'[m] = modify[m] /\ modifySet'[m] = modifySet[m]
           /\ committed'[m] = committed[m] /\ trie'[m] = trie[m]
  <1> USE DEF trieVars, chanVars, restOfWork, others, TypeOK
  <1>1. CASE MainStep(l)
    BY <1>1 DEF MainStep, ResetWorkNumber, TestWorkNumber, FloorWorkNumber, LoadWorkNumber,
                DoubleWorkNumber, AddWorkers, SpawnWorker, EndSpawning, Drain, EndDrain,
                EndPhase, Finish
  <1>2. CASE \E i \in DOMAIN Txs(l) : TaskStep(l, i)
    BY <1>2 DEF TaskStep, Crash, SendModify, SendOnClosed, Issue, Lookup, Remove, Recycle,
                AddFirst, AddSecond, Materialise, WriteOwner, Store
  <1>3. CASE Dispatch(l) \/ Receive(l) \/ Commit(l)
    BY <1>3 DEF Dispatch, Receive, Commit
  <1>4. CASE \E p \in PhaseIds : TakeTx(l, p) \/ ExitWorker(l, p) \/ NegativeWaitGroup(l, p)
    BY <1>4 DEF TakeTx, ExitWorker, NegativeWaitGroup, Crash
  <1> QED  BY <1>1, <1>2, <1>3, <1>4 DEF LedgerStep

(* A block starts with nothing recorded.                                   *)
LEMMA InitAccounts == Init => AccountInv
  <1> SUFFICES ASSUME Init, NEW l \in Ledgers PROVE AccountOf(l)
    BY DEF AccountInv
  <1>1. /\ \A i \in DOMAIN Txs(l) : at[l][i] = "waiting"
        /\ modify[l] = {} /\ modifySet[l] = NoModification /\ ~committed[l]
        /\ trie[l] = EmptyTrie /\ pc[l] = "reset"
    BY DEF Init
  <1>2. Entered(l) = {} /\ Recorded(l) = {}
    BY <1>1 DEF Entered, Recorded, Tasks
  <1>3. Amounts(Txs(l), {}) = 0
    BY AmountsFirst, FS_EmptySet
  <1>4. \A a \in Accounts : NetOf(l, a)
    <2> SUFFICES ASSUME NEW a \in Accounts PROVE NetOf(l, a)
      OBVIOUS
    <2>1. Recorded(l) \cap Payments(l, a) = {} /\ Recorded(l) \cap Receipts(l, a) = {}
      BY <1>2
    <2>2. a \notin modifySet[l].touched /\ modifySet[l].net[a] = 0
      BY <1>1 DEF NoModification
    <2> QED  BY <1>3, <2>1, <2>2 DEF NetOf
  <1> QED  BY <1>1, <1>2, <1>4 DEF AccountOf

(* Every step of every goroutine keeps the books.                          *)
LEMMA NextAccounts == IInv /\ WorkInv /\ AccountInv /\ [Next]_vars => AccountInv'
  <1> SUFFICES ASSUME IInv, WorkInv, AccountInv, [Next]_vars, NEW l \in Ledgers
               PROVE  AccountOf(l)'
    BY DEF AccountInv
  <1>0. TypeOK /\ AccountOf(l)
    BY DEF IInv, AccountInv
  <1>1. CASE UNCHANGED vars
    <2>1. UNCHANGED <<workload, at, modify, modifySet, committed, trie, pc>>
      BY <1>1 DEF vars, mainVars, trieVars, chanVars, workVars
    <2>2. Entered(l)' = Entered(l) /\ (ModifyClosed(l)' <=> ModifyClosed(l))
      BY <2>1 DEF Entered, Tasks, Txs, ModifyClosed
    <2> QED  BY <1>0, <2>1, <2>2, AccountFrame DEF AccountOf
  <1>2. ASSUME NEW m \in Ledgers, LedgerStep(m), m # l
        PROVE  AccountOf(l)'
    <2>1. workload' = workload /\ at'[l] = at[l] /\ pc'[l] = pc[l]
      BY <1>0, <1>2, Untouched
    <2>2. Entered(l)' = Entered(l) /\ (ModifyClosed(l)' <=> ModifyClosed(l))
      BY <2>1 DEF Entered, Tasks, Txs, ModifyClosed
    <2> QED  BY <1>0, <1>2, <2>1, <2>2, UntouchedAccounts, AccountFrame DEF AccountOf
  <1>3. CASE LedgerStep(l)
    BY <1>0, <1>3, AccountMain, AccountTask, AccountRest DEF LedgerStep
  <1> QED  BY <1>1, <1>2, <1>3 DEF Next, Terminated

(* What the loop over accountModifySet makes of an account that no block   *)
(* wrote before: paid in full, or not at all if that would leave nothing.  *)
LEMMA SettleFresh ==
    ASSUME NEW net \in Int
    PROVE  Settle(FreshAccount, net) =
             [nonce |-> 1,
              balance |-> IF InitBalance + net > 0 THEN InitBalance + net ELSE InitBalance]
  <1>0. InitBalance \in Nat \ {0}
    BY AccountAssumption
  <1>1. CASE net < 0
    BY <1>0, <1>1 DEF Settle, FreshAccount, BumpNonce, Deduct, Affords
  <1>2. CASE ~(net < 0)
    <2>1. Deposit(FreshAccount, net) = [nonce |-> 0, balance |-> InitBalance + net]
      BY DEF Deposit, FreshAccount
    <2>2. Settle(FreshAccount, net) = [nonce |-> 1, balance |-> InitBalance + net]
      BY <1>2, <2>1 DEF Settle, BumpNonce
    <2> QED  BY <1>0, <1>2, <2>2
  <1> QED  BY <1>1, <1>2

(* A trie that is committed when all workers are through has every BG and  *)
(* BR of the block in it.                                                  *)
LEMMA AllRecorded ==
    ASSUME TypeOK, NEW l \in Ledgers, AccountOf(l), ModifyClosed(l), modify[l] = {},
           \A i \in DOMAIN Txs(l) : at[l][i] = "done", NEW a \in Accounts
    PROVE  /\ a \in modifySet[l].touched <=> Payments(l, a) \cup Receipts(l, a) # {}
           /\ modifySet[l].net[a] =
                Amounts(Txs(l), Receipts(l, a)) - Amounts(Txs(l), Payments(l, a))
           /\ modifySet[l].net[a] \in Int
  <1>1. Recorded(l) = Tasks(l, 1) \cup Tasks(l, 4)
    BY DEF Recorded, Entered, Tasks
  <1>2. /\ Recorded(l) \cap Payments(l, a) = Payments(l, a)
        /\ Recorded(l) \cap Receipts(l, a) = Receipts(l, a)
    BY <1>1 DEF Payments, Receipts
  <1>3. NetOf(l, a)
    BY DEF AccountOf
  <1>4. modifySet[l].net[a] \in Int
    BY DEF TypeOK, ModifySets
  <1> QED  BY <1>2, <1>3, <1>4 DEF NetOf

(* The state trie of a ledger that has processed its block counts every BG *)
(* and BR exactly once, though they are sent by workers of two phases,     *)
(* received in any order and folded while the phases in between run        *)
(* (accountStateModifyChan and accountModifySet).                          *)
THEOREM AccountsSettle == Spec => [](AccountInv /\ AccountsOutcome)
  <1>1. IInv /\ ChannelInv /\ PhaseComplete /\ WorkInv /\ AccountInv => AccountsOutcome
    <2> SUFFICES ASSUME IInv, ChannelInv, PhaseComplete, WorkInv, AccountInv, NEW l \in Ledgers,
                        pc[l] = "finished", WellCounted(l, 4), NEW a \in Accounts
                 PROVE  trie[l][a] =
                          [nonce |-> IF Payments(l, a) \cup Receipts(l, a) # {} THEN 1 ELSE 0,
                           balance |-> IF InitBalance + Due(l, a) > 0 THEN InitBalance + Due(l, a)
                                       ELSE InitBalance]
      BY DEF AccountsOutcome, Payments, Receipts
    <2>1. TypeOK /\ PhaseOK /\ AccountOf(l)
      BY DEF IInv, AccountInv
    <2>2. \A i \in DOMAIN Txs(l) : at[l][i] = "done"
      BY <2>1, AllThrough
    <2>3. /\ ModifyClosed(l) /\ modify[l] = {}
          /\ trie[l] = ApplyModifySet(EmptyTrie, modifySet[l])
      BY <2>1 DEF AccountOf
    <2>4. Due(l, a) = Amounts(Txs(l), Receipts(l, a)) - Amounts(Txs(l), Payments(l, a))
      BY DEF Due, Amounts, Receipts, Payments
    <2>5. /\ a \in modifySet[l].touched <=> Payments(l, a) \cup Receipts(l, a) # {}
          /\ modifySet[l].net[a] = Due(l, a) /\ Due(l, a) \in Int
      BY <2>1, <2>2, <2>3, <2>4, AllRecorded
    <2>6. trie[l][a] = IF a \in modifySet[l].touched THEN Settle(FreshAccount, Due(l, a))
                       ELSE FreshAccount
      BY <2>3, <2>5 DEF ApplyModifySet, EmptyTrie
    <2>7. CASE Payments(l, a) \cup Receipts(l, a) # {}
      BY <2>5, <2>6, <2>7, SettleFresh
    <2>8. CASE Payments(l, a) \cup Receipts(l, a) = {}
      <3>1. Payments(l, a) = {} /\ Receipts(l, a) = {}
        BY <2>8
      <3>2. Due(l, a) = 0
        <4>1. Amounts(Txs(l), {}) = 0
          BY AmountsFirst, FS_EmptySet
        <4> QED  BY <2>4, <3>1, <4>1
      <3>3. trie[l][a] = FreshAccount
        BY <2>5, <2>6, <2>8
      <3> QED  BY <2>8, <3>2, <3>3, AccountAssumption DEF FreshAccount
    <2> QED  BY <2>7, <2>8
  <1> QED
    BY <1>1, InitAccounts, NextAccounts, PoolFollows, WorkersCounted, NothingTooBigLeavesBG,
       PhasesComplete, PTL DEF Spec

-----------------------------------------------------------------------------
(* Refinement.                                                             *)

(* What a single step of LedgerPromise writes is what the ledger commits.  *)
LEMMA CommitIsPromise ==
    ASSUME TypeOK, NEW l \in Ledgers, AccountOf(l), Commit(l),
           \A i \in DOMAIN Txs(l) : at[l][i] = "done"
    PROVE  trie'[l] = Promise!BlockTrie(trie[l], Txs(l))
  <1>1. /\ trie'[l] = ApplyModifySet(trie[l], modifySet[l]) /\ trie[l] = EmptyTrie
        /\ ModifyClosed(l) /\ modify[l] = {}
    BY DEF Commit, AccountOf, TypeOK
  <1>2. ASSUME NEW a \in Accounts
        PROVE  /\ Promise!Charged(Txs(l), a) = Payments(l, a)
               /\ Promise!Credited(Txs(l), a) = Receipts(l, a)
    BY DEF Promise!Charged, Promise!Credited, Payments, Receipts, Tasks, Phases
  <1>3. \A S : Promise!Amounts(Txs(l), S) = Amounts(Txs(l), S)
    BY DEF Promise!Amounts, Promise!MapThenSumSet, Promise!MapThenFoldSet,
           Amounts, MapThenSumSet, MapThenFoldSet
  <1>4. ASSUME NEW a \in Accounts
        PROVE  /\ a \in modifySet[l].touched <=>
                     Promise!Charged(Txs(l), a) \cup Promise!Credited(Txs(l), a) # {}
               /\ modifySet[l].net[a] =
                     Promise!Amounts(Txs(l), Promise!Credited(Txs(l), a))
                       - Promise!Amounts(Txs(l), Promise!Charged(Txs(l), a))
    BY <1>1, <1>2, <1>3, AllRecorded
  <1>5. \A acc, net : Promise!Settle(acc, net) = Settle(acc, net)
    BY DEF Promise!Settle, Promise!BumpNonce, Promise!Deduct, Promise!Affords, Promise!Deposit,
           Settle, BumpNonce, Deduct, Affords, Deposit
  <1> QED  BY <1>1, <1>4, <1>5 DEF ApplyModifySet, Promise!BlockTrie

(* Every other step of a ledger is none of LedgerPromise.                  *)
LEMMA QuietForPromise ==
    ASSUME NEW l \in Ledgers, LedgerStep(l), ~Commit(l)
    PROVE  UNCHANGED <<workload, committed, trie>>
  <1> USE DEF trieVars, restOfWork, others
  <1>1. CASE MainStep(l)
    BY <1>1 DEF MainStep, ResetWorkNumber, TestWorkNumber, FloorWorkNumber, LoadWorkNumber,
                DoubleWorkNumber, AddWorkers, SpawnWorker, EndSpawning, Drain, EndDrain,
                EndPhase, Finish
  <1>2. CASE \E i \in DOMAIN Txs(l) : TaskStep(l, i)
    BY <1>2 DEF TaskStep, Crash, SendModify, SendOnClosed, Issue, Lookup, Remove, Recycle,
                AddFirst, AddSecond, Materialise, WriteOwner, Store
  <1>3. CASE Dispatch(l) \/ Receive(l)
    BY <1>3 DEF Dispatch, Receive
  <1>4. CASE \E p \in PhaseIds : TakeTx(l, p) \/ ExitWorker(l, p) \/ NegativeWaitGroup(l, p)
    BY <1>4 DEF TakeTx, ExitWorker, NegativeWaitGroup, Crash
  <1> QED  BY <1>1, <1>2, <1>3, <1>4 DEF LedgerStep

(* Commit is the step of LedgerPromise.                                    *)
LEMMA CommitProcesses ==
    ASSUME IInv, PhaseOrder, AccountInv, NEW l \in Ledgers, Commit(l)
    PROVE  Promise!Next
  <1>1. TypeOK /\ PhaseOK /\ AccountOf(l)
    BY DEF IInv, AccountInv
  <1>2. \A i \in DOMAIN Txs(l) : at[l][i] = "done"
    <2>1. phase[l] = 5
      BY <1>1 DEF Commit, ModifyClosed, PhaseOK
    <2>2. \A p \in PhaseIds : PhaseDone(l, p)
      BY <2>1 DEF PhaseOrder, PhaseIds
    <2> SUFFICES ASSUME NEW i \in DOMAIN Txs(l) PROVE at[l][i] = "done"
      OBVIOUS
    <2>3. PICK p \in PhaseIds : Txs(l)[i].kind = Phases[p]
      <3>1. Txs(l)[i].kind \in Kinds
        BY <1>1, TaskType DEF BanknoteTx
      <3> QED  BY <3>1 DEF Kinds, Phases, PhaseIds
    <2> QED  BY <2>2, <2>3 DEF PhaseDone, Tasks
  <1>3. trie'[l] = Promise!BlockTrie(trie[l], Txs(l))
    BY <1>1, <1>2, CommitIsPromise
  <1>4. /\ trie \in [Ledgers -> Tries] /\ committed \in [Ledgers -> BOOLEAN]
        /\ \E new : trie' = [trie EXCEPT ![l] = new]
        /\ committed' = [committed EXCEPT ![l] = TRUE]
        /\ ~committed[l] /\ workload' = workload
    BY <1>1 DEF Commit, TypeOK
  <1>5. trie' = [trie EXCEPT ![l] = Promise!BlockTrie(trie[l], workload.txs[l])]
    BY <1>3, <1>4 DEF Txs
  <1>6. {m \in Ledgers : committed'[m]} = {m \in Ledgers : committed[m]} \cup {l}
    BY <1>4
  <1>7. l \notin {m \in Ledgers : committed[m]}
    BY <1>4
  <1>8. Promise!Process(l)
    BY <1>5, <1>6, <1>7 DEF Promise!Process
  <1> QED  BY <1>4, <1>8 DEF Promise!Next

(* As long as no ledger leaves a phase early, the ledgers do what          *)
(* LedgerPromise does: each moves its trie once, in a step of its own, by  *)
(* the whole block.  (Lines 369 to 371: the account channel is closed      *)
(* after the last wg.Wait, and the ledger waits for the trie.)             *)
THEOREM OrderKeepsPromise == Spec /\ []PhaseOrder => PromiseKept
  <1>1. Init => Promise!Init
    BY DEF Init, Promise!Init, EmptyTrie, Promise!EmptyTrie, FreshAccount, Promise!FreshAccount
  <1>2. IInv /\ PhaseOrder /\ AccountInv /\ [Next]_vars
          => [Promise!Next]_<<workload.txs, trie, {l \in Ledgers : committed[l]}>>
    <2> SUFFICES ASSUME IInv, PhaseOrder, AccountInv, [Next]_vars
                 PROVE  \/ Promise!Next
                        \/ UNCHANGED <<workload, committed, trie>>
      OBVIOUS
    <2>1. CASE UNCHANGED vars
      BY <2>1 DEF vars, trieVars
    <2>2. ASSUME NEW l \in Ledgers, LedgerStep(l)
          PROVE  Promise!Next \/ UNCHANGED <<workload, committed, trie>>
      BY <2>2, CommitProcesses, QuietForPromise
    <2> QED  BY <2>1, <2>2 DEF Next, Terminated
  <1> QED
    BY <1>1, <1>2, WorkersCounted, AccountsSettle, PTL DEF Spec, PromiseKept, Promise!Spec

(* A ledger alone keeps its phases apart (AloneInOrder), so it keeps the   *)
(* promise: what BlockProcessing takes a peripheral ledger for is what     *)
(* the goroutines of ProcessPeripheralLedgerTx do together.                *)
THEOREM AloneKeepsPromise ==
    ASSUME NEW l, Ledgers = {l}
    PROVE  Spec => PromiseKept
  <1>1. Spec => []PhaseOrder
    <2>1. Spec => [](SteadyInv /\ PhaseOrder)
      BY AloneInOrder
    <2> QED  BY <2>1, PTL
  <1> QED  BY <1>1, OrderKeepsPromise, PTL
=============================================================================
