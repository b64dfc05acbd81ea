-------------------------- MODULE BlockStoreProofs --------------------------
(***************************************************************************)
(* What storage/storage.go and the start of a node keep through any number *)
(* of crashes, on chains of any length: which headers and bodies can be    *)
(* missing, and that a restarted node never adds to its chain.             *)
(***************************************************************************)
EXTENDS BlockStore, TLAPS

TypeOK ==
    /\ role \in Roles /\ block \in Blocks \cup {None}
    /\ headers \subseteq Blocks /\ bodies \subseteq Blocks
    /\ newest \in Blocks \cup {None} /\ current \in Blocks \cup {None}
    /\ up \in {"down", "starting", "running", "storing"}
    /\ step \in {"none", "body", "header", "newest"}
    /\ hasState \in BOOLEAN
    /\ pending \subseteq Blocks /\ lost \subseteq Blocks
    /\ panic \in {"none", "no body", "no state"}
    /\ crashes \in Nat

(* Where a body is that the database may not have.                         *)
Explained == bodies \cup pending \cup lost

(* The process: the block it knows is the newest one on disk, it stores    *)
(* only with a banknote state, and a dead one has no goroutines.           *)
Process ==
    /\ up \in {"running", "storing"} => newest \in Blocks /\ current = newest
    /\ up \in {"starting", "storing"} => hasState
    /\ up = "down" => pending = {}

(* The genesis block on its way to the disk.                               *)
Genesis ==
    up = "starting" =>
        /\ newest = None
        /\ step \in {"body", "header", "newest"}
        /\ step \in {"header", "newest"} => 0 \in bodies
        /\ step = "newest" => 0 \in headers

(* A block on its way to the disk; that of a leader is the next one.       *)
Storing ==
    up = "storing" =>
        /\ block \in Blocks
        /\ role = "leader" => block = current + 1
        /\ step \in {"header", "newest"}
        /\ block \in Explained
        /\ step = "newest" => block \in headers

(* Before the first crash every start but the first finds a live process.  *)
NeverCrashed ==
    crashes = 0 => /\ lost = {} /\ panic = "none"
                   /\ up = "down" => newest = None
                   /\ up # "down" => hasState

StoreInv == /\ TypeOK /\ Process /\ Genesis /\ Storing /\ NeverCrashed
            /\ NothingMissingUnexplained

(* An empty directory and no process.                                      *)
LEMMA InitStoreInv == Init => StoreInv
<1> SUFFICES ASSUME Init
             PROVE  StoreInv
    OBVIOUS
<1> USE BlockStoreAssumption DEF Init, Blocks, None
<1>1. TypeOK
    BY DEF TypeOK
<1>2. Process /\ Genesis /\ Storing /\ NeverCrashed
    BY DEF Process, Genesis, Storing, NeverCrashed
<1>3. NothingMissingUnexplained
    BY DEF NothingMissingUnexplained
<1> QED BY <1>1, <1>2, <1>3 DEF StoreInv

(* The numbers of blocks: the genesis block is 0.                          *)
LEMMA BlockNumbers ==
    /\ 0 \in Blocks /\ None \notin Blocks /\ 0 # None
    /\ \A n \in Blocks : n \in Nat
BY BlockStoreAssumption DEF Blocks, None

(* Headers with explained bodies that only grow under the same newest      *)
(* block leave nothing missing: every write but that of the newest key is  *)
(* such.                                                                   *)
LEMMA GrowingKeeps ==
    ASSUME NothingMissingUnexplained, headers \subseteq headers',
           headers' \subseteq Explained', newest' = newest, role' = role
    PROVE  NothingMissingUnexplained'
BY DEF NothingMissingUnexplained, Explained

(* Each write, start, crash and panic keeps the invariant.                 *)
LEMMA NextStoreInv == StoreInv /\ [Next]_vars => StoreInv'
<1> SUFFICES ASSUME StoreInv, [Next]_vars
             PROVE  StoreInv'
    OBVIOUS
<1>0. TypeOK /\ Process /\ Genesis /\ Storing /\ NeverCrashed /\ NothingMissingUnexplained
    BY DEF StoreInv
<1> USE <1>0, BlockNumbers
<1>1. ASSUME NEW drop \in BOOLEAN, Start(drop)
      PROVE  StoreInv'
  <2>1. TypeOK'
      BY <1>1 DEF TypeOK, Start, NoChain
  <2>2. Process' /\ NeverCrashed'
      BY <1>1 DEF TypeOK, Start, NoChain, Process, NeverCrashed
  <2>3. Genesis' /\ Storing'
      BY <1>1 DEF TypeOK, Start, NoChain, Process, Genesis, Storing, Explained
  <2>4. NothingMissingUnexplained'
    <3>1. CASE newest' = None
      <4>1. 0..newest' = {}
          BY <3>1 DEF None
      <4>2. headers' \subseteq Explained'
          BY <1>1 DEF Start, Explained, NothingMissingUnexplained
      <4> QED BY <3>1, <4>1, <4>2 DEF NothingMissingUnexplained, Explained
    <3>2. CASE newest' # None
      <4>1. UNCHANGED <<role, headers, bodies, newest, lost, pending>>
          BY <1>1, <3>2 DEF Start, NoChain
      <4> QED BY <4>1 DEF NothingMissingUnexplained
    <3> QED BY <3>1, <3>2
  <2> QED BY <2>1, <2>2, <2>3, <2>4 DEF StoreInv
<1>2. CASE GenesisBody
  <2>1. TypeOK'
      BY <1>2 DEF TypeOK, GenesisBody
  <2>2. Process' /\ NeverCrashed'
      BY <1>2 DEF TypeOK, GenesisBody, Process, NeverCrashed
  <2>3. Genesis' /\ Storing'
      BY <1>2 DEF TypeOK, GenesisBody, Process, Genesis, Storing, Explained
  <2>4. NothingMissingUnexplained'
    <3>1. headers \subseteq headers' /\ headers' \subseteq Explained' /\ UNCHANGED <<newest, role>>
        BY <1>2 DEF GenesisBody, Explained, NothingMissingUnexplained
    <3> QED BY <3>1, GrowingKeeps
  <2> QED BY <2>1, <2>2, <2>3, <2>4 DEF StoreInv
<1>3. CASE GenesisHeader
  <2>1. TypeOK'
      BY <1>3 DEF TypeOK, GenesisHeader
  <2>2. Process' /\ NeverCrashed'
      BY <1>3 DEF TypeOK, GenesisHeader, Process, NeverCrashed
  <2>3. Genesis' /\ Storing'
      BY <1>3 DEF TypeOK, GenesisHeader, Process, Genesis, Storing, Explained
  <2>4. NothingMissingUnexplained'
    <3>1. headers \subseteq headers' /\ headers' \subseteq Explained' /\ UNCHANGED <<newest, role>>
        BY <1>3 DEF GenesisHeader, Explained, Genesis, NothingMissingUnexplained
    <3> QED BY <3>1, GrowingKeeps
  <2> QED BY <2>1, <2>2, <2>3, <2>4 DEF StoreInv
<1>4. CASE GenesisNewest
  <2>1. TypeOK'
      BY <1>4 DEF TypeOK, GenesisNewest
  <2>2. Process' /\ NeverCrashed'
      BY <1>4 DEF TypeOK, GenesisNewest, Process, NeverCrashed
  <2>3. Genesis' /\ Storing'
      BY <1>4 DEF TypeOK, GenesisNewest, Process, Genesis, Storing, Explained
  <2>4. NothingMissingUnexplained'
    <3>1. 0..newest' = {0} /\ newest' = 0
        BY <1>4 DEF GenesisNewest
    <3> QED BY <1>4, <3>1 DEF GenesisNewest, Genesis, NothingMissingUnexplained
  <2> QED BY <2>1, <2>2, <2>3, <2>4 DEF StoreInv
<1>5. ASSUME NEW n \in Blocks, BeginStore(n)
      PROVE  StoreInv'
  <2>1. TypeOK'
      BY <1>5 DEF TypeOK, BeginStore, disk, Process
  <2>2. Process' /\ NeverCrashed'
      BY <1>5 DEF TypeOK, BeginStore, disk, Process, NeverCrashed
  <2>3. Genesis' /\ Storing'
      BY <1>5 DEF TypeOK, BeginStore, Comes, disk, Process, Genesis, Storing, Explained
  <2>4. NothingMissingUnexplained'
    <3>1. headers \subseteq headers' /\ headers' \subseteq Explained' /\ UNCHANGED <<newest, role>>
        BY <1>5 DEF BeginStore, disk, Explained, NothingMissingUnexplained
    <3> QED BY <3>1, GrowingKeeps
  <2> QED BY <2>1, <2>2, <2>3, <2>4 DEF StoreInv
<1>6. CASE ProcessWithoutState
  <2>1. TypeOK'
      BY <1>6 DEF TypeOK, ProcessWithoutState, disk
  <2>2. Process' /\ NeverCrashed'
      BY <1>6 DEF TypeOK, ProcessWithoutState, disk, Process, NeverCrashed
  <2>3. Genesis' /\ Storing'
      BY <1>6 DEF TypeOK, ProcessWithoutState, disk, Process, Genesis, Storing, Explained
  <2>4. NothingMissingUnexplained'
    <3>1. headers \subseteq headers' /\ headers' \subseteq Explained' /\ UNCHANGED <<newest, role>>
        BY <1>6 DEF ProcessWithoutState, disk, Explained, NothingMissingUnexplained
    <3> QED BY <3>1, GrowingKeeps
  <2> QED BY <2>1, <2>2, <2>3, <2>4 DEF StoreInv
<1>7. CASE PutHeader
  <2>1. TypeOK'
      BY <1>7 DEF TypeOK, PutHeader, Storing, Process
  <2>2. Process' /\ NeverCrashed'
      BY <1>7 DEF TypeOK, PutHeader, Process, NeverCrashed
  <2>3. Genesis' /\ Storing'
      BY <1>7 DEF TypeOK, PutHeader, Process, Genesis, Storing, Explained
  <2>4. NothingMissingUnexplained'
    <3>1. headers \subseteq headers' /\ headers' \subseteq Explained' /\ UNCHANGED <<newest, role>>
        BY <1>7 DEF PutHeader, Explained, Storing, NothingMissingUnexplained
    <3> QED BY <3>1, GrowingKeeps
  <2> QED BY <2>1, <2>2, <2>3, <2>4 DEF StoreInv
<1>8. CASE PutNewest
  <2>0. block \in Blocks /\ newest' = block /\ current' = block
      BY <1>8 DEF PutNewest, Storing
  <2>1. TypeOK'
      BY <1>8, <2>0 DEF TypeOK, PutNewest
  <2>2. Process' /\ NeverCrashed'
      BY <1>8, <2>0 DEF PutNewest, Process, NeverCrashed
  <2>3. Genesis' /\ Storing'
      BY <1>8 DEF TypeOK, PutNewest, Process, Genesis, Storing, Explained
  <2>4. NothingMissingUnexplained'
    <3>1. newest \in Nat /\ (role = "leader" => newest' = newest + 1)
        BY <1>8 DEF PutNewest, TypeOK, Process, Storing
    <3>2. newest' \in headers
        BY <1>8 DEF PutNewest, Storing
    <3>3. UNCHANGED <<role, headers, bodies, pending, lost>>
        BY <1>8 DEF PutNewest
    <3>4. 0 \in headers
        BY <3>1 DEF NothingMissingUnexplained, None
    <3> QED BY <3>1, <3>2, <3>3, <3>4 DEF NothingMissingUnexplained, Explained
  <2> QED BY <2>1, <2>2, <2>3, <2>4 DEF StoreInv
<1>9. ASSUME NEW n \in Blocks, PutBody(n)
      PROVE  StoreInv'
  <2>1. TypeOK'
      BY <1>9 DEF TypeOK, PutBody
  <2>2. Process' /\ NeverCrashed'
      BY <1>9 DEF TypeOK, PutBody, Process, NeverCrashed
  <2>3. Genesis' /\ Storing'
      BY <1>9 DEF TypeOK, PutBody, Process, Genesis, Storing, Explained
  <2>4. NothingMissingUnexplained'
    <3>1. headers \subseteq headers' /\ headers' \subseteq Explained' /\ UNCHANGED <<newest, role>>
        BY <1>9 DEF PutBody, Explained, NothingMissingUnexplained
    <3> QED BY <3>1, GrowingKeeps
  <2> QED BY <2>1, <2>2, <2>3, <2>4 DEF StoreInv
<1>10. CASE Crash
  <2>0. crashes' \in Nat /\ crashes' # 0
    <3>1. crashes' = crashes + 1
        BY <1>10 DEF Crash
    <3>2. crashes \in Nat
        BY DEF TypeOK
    <3> QED BY <3>1, <3>2
  <2>1. TypeOK'
      BY <1>10, <2>0 DEF TypeOK, Crash, disk
  <2>2. Process' /\ NeverCrashed'
      BY <1>10, <2>0 DEF Crash, disk, Process, NeverCrashed
  <2>3. Genesis' /\ Storing'
      BY <1>10 DEF TypeOK, Crash, disk, Process, Genesis, Storing, Explained
  <2>4. NothingMissingUnexplained'
    <3>1. headers \subseteq headers' /\ headers' \subseteq Explained' /\ UNCHANGED <<newest, role>>
        BY <1>10 DEF Crash, disk, Explained, NothingMissingUnexplained
    <3> QED BY <3>1, GrowingKeeps
  <2> QED BY <2>1, <2>2, <2>3, <2>4 DEF StoreInv
<1>11. CASE UNCHANGED vars
  <2>1. TypeOK'
      BY <1>11 DEF vars, disk, TypeOK
  <2>2. Process' /\ NeverCrashed'
      BY <1>11 DEF vars, disk, Process, NeverCrashed
  <2>3. Genesis' /\ Storing'
      BY <1>11 DEF vars, disk, Genesis, Storing, Explained
  <2>4. NothingMissingUnexplained'
      BY <1>11 DEF vars, disk, Explained, NothingMissingUnexplained
  <2> QED BY <2>1, <2>2, <2>3, <2>4 DEF StoreInv
<1> QED BY <1>1, <1>2, <1>3, <1>4, <1>5, <1>6, <1>7, <1>8, <1>9, <1>10, <1>11
        DEF Next, StoreGenesis

(* The order of the writes, and what a crash can leave of them.            *)
THEOREM StoreHolds == Spec => []StoreInv
<1>1. QED BY InitStoreInv, NextStoreInv, PTL DEF Spec

(* After any crash, at any point, the newest block has its header, on a    *)
(* leader all before it too, and a block that has a header lacks its body  *)
(* only if the goroutine has still to run or died with an earlier process  *)
(* (StoreBlock, UpdateNewestBlock), for every order in which a peer gets   *)
(* its blocks.                                                             *)
THEOREM NothingMissing == Spec => []NothingMissingUnexplained
<1>1. StoreInv => NothingMissingUnexplained
    BY DEF StoreInv
<1> QED BY <1>1, StoreHolds, PTL

(* A body is lost, or a start panics, only in a run with a crash.          *)
THEOREM OnlyCrashesLose == Spec => [](crashes = 0 => lost = {} /\ panic = "none")
<1>1. StoreInv => (crashes = 0 => lost = {} /\ panic = "none")
    BY DEF StoreInv, NeverCrashed
<1> QED BY <1>1, StoreHolds, PTL

(* A node that was restarted on an existing chain never adds a block to    *)
(* it: without a banknote state no step writes a header or the newest key. *)
THEOREM RestartFreezes == Spec => RestartedChainFrozen
<1> DEFINE Frozen == up # "down" /\ ~hasState => UNCHANGED <<newest, headers, current>>
<1>1. StoreInv /\ [Next]_vars => [Frozen]_vars
    BY DEF StoreInv, TypeOK, Process, Next, Start, StoreGenesis, GenesisBody, GenesisHeader,
           GenesisNewest, BeginStore, ProcessWithoutState, PutHeader, PutNewest, PutBody, Crash,
           disk, vars
<1> QED BY <1>1, StoreHolds, PTL DEF Spec, RestartedChainFrozen
=============================================================================
