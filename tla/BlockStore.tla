----------------------------- MODULE BlockStore -----------------------------
(***************************************************************************)
(* The chain on disk: storage/storage.go and the start of a node in        *)
(* chain/blockchain.go (NewBlockChain, AddGenisisBlock), with a process    *)
(* that can die between any two writes.  StoreBlock leaves the body of a   *)
(* block to a goroutine and writes the header and the key of the newest    *)
(* block at once.  Blocks are known by their numbers.  A leader stores its *)
(* own blocks, in turn; a peer those that it receives, as they come.       *)
(***************************************************************************)
EXTENDS Integers, FiniteSets

CONSTANTS Roles,        \* the values of node_mode: "leader", "peer"
          MaxBlock,     \* bound on the blocks of a run
          MaxCrashes,   \* bound on the crashes of a run
          DropChoices   \* the values of drop_database a start may have

ASSUME BlockStoreAssumption == /\ Roles \subseteq {"leader", "peer"}
                               /\ MaxBlock \in Nat /\ MaxCrashes \in Nat
                               /\ DropChoices \subseteq BOOLEAN

None == -1
Blocks == 0..MaxBlock

VARIABLES
    role,             \* of this node; never changes
    headers, bodies,  \* the blocks whose header, whose body is in the database
    newest,           \* the key "OnlyNewestBlock"
    up,               \* "down", "starting", "running" or "storing"
    step,             \* the next write of the goroutine that stores a block
    block,            \* the block it stores, or None
    current,          \* bc.CurrentBlock
    hasState,         \* bc.BanknoteState is not nil
    pending,          \* bodies that goroutines of this process have still to write
    lost,             \* bodies whose goroutine died with its process
    panic,            \* why the last process panicked
    crashes
disk == <<headers, bodies, newest>>
vars == <<role, disk, up, step, block, current, hasState, pending, lost, panic, crashes>>

Init ==
    /\ role \in Roles
    /\ headers = {} /\ bodies = {} /\ newest = None
    /\ up = "down" /\ step = "none" /\ block = None
    /\ current = None /\ hasState = FALSE
    /\ pending = {} /\ lost = {}
    /\ panic = "none" /\ crashes = 0

-----------------------------------------------------------------------------
NoChain(n) == n = None

(* main and NewBlockChain.  With drop_database the directory is removed    *)
(* first.  Without a newest block the genesis block is made, and with it   *)
(* the banknote state; otherwise the newest block is read, and nothing     *)
(* restores the banknote state.                                            *)
Start(drop) ==
    /\ up = "down"
    /\ drop \in DropChoices
    /\ headers' = IF drop THEN {} ELSE headers
    /\ bodies' = IF drop THEN {} ELSE bodies
    /\ newest' = IF drop THEN None ELSE newest
    /\ lost' = IF drop THEN {} ELSE lost
    /\ \/ /\ NoChain(newest')
          /\ up' = "starting" /\ step' = "body"
          /\ hasState' = TRUE
          /\ UNCHANGED <<current, panic>>
       \/ /\ ~NoChain(newest')
          /\ newest' \in bodies'
          /\ up' = "running" /\ step' = "none"
          /\ current' = newest' /\ hasState' = FALSE
          /\ UNCHANGED panic
       \/ /\ ~NoChain(newest')
          /\ newest' \notin bodies'      \* GetBlock fails: log.Panic()
          /\ panic' = "no body"
          /\ UNCHANGED <<up, step, current, hasState>>
    /\ UNCHANGED <<role, block, pending, crashes>>

(* StoreBlockSync of the genesis block: body, header and newest key in     *)
(* turn, one write each; then AddGenisisBlock makes it the current block.  *)
GenesisBody ==
    /\ up = "starting" /\ step = "body"
    /\ bodies' = bodies \cup {0}
    /\ step' = "header"
    /\ UNCHANGED <<role, block, headers, newest, up, current, hasState, pending, lost, panic, crashes>>

GenesisHeader ==
    /\ up = "starting" /\ step = "header"
    /\ headers' = headers \cup {0}
    /\ step' = "newest"
    /\ UNCHANGED <<role, block, bodies, newest, up, current, hasState, pending, lost, panic, crashes>>

GenesisNewest ==
    /\ up = "starting" /\ step = "newest"
    /\ newest' = 0 /\ current' = 0
    /\ up' = "running" /\ step' = "none"
    /\ UNCHANGED <<role, block, headers, bodies, hasState, pending, lost, panic, crashes>>

StoreGenesis == GenesisBody \/ GenesisHeader \/ GenesisNewest

(* AddBlock: a leader adds the block it has made on top of its chain.  For *)
(* a peer AddBlock only prints that a number is wrong (lines 149 to 152),  *)
(* so that it stores what the network brings: some blocks, in some order,  *)
(* each of them once.                                                      *)
Comes(n) == IF role = "leader" THEN n = current + 1 ELSE n # 0 /\ n \notin headers

(* The block is processed and StoreBlock starts its goroutine.             *)
BeginStoreNoHeader(n) ==                                 \* variants
    /\ up = "running" /\ hasState /\ Comes(n)
    /\ up' = "storing" /\ step' = "newest" /\ block' = n
    /\ pending' = pending \cup {n}
    /\ UNCHANGED <<role, disk, current, hasState, lost, panic, crashes>>
BeginStoreNoState(n) ==
    /\ up = "running" /\ Comes(n)
    /\ up' = "storing" /\ step' = "header" /\ block' = n
    /\ pending' = pending \cup {n}
    /\ UNCHANGED <<role, disk, current, hasState, lost, panic, crashes>>
BeginStore(n) ==
    /\ up = "running" /\ hasState
    /\ Comes(n)
    /\ up' = "storing" /\ step' = "header" /\ block' = n
    /\ pending' = pending \cup {n}
    /\ UNCHANGED <<role, disk, current, hasState, lost, panic, crashes>>

(* ProcessBanknoteTxs follows the nil BanknoteState of a restarted node.   *)
ProcessWithoutState ==
    /\ up = "running" /\ ~hasState
    /\ up' = "down" /\ panic' = "no state"
    /\ lost' = lost \cup pending /\ pending' = {}
    /\ UNCHANGED <<role, disk, step, block, current, hasState, crashes>>

PutHeader ==
    /\ up = "storing" /\ step = "header"
    /\ headers' = headers \cup {block}
    /\ step' = "newest"
    /\ UNCHANGED <<role, block, bodies, newest, up, current, hasState, pending, lost, panic, crashes>>

(* UpdateNewestBlock, and AddBlock's bc.CurrentBlock = b.                  *)
PutNewest ==
    /\ up = "storing" /\ step = "newest"
    /\ newest' = block /\ current' = block
    /\ up' = "running" /\ step' = "none" /\ block' = None
    /\ UNCHANGED <<role, headers, bodies, hasState, pending, lost, panic, crashes>>

(* The goroutine of StoreBlock.                                            *)
PutBody(n) ==
    /\ n \in pending
    /\ bodies' = bodies \cup {n}
    /\ pending' = pending \ {n}
    /\ UNCHANGED <<role, headers, newest, up, step, block, current, hasState, lost, panic, crashes>>

(* The process dies between two writes: a signal, a panic of another       *)
(* goroutine, os.Exit(0) at the last block.  What it has put into the      *)
(* database stays there; nothing is synced, so that the power must hold.   *)
Crash ==
    /\ up # "down"
    /\ crashes < MaxCrashes
    /\ crashes' = crashes + 1
    /\ up' = "down" /\ step' = "none" /\ block' = None
    /\ lost' = lost \cup pending /\ pending' = {}
    /\ UNCHANGED <<role, disk, current, hasState, panic>>

Next == \/ \E drop \in BOOLEAN : Start(drop)
        \/ StoreGenesis \/ ProcessWithoutState \/ PutHeader \/ PutNewest
        \/ \E n \in Blocks : BeginStore(n) \/ PutBody(n)
        \/ Crash

Spec == Init /\ [][Next]_vars

-----------------------------------------------------------------------------
(* After any crash, at any point: the newest block and the genesis block   *)
(* have their headers, on a leader all between them too (a peer's chain    *)
(* has gaps where the network lost a block), and a block that has a header *)
(* lacks its body only if the goroutine has still to run or died with an   *)
(* earlier process.                                                        *)
NothingMissingUnexplained ==
    /\ newest # None => {0, newest} \subseteq headers
    /\ role = "leader" => 0..newest \subseteq headers
    /\ headers \subseteq bodies \cup pending \cup lost

(* A node that was restarted on an existing chain never adds a block to    *)
(* it: the height it read is the height it dies with.                      *)
RestartedChainFrozen ==
    [][up # "down" /\ ~hasState => UNCHANGED <<newest, headers, current>>]_vars

(* The comment of UpdateNewestBlock (storage.go, line 47): the hash of the *)
(* newest block is stored so that block production can go on after a       *)
(* restart.  A restarted node at least does not panic.                     *)
RestartGoesOn == panic = "none"
=============================================================================
