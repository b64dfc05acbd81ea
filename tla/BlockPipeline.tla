---------------------------- MODULE BlockPipeline ----------------------------
(***************************************************************************)
(* The way of a block from the data set to the peers: the reader and the   *)
(* generator goroutine of the leader (chain/block_generator.go), its block *)
(* adder, the gossip network, and the receiver and the adder of each peer  *)
(* (chain/blockchain.go, cmd/main.go), on top of NodeStartup: the leader   *)
(* produces once enough peers have joined, and a peer may join later, or   *)
(* stop.  Block n is generated from the n-th batch that was read; blocks   *)
(* are known by their numbers, which the generator counts on its own.      *)
(*                                                                         *)
(* The generator reads bc.CurrentBlock while the adder writes it, and the  *)
(* adder encodes a block whose PLedgerStateRoots is the very slice that    *)
(* the generator writes for the blocks after it.                           *)
(***************************************************************************)
EXTENDS NodeStartup, Sequences, SequencesExt

CONSTANTS Ledgers,    \* the peripheral ledgers
          MaxBlock,   \* bound on exp_block_number
          ReaderCap,  \* capacity of TobeProcessedTxsChan (2)
          QueueCap    \* capacity of ToBeAddedBlocks (100)

ASSUME PipelineAssumption ==
    /\ MaxBlock \in Nat \ {0}
    /\ ReaderCap \in Nat /\ QueueCap \in Nat \ {0}
    /\ \A s \in Settings :
         /\ s.last \in 1..MaxBlock     \* exp_block_number
         /\ s.exits \in BOOLEAN        \* core_limit # 0: exit after that block
         /\ s.loses \in BOOLEAN        \* the network may lose a message
         /\ s.unsound \in BOOLEAN      \* processing a block may fail, see Unsound

Blocks == 1..MaxBlock
Roots == [Ledgers -> 0..MaxBlock]   \* per ledger, the block that wrote its root last
NoRoots == [l \in Ledgers |-> 0]

VARIABLES
    \* the leader
    read,      \* batches put into TobeProcessedTxsChan
    gen,       \* where the generator is
    number,    \* nowBlkNumber
    todo,      \* ledgers that have not finished the block being generated
    roots,     \* bc.BanknoteState.PLedgerStateRoots
    parent,    \* per block: the block its ParentBlockHash names
    hashed,    \* per block: the roots its BanknoteBlockHash was computed from
    queue,     \* ToBeAddedBlocks
    current,   \* bc.CurrentBlock
    adder,     \* where the adder is
    adding,    \* the block it has in hand
    before,    \* the roots when it started to encode the block
    sent,      \* per block: the roots in the message, or NoRoots
    \* the network and the peers
    net,       \* per peer: blocks on their way to it
    inbox,     \* per peer: its ToBeAddedBlocks
    applied    \* per peer: the blocks added to its chain, in order

genVars == <<gen, number, todo, parent, hashed>>
adderVars == <<current, adder, adding, before, sent>>
peerVars == <<net, inbox, applied>>
leaderVars == <<read, genVars, roots, queue, adderVars>>
vars == <<startVars, leaderVars, peerVars>>

Init ==
    /\ StartInit
    /\ read = 0
    /\ gen = "take" /\ number = 0 /\ todo = {}
    /\ roots = NoRoots
    /\ parent = [n \in Blocks |-> 0]
    /\ hashed = [n \in Blocks |-> NoRoots]
    /\ queue = <<>> /\ current = 0
    /\ adder = "idle" /\ adding = 0 /\ before = NoRoots
    /\ sent = [n \in Blocks |-> NoRoots]
    /\ net = [p \in Peers |-> {}]
    /\ inbox = [p \in Peers |-> <<>>]
    /\ applied = [p \in Peers |-> <<>>]

-----------------------------------------------------------------------------
OneMore(q) == Len(q) <= QueueCap      \* variant: off by one
HasRoom(q) == Len(q) < QueueCap

(* The reader: a batch more, while the channel has room.  It never stops.  *)
Read ==
    /\ Running
    /\ read - number < ReaderCap
    /\ read < setting.last + ReaderCap     \* bound: no batch after that is ever received
    /\ read' = read + 1
    /\ UNCHANGED <<startVars, genVars, roots, queue, adderVars, peerVars>>

(* banknote_txs := <-TobeProcessedTxsChan                                  *)
TakeBatch ==
    /\ Running /\ gen = "take"
    /\ read > number
    /\ number' = number + 1
    /\ gen' = "header"
    /\ UNCHANGED <<startVars, read, todo, parent, hashed, roots, queue, adderVars, peerVars>>

(* GenerateBlockForLeader: the header, with the hash of whatever block is  *)
(* the current one at this moment.                                         *)
MakeHeader ==
    /\ Running /\ gen = "header"
    /\ parent' = [parent EXCEPT ![number] = current]
    /\ todo' = Ledgers
    /\ gen' = "process"
    /\ UNCHANGED <<startVars, read, number, hashed, roots, queue, adderVars, peerVars>>

(* Whether a block can be processed depends on what is in it and on how    *)
(* the goroutines of the ledgers meet: ProcessBanknoteTxs waits for good   *)
(* when the share of one kind is larger than PLedgerInnerChanSize or more  *)
(* workers are counted than started, and panics at other miscounts and at  *)
(* a nil transaction (PeripheralLedger, DatasetFeed); a result writer that *)
(* has failed stops whoever sends it a row (ResultWriter).  An unsound     *)
(* setting has such batches: there a ledger need not finish.               *)
Unsound == setting.unsound

(* ProcessPeripheralLedgerTxStateTrie of one ledger: a new root, or the    *)
(* old one when the block touches no account of the ledger.                *)
ProcessLedger(l) ==
    /\ Running /\ gen = "process" /\ l \in todo
    /\ todo' = todo \ {l}
    /\ \/ roots' = [roots EXCEPT ![l] = number]
       \/ UNCHANGED roots
    /\ UNCHANGED <<startVars, read, gen, number, parent, hashed, queue, adderVars, peerVars>>

(* NewBanknoteBlock: the hash covers the roots; the block refers to them.  *)
MakeBlock ==
    /\ Running /\ gen = "process" /\ todo = {}
    /\ hashed' = [hashed EXCEPT ![number] = roots]
    /\ gen' = "send"
    /\ UNCHANGED <<startVars, read, number, todo, parent, roots, queue, adderVars, peerVars>>

(* bc.ToBeAddedBlocks <- blk, and the test of ExpBlockNumber.              *)
SendBlock ==
    /\ Running /\ gen = "send"
    /\ HasRoom(queue)
    /\ queue' = Append(queue, number)
    /\ gen' = IF number >= setting.last THEN "stop" ELSE "take"
    /\ UNCHANGED <<startVars, read, number, todo, parent, hashed, roots, adderVars, peerVars>>

(* os.Exit(0), ten seconds after the last block was queued.                *)
Exit ==
    /\ Running /\ gen = "stop" /\ setting.exits
    /\ Goto(Leader, "exited")
    /\ UNCHANGED <<setting, keyFile, key, leaderVars, peerVars>>

(* A panic in the processing of a block ends the process, the leader's ... *)
Panic ==
    /\ Unsound /\ Running /\ gen = "process" /\ todo # {}
    /\ Goto(Leader, "exited")
    /\ UNCHANGED <<setting, keyFile, key, leaderVars, peerVars>>

(* ... or a peer's.                                                        *)
PeerPanics(p) ==
    /\ Unsound /\ p \in Joined /\ inbox[p] # <<>>
    /\ Goto(p, "gone")
    /\ UNCHANGED <<setting, keyFile, key>>

-----------------------------------------------------------------------------
(* The leader's adder.  AddBlock tests the number and the parent, prints a *)
(* line if they are wrong, and adds the block all the same.                *)
TakeBlock ==
    /\ Running /\ adder = "idle" /\ queue # <<>>
    /\ adding' = Head(queue)
    /\ queue' = Tail(queue)
    /\ adder' = "add"
    /\ UNCHANGED <<startVars, read, genVars, roots, current, before, sent, peerVars>>

AddMatching ==                                        \* variant: refuses a stale parent
    /\ Running /\ adder = "add"
    /\ current' = IF parent[adding] = current THEN adding ELSE current
    /\ adder' = "encode"
    /\ UNCHANGED <<startVars, read, genVars, roots, queue, adding, before, sent, peerVars>>
AddBlock ==
    /\ Running /\ adder = "add"
    /\ current' = adding
    /\ adder' = "encode"
    /\ UNCHANGED <<startVars, read, genVars, roots, queue, adding, before, sent, peerVars>>

StartOldEncode ==                                     \* variant: an encoding kept from before
    /\ Running /\ adder = "encode"
    /\ adder' = "publish"
    /\ UNCHANGED <<startVars, read, genVars, roots, queue, current, adding, before, sent, peerVars>>

(* blk.Encode() walks over the shared slice while it may be written: each  *)
(* root is read at some moment between the start and the end.              *)
StartEncode ==
    /\ Running /\ adder = "encode"
    /\ before' = roots
    /\ adder' = "publish"
    /\ UNCHANGED <<startVars, read, genVars, roots, queue, current, adding, sent, peerVars>>

Publish ==
    /\ Running /\ adder = "publish"
    /\ \E seen \in [Ledgers -> {before[l] : l \in Ledgers} \cup {roots[l] : l \in Ledgers}] :
         /\ \A l \in Ledgers : seen[l] \in {before[l], roots[l]}
         /\ sent' = [sent EXCEPT ![adding] = seen]
    /\ net' = [p \in Peers |-> IF p \in Joined THEN net[p] \cup {adding} ELSE net[p]]
    /\ adder' = "idle"
    /\ UNCHANGED <<startVars, read, genVars, roots, queue, current, adding, before, inbox, applied>>

-----------------------------------------------------------------------------
(* A peer that subscribes gets what is published from then on, and perhaps *)
(* some of the blocks before, which gossip repeats for a few seconds.      *)
Published == 1..(IF adder = "idle" THEN adding ELSE adding - 1)
Join(p) ==
    /\ Connect(p)
    /\ \E late \in SUBSET Published : net' = [net EXCEPT ![p] = late]
    /\ UNCHANGED <<leaderVars, inbox, applied>>

(* Gossip delivers in any order, once, or not at all.                      *)
Lose(p) ==
    /\ setting.loses
    /\ \E n \in net[p] : net' = [net EXCEPT ![p] = @ \ {n}]
    /\ UNCHANGED <<startVars, read, genVars, roots, queue, adderVars, inbox, applied>>

(* startPeer: Sub.Next, DecodeB, bc.ToBeAddedBlocks <- blk                 *)
DeliverTwice(p) ==                                    \* variant: delivered again and again
    /\ p \in Joined /\ HasRoom(inbox[p]) /\ Len(applied[p]) <= setting.last
    /\ \E n \in net[p] : inbox' = [inbox EXCEPT ![p] = Append(@, n)]
    /\ UNCHANGED <<startVars, leaderVars, net, applied>>
Deliver(p) ==
    /\ p \in Joined /\ HasRoom(inbox[p])
    /\ \E n \in net[p] : /\ net' = [net EXCEPT ![p] = @ \ {n}]
                         /\ inbox' = [inbox EXCEPT ![p] = Append(@, n)]
    /\ UNCHANGED <<startVars, leaderVars, applied>>

(* AddBlock of a peer: processes the transactions, stores the block and    *)
(* makes it the current one, whatever number and parent it has.            *)
Apply(p) ==
    /\ p \in Joined /\ inbox[p] # <<>>
    /\ applied' = [applied EXCEPT ![p] = Append(@, Head(inbox[p]))]
    /\ inbox' = [inbox EXCEPT ![p] = Tail(@)]
    /\ UNCHANGED <<startVars, leaderVars, net>>

Processing == \E l \in Ledgers : ProcessLedger(l)
Generator == TakeBatch \/ MakeHeader \/ Processing \/ MakeBlock \/ SendBlock
Adder == TakeBlock \/ AddBlock \/ StartEncode \/ Publish

Starting(n) ==
    /\ LoadKey(n) \/ (n = Leader /\ LeaderStarts) \/ (n # Leader /\ Retry(n))
    /\ UNCHANGED <<leaderVars, peerVars>>
Stopping(p) == (Stop(p) \/ PeerPanics(p)) /\ UNCHANGED <<leaderVars, peerVars>>
LeaderEnds == Exit \/ Panic

Next == \/ \E n \in Nodes : Starting(n)
        \/ Read \/ Generator \/ LeaderEnds
        \/ Adder
        \/ \E p \in Peers : Join(p) \/ Lose(p) \/ Deliver(p) \/ Apply(p) \/ Stopping(p)

Spec == Init /\ [][Next]_vars

(* Every goroutine that can run does, and the retries go on; the network   *)
(* brings what it does not lose.  Nobody has to stop or exit, and nobody   *)
(* has to finish a block in an unsound setting.                            *)
FairSpec == /\ Spec
            /\ WF_vars(Starting(Leader))
            /\ WF_vars(Read) /\ WF_vars(Adder)
            /\ WF_vars(Generator /\ (Unsound => ~Processing))
            /\ \A p \in Peers : /\ WF_vars(Starting(p) \/ Join(p))
                               /\ WF_vars(Deliver(p)) /\ WF_vars(~Unsound /\ Apply(p))

-----------------------------------------------------------------------------
(* The blocks on their way to the adder are the successive ones between    *)
(* the current block and the generator's counter: none is skipped or       *)
(* overtaken, although the two goroutines only share a channel.            *)
InHand == IF adder = "add" THEN <<adding>> ELSE <<>>
Generated == IF gen \in {"take", "stop"} THEN number ELSE number - 1
LeaderChainInOrder ==
    InHand \o queue = [i \in 1..(Generated - current) |-> current + i]

(* The parent a block names may be stale, because the adder has not added  *)
(* the predecessor yet: it lags by the blocks the channel holds and the    *)
(* one in the adder's hand, never by more, and is never too new.           *)
HasHeader(n) == n < number \/ (n = number /\ gen # "header")
ParentLag ==
    \A n \in Blocks : HasHeader(n) =>
        parent[n] < n /\ n - 1 - parent[n] <= QueueCap + 1

(* The roots a published block carries are its own or newer ones, and not  *)
(* newer than the last block the generator can have got to meanwhile.      *)
IsSent(n) == n < adding \/ (n = adding /\ adder = "idle")
PublishedRoots ==
    \A n \in Blocks : IsSent(n) =>
        \A l \in Ledgers : hashed[n][l] <= sent[n][l] /\ sent[n][l] <= n + QueueCap + 1

(* A peer adds a block at most once, and only blocks the leader has added. *)
PeersFollow ==
    \A p \in Peers : IsInjective(applied[p]) /\ \A n \in ToSet(applied[p]) : n <= current

(* A leader that finds its peers and does not exit generates, adds and     *)
(* publishes every block, provided that no block is one which the ledgers  *)
(* cannot finish (see Unsound): then the two channels and their bounds     *)
(* never leave all goroutines waiting.  Without losses, every peer that    *)
(* the leader waited for adds them all.                                    *)
ChainReachesPeers ==
    /\ setting.keys = "copied" /\ setting.need <= Cardinality(Peers)
    /\ ~setting.refused /\ ~setting.exits /\ ~setting.stops /\ ~Unsound
    => <>(/\ current = setting.last /\ adder = "idle" /\ queue = <<>>
          /\ setting.need = Cardinality(Peers) /\ ~setting.loses =>
                \A p \in Peers : ToSet(applied[p]) = 1..setting.last)
=============================================================================
