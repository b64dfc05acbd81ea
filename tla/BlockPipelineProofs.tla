------------------------ MODULE BlockPipelineProofs ------------------------
(***************************************************************************)
(* What the channels between the generator and the adder of the leader,    *)
(* and the way from there to the peers, keep for any number of blocks,     *)
(* peers and ledgers and any capacities.                                   *)
(***************************************************************************)
EXTENDS BlockPipeline, SequenceTheorems, TLAPS

Contents == Nodes \cup {Copied, None, Empty}

StartType ==
    /\ setting \in Settings
    /\ keyFile \in [Nodes -> Contents]
    /\ key \in [Nodes -> Contents]
    /\ at \in [Nodes -> {"stat", "create", "fill", "read", "host", "waiting",
                         "running", "joined", "gone", "exited"}]

(* The generator stops at exp_block_number.                                *)
GeneratorType ==
    /\ read \in Nat
    /\ gen \in {"take", "header", "process", "send", "stop"}
    /\ number \in 0..setting.last
    /\ gen = "take" => number < setting.last
    /\ gen # "take" => number > 0
    /\ todo \subseteq Ledgers
    /\ roots \in Roots
    /\ parent \in [Blocks -> 0..MaxBlock]
    /\ hashed \in [Blocks -> Roots]

AdderType ==
    /\ queue \in Seq(Blocks)
    /\ current \in 0..MaxBlock
    /\ adder \in {"idle", "add", "encode", "publish"}
    /\ adding \in 0..MaxBlock
    /\ adder # "idle" => adding > 0
    /\ before \in Roots
    /\ sent \in [Blocks -> Roots]

PeerType ==
    /\ net \in [Peers -> SUBSET Blocks]
    /\ inbox \in [Peers -> Seq(Blocks)]
    /\ applied \in [Peers -> Seq(Blocks)]

TypeOK == StartType /\ GeneratorType /\ AdderType /\ PeerType

(* The settings, and the numbers of blocks that go with them.              *)
LEMMA SettingFacts ==
    ASSUME setting \in Settings
    PROVE  /\ MaxBlock \in Nat \ {0} /\ QueueCap \in Nat \ {0} /\ ReaderCap \in Nat
           /\ setting.last \in 1..MaxBlock
           /\ setting.keys \in {"copied", "shared", "apart"}
           /\ Leader \in Nodes /\ Leader \notin Peers /\ Peers \subseteq Nodes
BY NodeAssumption, PipelineAssumption DEF Nodes

(* A node moves from one place of its start to the next.                   *)
LEMMA NextStartType == StartType /\ [Next]_vars => StartType'
<1> SUFFICES ASSUME StartType, [Next]_vars
             PROVE  StartType'
    OBVIOUS
<1> USE SettingFacts DEF StartType, Goto, Contents
<1>1. ASSUME NEW n \in Nodes, Starting(n)
      PROVE  StartType'
  <2>1. CASE LoadKey(n)
      BY <2>1 DEF LoadKey, Stat, Create, Fill, WriteFails, Keyless, ReadKey, Written
  <2>2. CASE LeaderStarts
      BY <2>2 DEF LeaderStarts, NewPublisher, StartProducing
  <2>3. CASE Retry(n)
      BY <2>3 DEF Retry
  <2> QED BY <1>1, <2>1, <2>2, <2>3 DEF Starting
<1>2. ASSUME NEW p \in Peers, Join(p) \/ Stopping(p)
      PROVE  StartType'
    BY <1>2 DEF Join, Connect, Stopping, Stop, PeerPanics
<1>3. CASE LeaderEnds
    BY <1>3 DEF LeaderEnds, Exit, Panic
<1>4. CASE UNCHANGED startVars
    BY <1>4 DEF startVars
<1>5. Generator \/ Adder \/ Read => UNCHANGED startVars
    BY DEF Generator, TakeBatch, MakeHeader, Processing, ProcessLedger, MakeBlock, SendBlock,
           Adder, TakeBlock, AddBlock, StartEncode, Publish, Read
<1>6. \A p \in Peers : Lose(p) \/ Deliver(p) \/ Apply(p) => UNCHANGED startVars
    BY DEF Lose, Deliver, Apply
<1>7. UNCHANGED vars => UNCHANGED startVars
    BY DEF vars
<1> QED BY <1>1, <1>2, <1>3, <1>4, <1>5, <1>6, <1>7 DEF Next

(* The generator counts up to exp_block_number and stops.                  *)
LEMMA NextGeneratorType == TypeOK /\ [Next]_vars => GeneratorType'
<1> SUFFICES ASSUME TypeOK, [Next]_vars
             PROVE  GeneratorType'
    OBVIOUS
<1> USE SettingFacts DEF TypeOK, StartType, GeneratorType, AdderType, Roots
<1>1. CASE Read
    BY <1>1 DEF Read, startVars, genVars
<1>2. CASE TakeBatch
    BY <1>2 DEF TakeBatch, startVars
<1>3. CASE MakeHeader
    BY <1>3 DEF MakeHeader, startVars
<1>4. ASSUME NEW l \in Ledgers, ProcessLedger(l)
      PROVE  GeneratorType'
  <2>1. number \in 0..MaxBlock
      OBVIOUS
  <2>2. roots' \in Roots
      BY <1>4, <2>1 DEF ProcessLedger
  <2> QED BY <1>4, <2>2 DEF ProcessLedger, startVars
<1>5. CASE MakeBlock
    BY <1>5 DEF MakeBlock, startVars
<1>6. CASE SendBlock
    BY <1>6 DEF SendBlock, startVars
<1>7. CASE /\ UNCHANGED <<genVars, roots>> /\ setting' = setting
           /\ UNCHANGED read
    BY <1>7 DEF genVars
<1>8. LeaderEnds \/ Adder => UNCHANGED <<genVars, roots, read>> /\ setting' = setting
    BY DEF LeaderEnds, Exit, Panic, leaderVars, Adder, TakeBlock, AddBlock, StartEncode, Publish, startVars
<1>9. \A n \in Nodes : Starting(n) => UNCHANGED <<genVars, roots, read>> /\ setting' = setting
    BY DEF Starting, LoadKey, Stat, Create, Fill, WriteFails, ReadKey, LeaderStarts, NewPublisher,
           StartProducing, Retry, leaderVars
<1>10. \A p \in Peers : Join(p) \/ Lose(p) \/ Deliver(p) \/ Apply(p) \/ Stopping(p) =>
            UNCHANGED <<genVars, roots, read>> /\ setting' = setting
    BY DEF Join, Connect, Lose, Deliver, Apply, Stopping, Stop, PeerPanics, leaderVars, startVars
<1>11. UNCHANGED vars => UNCHANGED <<genVars, roots, read>> /\ setting' = setting
    BY DEF vars, leaderVars, startVars
<1> QED BY <1>1, <1>2, <1>3, <1>4, <1>5, <1>6, <1>7, <1>8, <1>9, <1>10, <1>11 DEF Next, Generator, Processing

(* Steps outside the leader's two goroutines leave its blocks alone.       *)
LEMMA OtherSteps ==
    ASSUME [Next]_vars
    PROVE  \/ UNCHANGED leaderVars \/ Read \/ Generator \/ Adder
<1>1. \A n \in Nodes : Starting(n) => UNCHANGED leaderVars
    BY DEF Starting
<1>2. LeaderEnds => UNCHANGED leaderVars
    BY DEF LeaderEnds, Exit, Panic
<1>3. \A p \in Peers : Join(p) \/ Lose(p) \/ Deliver(p) \/ Apply(p) \/ Stopping(p) =>
            UNCHANGED leaderVars
    BY DEF Join, Lose, Deliver, Apply, Stopping, leaderVars, adderVars
<1>4. UNCHANGED vars => UNCHANGED leaderVars
    BY DEF vars
<1> QED BY <1>1, <1>2, <1>3, <1>4 DEF Next

(* The adder handles blocks of the run only.                               *)
LEMMA NextAdderType == TypeOK /\ [Next]_vars => AdderType'
<1> SUFFICES ASSUME TypeOK, [Next]_vars
             PROVE  AdderType'
    OBVIOUS
<1> USE SettingFacts DEF TypeOK, StartType, GeneratorType, AdderType, Roots
<1>1. CASE SendBlock
  <2>1. number \in Blocks
      BY <1>1 DEF SendBlock, Blocks
  <2>2. queue' \in Seq(Blocks)
      BY <1>1, <2>1, AppendProperties DEF SendBlock
  <2> QED BY <1>1, <2>2 DEF SendBlock, adderVars
<1>2. CASE TakeBlock
  <2>1. Head(queue) \in Blocks /\ Tail(queue) \in Seq(Blocks)
      BY <1>2, HeadTailProperties DEF TakeBlock
  <2> QED BY <1>2, <2>1 DEF TakeBlock, Blocks
<1>3. CASE AddBlock
    BY <1>3 DEF AddBlock
<1>4. CASE StartEncode
    BY <1>4 DEF StartEncode
<1>5. CASE Publish
  <2>1. PICK seen \in [Ledgers -> {before[l] : l \in Ledgers} \cup {roots[l] : l \in Ledgers}] :
            /\ \A l \in Ledgers : seen[l] \in {before[l], roots[l]}
            /\ sent' = [sent EXCEPT ![adding] = seen]
      BY <1>5 DEF Publish
  <2>2. seen \in Roots
      BY <2>1
  <2>3. sent' \in [Blocks -> Roots]
      BY <2>1, <2>2
  <2> QED BY <1>5, <2>3 DEF Publish
<1>6. CASE UNCHANGED <<queue, adderVars>>
    BY <1>6 DEF adderVars
<1>7. Read \/ TakeBatch \/ MakeHeader \/ MakeBlock => UNCHANGED <<queue, adderVars>>
    BY DEF Read, TakeBatch, MakeHeader, MakeBlock
<1>8. \A l \in Ledgers : ProcessLedger(l) => UNCHANGED <<queue, adderVars>>
    BY DEF ProcessLedger
<1>9. UNCHANGED leaderVars => UNCHANGED <<queue, adderVars>>
    BY DEF leaderVars
<1> QED BY <1>1, <1>2, <1>3, <1>4, <1>5, <1>6, <1>7, <1>8, <1>9, OtherSteps DEF Generator, Processing, Adder

(* Gossip carries published blocks only.                                   *)
LEMMA NextPeerType == TypeOK /\ [Next]_vars => PeerType'
<1> SUFFICES ASSUME TypeOK, [Next]_vars
             PROVE  PeerType'
    OBVIOUS
<1> USE SettingFacts DEF TypeOK, StartType, AdderType, PeerType
<1>1. CASE Publish
  <2>1. adding \in Blocks
      BY <1>1 DEF Publish, Blocks
  <2> QED BY <1>1, <2>1 DEF Publish
<1>2. ASSUME NEW p \in Peers, Join(p)
      PROVE  PeerType'
  <2>1. Published \subseteq Blocks
      BY DEF Published, Blocks
  <2> QED BY <1>2, <2>1 DEF Join
<1>3. ASSUME NEW p \in Peers, Lose(p)
      PROVE  PeerType'
    BY <1>3 DEF Lose
<1>4. ASSUME NEW p \in Peers, Deliver(p)
      PROVE  PeerType'
  <2>1. \A n \in net[p] : Append(inbox[p], n) \in Seq(Blocks)
      BY AppendProperties
  <2> QED BY <1>4, <2>1 DEF Deliver
<1>5. ASSUME NEW p \in Peers, Apply(p)
      PROVE  PeerType'
  <2>1. Head(inbox[p]) \in Blocks /\ Tail(inbox[p]) \in Seq(Blocks)
      BY <1>5, HeadTailProperties DEF Apply
  <2>2. Append(applied[p], Head(inbox[p])) \in Seq(Blocks)
      BY <2>1, AppendProperties
  <2> QED BY <1>5, <2>1, <2>2 DEF Apply
<1>6. CASE UNCHANGED peerVars
    BY <1>6 DEF peerVars
<1>7. \A n \in Nodes : Starting(n) => UNCHANGED peerVars
    BY DEF Starting
<1>8. \A p \in Peers : Stopping(p) => UNCHANGED peerVars
    BY DEF Stopping
<1>9. LeaderEnds \/ Read \/ Generator => UNCHANGED peerVars
    BY DEF LeaderEnds, Exit, Panic, Read, Generator, TakeBatch, MakeHeader, Processing, ProcessLedger,
           MakeBlock, SendBlock
<1>10. TakeBlock \/ AddBlock \/ StartEncode => UNCHANGED peerVars
    BY DEF TakeBlock, AddBlock, StartEncode
<1>11. UNCHANGED vars => UNCHANGED peerVars
    BY DEF vars
<1> QED BY <1>1, <1>2, <1>3, <1>4, <1>5, <1>6, <1>7, <1>8, <1>9, <1>10, <1>11 DEF Next, Adder

(* No process has started, and nothing was read.                           *)
LEMMA InitType == Init => TypeOK
<1> SUFFICES ASSUME Init
             PROVE  TypeOK
    OBVIOUS
<1>1. StartType
    BY DEF Init, StartInit, StartType, Contents
<1>2. 0 \in 0..MaxBlock /\ NoRoots \in Roots
    BY <1>1, SettingFacts DEF NoRoots, Roots, StartType
<1>3. GeneratorType
    BY <1>1, <1>2, SettingFacts DEF Init, GeneratorType, StartType
<1>4. AdderType
    BY <1>2 DEF Init, AdderType
<1>5. PeerType
    BY DEF Init, PeerType
<1> QED BY <1>1, <1>3, <1>4, <1>5 DEF TypeOK

(* Type correctness: the goroutines of the leader and of the peers only    *)
(* handle blocks of the run, and the generator never counts past its last. *)
THEOREM TypeCorrect == Spec => []TypeOK
<1>1. TypeOK /\ [Next]_vars => TypeOK'
    BY NextStartType, NextGeneratorType, NextAdderType, NextPeerType DEF TypeOK
<1> QED BY <1>1, InitType, PTL DEF Spec
-----------------------------------------------------------------------------
(* ToBeAddedBlocks holds the blocks from the adder's to the generator's.   *)
ChainInv ==
    /\ adding = IF adder = "add" THEN current + 1 ELSE current
    /\ Len(queue) = Generated - adding /\ Len(queue) <= QueueCap
    /\ \A i \in 1..Len(queue) : queue[i] = adding + i

(* Sending puts the next block behind the others, taking takes the oldest: *)
(* nothing overtakes in the channel.                                       *)
LEMMA NextChain == TypeOK /\ ChainInv /\ [Next]_vars => ChainInv'
<1> SUFFICES ASSUME TypeOK, ChainInv, [Next]_vars
             PROVE  ChainInv'
    OBVIOUS
<1>0. /\ queue \in Seq(Blocks) /\ Len(queue) \in Nat /\ QueueCap \in Nat \ {0}
      /\ number \in Nat /\ current \in Nat /\ adding \in Nat
      /\ gen \in {"take", "header", "process", "send", "stop"}
    BY SettingFacts, LenProperties DEF TypeOK, StartType, GeneratorType, AdderType
<1>1. CASE Read \/ TakeBatch \/ MakeHeader \/ MakeBlock \/ \E l \in Ledgers : ProcessLedger(l)
  <2>1. UNCHANGED <<queue, adderVars>> /\ Generated' = Generated
      BY <1>0, <1>1 DEF Read, TakeBatch, MakeHeader, MakeBlock, ProcessLedger, genVars, Generated
  <2> QED BY <2>1 DEF ChainInv, adderVars
<1>2. CASE SendBlock
  <2>1. number \in Blocks
      BY <1>2, SettingFacts DEF SendBlock, Blocks, TypeOK, StartType, GeneratorType
  <2>2. /\ Len(queue') = Len(queue) + 1
        /\ \A i \in 1..Len(queue) : queue'[i] = queue[i]
        /\ queue'[Len(queue) + 1] = number
      BY <1>0, <1>2, <2>1, AppendProperties DEF SendBlock
  <2>3. Generated = number - 1 /\ Generated' = number
      BY <1>2 DEF SendBlock, Generated
  <2>4. adding' = adding /\ current' = current /\ adder' = adder
      BY <1>2 DEF SendBlock, adderVars
  <2>5. Len(queue) + 1 <= QueueCap
      BY <1>0, <1>2 DEF SendBlock, HasRoom
  <2>6. adding + (Len(queue) + 1) = number
      BY <1>0, <2>3 DEF ChainInv
  <2>7. \A i \in 1..Len(queue') : queue'[i] = adding + i
    <3>1. ASSUME NEW i \in 1..Len(queue'), i # Len(queue) + 1
          PROVE  queue'[i] = adding + i
      <4>1. i \in 1..Len(queue)
          BY <1>0, <2>2, <3>1
      <4> QED BY <2>2, <4>1 DEF ChainInv
    <3> QED BY <2>2, <2>6, <3>1
  <2> QED BY <1>0, <2>2, <2>3, <2>4, <2>5, <2>6, <2>7 DEF ChainInv
<1>3. CASE TakeBlock
  <2>1. queue # <<>> /\ Len(queue) \in Nat \ {0}
      BY <1>0, <1>3, EmptySeq DEF TakeBlock
  <2>2. /\ Len(queue') = Len(queue) - 1
        /\ \A i \in 1..Len(queue) - 1 : queue'[i] = queue[i + 1]
        /\ adding' = queue[1]
      BY <1>0, <1>3, <2>1, HeadTailProperties DEF TakeBlock
  <2>3. Generated' = Generated
      BY <1>3 DEF TakeBlock, Generated, genVars
  <2>4. adding' = adding + 1 /\ adding = current /\ current' = current /\ adder' = "add"
      BY <1>3, <2>1, <2>2 DEF TakeBlock, ChainInv
  <2>5. \A i \in 1..Len(queue') : queue'[i] = adding' + i
      BY <1>0, <2>1, <2>2, <2>4 DEF ChainInv
  <2>6. Generated = adding + Len(queue)
      BY <1>0 DEF ChainInv, Generated
  <2> QED BY <1>0, <2>1, <2>2, <2>3, <2>4, <2>5, <2>6 DEF ChainInv
<1>4. CASE AddBlock \/ StartEncode \/ Publish
  <2>1. queue' = queue /\ Generated' = Generated /\ adding' = adding
      BY <1>4 DEF AddBlock, StartEncode, Publish, Generated, genVars
  <2>2. adding' = IF adder' = "add" THEN current' + 1 ELSE current'
      BY <1>4, <2>1 DEF AddBlock, StartEncode, Publish, ChainInv
  <2> QED BY <2>1, <2>2 DEF ChainInv
<1>5. CASE UNCHANGED leaderVars
    BY <1>5 DEF leaderVars, genVars, adderVars, ChainInv, Generated
<1> QED BY <1>1, <1>2, <1>3, <1>4, <1>5, OtherSteps DEF Generator, Processing, Adder

(* How far the generator can be ahead of the block last added.             *)
LEMMA Ahead ==
    ASSUME TypeOK, ChainInv
    PROVE  /\ Generated - adding \in 0..QueueCap /\ number - adding \in 0..QueueCap + 1
           /\ Generated - current \in 0..QueueCap + 1
           /\ adding \in Nat /\ number \in Nat /\ current \in Nat /\ Generated \in {number, number - 1}
           /\ gen \notin {"take", "stop"} => Generated = number - 1
<1>1. /\ Len(queue) \in Nat /\ QueueCap \in Nat /\ number \in Nat /\ current \in Nat /\ adding \in Nat
    BY SettingFacts, LenProperties DEF TypeOK, StartType, GeneratorType, AdderType
<1> QED BY <1>1 DEF ChainInv, Generated

(* The blocks in the channel and in the adder's hand are the successive    *)
(* ones between the current block and the generator's counter, for every   *)
(* capacity: none is skipped, doubled or overtaken.                        *)
THEOREM ChannelInOrder == Spec => [](ChainInv /\ LeaderChainInOrder)
<1>1. Init => ChainInv
  <2> SUFFICES ASSUME Init
               PROVE  ChainInv
      OBVIOUS
  <2>1. queue = <<>> /\ Generated = 0 /\ adding = 0 /\ current = 0 /\ adder = "idle"
      BY DEF Init, Generated
  <2>2. Len(queue) = 0 /\ QueueCap \in Nat
      BY <2>1, PipelineAssumption
  <2> QED BY <2>1, <2>2 DEF ChainInv
<1>2. TypeOK /\ ChainInv => LeaderChainInOrder
  <2> SUFFICES ASSUME TypeOK, ChainInv
               PROVE  LeaderChainInOrder
      OBVIOUS
  <2> DEFINE n == Generated - current
             s == [i \in 1..n |-> current + i]
             m == Len(queue)
  <2>0. Generated \in Int /\ m = Generated - adding
      BY Ahead DEF ChainInv
  <2>1. /\ queue \in Seq(Blocks) /\ m \in Nat /\ n \in Nat /\ adding \in Nat /\ current \in Nat
        /\ adder # "idle" => adding \in Blocks
      BY Ahead, LenProperties DEF TypeOK, AdderType, Blocks
  <2>2. adder # "add" => m = n /\ adding = current
      BY <2>0 DEF ChainInv
  <2>3. adder = "add" => m + 1 = n /\ adding = current + 1
    <3>1. adder = "add" => adding = current + 1
        BY DEF ChainInv
    <3> HIDE DEF m
    <3> QED BY <2>0, <2>1, <3>1
  <2>4. \A i \in 1..m : queue[i] = adding + i
      BY DEF ChainInv
  <2>5. queue \in Seq(Nat)
      BY <2>1, SeqMonotonic, SettingFacts DEF Blocks, TypeOK, StartType
  <2> HIDE DEF n, m
  <2>6. s \in Seq(Nat) /\ Len(s) = n /\ \A i \in 1..n : s[i] = current + i
    <3>1. s \in [1..n -> Nat]
        BY <2>1
    <3> QED BY <2>1, <3>1
  <2> HIDE DEF s
  <2>7. CASE adder # "add"
    <3>1. queue = s
        BY <2>2, <2>4, <2>5, <2>6, <2>7, SeqEqual DEF m
    <3>2. InHand \o queue = queue
        BY <2>5, <2>7, ConcatEmptySeq DEF InHand
    <3> QED BY <3>1, <3>2 DEF LeaderChainInOrder, s, n
  <2>8. CASE adder = "add"
    <3> DEFINE u == InHand \o queue
    <3>1. InHand = <<adding>> /\ <<adding>> \in Seq(Nat) /\ Len(<<adding>>) = 1 /\ <<adding>>[1] = adding
        BY <2>1, <2>8 DEF InHand
    <3>2. /\ u \in Seq(Nat) /\ Len(u) = 1 + m
          /\ \A i \in 1..1 + m : u[i] = IF i <= 1 THEN <<adding>>[i] ELSE queue[i - 1]
        BY <2>5, <3>1, ConcatProperties DEF m
    <3> HIDE DEF u
    <3>3. ASSUME NEW i \in 1..n
          PROVE  u[i] = s[i]
      <4>1. CASE i = 1
          BY <2>1, <2>3, <2>6, <2>8, <3>1, <3>2, <4>1
      <4>2. CASE i # 1
        <5>1. i - 1 \in 1..m /\ i \in 1..1 + m /\ ~(i <= 1)
            BY <2>1, <2>3, <2>8, <4>2
        <5>2. u[i] = queue[i - 1] /\ queue[i - 1] = adding + (i - 1)
            BY <2>4, <3>2, <5>1
        <5> QED BY <2>1, <2>3, <2>6, <2>8, <5>2
      <4> QED BY <4>1, <4>2
    <3>4. u = s
        BY <2>1, <2>3, <2>6, <2>8, <3>2, <3>3, SeqEqual
    <3> QED BY <3>4 DEF LeaderChainInOrder, u, s, n
  <2> QED BY <2>7, <2>8
<1> QED BY <1>1, <1>2, NextChain, TypeCorrect, PTL DEF Spec

-----------------------------------------------------------------------------
(* GenerateBlockForLeader takes the hash of whatever block is current.     *)
LEMMA NextParent == TypeOK /\ ChainInv /\ ParentLag /\ [Next]_vars => ParentLag'
<1> SUFFICES ASSUME TypeOK, ChainInv, ParentLag, [Next]_vars
             PROVE  ParentLag'
    OBVIOUS
<1>0. /\ QueueCap \in Nat /\ number \in Nat /\ current \in Nat /\ parent \in [Blocks -> 0..MaxBlock]
      /\ \A n \in Blocks : n \in Nat
    BY SettingFacts DEF TypeOK, StartType, GeneratorType, AdderType, Blocks
<1>1. CASE TakeBatch
  <2>1. \A n \in Blocks : HasHeader(n)' => HasHeader(n)
      BY <1>0, <1>1 DEF TakeBatch, HasHeader
  <2>2. parent' = parent
      BY <1>1 DEF TakeBatch
  <2> QED BY <2>1, <2>2 DEF ParentLag
<1>2. CASE MakeHeader
  <2>1. number - 1 - current \in 0..QueueCap + 1
      BY <1>2, Ahead DEF MakeHeader
  <2>2. \A n \in Blocks : HasHeader(n)' => n = number \/ HasHeader(n)
      BY <1>2 DEF MakeHeader, HasHeader
  <2>3. \A n \in Blocks : parent'[n] = IF n = number THEN current ELSE parent[n]
      BY <1>0, <1>2 DEF MakeHeader
  <2> QED BY <1>0, <2>1, <2>2, <2>3 DEF ParentLag
<1>3. CASE parent' = parent /\ number' = number /\ (gen' = "header" <=> gen = "header")
    BY <1>3 DEF ParentLag, HasHeader
<1>4. \/ UNCHANGED leaderVars \/ Read \/ Adder \/ MakeBlock \/ SendBlock
      \/ (\E l \in Ledgers : ProcessLedger(l))
      => parent' = parent /\ number' = number /\ (gen' = "header" <=> gen = "header")
    BY DEF leaderVars, genVars, Read, Adder, TakeBlock, AddBlock, StartEncode, Publish,
           MakeBlock, SendBlock, ProcessLedger
<1> QED BY <1>1, <1>2, <1>3, <1>4, OtherSteps DEF Generator, Processing

(* A header never names a block that is too new, and lags by the capacity  *)
(* of the channel and the block in the adder's hand at most.               *)
THEOREM ParentNotFar == Spec => []ParentLag
<1>1. Init => ParentLag
  <2> SUFFICES ASSUME Init
               PROVE  ParentLag
      OBVIOUS
  <2>1. \A n \in Blocks : ~HasHeader(n)
      BY PipelineAssumption DEF Init, HasHeader, Blocks
  <2> QED BY <2>1 DEF ParentLag
<1> QED BY <1>1, NextParent, TypeCorrect, ChannelInOrder, PTL DEF Spec

-----------------------------------------------------------------------------
(* The roots only move on: what a block was hashed with is not newer than  *)
(* what there is, nor than what the adder found when it began to encode.   *)
RootsInv ==
    /\ \A l \in Ledgers : roots[l] <= number
    /\ \A n \in Blocks, l \in Ledgers : hashed[n][l] <= roots[l]
    /\ adder = "publish" =>
        \A l \in Ledgers : hashed[adding][l] <= before[l] /\ before[l] <= roots[l]

(* The numbers that the proofs about roots calculate with.                 *)
LEMMA RootFacts ==
    ASSUME TypeOK, ChainInv
    PROVE  /\ number \in Nat /\ adding \in Nat /\ QueueCap \in Nat
           /\ number - adding \in 0..QueueCap + 1
           /\ roots \in Roots /\ before \in Roots
           /\ hashed \in [Blocks -> Roots] /\ sent \in [Blocks -> Roots]
           /\ \A l \in Ledgers : roots[l] \in Nat /\ before[l] \in Nat
           /\ \A l \in Ledgers, n \in Blocks : hashed[n][l] \in Nat
           /\ adder # "idle" => adding \in Blocks
           /\ Blocks \subseteq Nat
<1>1. /\ number \in Nat /\ adding \in Nat /\ QueueCap \in Nat
      /\ number - adding \in 0..QueueCap + 1
    BY Ahead, SettingFacts DEF TypeOK, StartType
<1>2. /\ roots \in Roots /\ before \in Roots
      /\ hashed \in [Blocks -> Roots] /\ sent \in [Blocks -> Roots]
    BY DEF TypeOK, GeneratorType, AdderType
<1>3. \A r \in Roots, l \in Ledgers : r[l] \in Nat
    BY DEF Roots
<1>4. \A l \in Ledgers : roots[l] \in Nat /\ before[l] \in Nat
    BY <1>2, <1>3
<1>5. \A l \in Ledgers, n \in Blocks : hashed[n][l] \in Nat
    BY <1>2, <1>3
<1>6. adder # "idle" => adding \in Blocks
    BY <1>1 DEF TypeOK, AdderType, Blocks
<1> QED BY <1>1, <1>2, <1>4, <1>5, <1>6 DEF Blocks

(* The ledgers write the number of the block in work.                      *)
LEMMA NextRoots == TypeOK /\ ChainInv /\ RootsInv /\ [Next]_vars => RootsInv'
<1> SUFFICES ASSUME TypeOK, ChainInv, RootsInv, [Next]_vars
             PROVE  RootsInv'
    OBVIOUS
<1>0. /\ number \in Nat /\ adding \in Nat /\ QueueCap \in Nat
      /\ number - adding \in 0..QueueCap + 1
      /\ roots \in Roots /\ before \in Roots
      /\ hashed \in [Blocks -> Roots] /\ sent \in [Blocks -> Roots]
      /\ \A l \in Ledgers : roots[l] \in Nat /\ before[l] \in Nat
      /\ \A l \in Ledgers, n \in Blocks : hashed[n][l] \in Nat
      /\ adder # "idle" => adding \in Blocks
      /\ Blocks \subseteq Nat
    BY RootFacts
<1>1. CASE TakeBatch
    BY <1>0, <1>1 DEF TakeBatch, RootsInv, adderVars
<1>2. ASSUME NEW l \in Ledgers, ProcessLedger(l)
      PROVE  RootsInv'
  <2>1. /\ number' = number /\ hashed' = hashed /\ UNCHANGED adderVars
        /\ roots' = [roots EXCEPT ![l] = number] \/ roots' = roots
      BY <1>2 DEF ProcessLedger
  <2>2. \A m \in Ledgers : roots'[m] \in Nat /\ roots[m] <= roots'[m] /\ roots'[m] <= number
      BY <1>0, <2>1 DEF RootsInv, Roots
  <2>3. \A n \in Blocks, m \in Ledgers : hashed[n][m] <= roots'[m]
      BY <1>0, <2>2 DEF RootsInv
  <2>4. adder = "publish" => \A m \in Ledgers : hashed[adding][m] <= before[m] /\ before[m] <= roots'[m]
      BY <1>0, <2>2 DEF RootsInv
  <2> QED BY <2>1, <2>2, <2>3, <2>4 DEF RootsInv, adderVars
<1>3. CASE MakeBlock
  <2>1. /\ number' = number /\ UNCHANGED <<roots, adderVars>>
        /\ \A n \in Blocks : hashed'[n] = IF n = number THEN roots ELSE hashed[n]
      BY <1>0, <1>3 DEF MakeBlock
  <2>2. adding # number
      BY <1>0, <1>3, Ahead DEF MakeBlock
  <2>3. \A n \in Blocks, l \in Ledgers : hashed'[n][l] <= roots[l]
    <3>1. \A l \in Ledgers : roots[l] <= roots[l]
        BY <1>0
    <3> QED BY <2>1, <3>1 DEF RootsInv
  <2>4. adder = "publish" => hashed'[adding] = hashed[adding]
      BY <1>0, <2>1, <2>2
  <2> QED BY <2>1, <2>3, <2>4 DEF RootsInv, adderVars
<1>4. CASE StartEncode
    BY <1>0, <1>4 DEF StartEncode, RootsInv, genVars
<1>5. CASE TakeBlock \/ AddBlock \/ Publish
    BY <1>5 DEF TakeBlock, AddBlock, Publish, RootsInv, genVars
<1>6. CASE UNCHANGED <<number, roots, hashed, before, adder, adding>>
    BY <1>6 DEF RootsInv
<1>7. UNCHANGED leaderVars \/ Read \/ MakeHeader \/ SendBlock
          => UNCHANGED <<number, roots, hashed, before, adder, adding>>
    BY DEF leaderVars, genVars, adderVars, Read, MakeHeader, SendBlock
<1> QED BY <1>1, <1>2, <1>3, <1>4, <1>5, <1>6, <1>7, OtherSteps DEF Generator, Processing, Adder

(* Encoding reads each root after the block was made and before the        *)
(* generator is a channel further on.                                      *)
LEMMA NextPublished ==
    TypeOK /\ ChainInv /\ RootsInv /\ PublishedRoots /\ [Next]_vars => PublishedRoots'
<1> SUFFICES ASSUME TypeOK, ChainInv, RootsInv, PublishedRoots, [Next]_vars
             PROVE  PublishedRoots'
    OBVIOUS
<1>0. /\ number \in Nat /\ adding \in Nat /\ QueueCap \in Nat
      /\ number - adding \in 0..QueueCap + 1
      /\ roots \in Roots /\ before \in Roots
      /\ hashed \in [Blocks -> Roots] /\ sent \in [Blocks -> Roots]
      /\ \A l \in Ledgers : roots[l] \in Nat /\ before[l] \in Nat
      /\ \A l \in Ledgers, n \in Blocks : hashed[n][l] \in Nat
      /\ adder # "idle" => adding \in Blocks
      /\ Blocks \subseteq Nat
    BY RootFacts
<1>1. CASE MakeBlock
  <2>1. \A n \in Blocks : hashed'[n] = IF n = number THEN roots ELSE hashed[n]
      BY <1>0, <1>1 DEF MakeBlock
  <2>2. adding < number
      BY <1>0, <1>1, Ahead DEF MakeBlock
  <2>3. adding' = adding /\ adder' = adder /\ sent' = sent
      BY <1>1 DEF MakeBlock, adderVars
  <2>4. \A n \in Blocks : IsSent(n) => n # number
      BY <1>0, <2>2 DEF IsSent
  <2>5. \A n \in Blocks : IsSent(n)' => IsSent(n)
      BY <2>3 DEF IsSent
  <2> QED BY <2>1, <2>3, <2>4, <2>5 DEF PublishedRoots
<1>2. CASE TakeBlock
  <2>1. adding' = adding + 1
    <3>1. Len(queue) \in Nat \ {0} /\ Head(queue) = queue[1]
        BY <1>2, EmptySeq DEF TakeBlock, TypeOK, AdderType
    <3> QED BY <1>2, <3>1 DEF TakeBlock, ChainInv
  <2>2. adder = "idle" /\ adder' # "idle" /\ sent' = sent /\ hashed' = hashed
      BY <1>2 DEF TakeBlock, genVars
  <2>3. \A n \in Blocks : IsSent(n)' => IsSent(n)
      BY <1>0, <2>1, <2>2 DEF IsSent
  <2> QED BY <2>2, <2>3 DEF PublishedRoots
<1>3. CASE Publish
  <2>1. PICK seen \in [Ledgers -> {before[l] : l \in Ledgers} \cup {roots[l] : l \in Ledgers}] :
            /\ \A l \in Ledgers : seen[l] \in {before[l], roots[l]}
            /\ sent' = [sent EXCEPT ![adding] = seen]
      BY <1>3 DEF Publish
  <2>2. adder = "publish" /\ adding' = adding /\ hashed' = hashed /\ adder' = "idle"
      BY <1>3 DEF Publish, genVars
  <2>3. \A n \in Blocks : sent'[n] = IF n = adding THEN seen ELSE sent[n]
      BY <1>0, <2>1
  <2>4. \A l \in Ledgers : hashed[adding][l] <= seen[l] /\ seen[l] <= number
      BY <1>0, <2>1, <2>2 DEF RootsInv
  <2>5. \A l \in Ledgers : seen[l] \in Nat
      BY <1>0, <2>1
  <2>6. \A l \in Ledgers : seen[l] <= adding + QueueCap + 1
      BY <1>0, <2>4, <2>5
  <2>7. \A n \in Blocks : IsSent(n)' => n = adding \/ IsSent(n)
      BY <2>2 DEF IsSent
  <2> QED BY <2>2, <2>3, <2>4, <2>6, <2>7 DEF PublishedRoots
<1>4. CASE AddBlock \/ StartEncode
  <2>1. /\ adding' = adding /\ adder # "idle" /\ adder' # "idle"
        /\ sent' = sent /\ hashed' = hashed
      BY <1>4 DEF AddBlock, StartEncode, genVars
  <2>2. \A n \in Blocks : IsSent(n)' => IsSent(n)
      BY <2>1 DEF IsSent
  <2> QED BY <2>1, <2>2 DEF PublishedRoots
<1>5. CASE UNCHANGED <<hashed, sent, adder, adding>>
    BY <1>5 DEF PublishedRoots, IsSent
<1>6. \/ UNCHANGED leaderVars \/ Read \/ TakeBatch \/ MakeHeader \/ SendBlock
          => UNCHANGED <<hashed, sent, adder, adding>>
    BY DEF leaderVars, genVars, adderVars, Read, TakeBatch, MakeHeader, SendBlock
<1>7. \A l \in Ledgers : ProcessLedger(l) => UNCHANGED <<hashed, sent, adder, adding>>
    BY DEF adderVars, ProcessLedger
<1> QED BY <1>1, <1>2, <1>3, <1>4, <1>5, <1>6, <1>7, OtherSteps DEF Generator, Processing, Adder

(* Although the generator writes the slice that the adder encodes, the     *)
(* roots a published block carries are never older than its own, and newer *)
(* only by as many blocks as fit between the two goroutines.               *)
THEOREM RootsBounded == Spec => [](RootsInv /\ PublishedRoots)
<1>1. Init => RootsInv
  <2> SUFFICES ASSUME Init
               PROVE  RootsInv
      OBVIOUS
  <2>1. /\ roots = NoRoots /\ number = 0 /\ adder = "idle"
        /\ hashed = [n \in Blocks |-> NoRoots]
      BY DEF Init
  <2> QED BY <2>1 DEF RootsInv, NoRoots
<1>2. Init => PublishedRoots
  <2> SUFFICES ASSUME Init
               PROVE  PublishedRoots
      OBVIOUS
  <2>1. \A n \in Blocks : ~IsSent(n)
      BY PipelineAssumption DEF Init, IsSent, Blocks
  <2> QED BY <2>1 DEF PublishedRoots
<1> QED BY <1>1, <1>2, NextRoots, NextPublished, TypeCorrect, ChannelInOrder, PTL DEF Spec

-----------------------------------------------------------------------------
(* A published block is, for each peer, in one place at most.              *)
PeerOf(p) ==
    /\ IsInjective(inbox[p]) /\ IsInjective(applied[p])
    /\ net[p] \cap ToSet(inbox[p]) = {}
    /\ net[p] \cap ToSet(applied[p]) = {}
    /\ ToSet(inbox[p]) \cap ToSet(applied[p]) = {}
    /\ net[p] \cup ToSet(inbox[p]) \cup ToSet(applied[p]) \subseteq Published
    /\ at[p] \notin {"joined", "gone"} =>
            net[p] = {} /\ inbox[p] = <<>> /\ applied[p] = <<>>
PeerInv == \A p \in Peers : PeerOf(p)

(* Queueing a block at a peer, and applying the oldest.                    *)
LEMMA AppendSet ==
    ASSUME NEW S, NEW s \in Seq(S), NEW x \in S
    PROVE  /\ ToSet(Append(s, x)) = ToSet(s) \cup {x}
           /\ IsInjective(s) /\ x \notin ToSet(s) => IsInjective(Append(s, x))
<1> DEFINE t == Append(s, x)
           n == Len(s)
<1>1. /\ n \in Nat /\ DOMAIN s = 1..n /\ DOMAIN t = 1..n + 1
      /\ \A i \in 1..n : t[i] = s[i]
      /\ t[n + 1] = x
    BY AppendProperties, LenProperties
<1> HIDE DEF t, n
<1>2. \A i \in 1..n + 1 : i \in 1..n \/ i = n + 1
    BY <1>1
<1>3. 1..n \subseteq 1..n + 1 /\ n + 1 \in 1..n + 1
    BY <1>1
<1>4. ToSet(t) = ToSet(s) \cup {x}
    BY <1>1, <1>2, <1>3 DEF ToSet
<1>5. ASSUME IsInjective(s), x \notin ToSet(s)
      PROVE  IsInjective(t)
    BY <1>1, <1>2, <1>5 DEF ToSet, IsInjective
<1> QED BY <1>4, <1>5 DEF t

(* What is taken from the head of an inbox is no longer in it.             *)
LEMMA HeadTailSet ==
    ASSUME NEW S, NEW s \in Seq(S), s # <<>>
    PROVE  /\ ToSet(s) = ToSet(Tail(s)) \cup {Head(s)}
           /\ IsInjective(s) => IsInjective(Tail(s)) /\ Head(s) \notin ToSet(Tail(s))
<1> DEFINE t == Tail(s)
           n == Len(s)
<1>1. /\ n \in Nat \ {0} /\ DOMAIN s = 1..n /\ Len(t) = n - 1 /\ t \in Seq(S)
      /\ \A i \in 1..n - 1 : t[i] = s[i + 1]
      /\ Head(s) = s[1]
    BY HeadTailProperties, LenProperties, EmptySeq
<1>2. DOMAIN t = 1..n - 1
    BY <1>1, LenProperties
<1> HIDE DEF t, n
<1>3. /\ \A i \in 1..n : i = 1 \/ (i - 1 \in 1..n - 1 /\ (i - 1) + 1 = i)
      /\ \A i \in 1..n - 1 : i + 1 \in 1..n /\ i + 1 # 1
      /\ 1 \in 1..n
    BY <1>1
<1>4. ToSet(s) = ToSet(t) \cup {Head(s)}
  <2>1. ToSet(t) \cup {Head(s)} \subseteq ToSet(s)
    <3>1. \A i \in 1..n : s[i] \in ToSet(s)
        BY <1>1 DEF ToSet
    <3>2. \A z \in ToSet(t) : \E i \in 1..n - 1 : z = t[i]
        BY <1>2 DEF ToSet
    <3>3. \A z \in ToSet(t) : z \in ToSet(s)
        BY <1>1, <1>3, <3>1, <3>2
    <3> QED BY <1>1, <1>3, <3>1, <3>3
  <2>2. ASSUME NEW i \in 1..n
        PROVE  s[i] \in ToSet(t) \cup {Head(s)}
    <3>1. CASE i = 1
        BY <1>1, <3>1
    <3>2. CASE i - 1 \in 1..n - 1 /\ (i - 1) + 1 = i
      <4>1. \A j \in 1..n - 1 : t[j] \in ToSet(t)
          BY <1>2 DEF ToSet
      <4> QED BY <1>1, <3>2, <4>1
    <3> QED BY <1>3, <3>1, <3>2
  <2>3. \A z \in ToSet(s) : \E i \in 1..n : z = s[i]
      BY <1>1 DEF ToSet
  <2> QED BY <2>1, <2>2, <2>3
<1>5. ASSUME IsInjective(s)
      PROVE  IsInjective(t) /\ Head(s) \notin ToSet(t)
  <2>1. ASSUME NEW i \in 1..n - 1, NEW j \in 1..n - 1, t[i] = t[j]
        PROVE  i = j
    <3>1. s[i + 1] = s[j + 1] /\ i + 1 \in DOMAIN s /\ j + 1 \in DOMAIN s
        BY <1>1, <1>3, <2>1
    <3>2. i + 1 = j + 1
        BY <1>5, <3>1 DEF IsInjective
    <3> QED BY <1>1, <3>2
  <2>2. \A i \in 1..n - 1 : t[i] # s[1]
      BY <1>1, <1>3, <1>5 DEF IsInjective
  <2>3. IsInjective(t)
      BY <1>2, <2>1 DEF IsInjective
  <2>4. Head(s) \notin ToSet(t)
      BY <1>1, <1>2, <2>2 DEF ToSet
  <2> QED BY <2>3, <2>4
<1> QED BY <1>4, <1>5 DEF t

(* Nothing that was published is taken back; what is published next was    *)
(* not published before.                                                   *)
LEMMA PublishedGrows ==
    ASSUME TypeOK, ChainInv, [Next]_vars
    PROVE  /\ Published \subseteq Published'
           /\ Publish => adding \notin Published /\ adding \in Published' /\ adding \in Blocks
<1>0. /\ adding \in Nat /\ (adder # "idle" => adding \in Blocks)
      /\ adder \in {"idle", "add", "encode", "publish"}
    BY Ahead DEF TypeOK, AdderType, Blocks
<1>1. CASE TakeBlock
  <2>1. adding' = adding + 1
    <3>1. Len(queue) \in Nat \ {0} /\ Head(queue) = queue[1]
        BY <1>1, EmptySeq DEF TakeBlock, TypeOK, AdderType
    <3> QED BY <1>1, <3>1 DEF TakeBlock, ChainInv
  <2> QED BY <1>0, <1>1, <2>1 DEF TakeBlock, Published, Publish
<1>2. CASE AddBlock \/ StartEncode
    BY <1>0, <1>2 DEF AddBlock, StartEncode, Published, Publish
<1>3. CASE Publish
    BY <1>0, <1>3 DEF Publish, Published, Blocks
<1>4. CASE UNCHANGED <<adder, adding>>
    BY <1>4 DEF Published, Publish
<1>5. UNCHANGED leaderVars \/ Read \/ TakeBatch \/ MakeHeader \/ MakeBlock \/ SendBlock
          => UNCHANGED <<adder, adding>>
    BY DEF leaderVars, adderVars, Read, TakeBatch, MakeHeader, MakeBlock, SendBlock
<1>6. \A l \in Ledgers : ProcessLedger(l) => UNCHANGED <<adder, adding>>
    BY DEF adderVars, ProcessLedger
<1> QED BY <1>1, <1>2, <1>3, <1>4, <1>5, <1>6, OtherSteps DEF Generator, Processing, Adder

(* Joining, delivering and applying move a block from one place to the     *)
(* next; losing one and stopping take nothing back.                        *)
LEMMA NextPeer == TypeOK /\ ChainInv /\ PeerInv /\ [Next]_vars => PeerInv'
<1> SUFFICES ASSUME TypeOK, ChainInv, PeerInv, [Next]_vars, NEW q \in Peers
             PROVE  PeerOf(q)'
    BY DEF PeerInv
<1>0. /\ net \in [Peers -> SUBSET Blocks] /\ inbox \in [Peers -> Seq(Blocks)]
      /\ applied \in [Peers -> Seq(Blocks)] /\ PeerOf(q)
      /\ at \in [Nodes -> {"stat", "create", "fill", "read", "host", "waiting",
                           "running", "joined", "gone", "exited"}]
      /\ Leader \in Nodes /\ Leader # q /\ q \in Nodes
    BY SettingFacts DEF TypeOK, PeerType, StartType, PeerInv
<1>1. Published \subseteq Published'
    BY PublishedGrows
<1>2. ASSUME /\ net'[q] = net[q] /\ inbox'[q] = inbox[q] /\ applied'[q] = applied[q]
             /\ at'[q] = at[q] \/ at[q] \notin {"joined", "gone"} \/ at'[q] = "gone"
      PROVE  PeerOf(q)'
    BY <1>0, <1>1, <1>2 DEF PeerOf
<1>3. ASSUME NEW n \in Nodes, Starting(n)
      PROVE  PeerOf(q)'
  <2>1. UNCHANGED peerVars
      BY <1>3 DEF Starting
  <2>2. at'[q] = at[q] \/ at[q] \notin {"joined", "gone"}
      BY <1>0, <1>3 DEF Starting, LoadKey, Stat, Create, Fill, WriteFails, Keyless, ReadKey,
             LeaderStarts, NewPublisher, StartProducing, Retry, Goto
  <2> QED BY <1>2, <2>1, <2>2 DEF peerVars
<1>4. CASE LeaderEnds
    BY <1>0, <1>2, <1>4 DEF LeaderEnds, Exit, Panic, Goto, peerVars
<1>5. ASSUME NEW p \in Peers, Stopping(p)
      PROVE  PeerOf(q)'
    BY <1>0, <1>2, <1>5 DEF Stopping, Stop, PeerPanics, Goto, peerVars
<1>6. ASSUME NEW p \in Peers, Join(p)
      PROVE  PeerOf(q)'
  <2>1. CASE p # q
      BY <1>0, <1>2, <1>6, <2>1 DEF Join, Connect, Goto
  <2>2. CASE p = q
    <3>1. /\ net[q] = {} /\ inbox[q] = <<>> /\ applied[q] = <<>>
        BY <1>0, <1>6, <2>2 DEF Join, Connect, PeerOf
    <3>2. /\ net'[q] \subseteq Published /\ inbox'[q] = <<>> /\ applied'[q] = <<>>
          /\ at'[q] = "joined"
        BY <1>0, <1>6, <2>2, <3>1 DEF Join, Connect, Goto
    <3>3. ToSet(<<>>) = {} /\ IsInjective(<<>>)
        BY DEF ToSet, IsInjective
    <3> QED BY <1>1, <3>2, <3>3 DEF PeerOf
  <2> QED BY <2>1, <2>2
<1>7. ASSUME NEW p \in Peers, Lose(p)
      PROVE  PeerOf(q)'
  <2>1. /\ net'[q] \subseteq net[q]
        /\ UNCHANGED <<inbox, applied, startVars>>
      BY <1>0, <1>7 DEF Lose
  <2> QED BY <1>0, <1>1, <2>1 DEF PeerOf, startVars
<1>8. ASSUME NEW p \in Peers, Deliver(p)
      PROVE  PeerOf(q)'
  <2>1. CASE p # q
      BY <1>0, <1>2, <1>8, <2>1 DEF Deliver, startVars
  <2>2. CASE p = q
    <3>1. PICK n \in net[q] : /\ net'[q] = net[q] \ {n}
                              /\ inbox'[q] = Append(inbox[q], n)
        BY <1>0, <1>8, <2>2 DEF Deliver
    <3>2. applied' = applied /\ at' = at /\ at[q] = "joined"
        BY <1>8, <2>2 DEF Deliver, startVars, Joined
    <3>3. n \notin ToSet(inbox[q]) /\ n \notin ToSet(applied[q]) /\ IsInjective(inbox[q])
        BY <1>0 DEF PeerOf
    <3>4. n \in Blocks /\ inbox[q] \in Seq(Blocks)
        BY <1>0
    <3>5. ToSet(inbox'[q]) = ToSet(inbox[q]) \cup {n} /\ IsInjective(inbox'[q])
        BY <3>1, <3>3, <3>4, AppendSet
    <3> QED BY <1>0, <1>1, <3>1, <3>2, <3>3, <3>5 DEF PeerOf
  <2> QED BY <2>1, <2>2
<1>9. ASSUME NEW p \in Peers, Apply(p)
      PROVE  PeerOf(q)'
  <2>1. CASE p # q
      BY <1>0, <1>2, <1>9, <2>1 DEF Apply, startVars
  <2>2. CASE p = q
    <3> DEFINE n == Head(inbox[q])
    <3>1. /\ inbox[q] # <<>> /\ inbox'[q] = Tail(inbox[q])
          /\ applied'[q] = Append(applied[q], n)
          /\ net' = net /\ at' = at /\ at[q] = "joined"
        BY <1>0, <1>9, <2>2 DEF Apply, startVars, Joined
    <3>2. inbox[q] \in Seq(Blocks) /\ n \in Blocks /\ applied[q] \in Seq(Blocks)
        BY <1>0, <3>1, HeadTailProperties
    <3>3. /\ ToSet(inbox[q]) = ToSet(inbox'[q]) \cup {n}
          /\ IsInjective(inbox'[q]) /\ n \notin ToSet(inbox'[q])
        BY <1>0, <3>1, <3>2, HeadTailSet DEF PeerOf
    <3> HIDE DEF n
    <3>4. n \notin ToSet(applied[q]) /\ IsInjective(applied[q])
        BY <1>0, <3>3 DEF PeerOf
    <3>5. ToSet(applied'[q]) = ToSet(applied[q]) \cup {n} /\ IsInjective(applied'[q])
        BY <3>1, <3>2, <3>4, AppendSet
    <3> QED BY <1>0, <1>1, <3>1, <3>3, <3>4, <3>5 DEF PeerOf
  <2> QED BY <2>1, <2>2
<1>10. CASE Publish
  <2>1. adding \notin Published /\ adding \in Published'
      BY <1>10, PublishedGrows
  <2>2. /\ UNCHANGED <<inbox, applied, startVars>>
        /\ net'[q] = net[q] \/ (net'[q] = net[q] \cup {adding} /\ at[q] = "joined")
      BY <1>0, <1>10 DEF Publish, Joined
  <2> QED BY <1>0, <1>1, <2>1, <2>2 DEF PeerOf, startVars
<1>11. CASE UNCHANGED <<startVars, peerVars>>
    BY <1>2, <1>11 DEF startVars, peerVars
<1>12. Read \/ TakeBatch \/ MakeHeader \/ MakeBlock \/ SendBlock \/ TakeBlock \/ AddBlock
           \/ StartEncode \/ UNCHANGED vars => UNCHANGED <<startVars, peerVars>>
    BY DEF Read, TakeBatch, MakeHeader, MakeBlock, SendBlock, TakeBlock, AddBlock, StartEncode, vars
<1>13. \A l \in Ledgers : ProcessLedger(l) => UNCHANGED <<startVars, peerVars>>
    BY DEF ProcessLedger
<1> QED BY <1>3, <1>4, <1>5, <1>6, <1>7, <1>8, <1>9, <1>10, <1>11, <1>12, <1>13
        DEF Next, Generator, Processing, Adder

(* Whatever the network loses or delays, and whenever a peer joins or      *)
(* stops, it applies no block twice and none before the leader has it.     *)
THEOREM PeersStayBehind == Spec => [](PeerInv /\ PeersFollow)
<1>1. Init => PeerInv
    BY DEF Init, PeerInv, PeerOf, ToSet, IsInjective
<1>2. TypeOK /\ ChainInv /\ PeerInv => PeersFollow
  <2> SUFFICES ASSUME TypeOK, ChainInv, PeerInv, NEW p \in Peers, NEW n \in ToSet(applied[p])
               PROVE  IsInjective(applied[p]) /\ n <= current
      BY DEF PeersFollow, PeerInv, PeerOf
  <2>1. n \in Published /\ IsInjective(applied[p])
      BY DEF PeerInv, PeerOf
  <2>2. adding \in Nat /\ current \in Nat
      BY Ahead
  <2> QED BY <2>1, <2>2 DEF Published, ChainInv
<1> QED BY <1>1, <1>2, NextPeer, TypeCorrect, ChannelInOrder, PTL DEF Spec

-----------------------------------------------------------------------------
(* The pipeline, seen from outside: the current block of the leader, the   *)
(* last block it published, what it published, and the chains of the peers.*)
Handed == IF adder = "idle" THEN adding ELSE adding - 1
Promise == INSTANCE ChainPromise
               WITH height <- current, published <- Handed, message <- sent, chain <- applied,
                    Messages <- Roots, Blank <- NoRoots
promised == <<current, Handed, sent, applied>>

(* The first and the last handling of a block by the adder.                *)
LEMMA AdderKeepsPromise ==
    ASSUME TypeOK, ChainInv, AdderType', Adder
    PROVE  Promise!Add \/ Promise!Publish \/ UNCHANGED promised
<1>0. /\ adding \in Nat /\ current \in Nat /\ (adder # "idle" => adding \in Blocks)
      /\ sent \in [Blocks -> Roots] /\ sent' \in [Blocks -> Roots]
  <2>1. adding \in Nat /\ current \in Nat
      BY Ahead
  <2> QED BY <2>1 DEF TypeOK, AdderType, Blocks
<1>1. CASE TakeBlock
  <2>1. adding' = adding + 1
    <3>1. Len(queue) \in Nat \ {0} /\ Head(queue) = queue[1]
        BY <1>1, EmptySeq DEF TakeBlock, TypeOK, AdderType
    <3> QED BY <1>1, <3>1 DEF TakeBlock, ChainInv
  <2>2. Handed = adding /\ Handed' = adding' - 1
      BY <1>1 DEF TakeBlock, Handed
  <2>3. Handed' = Handed
      BY ONLY <1>0, <2>1, <2>2
  <2>4. UNCHANGED <<current, sent, applied>>
      BY <1>1 DEF TakeBlock, peerVars
  <2> QED BY <2>3, <2>4 DEF promised
<1>2. CASE AddBlock
  <2>1. adding = current + 1 /\ current' = adding /\ adding \in Blocks
      BY <1>0, <1>2 DEF AddBlock, ChainInv
  <2>2. Handed = adding - 1 /\ Handed' = adding - 1
      BY <1>2 DEF AddBlock, Handed
  <2>3. Handed = current
      BY ONLY <1>0, <2>1, <2>2
  <2>4. UNCHANGED <<sent, applied>>
      BY <1>2 DEF AddBlock, peerVars
  <2> QED BY <2>1, <2>2, <2>3, <2>4 DEF Promise!Add
<1>3. CASE StartEncode
  <2>1. UNCHANGED <<adding, current, sent, applied>> /\ adder = "encode" /\ adder' = "publish"
      BY <1>3 DEF StartEncode, peerVars
  <2> QED BY <2>1 DEF Handed, promised
<1>4. CASE Publish
  <2>1. adding = current /\ adding \in Blocks /\ UNCHANGED <<adding, current, applied>>
      BY <1>0, <1>4 DEF Publish, ChainInv
  <2>2. Handed = adding - 1 /\ Handed' = adding
      BY <1>4, <2>1 DEF Publish, Handed
  <2>3. Handed + 1 = adding /\ Handed' = Handed + 1 /\ Handed < current
      BY ONLY <1>0, <2>1, <2>2
  <2>4. PICK seen : sent' = [sent EXCEPT ![adding] = seen]
      BY <1>4 DEF Publish
  <2>5. seen \in Roots
    <3>1. sent'[adding] \in Roots /\ sent'[adding] = seen
        BY <1>0, <2>1, <2>4
    <3> QED BY <3>1
  <2> QED BY <2>1, <2>3, <2>4, <2>5 DEF Promise!Publish
<1> QED BY <1>1, <1>2, <1>3, <1>4 DEF Adder

(* A peer adds a block that was published and that it does not have.       *)
LEMMA ApplyKeepsPromise ==
    ASSUME TypeOK, PeerInv, NEW p \in Peers, Apply(p)
    PROVE  Promise!Take(p)
<1> DEFINE n == Head(inbox[p])
<1>1. /\ inbox[p] # <<>> /\ inbox[p] \in Seq(Blocks)
      /\ applied' = [applied EXCEPT ![p] = Append(@, n)]
    BY DEF Apply, TypeOK, PeerType
<1>2. n \in ToSet(inbox[p])
    BY <1>1, HeadTailSet
<1> HIDE DEF n
<1>3. n \in Published /\ n \notin ToSet(applied[p])
    BY <1>2 DEF PeerInv, PeerOf
<1>4. n \in 1..Handed \ ToSet(applied[p])
    BY <1>3 DEF Published, Handed
<1>5. UNCHANGED <<current, Handed, sent>>
    BY DEF Apply, leaderVars, adderVars, Handed
<1>6. Promise!ToSet(applied[p]) = ToSet(applied[p])
    BY DEF Promise!ToSet, ToSet
<1> QED BY <1>1, <1>4, <1>5, <1>6 DEF Promise!Take

(* No other step adds or publishes a block.                                *)
LEMMA QuietForPromise ==
    ASSUME [Next]_vars
    PROVE  Adder \/ (\E p \in Peers : Apply(p)) \/ UNCHANGED promised
<1>1. UNCHANGED <<adderVars, applied>> => UNCHANGED promised
    BY DEF adderVars, promised, Handed
<1>2. \A n \in Nodes : Starting(n) => UNCHANGED <<adderVars, applied>>
    BY DEF Starting, leaderVars, peerVars
<1>3. LeaderEnds \/ UNCHANGED vars => UNCHANGED <<adderVars, applied>>
    BY DEF LeaderEnds, Exit, Panic, vars, leaderVars, peerVars
<1>4. Read \/ TakeBatch \/ MakeHeader \/ MakeBlock \/ SendBlock => UNCHANGED <<adderVars, applied>>
    BY DEF Read, TakeBatch, MakeHeader, MakeBlock, SendBlock, peerVars
<1>5. \A l \in Ledgers : ProcessLedger(l) => UNCHANGED <<adderVars, applied>>
    BY DEF ProcessLedger, peerVars
<1>6. \A p \in Peers : Join(p) \/ Lose(p) \/ Deliver(p) \/ Stopping(p) =>
            UNCHANGED <<adderVars, applied>>
    BY DEF Join, Lose, Deliver, Stopping, leaderVars, peerVars
<1> QED BY <1>1, <1>2, <1>3, <1>4, <1>5, <1>6 DEF Next, Generator, Processing

(* The pipeline implements ChainPromise, for any channels, peers and       *)
(* settings: AddBlock adds the next block, Publish hands it out once, and  *)
(* what the peers apply is what was handed out, whatever gossip loses.     *)
THEOREM PipelineKeepsPromise == Spec => Promise!Spec
<1>1. Init => Promise!Init
    BY DEF Init, Promise!Init, Handed
<1>2. TypeOK /\ TypeOK' /\ ChainInv /\ PeerInv /\ [Next]_vars => [Promise!Next]_promised
  <2> SUFFICES ASSUME TypeOK, TypeOK', ChainInv, PeerInv, [Next]_vars
               PROVE  Promise!Next \/ UNCHANGED promised
      OBVIOUS
  <2>1. CASE Adder
      BY <2>1, AdderKeepsPromise DEF TypeOK, Promise!Next
  <2>2. ASSUME NEW p \in Peers, Apply(p)
        PROVE  Promise!Next
      BY <2>2, ApplyKeepsPromise DEF Promise!Next
  <2> QED BY <2>1, <2>2, QuietForPromise
<1>3. Promise!Spec <=> Promise!Init /\ [][Promise!Next]_promised
    BY DEF Promise!Spec, promised
<1> QED BY <1>1, <1>2, <1>3, TypeCorrect, ChannelInOrder, PeersStayBehind, PTL DEF Spec

-----------------------------------------------------------------------------
(* The leader's own key file, unless it shares it, is empty only while the *)
(* leader itself writes it, or when it died of that.                       *)
LeaderKeyInv ==
    /\ setting.keys # "shared" =>
          /\ keyFile[Leader] = Empty => at[Leader] \in {"fill", "gone"}
          /\ at[Leader] = "read" => keyFile[Leader] \notin NoKey
    /\ LeaderDiesOnlyOf

(* Only a node that shares the leader's file can empty it, and the leader  *)
(* does not read before it has written or found a whole key.               *)
LEMMA NextLeaderKey == TypeOK /\ LeaderKeyInv /\ [Next]_vars => LeaderKeyInv'
<1> SUFFICES ASSUME TypeOK, LeaderKeyInv, [Next]_vars
             PROVE  LeaderKeyInv'
    OBVIOUS
<1>0. /\ keyFile \in [Nodes -> Contents] /\ key \in [Nodes -> Contents]
      /\ at \in [Nodes -> {"stat", "create", "fill", "read", "host", "waiting",
                           "running", "joined", "gone", "exited"}]
      /\ Leader \in Nodes /\ Leader \notin Peers /\ Peers \subseteq Nodes
      /\ Empty \notin Nodes /\ None \notin Nodes
      /\ setting.keys \in {"copied", "shared", "apart"}
    BY SettingFacts, NodeAssumption DEF TypeOK, StartType
<1>1. ASSUME setting' = setting, keyFile'[Leader] = keyFile[Leader],
             key'[Leader] = key[Leader], at'[Leader] = at[Leader]
      PROVE  LeaderKeyInv'
    BY <1>1 DEF LeaderKeyInv, LeaderDiesOnlyOf
<1>2. ASSUME Starting(Leader)
      PROVE  LeaderKeyInv'
    BY <1>0, <1>2 DEF Starting, LoadKey, Stat, Create, Fill, WriteFails, Keyless, ReadKey,
           LeaderStarts, NewPublisher, StartProducing, Goto, Written, NoKey, LeaderKeyInv,
           LeaderDiesOnlyOf
<1>3. ASSUME NEW p \in Peers, Starting(p)
      PROVE  LeaderKeyInv'
  <2>1. p # Leader /\ p \in Nodes
      BY <1>0
  <2>2. /\ setting' = setting /\ key'[Leader] = key[Leader] /\ at'[Leader] = at[Leader]
        /\ setting.keys # "shared" => keyFile'[Leader] = keyFile[Leader]
      BY <1>0, <1>3, <2>1 DEF Starting, LoadKey, Stat, Create, Fill, WriteFails, ReadKey, Retry,
             Goto, Written
  <2> QED BY <2>2 DEF LeaderKeyInv, LeaderDiesOnlyOf
<1>4. CASE LeaderEnds
    BY <1>0, <1>4 DEF LeaderEnds, Exit, Panic, Running, Goto, LeaderKeyInv, LeaderDiesOnlyOf
<1>5. ASSUME NEW p \in Peers, Join(p) \/ Stopping(p)
      PROVE  LeaderKeyInv'
    BY <1>0, <1>1, <1>5 DEF Join, Connect, Stopping, Stop, PeerPanics, Goto
<1>6. CASE UNCHANGED startVars
    BY <1>1, <1>6 DEF startVars
<1>7. Generator \/ Adder \/ Read => UNCHANGED startVars
    BY DEF Generator, TakeBatch, MakeHeader, Processing, ProcessLedger, MakeBlock, SendBlock,
           Adder, TakeBlock, AddBlock, StartEncode, Publish, Read
<1>8. \A p \in Peers : Lose(p) \/ Deliver(p) \/ Apply(p) => UNCHANGED startVars
    BY DEF Lose, Deliver, Apply
<1>9. UNCHANGED vars => UNCHANGED startVars
    BY DEF vars
<1> QED BY <1>2, <1>3, <1>4, <1>5, <1>6, <1>7, <1>8, <1>9 DEF Next, Nodes

(* A leader dies before it produces only of a host or a topic it does not  *)
(* get, or without a key: then its own write of the file failed, or a node *)
(* on its server had just created the file.  Reading a file that it does   *)
(* not share, or its own write when that succeeds, never does it.          *)
THEOREM LeaderSurvives == Spec => [](LeaderKeyInv /\ LeaderDiesOnlyOf)
<1>1. Init => LeaderKeyInv
  <2> SUFFICES ASSUME Init
               PROVE  LeaderKeyInv
      OBVIOUS
  <2>1. /\ Leader \in Nodes /\ at[Leader] = "stat" /\ keyFile[Leader] \in {Copied, None}
      BY DEF Init, StartInit, Nodes
  <2>2. keyFile[Leader] # Empty
      BY <2>1, NodeAssumption
  <2> QED BY <2>1, <2>2 DEF LeaderKeyInv, LeaderDiesOnlyOf
<1>2. LeaderKeyInv => LeaderDiesOnlyOf
    BY DEF LeaderKeyInv
<1> QED BY <1>1, <1>2, NextLeaderKey, TypeCorrect, PTL DEF Spec
=============================================================================
