---------------------------- MODULE TxPoolProofs ----------------------------
(***************************************************************************)
(* What the mutex and the condition variable of txPool/txpool.go guarantee *)
(* for any number of producers, calls and transactions and any capacity.   *)
(***************************************************************************)
EXTENDS TxPool, SequenceTheorems, TLAPS

Places == {"outside", "inside", "asleep", "awake"}

TypeOK ==
    /\ script \in Scripts
    /\ queue \in Seq(Txs) /\ packed \in Seq(Txs)
    /\ lock \in Producers \cup Holders \cup {Nobody}
    /\ pc \in [Producers -> Places]
    /\ call \in [Producers -> Nat]
    /\ \A p \in Producers : call[p] <= Len(script[p])
    /\ todo \in [Producers -> Seq(Txs)]

-----------------------------------------------------------------------------
(* g is the sequence f with x put in at place m.                           *)
Inserted(f, g, m, x) ==
    /\ m \in 1..Len(f) + 1 /\ Len(g) = Len(f) + 1
    /\ \A i \in 1..Len(g) : g[i] = IF i < m THEN f[i] ELSE IF i = m THEN x ELSE f[i - 1]

(* What was in a sequence stays in it, in its order, when something is put *)
(* in, and stays distinct if that is new.                                  *)
LEMMA InsertedFacts ==
    ASSUME NEW S, NEW f \in Seq(S), NEW g \in Seq(S), NEW m, NEW x,
           Inserted(f, g, m, x)
    PROVE  /\ ToSet(g) = ToSet(f) \cup {x}
           /\ IsInjective(f) /\ x \notin ToSet(f) => IsInjective(g)
           /\ \A y, z : Before(f, y, z) => Before(g, y, z)
<1> USE DEF Inserted
<1>0. /\ DOMAIN f = 1..Len(f) /\ DOMAIN g = 1..Len(g)
      /\ Len(f) \in Nat /\ Len(g) \in Nat /\ m \in Nat
    BY LenProperties
<1> DEFINE moved(i) == IF i < m THEN i ELSE i + 1
<1>1. \A i \in DOMAIN f : moved(i) \in DOMAIN g /\ g[moved(i)] = f[i]
    BY <1>0
<1>2. \A j \in DOMAIN g : j = m \/ \E i \in DOMAIN f : j = moved(i)
  <2> SUFFICES ASSUME NEW j \in DOMAIN g, j # m
               PROVE  \E i \in DOMAIN f : j = moved(i)
      OBVIOUS
  <2>1. CASE j < m
      BY <2>1, <1>0
  <2>2. CASE j > m
      BY <2>2, <1>0, j - 1 \in DOMAIN f, moved(j - 1) = j
  <2> QED BY <2>1, <2>2, <1>0
<1>3. m \in DOMAIN g /\ g[m] = x
    BY <1>0
<1>4. ToSet(g) = ToSet(f) \cup {x}
    BY <1>1, <1>2, <1>3 DEF ToSet
<1>5. ASSUME IsInjective(f), x \notin ToSet(f)
      PROVE  IsInjective(g)
  <2> SUFFICES ASSUME NEW a \in DOMAIN g, NEW b \in DOMAIN g, g[a] = g[b]
               PROVE  a = b
      BY DEF IsInjective
  <2>1. CASE a = m \/ b = m
      BY <2>1, <1>1, <1>2, <1>3, <1>5 DEF ToSet
  <2>2. CASE a # m /\ b # m
    <3>1. PICK i \in DOMAIN f : a = moved(i)
        BY <1>2, <2>2
    <3>2. PICK j \in DOMAIN f : b = moved(j)
        BY <1>2, <2>2
    <3>3. f[i] = f[j]
        BY <3>1, <3>2, <1>1
    <3> QED BY <3>1, <3>2, <3>3, <1>5 DEF IsInjective
  <2> QED BY <2>1, <2>2
<1>6. ASSUME NEW y, NEW z, Before(f, y, z)
      PROVE  Before(g, y, z)
  <2>1. PICK i \in DOMAIN f, j \in DOMAIN f : i < j /\ f[i] = y /\ f[j] = z
      BY <1>6 DEF Before
  <2>2. moved(i) < moved(j)
      BY <2>1, <1>0
  <2> QED BY <2>1, <2>2, <1>1 DEF Before
<1> QED BY <1>4, <1>5, <1>6

(* The two ways in which the pool grows put something in, and so does its  *)
(* growth for what was packed and is in the pool, together.                *)
LEMMA AppendInserts ==
    ASSUME NEW S, NEW f \in Seq(S), NEW x \in S
    PROVE  Append(f, x) \in Seq(S) /\ Inserted(f, Append(f, x), Len(f) + 1, x)
<1>1. Len(f) \in Nat
    BY LenProperties
<1>2. /\ Append(f, x) \in Seq(S) /\ Len(Append(f, x)) = Len(f) + 1
      /\ \A i \in 1..Len(f) : Append(f, x)[i] = f[i]
      /\ Append(f, x)[Len(f) + 1] = x
    BY AppendProperties
<1> DEFINE g == Append(f, x)
<1> HIDE DEF g
<1> QED BY <1>1, <1>2 DEF Inserted, g

(* AddTxs2Pool_Head builds the new queue in front of the old one.          *)
LEMMA PrependInserts ==
    ASSUME NEW S, NEW f \in Seq(S), NEW x \in S
    PROVE  <<x>> \o f \in Seq(S) /\ Inserted(f, <<x>> \o f, 1, x)
<1>1. Len(f) \in Nat
    BY LenProperties
<1>2. <<x>> \in Seq(S) /\ Len(<<x>>) = 1 /\ <<x>>[1] = x
    OBVIOUS
<1> DEFINE g == <<x>> \o f
           u == <<x>>
<1> HIDE DEF u
<1>3. /\ g \in Seq(S) /\ Len(g) = Len(u) + Len(f)
      /\ \A i \in 1..Len(u) + Len(f) : g[i] = IF i <= Len(u) THEN u[i] ELSE f[i - Len(u)]
    BY <1>2, ConcatProperties DEF u
<1>4. Len(u) = 1 /\ u[1] = x
    BY <1>2 DEF u
<1> HIDE DEF g
<1> QED BY <1>1, <1>3, <1>4 DEF Inserted, g

(* What was packed before stays in front.                                  *)
LEMMA ConcatInserts ==
    ASSUME NEW S, NEW s \in Seq(S), NEW f \in Seq(S), NEW g \in Seq(S), NEW m, NEW x,
           Inserted(f, g, m, x)
    PROVE  Inserted(s \o f, s \o g, Len(s) + m, x)
<1>1. Len(s) \in Nat /\ Len(f) \in Nat /\ Len(g) = Len(f) + 1 /\ m \in 1..Len(f) + 1
    BY LenProperties DEF Inserted
<1> DEFINE F == s \o f
           G == s \o g
           n == Len(s)
<1>2. /\ Len(F) = n + Len(f)
      /\ \A i \in 1..n + Len(f) : F[i] = IF i <= n THEN s[i] ELSE f[i - n]
      /\ Len(G) = n + Len(g)
      /\ \A i \in 1..n + Len(g) : G[i] = IF i <= n THEN s[i] ELSE g[i - n]
    BY ConcatProperties
<1> HIDE DEF F, G, n
<1>3. n \in Nat
    BY <1>1 DEF n
<1>4. \A i \in 1..Len(g) : g[i] = IF i < m THEN f[i] ELSE IF i = m THEN x ELSE f[i - 1]
    BY DEF Inserted
<1>5. ASSUME NEW i \in 1..Len(G)
      PROVE  G[i] = IF i < n + m THEN F[i] ELSE IF i = n + m THEN x ELSE F[i - 1]
  <2>1. CASE i <= n
      BY <1>1, <1>2, <1>3, <2>1
  <2>2. CASE i > n
    <3>1. i - n \in 1..Len(g) /\ G[i] = g[i - n]
        BY <1>1, <1>2, <1>3, <2>2
    <3>2. CASE i < n + m
      <4>1. g[i - n] = f[i - n] /\ F[i] = f[i - n]
          BY <1>1, <1>2, <1>3, <1>4, <2>2, <3>1, <3>2
      <4> QED BY <3>1, <3>2, <4>1
    <3>3. CASE i = n + m
        BY <1>1, <1>3, <1>4, <3>1, <3>3
    <3>4. CASE i > n + m
      <4>1. g[i - n] = f[i - n - 1]
          BY <1>1, <1>3, <1>4, <3>1, <3>4
      <4>2. F[i - 1] = f[i - 1 - n]
          BY <1>1, <1>2, <1>3, <3>1, <3>4
      <4>3. i - 1 - n = i - n - 1
          BY <1>3
      <4> QED BY <1>1, <1>3, <3>1, <3>4, <4>1, <4>2, <4>3
    <3>5. i < n + m \/ i = n + m \/ i > n + m
      <4>1. i \in Int /\ n + m \in Int
          BY <1>1, <1>3
      <4> QED BY <4>1
    <3> QED BY <3>2, <3>3, <3>4, <3>5
  <2> QED BY <1>3, <2>1, <2>2
<1> QED BY <1>1, <1>2, <1>3, <1>5 DEF Inserted, F, G, n

-----------------------------------------------------------------------------
(* A script gives every producer a sequence of calls, each with a sequence *)
(* of transactions.                                                        *)
LEMMA ScriptType ==
    ASSUME TypeOK, NEW p \in Producers
    PROVE  /\ DOMAIN script[p] = 1..Len(script[p]) /\ Len(script[p]) \in Nat
           /\ \A c \in DOMAIN script[p] : script[p][c].op \in Ops /\ script[p][c].txs \in Seq(Txs)
<1>1. script[p] \in Seq([op: Ops, txs: Seq(Txs)])
    BY TxPoolAssumption DEF TypeOK
<1>2. ASSUME NEW c \in 1..Len(script[p]) PROVE script[p][c] \in [op: Ops, txs: Seq(Txs)]
    BY ONLY <1>1, ElementOfSeq
<1>3. DOMAIN script[p] = 1..Len(script[p]) /\ Len(script[p]) \in Nat
    BY <1>1, LenProperties
<1> QED BY <1>2, <1>3

(* The first and the last of the transactions that are left, and the rest. *)
LEMMA TodoType ==
    ASSUME TypeOK, NEW p \in Producers, todo[p] # <<>>
    PROVE  LET s == todo[p] IN
           /\ Len(s) \in Nat \ {0} /\ DOMAIN s = 1..Len(s)
           /\ Head(s) = s[1] /\ s[1] \in Txs /\ Last(s) = s[Len(s)] /\ s[Len(s)] \in Txs
           /\ Tail(s) \in Seq(Txs) /\ Len(Tail(s)) = Len(s) - 1
           /\ \A i \in 1..Len(s) - 1 : Tail(s)[i] = s[i + 1]
           /\ Front(s) \in Seq(Txs) /\ Len(Front(s)) = Len(s) - 1
           /\ \A i \in 1..Len(s) - 1 : Front(s)[i] = s[i]
<1> DEFINE s == todo[p]
<1>1. s \in Seq(Txs) /\ s # <<>>
    BY DEF TypeOK
<1>2. Len(s) \in Nat \ {0} /\ DOMAIN s = 1..Len(s) /\ \A i \in 1..Len(s) : s[i] \in Txs
    BY <1>1, LenProperties, EmptySeq, ElementOfSeq
<1>3. /\ Tail(s) \in Seq(Txs) /\ Len(Tail(s)) = Len(s) - 1
      /\ \A i \in 1..Len(s) - 1 : Tail(s)[i] = s[i + 1]
    BY <1>1, HeadTailProperties
<1>4. /\ Front(s) \in Seq(Txs) /\ Len(Front(s)) = Len(s) - 1
      /\ \A i \in 1..Len(s) - 1 : Front(s)[i] = s[i]
  <2>1. \A i \in 1..Len(s) - 1 : s[i] \in Txs
      BY <1>2
  <2> HIDE DEF s
  <2>2. /\ SubSeq(s, 1, Len(s) - 1) \in Seq(Txs)
        /\ Len(SubSeq(s, 1, Len(s) - 1)) = IF 1 <= Len(s) - 1 THEN Len(s) - 1 - 1 + 1 ELSE 0
        /\ \A i \in 1..Len(s) - 1 - 1 + 1 : SubSeq(s, 1, Len(s) - 1)[i] = s[1 + i - 1]
      BY <1>2, <2>1, SubSeqProperties
  <2> QED BY <1>2, <2>2 DEF Front
<1>5. Head(s) = s[1] /\ Last(s) = s[Len(s)]
    BY <1>1 DEF Last
<1> QED BY <1>2, <1>3, <1>4, <1>5

(* What a packer takes and what it leaves.                                 *)
LEMMA PackType ==
    ASSUME TypeOK, NEW n \in 1..Len(queue)
    PROVE  /\ SubSeq(queue, 1, n) \in Seq(Txs) /\ Left(n) \in Seq(Txs)
           /\ Len(Left(n)) = Len(queue) - n
           /\ \A i \in 1..Len(Left(n)) : Left(n)[i] = queue[i + n]
           /\ SubSeq(queue, 1, n) \o Left(n) = queue
<1>0. queue \in Seq(Txs) /\ Len(queue) \in Nat /\ \A i \in 1..Len(queue) : queue[i] \in Txs
    BY LenProperties, ElementOfSeq DEF TypeOK
<1>1. SubSeq(queue, 1, n) \in Seq(Txs)
    BY <1>0, SubSeqProperties
<1>2. /\ Left(n) \in Seq(Txs)
      /\ Len(Left(n)) = Len(queue) - n
      /\ \A i \in 1..Len(Left(n)) : Left(n)[i] = queue[i + n]
  <2>1. /\ Left(n) \in Seq(Txs)
        /\ Len(Left(n)) = IF n + 1 <= Len(queue) THEN Len(queue) - (n + 1) + 1 ELSE 0
        /\ \A i \in 1..Len(queue) - (n + 1) + 1 : Left(n)[i] = queue[n + 1 + i - 1]
      BY <1>0, SubSeqProperties DEF Left
  <2> QED BY <1>0, <2>1
<1>3. SubSeq(queue, 1, n) \o Left(n) = queue
  <2>1. /\ 1 \in 1..Len(queue) + 1 /\ n \in 1 - 1..Len(queue) /\ Len(queue) \in n..Len(queue)
      BY <1>0
  <2>2. SubSeq(queue, 1, n) \o SubSeq(queue, n + 1, Len(queue)) = SubSeq(queue, 1, Len(queue))
      BY <1>0, <2>1, ConcatAdjacentSubSeq
  <2> QED BY <1>0, <2>2, SubSeqFull DEF Left
<1> QED BY <1>1, <1>2, <1>3
-----------------------------------------------------------------------------
(* Sequences stay sequences of transactions, and a producer makes at most  *)
(* the calls of its script.                                                *)
LEMMA InitType == Init => TypeOK
BY DEF Init, TypeOK, Places

(* ... and every call and every wait keeps it so.                          *)
LEMMA NextType == TypeOK /\ [Next]_vars => TypeOK'
<1> SUFFICES ASSUME TypeOK, [Next]_vars
             PROVE  TypeOK'
    OBVIOUS
<1>1. ASSUME NEW p \in Producers, Enter(p)
      PROVE  TypeOK'
  <2>1. call[p] + 1 \in DOMAIN script[p]
      BY <1>1, ScriptType DEF Enter, TypeOK
  <2>2. Batch(p) \in Seq(Txs)
      BY <2>1, ScriptType DEF Batch
  <2> QED BY <1>1, <2>1, <2>2, ScriptType DEF Enter, TypeOK, Places
<1>2. ASSUME NEW p \in Producers, Put(p)
      PROVE  TypeOK'
  <2>1. todo[p] # <<>>
      BY <1>2 DEF Put
  <2>2. /\ Head(todo[p]) \in Txs /\ Last(todo[p]) \in Txs
        /\ Tail(todo[p]) \in Seq(Txs) /\ Front(todo[p]) \in Seq(Txs)
      BY <2>1, TodoType
  <2>3. queue' \in Seq(Txs)
    <3>1. Append(queue, Head(todo[p])) \in Seq(Txs)
        BY <2>2, AppendProperties DEF TypeOK
    <3>2. <<Last(todo[p])>> \in Seq(Txs)
        BY <2>2
    <3>3. <<Last(todo[p])>> \o queue \in Seq(Txs)
        BY <3>2, ConcatProperties DEF TypeOK
    <3> QED BY <1>2, <3>1, <3>3 DEF Put
  <2> QED BY <1>2, <2>2, <2>3 DEF Put, TypeOK
<1>3. ASSUME NEW p \in Producers, Wait(p) \/ Relock(p) \/ Leave(p)
      PROVE  TypeOK'
    BY <1>3 DEF Wait, Relock, Leave, TypeOK, Places
<1>4. ASSUME NEW max \in 0..MaxPack, Pack(max)
      PROVE  TypeOK'
  <2> DEFINE n == IF Len(queue) < max THEN Len(queue) ELSE max
  <2>1. n \in 1..Len(queue)
      BY <1>4, LenProperties DEF Pack, TypeOK
  <2>2. packed' = packed \o SubSeq(queue, 1, n) /\ queue' = Left(n)
      BY <1>4 DEF Pack
  <2> HIDE DEF n
  <2>3. packed' \in Seq(Txs) /\ queue' \in Seq(Txs)
      BY <2>1, <2>2, PackType, ConcatProperties DEF TypeOK
  <2> QED BY <1>4, <2>3 DEF Pack, TypeOK, Broadcast, Places
<1>5. ASSUME NEW h \in Holders, Hold(h) \/ Release(h)
      PROVE  TypeOK'
    BY <1>5 DEF Hold, Release, TypeOK
<1>6. CASE UNCHANGED vars
    BY <1>6 DEF vars, TypeOK
<1> QED BY <1>1, <1>2, <1>3, <1>4, <1>5, <1>6 DEF Next, Step

(* The variables of the pool keep their types, for every script of calls.  *)
THEOREM TypeCorrect == Spec => []TypeOK
<1>1. QED BY InitType, NextType, PTL DEF Spec
-----------------------------------------------------------------------------
(* Only the holder of the mutex is inside; nobody sleeps beside free room. *)
MutualExclusion == \A p \in Producers : pc[p] = "inside" => lock = p
SleepInv == SleepersMeanFull /\ Len(queue) <= Capacity

(* Wait gives the mutex up, and only the broadcast of a packer, which has  *)
(* the mutex, makes room.                                                  *)
LEMMA NextSleep ==
    TypeOK /\ MutualExclusion /\ SleepInv /\ [Next]_vars => MutualExclusion' /\ SleepInv'
<1> SUFFICES ASSUME TypeOK, MutualExclusion, SleepInv, [Next]_vars
             PROVE  MutualExclusion' /\ SleepInv'
    OBVIOUS
<1> USE TxPoolAssumption DEF SleepInv, SleepersMeanFull
<1>0. Len(queue) \in Nat /\ pc \in [Producers -> Places]
    BY LenProperties DEF TypeOK
<1>1. ASSUME NEW p \in Producers, Enter(p) \/ Relock(p)
      PROVE  MutualExclusion' /\ SleepInv'
    BY <1>0, <1>1 DEF Enter, Relock, MutualExclusion
<1>2. ASSUME NEW p \in Producers, Put(p)
      PROVE  MutualExclusion' /\ SleepInv'
  <2>1. Len(queue) < Capacity
      BY <1>0, <1>2 DEF Put, Full
  <2>2. Len(queue') = Len(queue) + 1
    <3>1. Head(todo[p]) \in Txs /\ <<Last(todo[p])>> \in Seq(Txs) /\ Len(<<Last(todo[p])>>) = 1
        BY <1>2, TodoType DEF Put
    <3>2. Len(Append(queue, Head(todo[p]))) = Len(queue) + 1
        BY <3>1, AppendProperties DEF TypeOK
    <3>3. Len(<<Last(todo[p])>> \o queue) = 1 + Len(queue)
        BY <3>1, ConcatProperties DEF TypeOK
    <3> QED BY <1>0, <1>2, <3>2, <3>3 DEF Put
  <2>3. UNCHANGED <<pc, lock>>
      BY <1>2 DEF Put
  <2> QED BY <1>0, <2>1, <2>2, <2>3 DEF MutualExclusion
<1>3. ASSUME NEW p \in Producers, Wait(p)
      PROVE  MutualExclusion' /\ SleepInv'
    BY <1>0, <1>3 DEF Wait, Full, MutualExclusion
<1>4. ASSUME NEW p \in Producers, Leave(p)
      PROVE  MutualExclusion' /\ SleepInv'
    BY <1>0, <1>4 DEF Leave, MutualExclusion
<1>5. ASSUME NEW max \in 0..MaxPack, Pack(max)
      PROVE  MutualExclusion' /\ SleepInv'
  <2>1. \A p \in Producers : pc'[p] # "asleep" /\ (pc'[p] = "inside" => pc[p] = "inside")
      BY <1>0, <1>5 DEF Pack, Broadcast
  <2>2. Len(queue') <= Len(queue) /\ Len(queue') \in Nat
    <3> DEFINE n == IF Len(queue) < max THEN Len(queue) ELSE max
    <3>1. n \in 1..Len(queue) /\ queue' = Left(n)
        BY <1>0, <1>5 DEF Pack
    <3> HIDE DEF n
    <3>2. Len(queue') = Len(queue) - n
        BY <3>1, PackType
    <3> QED BY <1>0, <3>1, <3>2
  <2>3. lock' = lock
      BY <1>5 DEF Pack
  <2> QED BY <1>0, <2>1, <2>2, <2>3 DEF MutualExclusion
<1>6. ASSUME NEW h \in Holders, Hold(h) \/ Release(h)
      PROVE  MutualExclusion' /\ SleepInv'
    BY <1>0, <1>6 DEF Hold, Release, MutualExclusion
<1>7. CASE UNCHANGED vars
    BY <1>7 DEF vars, MutualExclusion
<1> QED BY <1>1, <1>2, <1>3, <1>4, <1>5, <1>6, <1>7 DEF Next, Step

(* The mutex admits one call at a time, the pool never holds more than its *)
(* capacity, and a producer sleeps only while it is full: no wakeup is     *)
(* lost (cond.Wait in the loop over len(TxQueue) >= capacity).             *)
THEOREM NoLostWakeup == Spec => [](MutualExclusion /\ SleepInv /\ SleepersMeanFull)
<1>1. Init => MutualExclusion /\ SleepInv
    BY TxPoolAssumption, Len(<<>>) = 0 DEF Init, MutualExclusion, SleepInv, SleepersMeanFull
<1>2. SleepInv => SleepersMeanFull
    BY DEF SleepInv
<1> QED BY <1>1, <1>2, NextSleep, TypeCorrect, PTL DEF Spec
-----------------------------------------------------------------------------
(* s is what call c has still to add: at the tail the end of its batch, at *)
(* the head its beginning.                                                 *)
IsLeft(s, c) ==
    /\ Len(s) <= Len(c.txs)
    /\ c.op = "tail" => \A i \in 1..Len(s) : s[i] = c.txs[Len(c.txs) - Len(s) + i]
    /\ c.op = "head" => \A i \in 1..Len(s) : s[i] = c.txs[i]

Current(p) == script[p][call[p]]
TodoOf(p) ==
    /\ pc[p] = "outside" => todo[p] = <<>>
    /\ todo[p] # <<>> => call[p] \in DOMAIN script[p] /\ IsLeft(todo[p], Current(p))
TodoInv == \A p \in Producers : TodoOf(p)

(* The loops of AddTxs2Pool and AddTxs2Pool_Head take one from the right   *)
(* end.                                                                    *)
LEMMA PutTodo ==
    ASSUME TypeOK, TodoInv, NEW p \in Producers, Put(p)
    PROVE  IsLeft(todo'[p], Current(p))
<1>1. todo[p] # <<>> /\ call[p] \in DOMAIN script[p] /\ IsLeft(todo[p], Current(p))
    BY DEF Put, TodoInv, TodoOf
<1>2. Current(p).op \in Ops /\ Len(Current(p).txs) \in Nat
    BY <1>1, ScriptType, LenProperties DEF Current
<1>3. CASE Current(p).op = "tail"
  <2>1. todo'[p] = Tail(todo[p])
      BY <1>3 DEF Put, Current, TypeOK
  <2> DEFINE s == todo[p]
             b == Current(p).txs
  <2>2. /\ Len(s) \in Nat /\ Len(Tail(s)) = Len(s) - 1 /\ Len(b) \in Nat /\ Len(s) <= Len(b)
        /\ \A i \in 1..Len(s) - 1 : Tail(s)[i] = s[i + 1]
        /\ \A i \in 1..Len(s) : s[i] = b[Len(b) - Len(s) + i]
      BY <1>1, <1>2, <1>3, TodoType DEF IsLeft
  <2> HIDE DEF s, b
  <2>3. ASSUME NEW i \in 1..Len(Tail(s))
        PROVE  Tail(s)[i] = b[Len(b) - Len(Tail(s)) + i]
    <3>1. i + 1 \in 1..Len(s) /\ i \in 1..Len(s) - 1
        BY <2>2
    <3>2. Len(b) - Len(s) + (i + 1) = Len(b) - Len(Tail(s)) + i
      <4> DEFINE m == Len(b)
                 n == Len(s)
                 k == Len(Tail(s))
      <4>1. m \in Nat /\ n \in Nat /\ k = n - 1 /\ i \in Int
          BY <2>2
      <4> HIDE DEF m, n, k
      <4>2. m - n + (i + 1) = m - k + i
          BY <4>1
      <4> QED BY <4>2 DEF m, n, k
    <3> QED BY <2>2, <3>1, <3>2
  <2>4. Len(Tail(s)) <= Len(b)
      BY <2>2
  <2> QED BY <1>3, <2>1, <2>3, <2>4 DEF IsLeft, s, b
<1>4. CASE Current(p).op = "head"
  <2>1. todo'[p] = Front(todo[p])
      BY <1>4 DEF Put, Current, TypeOK
  <2> DEFINE s == todo[p]
             b == Current(p).txs
  <2>2. /\ Len(s) \in Nat /\ Len(Front(s)) = Len(s) - 1 /\ Len(b) \in Nat /\ Len(s) <= Len(b)
        /\ \A i \in 1..Len(s) - 1 : Front(s)[i] = s[i]
        /\ \A i \in 1..Len(s) : s[i] = b[i]
      BY <1>1, <1>2, <1>4, TodoType DEF IsLeft
  <2> HIDE DEF s, b
  <2>3. \A i \in 1..Len(Front(s)) : Front(s)[i] = b[i]
      BY <2>2
  <2>4. Len(Front(s)) <= Len(b)
      BY <2>2
  <2> QED BY <1>4, <2>1, <2>3, <2>4 DEF IsLeft, s, b
<1> QED BY <1>2, <1>3, <1>4 DEF Ops

(* Nothing but those loops touches what a call has left.                   *)
LEMMA NextTodo == TypeOK /\ TodoInv /\ [Next]_vars => TodoInv'
<1> SUFFICES ASSUME TypeOK, TodoInv, [Next]_vars, NEW q \in Producers
             PROVE  TodoOf(q)'
    BY DEF TodoInv
<1>0. /\ pc \in [Producers -> Places] /\ todo \in [Producers -> Seq(Txs)] /\ call \in [Producers -> Nat]
      /\ TodoOf(q)
    BY DEF TypeOK, TodoInv
<1>1. CASE /\ UNCHANGED <<script, call>> /\ todo'[q] = todo[q]
           /\ pc'[q] = "outside" => pc[q] = "outside" \/ todo[q] = <<>>
    BY <1>0, <1>1 DEF TodoOf, Current
<1>2. ASSUME NEW p \in Producers, Enter(p)
      PROVE  TodoOf(q)'
  <2>1. CASE p = q
    <3>1. /\ script' = script /\ call'[q] = call[q] + 1 /\ pc'[q] # "outside"
          /\ todo'[q] = script'[q][call'[q]].txs
        BY <1>0, <1>2, <2>1 DEF Enter, Batch
    <3>2. call'[q] \in DOMAIN script'[q]
        BY <1>0, <1>2, <2>1, <3>1, ScriptType DEF Enter
    <3>3. Len(todo'[q]) \in Nat
        BY <3>1, <3>2, ScriptType, LenProperties
    <3> QED BY <3>1, <3>2, <3>3 DEF TodoOf, IsLeft, Current
  <2>2. CASE p # q
    <3>1. /\ script' = script /\ call'[q] = call[q] /\ pc'[q] = pc[q] /\ todo'[q] = todo[q]
        BY <1>0, <1>2, <2>2 DEF Enter
    <3> QED BY <1>0, <3>1 DEF TodoOf, Current
  <2> QED BY <2>1, <2>2
<1>3. ASSUME NEW p \in Producers, Put(p)
      PROVE  TodoOf(q)'
  <2>0. UNCHANGED <<script, call, pc>>
      BY <1>3 DEF Put
  <2>1. CASE p = q
    <3>1. todo[q] # <<>> /\ pc[q] = "inside"
        BY <1>3, <2>1 DEF Put
    <3>2. IsLeft(todo'[q], Current(q))
        BY <1>3, <2>1, PutTodo
    <3> QED BY <1>0, <2>0, <3>1, <3>2 DEF TodoOf, Current
  <2>2. CASE p # q
    <3>1. todo'[q] = todo[q]
        BY <1>0, <1>3, <2>2 DEF Put
    <3> QED BY <1>1, <2>0, <3>1
  <2> QED BY <2>1, <2>2
<1>4. ASSUME NEW p \in Producers, Wait(p) \/ Relock(p) \/ Leave(p)
      PROVE  TodoOf(q)'
    BY <1>0, <1>1, <1>4 DEF Wait, Relock, Leave
<1>5. ASSUME NEW max \in 0..MaxPack, Pack(max)
      PROVE  TodoOf(q)'
    BY <1>0, <1>1, <1>5 DEF Pack, Broadcast
<1>6. ASSUME NEW h \in Holders, Hold(h) \/ Release(h)
      PROVE  TodoOf(q)'
    BY <1>1, <1>6 DEF Hold, Release
<1>7. CASE UNCHANGED vars
    BY <1>1, <1>7 DEF vars
<1> QED BY <1>2, <1>3, <1>4, <1>5, <1>6, <1>7 DEF Next, Step
-----------------------------------------------------------------------------
(* A transaction has one place in one call of one producer.                *)
LEMMA OnePlace ==
    ASSUME TypeOK, NEW p \in Producers, NEW q \in Producers,
           NEW c \in DOMAIN script[p], NEW d \in DOMAIN script[q],
           NEW i \in DOMAIN script[p][c].txs, NEW j \in DOMAIN script[q][d].txs,
           script[p][c].txs[i] = script[q][d].txs[j]
    PROVE  p = q /\ c = d /\ i = j
BY DistinctTransactions DEF TypeOK

(* Which transactions of its batch a call has still to add: at the tail    *)
(* the last ones, at the head the first ones.                              *)
LEMMA TodoPlaces ==
    ASSUME TypeOK, TodoInv, NEW p \in Producers, todo[p] # <<>>
    PROVE  LET b == Current(p).txs
               n == Len(todo[p]) IN
           /\ call[p] \in DOMAIN script[p] /\ Current(p).op \in Ops
           /\ b \in Seq(Txs) /\ DOMAIN b = 1..Len(b) /\ Len(b) \in Nat /\ n \in 1..Len(b)
           /\ Current(p).op = "tail" =>
                \A j \in DOMAIN b : b[j] \in ToSet(todo[p]) <=> j > Len(b) - n
           /\ Current(p).op = "head" =>
                \A j \in DOMAIN b : b[j] \in ToSet(todo[p]) <=> j <= n
           /\ ToSet(todo[p]) \subseteq ToSet(b)
           /\ IsInjective(todo[p])
<1> DEFINE b == Current(p).txs
           s == todo[p]
           n == Len(s)
           tail == Current(p).op = "tail"
           at(i) == IF tail THEN Len(b) - n + i ELSE i
<1>1. call[p] \in DOMAIN script[p] /\ IsLeft(s, Current(p))
    BY DEF TodoInv, TodoOf
<1>2. Current(p).op \in Ops /\ b \in Seq(Txs)
    BY <1>1, ScriptType DEF Current
<1>3. /\ DOMAIN b = 1..Len(b) /\ Len(b) \in Nat /\ n \in Nat \ {0}
      /\ DOMAIN s = 1..n /\ n <= Len(b)
    BY <1>1, <1>2, LenProperties, TodoType DEF IsLeft
<1>4. \A i \in 1..n : s[i] = b[at(i)]
    BY <1>1, <1>2 DEF IsLeft, Ops
<1>5. \A j, k \in DOMAIN b : b[j] = b[k] => j = k
    BY <1>1, OnePlace DEF Current
<1>13. Current(p).op = "head" => ~tail
    OBVIOUS
<1> HIDE DEF b, s, n, tail
<1>14. \A i \in 1..n : at(i) \in DOMAIN b
    BY <1>3
<1>15. \A i, k \in 1..n : at(i) = at(k) => i = k
    BY <1>3
<1> HIDE DEF at
<1>6. ASSUME NEW j \in DOMAIN b
      PROVE  b[j] \in ToSet(s) <=> \E i \in 1..n : at(i) = j
    BY <1>3, <1>4, <1>5, <1>14 DEF ToSet
<1>7. ToSet(s) \subseteq ToSet(b)
    BY <1>3, <1>4, <1>14 DEF ToSet
<1>8. IsInjective(s)
    BY <1>3, <1>4, <1>5, <1>14, <1>15 DEF IsInjective
<1>9. ASSUME NEW j \in DOMAIN b, tail
      PROVE  b[j] \in ToSet(s) <=> j > Len(b) - n
  <2>0. \A i \in 1..n : at(i) = Len(b) - n + i
      BY <1>9 DEF at
  <2>1. ASSUME NEW i \in 1..n, at(i) = j
        PROVE  j > Len(b) - n
      BY <1>3, <2>0, <2>1
  <2>2. ASSUME j > Len(b) - n
        PROVE  \E i \in 1..n : at(i) = j
    <3>1. j - (Len(b) - n) \in 1..n /\ Len(b) - n + (j - (Len(b) - n)) = j
        BY <1>3, <2>2
    <3> QED BY <2>0, <3>1
  <2> QED BY <1>6, <2>1, <2>2
<1>10. ASSUME NEW j \in DOMAIN b, ~tail
       PROVE  b[j] \in ToSet(s) <=> j <= n
  <2>1. \A i \in 1..n : at(i) = i
      BY <1>10 DEF at
  <2> QED BY <1>3, <1>6, <2>1
<1>11. n \in 1..Len(b)
    BY <1>3
<1>12. /\ tail => \A j \in DOMAIN b : b[j] \in ToSet(s) <=> j > Len(b) - n
       /\ ~tail => \A j \in DOMAIN b : b[j] \in ToSet(s) <=> j <= n
    BY <1>9, <1>10
<1> QED BY <1>1, <1>2, <1>3, <1>7, <1>8, <1>11, <1>12, <1>13 DEF b, s, n, tail

(* What is still to be added is not in the pool and was not packed.        *)
LEMMA TodoIsNew ==
    ASSUME TypeOK, TodoInv, NothingLostOrDoubled,
           NEW p \in Producers, NEW x \in ToSet(todo[p])
    PROVE  x \notin ToSet(Flow)
<1> SUFFICES ASSUME x \in ToSet(Flow)
             PROVE  FALSE
    OBVIOUS
<1>0. todo[p] # <<>>
    BY DEF ToSet
<1>1. PICK q \in Producers : x \in Given(q) /\ x \notin ToSet(todo[q])
    BY DEF NothingLostOrDoubled
<1>2. PICK d \in 1..call[q] : x \in ToSet(script[q][d].txs)
    BY <1>1 DEF Given
<1>3. d \in DOMAIN script[q]
    BY <1>2, ScriptType DEF TypeOK
<1>4. PICK j \in DOMAIN script[q][d].txs : script[q][d].txs[j] = x
    BY <1>2 DEF ToSet
<1>5. call[p] \in DOMAIN script[p] /\ x \in ToSet(script[p][call[p]].txs)
    BY <1>0, TodoPlaces DEF Current
<1>6. PICK i \in DOMAIN script[p][call[p]].txs : script[p][call[p]].txs[i] = x
    BY <1>5 DEF ToSet
<1>7. p = q
    BY <1>3, <1>4, <1>5, <1>6, OnePlace
<1> QED BY <1>1, <1>7
(* The transaction that one iteration adds.                                *)
Next1(p) == IF Current(p).op = "tail" THEN Head(todo[p]) ELSE Last(todo[p])

(* One iteration puts a new transaction into the pool, at its tail or its  *)
(* head, and takes it off what is left.                                    *)
LEMMA PutInserts ==
    ASSUME TypeOK, TodoInv, NEW p \in Producers, Put(p)
    PROVE  LET tail == Current(p).op = "tail" IN
           /\ Next1(p) \in ToSet(todo[p])
           /\ ToSet(todo'[p]) = ToSet(todo[p]) \ {Next1(p)}
           /\ queue' \in Seq(Txs) /\ Flow \in Seq(Txs) /\ Flow' \in Seq(Txs)
           /\ Inserted(queue, queue', IF tail THEN Len(queue) + 1 ELSE 1, Next1(p))
           /\ Inserted(Flow, Flow', IF tail THEN Len(Flow) + 1 ELSE Len(packed) + 1, Next1(p))
<1> DEFINE s == todo[p]
           x == Next1(p)
           tail == Current(p).op = "tail"
<1>1. s # <<>> /\ packed' = packed
    BY DEF Put
<1>2. /\ queue \in Seq(Txs) /\ packed \in Seq(Txs) /\ Len(queue) \in Nat /\ Len(packed) \in Nat
      /\ todo \in [Producers -> Seq(Txs)]
    BY LenProperties DEF TypeOK
<1>3. x \in Txs /\ x \in ToSet(s)
    BY <1>1, TodoType DEF ToSet, Next1
<1>4. /\ tail => queue' = Append(queue, x) /\ todo'[p] = Tail(s)
      /\ ~tail => queue' = <<x>> \o queue /\ todo'[p] = Front(s)
    BY <1>2 DEF Put, Current, Next1
<1>5. ToSet(todo'[p]) = ToSet(s) \ {x}
  <2>1. IsInjective(s)
      BY <1>1, TodoPlaces
  <2>2. /\ Len(s) \in Nat \ {0} /\ DOMAIN s = 1..Len(s)
        /\ Tail(s) \in Seq(Txs) /\ Len(Tail(s)) = Len(s) - 1
        /\ \A i \in 1..Len(s) - 1 : Tail(s)[i] = s[i + 1]
        /\ Front(s) \in Seq(Txs) /\ Len(Front(s)) = Len(s) - 1
        /\ \A i \in 1..Len(s) - 1 : Front(s)[i] = s[i]
        /\ x = IF tail THEN s[1] ELSE s[Len(s)]
      BY <1>1, TodoType DEF Next1
  <2>3. DOMAIN Tail(s) = 1..Len(s) - 1 /\ DOMAIN Front(s) = 1..Len(s) - 1
      BY <2>2, LenProperties
  <2> HIDE DEF s, x, tail
  <2>4. CASE tail
    <3>1. ToSet(Tail(s)) = {s[i] : i \in 2..Len(s)}
      <4>1. \A i \in 2..Len(s) : i - 1 \in 1..Len(s) - 1 /\ (i - 1) + 1 = i
          BY <2>2
      <4>2. \A i \in 1..Len(s) - 1 : i + 1 \in 2..Len(s)
          BY <2>2
      <4> QED BY <2>2, <2>3, <4>1, <4>2 DEF ToSet
    <3>2. ToSet(s) \ {s[1]} = {s[i] : i \in 2..Len(s)}
        BY <2>1, <2>2 DEF ToSet, IsInjective
    <3> QED BY <1>4, <2>2, <2>4, <3>1, <3>2 DEF s
  <2>5. CASE ~tail
    <3>1. ToSet(Front(s)) = {s[i] : i \in 1..Len(s) - 1}
        BY <2>2, <2>3 DEF ToSet
    <3>2. ToSet(s) \ {s[Len(s)]} = {s[i] : i \in 1..Len(s) - 1}
        BY <2>1, <2>2 DEF ToSet, IsInjective
    <3> QED BY <1>4, <2>2, <2>5, <3>1, <3>2 DEF s
  <2> QED BY <2>4, <2>5
<1>6. Flow \in Seq(Txs) /\ Len(Flow) = Len(packed) + Len(queue) /\ Flow' = packed \o queue'
    BY <1>1, <1>2, ConcatProperties DEF Flow
<1> HIDE DEF x, tail
<1>7. CASE tail
  <2>1. queue' \in Seq(Txs) /\ Inserted(queue, queue', Len(queue) + 1, x)
      BY <1>2, <1>3, <1>4, <1>7, AppendInserts
  <2>2. Inserted(Flow, Flow', Len(packed) + (Len(queue) + 1), x)
      BY <1>2, <1>6, <2>1, ConcatInserts DEF Flow
  <2>3. Len(packed) + (Len(queue) + 1) = Len(Flow) + 1
      BY <1>2, <1>6
  <2>4. Flow' \in Seq(Txs)
      BY <1>2, <1>6, <2>1, ConcatProperties
  <2> QED BY <1>3, <1>5, <1>6, <1>7, <2>1, <2>2, <2>3, <2>4 DEF x, tail
<1>8. CASE ~tail
  <2>1. queue' \in Seq(Txs) /\ Inserted(queue, queue', 1, x)
      BY <1>2, <1>3, <1>4, <1>8, PrependInserts
  <2>2. Inserted(Flow, Flow', Len(packed) + 1, x)
      BY <1>2, <1>6, <2>1, ConcatInserts DEF Flow
  <2>3. Flow' \in Seq(Txs)
      BY <1>2, <1>6, <2>1, ConcatProperties
  <2> QED BY <1>3, <1>5, <1>6, <1>8, <2>1, <2>2, <2>3 DEF x, tail
<1> QED BY <1>7, <1>8

(* What a producer gave and has not still to add.                          *)
Through(p) == Given(p) \ ToSet(todo[p])

(* A call that begins has put nothing into the pool yet.                   *)
LEMMA EnterThrough ==
    ASSUME TypeOK, TodoInv, NEW p \in Producers, Enter(p), NEW q \in Producers
    PROVE  Through(q)' = Through(q)
<1>1. /\ call \in [Producers -> Nat] /\ todo \in [Producers -> Seq(Txs)] /\ script' = script
    BY DEF Enter, TypeOK
<1>2. CASE p # q
  <2>1. call'[q] = call[q] /\ todo'[q] = todo[q]
      BY <1>1, <1>2 DEF Enter
  <2> QED BY <1>1, <2>1 DEF Through, Given
<1>3. CASE p = q
  <2> DEFINE b == script[p][call[p] + 1].txs
             n == call[p]
  <2>1. todo[p] = <<>> /\ todo'[p] = b /\ call'[p] = n + 1 /\ n \in Nat /\ n + 1 \in 1..Len(script[p])
      BY <1>1, ScriptType DEF Enter, TodoInv, TodoOf, Batch
  <2>2. ToSet(todo[p]) = {}
      BY <2>1 DEF ToSet
  <2>3. 1..n + 1 = 1..n \cup {n + 1}
      BY <2>1
  <2>4. Given(p)' = Given(p) \cup ToSet(b)
    <3>1. Given(p)' = UNION {ToSet(script[p][c].txs) : c \in 1..n + 1}
        BY <1>1, <2>1 DEF Given
    <3> QED BY <2>3, <3>1 DEF Given
  <2>5. ASSUME NEW x \in Given(p), x \in ToSet(b)
        PROVE  FALSE
    <3>1. PICK c \in 1..n : x \in ToSet(script[p][c].txs)
        BY <2>5 DEF Given
    <3>2. c \in DOMAIN script[p] /\ n + 1 \in DOMAIN script[p] /\ c # n + 1
        BY <2>1, ScriptType
    <3>3. PICK i \in DOMAIN script[p][c].txs : script[p][c].txs[i] = x
        BY <3>1 DEF ToSet
    <3>4. PICK j \in DOMAIN script[p][n + 1].txs : script[p][n + 1].txs[j] = x
        BY <2>5 DEF ToSet
    <3> QED BY <3>2, <3>3, <3>4, OnePlace
  <2>6. Through(p) = Given(p) /\ Through(p)' = (Given(p) \cup ToSet(b)) \ ToSet(b)
      BY <2>1, <2>2, <2>4 DEF Through
  <2> QED BY <1>3, <2>5, <2>6
<1> QED BY <1>2, <1>3

(* What leaves the queue was packed: the order of all is the same.         *)
LEMMA PackFlow ==
    ASSUME TypeOK, NEW max \in 0..MaxPack, Pack(max)
    PROVE  /\ Flow' = Flow
           /\ \E n \in 1..Len(queue) : queue' = Left(n)
<1> DEFINE n == IF Len(queue) < max THEN Len(queue) ELSE max
<1>1. n \in 1..Len(queue) /\ packed' = packed \o SubSeq(queue, 1, n) /\ queue' = Left(n)
  <2>1. Len(queue) \in Nat
      BY LenProperties DEF TypeOK
  <2> QED BY <2>1 DEF Pack
<1> HIDE DEF n
<1>2. (packed \o SubSeq(queue, 1, n)) \o Left(n) = packed \o (SubSeq(queue, 1, n) \o Left(n))
  <2> DEFINE t == SubSeq(queue, 1, n)
             u == Left(n)
  <2>1. packed \in Seq(Txs) /\ t \in Seq(Txs) /\ u \in Seq(Txs)
      BY <1>1, PackType DEF TypeOK
  <2> HIDE DEF t, u
  <2>2. (packed \o t) \o u = packed \o (t \o u)
      BY <2>1, ConcatAssociative
  <2> QED BY <2>2 DEF t, u
<1>3. Flow' = Flow
    BY <1>1, <1>2, PackType DEF Flow
<1> QED BY <1>1, <1>3

(* Calls, waits, additions and packings lose and double nothing.           *)
LEMMA NextFlow == TypeOK /\ TodoInv /\ NothingLostOrDoubled /\ [Next]_vars => NothingLostOrDoubled'
<1> SUFFICES ASSUME TypeOK, TodoInv, NothingLostOrDoubled, [Next]_vars
             PROVE  NothingLostOrDoubled'
    OBVIOUS
<1> DEFINE Goal == IsInjective(Flow) /\ ToSet(Flow) = UNION {Through(q) : q \in Producers}
<1>0. Goal /\ (Goal' => NothingLostOrDoubled')
    BY DEF NothingLostOrDoubled, Through
<1> SUFFICES Goal'
    BY <1>0
<1>1. ASSUME Flow' = Flow, \A q \in Producers : Through(q)' = Through(q)
      PROVE  Goal'
    BY <1>0, <1>1
<1>2. ASSUME UNCHANGED <<script, call, todo>>
      PROVE  \A q \in Producers : Through(q)' = Through(q)
    BY <1>2 DEF Through, Given
<1>3. ASSUME NEW p \in Producers, Enter(p)
      PROVE  Goal'
  <2>1. Flow' = Flow
      BY <1>3 DEF Enter, Flow
  <2> QED BY <1>1, <1>3, <2>1, EnterThrough
<1>4. ASSUME NEW p \in Producers, Put(p)
      PROVE  Goal'
  <2> DEFINE x == Next1(p)
  <2>1. PICK m : Inserted(Flow, Flow', m, x)
      BY <1>4, PutInserts
  <2>2. /\ x \in ToSet(todo[p]) /\ ToSet(todo'[p]) = ToSet(todo[p]) \ {x}
        /\ Flow \in Seq(Txs) /\ Flow' \in Seq(Txs)
      BY <1>4, PutInserts
  <2>3. x \notin ToSet(Flow)
      BY <2>2, TodoIsNew
  <2>4. IsInjective(Flow') /\ ToSet(Flow') = ToSet(Flow) \cup {x}
      BY <1>0, <2>1, <2>2, <2>3, InsertedFacts
  <2>5. Through(p)' = Through(p) \cup {x}
    <3>1. Given(p)' = Given(p)
        BY <1>4 DEF Put, Given
    <3>2. x \in Given(p)
      <4>1. todo[p] # <<>>
          BY <1>4 DEF Put
      <4>2. call[p] \in DOMAIN script[p] /\ ToSet(todo[p]) \subseteq ToSet(script[p][call[p]].txs)
          BY <4>1, TodoPlaces DEF Current
      <4>3. call[p] \in 1..call[p]
          BY <4>2, ScriptType
      <4> QED BY <2>2, <4>2, <4>3 DEF Given
    <3> QED BY <2>2, <3>1, <3>2 DEF Through
  <2>6. \A q \in Producers : q # p => Through(q)' = Through(q)
    <3> SUFFICES ASSUME NEW q \in Producers, q # p
                 PROVE  Through(q)' = Through(q)
        OBVIOUS
    <3>1. todo'[q] = todo[q] /\ Given(q)' = Given(q)
        BY <1>4 DEF Put, Given, TypeOK
    <3> QED BY <3>1 DEF Through
  <2> HIDE DEF x
  <2> QED BY <1>0, <2>4, <2>5, <2>6
<1>5. ASSUME NEW p \in Producers, Wait(p) \/ Relock(p) \/ Leave(p)
      PROVE  Goal'
  <2>1. Flow' = Flow
      BY <1>5 DEF Wait, Relock, Leave, Flow
  <2> QED BY <1>1, <1>2, <1>5, <2>1 DEF Wait, Relock, Leave
<1>6. ASSUME NEW max \in 0..MaxPack, Pack(max)
      PROVE  Goal'
  <2>1. Flow' = Flow
      BY <1>6, PackFlow
  <2> QED BY <1>1, <1>2, <1>6, <2>1 DEF Pack
<1>7. ASSUME NEW h \in Holders, Hold(h) \/ Release(h)
      PROVE  Goal'
  <2>1. Flow' = Flow
      BY <1>7 DEF Hold, Release, Flow
  <2> QED BY <1>1, <1>2, <1>7, <2>1 DEF Hold, Release
<1>8. CASE UNCHANGED vars
  <2>1. Flow' = Flow
      BY <1>8 DEF vars, Flow
  <2> QED BY <1>1, <1>2, <1>8, <2>1 DEF vars
<1> QED BY <1>3, <1>4, <1>5, <1>6, <1>7, <1>8 DEF Next, Step

(* The promise of the pool: every transaction of the calls made so far was *)
(* packed, is in the queue or has still to be added, and only once, for    *)
(* every number of producers and packers and across every wait.            *)
THEOREM Conserved == Spec => [](TodoInv /\ NothingLostOrDoubled)
<1>1. Init => TodoInv
    BY DEF Init, TodoInv, TodoOf
<1>2. Init => NothingLostOrDoubled
  <2> SUFFICES ASSUME Init
               PROVE  NothingLostOrDoubled
      OBVIOUS
  <2>1. Flow = <<>>
      BY DEF Init, Flow
  <2>2. \A p \in Producers : Given(p) = {}
      BY DEF Init, Given
  <2> QED BY <2>1, <2>2 DEF NothingLostOrDoubled, IsInjective, ToSet
<1> QED BY <1>1, <1>2, NextTodo, NextFlow, TypeCorrect, PTL DEF Spec

-----------------------------------------------------------------------------
(* What is put in last comes after everything else, what is put in first   *)
(* before it.                                                              *)
LEMMA EndsInserted ==
    ASSUME NEW S, NEW f \in Seq(S), NEW g \in Seq(S), NEW x, NEW y \in ToSet(f)
    PROVE  /\ Inserted(f, g, Len(f) + 1, x) => Before(g, y, x)
           /\ Inserted(f, g, 1, x) => Before(g, x, y)
<1>1. /\ DOMAIN f = 1..Len(f) /\ DOMAIN g = 1..Len(g)
      /\ Len(f) \in Nat /\ Len(g) \in Nat
    BY LenProperties
<1>2. PICK i \in 1..Len(f) : f[i] = y
    BY <1>1 DEF ToSet
<1>3. ASSUME Inserted(f, g, Len(f) + 1, x)
      PROVE  Before(g, y, x)
  <2>1. /\ i \in DOMAIN g /\ Len(f) + 1 \in DOMAIN g /\ i < Len(f) + 1
        /\ g[i] = y /\ g[Len(f) + 1] = x
      BY <1>1, <1>2, <1>3 DEF Inserted
  <2> QED BY <2>1 DEF Before
<1>4. ASSUME Inserted(f, g, 1, x)
      PROVE  Before(g, x, y)
  <2>1. i + 1 \in DOMAIN g /\ 1 \in DOMAIN g /\ 1 < i + 1 /\ (i + 1) - 1 = i
      BY <1>1, <1>2, <1>4 DEF Inserted
  <2>2. g[1] = x /\ g[i + 1] = y
      BY <1>1, <1>2, <1>4, <2>1 DEF Inserted
  <2> QED BY <2>1, <2>2 DEF Before
<1> QED BY <1>3, <1>4

(* The queue is the part of the flow that is not packed.                   *)
LEMMA QueueInFlow ==
    ASSUME TypeOK
    PROVE  /\ queue \in Seq(Txs) /\ DOMAIN queue = 1..Len(queue) /\ Len(queue) \in Nat
           /\ ToSet(queue) \subseteq ToSet(Flow)
           /\ IsInjective(Flow) => IsInjective(queue)
<1>1. /\ queue \in Seq(Txs) /\ packed \in Seq(Txs) /\ Len(queue) \in Nat /\ Len(packed) \in Nat
      /\ DOMAIN queue = 1..Len(queue)
    BY LenProperties DEF TypeOK
<1>2. /\ Flow \in Seq(Txs) /\ Len(Flow) = Len(packed) + Len(queue)
      /\ \A i \in 1..Len(packed) + Len(queue) :
            Flow[i] = IF i <= Len(packed) THEN packed[i] ELSE queue[i - Len(packed)]
    BY <1>1, ConcatProperties DEF Flow
<1>3. DOMAIN Flow = 1..Len(Flow)
    BY <1>2, LenProperties
<1>4. \A i \in 1..Len(queue) : Len(packed) + i \in DOMAIN Flow /\ Flow[Len(packed) + i] = queue[i]
  <2> SUFFICES ASSUME NEW i \in 1..Len(queue)
               PROVE  Len(packed) + i \in DOMAIN Flow /\ Flow[Len(packed) + i] = queue[i]
      OBVIOUS
  <2> DEFINE k == Len(packed) + i
  <2>1. k \in 1..Len(packed) + Len(queue) /\ ~(k <= Len(packed)) /\ k - Len(packed) = i
      BY <1>1
  <2> QED BY <1>2, <1>3, <2>1
<1>5. ToSet(queue) \subseteq ToSet(Flow)
    BY <1>1, <1>4 DEF ToSet
<1>6. ASSUME IsInjective(Flow)
      PROVE  IsInjective(queue)
    BY <1>1, <1>4, <1>6 DEF IsInjective
<1> QED BY <1>1, <1>5, <1>6

(* Where the transaction stands that one iteration adds: the first left    *)
(* of a batch for the tail, the last for the head.                         *)
LEMMA NextPlace ==
    ASSUME TypeOK, TodoInv, NEW p \in Producers, todo[p] # <<>>,
           NEW q \in Producers, NEW c \in DOMAIN script[q], NEW j \in DOMAIN script[q][c].txs,
           script[q][c].txs[j] = Next1(p)
    PROVE  LET b == script[p][call[p]].txs IN
           /\ q = p /\ c = call[p]
           /\ Current(p).op = "tail" =>
                \A i \in DOMAIN b : i < j => b[i] \notin ToSet(todo[p])
           /\ Current(p).op = "head" =>
                \A i \in DOMAIN b : i < j => b[i] \in ToSet(todo[p])
<1> DEFINE b == script[p][call[p]].txs
           s == todo[p]
           n == Len(s)
           x == Next1(p)
           tail == Current(p).op = "tail"
           k == IF tail THEN Len(b) - n + 1 ELSE n
<1>1. /\ call[p] \in DOMAIN script[p]
      /\ DOMAIN b = 1..Len(b) /\ Len(b) \in Nat /\ n \in 1..Len(b)
      /\ tail => \A i \in DOMAIN b : b[i] \in ToSet(s) <=> i > Len(b) - n
      /\ ~tail => \A i \in DOMAIN b : b[i] \in ToSet(s) <=> i <= n
    BY TodoPlaces DEF Current, Ops
<1>2. /\ tail => \A i \in 1..n : s[i] = b[Len(b) - n + i]
      /\ ~tail => \A i \in 1..n : s[i] = b[i]
    BY TodoPlaces DEF TodoInv, TodoOf, IsLeft, Current, Ops
<1>3. /\ tail => x = s[1]
      /\ ~tail => x = s[n]
    BY TodoType DEF Next1
<1>4. script[q][c].txs[j] = x
    OBVIOUS
<1>5. Current(p).op = "head" => ~tail
    OBVIOUS
<1> HIDE DEF b, s, n, x, tail
<1>6. k \in DOMAIN b /\ b[k] = x
    BY <1>1, <1>2, <1>3
<1>7. q = p /\ c = call[p] /\ j = k
    BY <1>1, <1>4, <1>6, OnePlace DEF b
<1> HIDE DEF k
<1>8. ASSUME tail, NEW i \in DOMAIN b, i < j
      PROVE  b[i] \notin ToSet(s)
    BY <1>1, <1>7, <1>8 DEF k
<1>9. ASSUME ~tail, NEW i \in DOMAIN b, i < j
      PROVE  b[i] \in ToSet(s)
    BY <1>1, <1>7, <1>9 DEF k
<1> QED BY <1>5, <1>7, <1>8, <1>9 DEF b, s, tail

(* Only an iteration of a producer changes what flows through the pool,    *)
(* and no step changes what the producers were told to do.                 *)
LEMMA StepFlow ==
    ASSUME TypeOK, [Next]_vars
    PROVE  /\ script' = script
           /\ Flow' = Flow \/ \E p \in Producers : Put(p)
<1>1. CASE \E max \in 0..MaxPack : Pack(max)
    BY <1>1, PackFlow DEF Pack
<1>2. CASE \E p \in Producers : Step(p)
    BY <1>2 DEF Step, Enter, Put, Wait, Relock, Leave, Flow
<1>3. CASE \E h \in Holders : Hold(h) \/ Release(h)
    BY <1>3 DEF Hold, Release, Flow
<1>4. CASE UNCHANGED vars
    BY <1>4 DEF vars, Flow
<1> QED BY <1>1, <1>2, <1>3, <1>4 DEF Next

(* AddTxs2Pool adds the batch forwards: everything its producer gave       *)
(* before the one it adds is through.                                      *)
LEMMA NextTailOrder ==
    ASSUME TypeOK, TodoInv, NothingLostOrDoubled, TailOrder, [Next]_vars
    PROVE  TailOrder'
<1>0. script' = script
    BY StepFlow
<1>1. CASE Flow' = Flow
    BY <1>0, <1>1 DEF TailOrder, GivenBefore, Before
<1>2. ASSUME NEW p \in Producers, Put(p)
      PROVE  TailOrder'
  <2> DEFINE z == Next1(p)
             tail == Current(p).op = "tail"
  <2>1. /\ Flow \in Seq(Txs) /\ Flow' \in Seq(Txs) /\ todo[p] # <<>>
        /\ Inserted(Flow, Flow', IF tail THEN Len(Flow) + 1 ELSE Len(packed) + 1, z)
      BY <1>2, PutInserts DEF Put
  <2>2. /\ ToSet(Flow') = ToSet(Flow) \cup {z}
        /\ \A x, y : Before(Flow, x, y) => Before(Flow', x, y)
      BY <2>1, InsertedFacts
  <2> SUFFICES ASSUME NEW q \in Producers, NEW x \in Txs, NEW y \in ToSet(Flow'),
                      GivenBefore(q, x, y)
               PROVE  Before(Flow', x, y)
      BY <1>0 DEF TailOrder, GivenBefore, Before
  <2>3. CASE y \in ToSet(Flow)
      BY <2>2, <2>3 DEF TailOrder
  <2>4. CASE y = z
    <3>1. PICK c \in DOMAIN script[q], d \in DOMAIN script[q] :
              /\ script[q][c].op = "tail" /\ script[q][d].op = "tail"
              /\ \/ c < d /\ x \in ToSet(script[q][c].txs) /\ y \in ToSet(script[q][d].txs)
                 \/ c = d /\ Before(script[q][c].txs, x, y)
        BY DEF GivenBefore
    <3>2. PICK i \in DOMAIN script[q][c].txs, j \in DOMAIN script[q][d].txs :
              /\ script[q][c].txs[i] = x /\ script[q][d].txs[j] = y
              /\ c < d \/ (c = d /\ i < j)
        BY <3>1 DEF ToSet, Before
    <3>3. q = p /\ d = call[p] /\ tail
        BY <2>1, <2>4, <3>1, <3>2, NextPlace DEF Current
    <3>4. x \notin ToSet(todo[p])
      <4>1. CASE c < d
        <5>1. ASSUME x \in ToSet(todo[p])
              PROVE  FALSE
          <6>1. x \in ToSet(script[p][call[p]].txs)
              BY <2>1, <5>1, TodoPlaces DEF Current
          <6>2. PICK k \in DOMAIN script[p][call[p]].txs : script[p][call[p]].txs[k] = x
              BY <6>1 DEF ToSet
          <6>3. c = d
              BY <3>2, <3>3, <6>2, OnePlace
          <6>4. c \in Nat /\ d \in Nat
              BY ScriptType
          <6> QED BY <4>1, <6>3, <6>4
        <5> QED BY <5>1
      <4>2. CASE c = d /\ i < j
          BY <2>1, <2>4, <3>2, <3>3, <4>2, NextPlace DEF Current
      <4> QED BY <3>2, <4>1, <4>2
    <3>5. x \in Given(p)
      <4>1. c \in 1..call[p]
          BY <3>2, <3>3, ScriptType
      <4>2. x \in ToSet(script[p][c].txs)
          BY <3>2, <3>3 DEF ToSet
      <4> QED BY <4>1, <4>2 DEF Given
    <3>6. x \in ToSet(Flow)
        BY <3>4, <3>5 DEF NothingLostOrDoubled
    <3>7. Inserted(Flow, Flow', Len(Flow) + 1, z)
        BY <2>1, <3>3
    <3> HIDE DEF z
    <3> QED BY <2>1, <2>4, <3>6, <3>7, EndsInserted
  <2> QED BY <2>2, <2>3, <2>4
<1> QED BY <1>1, <1>2, StepFlow

(* AddTxs2Pool_Head adds the batch backwards, each before all there is;    *)
(* packing takes from the head and leaves the rest as it stands.           *)
LEMMA NextHeadOrder ==
    ASSUME TypeOK, TodoInv, NothingLostOrDoubled, HeadOrder, [Next]_vars
    PROVE  HeadOrder'
<1>0. script' = script
    BY StepFlow
<1> DEFINE OrderIn(u, q, c) ==
        \A x, y \in ToSet(u) : Before(script[q][c].txs, x, y) => Before(u, x, y)
<1>1. \A q \in Producers : \A c \in 1..call[q] :
          script[q][c].op = "head" => OrderIn(queue, q, c)
    BY DEF HeadOrder
<1>2. SUFFICES ASSUME NEW q \in Producers, NEW c \in 1..call'[q], script[q][c].op = "head"
               PROVE  OrderIn(queue', q, c)
    BY <1>0, <1>2 DEF HeadOrder, Before
<1>3. CASE queue' = queue /\ c \in 1..call[q]
    BY <1>1, <1>2, <1>3
<1>4. ASSUME NEW p \in Producers, Enter(p)
      PROVE  OrderIn(queue', q, c)
  <2>1. /\ queue' = queue /\ call[p] \in Nat /\ call[p] + 1 \in DOMAIN script[p]
        /\ call'[q] = IF q = p THEN call[p] + 1 ELSE call[q]
      BY <1>4, ScriptType DEF Enter, TypeOK
  <2>2. CASE q = p /\ c = call[p] + 1
    <3> SUFFICES ASSUME NEW x \in ToSet(queue), NEW y \in ToSet(queue),
                        Before(script[q][c].txs, x, y)
                 PROVE  FALSE
        BY <2>1
    <3>1. PICK i \in DOMAIN script[q][c].txs : script[q][c].txs[i] = x
        BY DEF Before
    <3>2. PICK r \in Producers : x \in Given(r)
        BY QueueInFlow DEF NothingLostOrDoubled
    <3>3. PICK d \in 1..call[r] : x \in ToSet(script[r][d].txs)
        BY <3>2 DEF Given
    <3>4. PICK j \in DOMAIN script[r][d].txs : script[r][d].txs[j] = x
        BY <3>3 DEF ToSet
    <3>5. d \in DOMAIN script[r]
        BY <3>3, ScriptType DEF TypeOK
    <3>6. r = p /\ d = call[p] + 1
        BY <2>1, <2>2, <3>1, <3>4, <3>5, OnePlace
    <3> QED BY <2>1, <3>3, <3>6
  <2>3. CASE c \in 1..call[q]
      BY <1>3, <2>1, <2>3
  <2>4. CASE q = p /\ c \in 1..call[p] + 1 /\ c # call[p] + 1 /\ c \notin 1..call[q]
      BY <2>1, <2>4
  <2> QED BY <2>1, <2>2, <2>3, <2>4
<1>5. ASSUME NEW p \in Producers, Put(p)
      PROVE  OrderIn(queue', q, c)
  <2> DEFINE z == Next1(p)
             tail == Current(p).op = "tail"
  <2>1. /\ queue \in Seq(Txs) /\ queue' \in Seq(Txs) /\ todo[p] # <<>>
        /\ Inserted(queue, queue', IF tail THEN Len(queue) + 1 ELSE 1, z)
        /\ z \in ToSet(todo[p])
      BY <1>5, PutInserts DEF Put, TypeOK
  <2>2. /\ ToSet(queue') = ToSet(queue) \cup {z}
        /\ \A x, y : Before(queue, x, y) => Before(queue', x, y)
      BY <2>1, InsertedFacts
  <2>3. c \in 1..call[q] /\ c \in DOMAIN script[q]
      BY <1>5, ScriptType DEF Put, TypeOK
  <2> SUFFICES ASSUME NEW x \in ToSet(queue'), NEW y \in ToSet(queue'),
                      Before(script[q][c].txs, x, y)
               PROVE  Before(queue', x, y)
      OBVIOUS
  <2>4. PICK i \in DOMAIN script[q][c].txs, j \in DOMAIN script[q][c].txs :
            i < j /\ script[q][c].txs[i] = x /\ script[q][c].txs[j] = y
      BY DEF Before
  <2>5. x # y
    <3>1. i \in Nat /\ j \in Nat
        BY <2>3, ScriptType, LenProperties
    <3> QED BY <2>3, <2>4, <3>1, OnePlace
  <2>6. CASE x \in ToSet(queue) /\ y \in ToSet(queue)
      BY <1>1, <1>2, <2>2, <2>3, <2>6
  <2>7. CASE x = z /\ y \in ToSet(queue)
    <3>1. q = p /\ c = call[p]
        BY <2>1, <2>3, <2>4, <2>7, NextPlace
    <3>2. ~tail
        BY <1>2, <3>1 DEF Current
    <3> HIDE DEF z
    <3> QED BY <2>1, <2>7, <3>2, EndsInserted
  <2>8. CASE y = z /\ x \in ToSet(queue)
    <3>1. q = p /\ c = call[p]
        BY <2>1, <2>3, <2>4, <2>8, NextPlace
    <3>2. Current(p).op = "head"
        BY <1>2, <3>1 DEF Current
    <3>3. x \in ToSet(todo[p])
        BY <2>1, <2>3, <2>4, <2>8, <3>1, <3>2, NextPlace
    <3>4. x \in ToSet(Flow)
        BY <2>8, QueueInFlow
    <3> QED BY <3>3, <3>4, TodoIsNew
  <2> HIDE DEF z
  <2> QED BY <2>2, <2>5, <2>6, <2>7, <2>8
<1>6. ASSUME NEW max \in 0..MaxPack, Pack(max)
      PROVE  OrderIn(queue', q, c)
  <2>1. PICK n \in 1..Len(queue) : queue' = Left(n)
      BY <1>6, PackFlow
  <2> DEFINE u == Left(n)
  <2>2. /\ DOMAIN u = 1..Len(u) /\ Len(u) = Len(queue) - n /\ Len(u) \in Nat
        /\ \A i \in 1..Len(u) : u[i] = queue[i + n]
      BY PackType, LenProperties
  <2>3. c \in 1..call[q] /\ Len(queue) \in Nat /\ DOMAIN queue = 1..Len(queue)
      BY <1>6, QueueInFlow DEF Pack
  <2>4. \A i, j \in 1..Len(queue) : queue[i] = queue[j] => i = j
      BY QueueInFlow DEF NothingLostOrDoubled, IsInjective
  <2> SUFFICES ASSUME NEW x \in ToSet(u), NEW y \in ToSet(u),
                      Before(script[q][c].txs, x, y)
               PROVE  Before(u, x, y)
      BY <2>1
  <2> HIDE DEF u
  <2>5. PICK i \in 1..Len(u), j \in 1..Len(u) : u[i] = x /\ u[j] = y
      BY <2>2 DEF ToSet
  <2>6. i + n \in 1..Len(queue) /\ j + n \in 1..Len(queue)
      BY <2>2, <2>3
  <2>7. x = queue[i + n] /\ y = queue[j + n]
      BY <2>2, <2>5
  <2>8. x \in ToSet(queue) /\ y \in ToSet(queue)
      BY <2>3, <2>6, <2>7 DEF ToSet
  <2>9. Before(queue, x, y)
      BY <1>1, <1>2, <2>3, <2>8
  <2>10. PICK k \in 1..Len(queue), l \in 1..Len(queue) : k < l /\ queue[k] = x /\ queue[l] = y
      BY <2>3, <2>9 DEF Before
  <2>11. k = i + n /\ l = j + n
      BY <2>4, <2>6, <2>7, <2>10
  <2>12. i < j
      BY <2>10, <2>11
  <2> QED BY <2>2, <2>5, <2>12 DEF Before
<1>7. ASSUME NEW p \in Producers, Wait(p) \/ Relock(p) \/ Leave(p)
      PROVE  OrderIn(queue', q, c)
    BY <1>3, <1>7 DEF Wait, Relock, Leave
<1>8. ASSUME NEW h \in Holders, Hold(h) \/ Release(h)
      PROVE  OrderIn(queue', q, c)
    BY <1>3, <1>8 DEF Hold, Release
<1>9. CASE UNCHANGED vars
    BY <1>3, <1>9 DEF vars
<1> HIDE DEF OrderIn
<1> QED BY <1>4, <1>5, <1>6, <1>7, <1>8, <1>9 DEF Next, Step

(* The order of a batch survives: at the tail the transactions of one      *)
(* producer leave the pool in the order they were given, at the head those *)
(* of one call stand in its order, whatever other calls run while the call *)
(* waits for room in the middle of its batch.                              *)
THEOREM OrderKept == Spec => []BatchOrder
<1>1. Init => TailOrder /\ HeadOrder
  <2> SUFFICES ASSUME Init
               PROVE  TailOrder /\ HeadOrder
      OBVIOUS
  <2>1. Flow = <<>> /\ queue = <<>>
      BY DEF Init, Flow
  <2>2. ToSet(Flow) = {} /\ ToSet(queue) = {}
      BY <2>1 DEF ToSet
  <2> QED BY <2>2 DEF TailOrder, HeadOrder
<1>2. TypeOK /\ TodoInv /\ NothingLostOrDoubled /\ TailOrder /\ HeadOrder /\ [Next]_vars
          => TailOrder' /\ HeadOrder'
    BY NextTailOrder, NextHeadOrder
<1>3. TailOrder /\ HeadOrder => BatchOrder
    BY DEF BatchOrder
<1> QED BY <1>1, <1>2, <1>3, TypeCorrect, Conserved, PTL DEF Spec
=============================================================================
