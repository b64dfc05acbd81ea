------------------------- MODULE DatasetFeedProofs -------------------------
(***************************************************************************)
(* Theorems about the data set reader and the circulation simulator: which *)
(* rows of a data set reach the generator, whatever the goroutines and     *)
(* channels between them do, and what the rows that the simulator writes   *)
(* tell of its wallets, although its loops change the lists they are over. *)
(***************************************************************************)
EXTENDS DatasetFeed, ListsAndSums

-----------------------------------------------------------------------------
(* What the batches of a queue hold, one after the other.                  *)
FlatStep(q, f, i) == IF i = 1 THEN q[i] ELSE f[i - 1] \o q[i]
IsFlat(q, f) == f = [i \in 1..Len(q) |-> FlatStep(q, f, i)]
FlatOf(q) == CHOOSE f : IsFlat(q, f)
FlatTo(q, n) == IF n = 0 THEN <<>> ELSE FlatOf(q)[n]

(* FlattenSeq goes through its list from the front.                        *)
LEMMA FlatExists ==
    ASSUME NEW q, Len(q) \in Nat
    PROVE  IsFlat(q, FlatOf(q))
  <1> DEFINE Upto(n, f) == \A i \in 1..n : f[i] = FlatStep(q, f, i)
             Good == {n \in Nat : \E f : Upto(n, f)}
  <1>1. 0 \in Good
    <2>1. Upto(0, q)
      OBVIOUS
    <2> HIDE DEF Upto
    <2> QED  BY <2>1
  <1>2. ASSUME NEW n \in Good PROVE n + 1 \in Good
    <2>1. PICK f : Upto(n, f)
      OBVIOUS
    <2> DEFINE g == [i \in 1..n + 1 |-> IF i <= n THEN f[i] ELSE FlatStep(q, f, i)]
    <2>2. ASSUME NEW i \in 1..n + 1 PROVE g[i] = FlatStep(q, g, i)
      <3>1. i # 1 => i - 1 \in 1..n + 1 /\ i - 1 <= n
        OBVIOUS
      <3>2. i # 1 => g[i - 1] = f[i - 1]
        BY <3>1
      <3>3. g[i] = FlatStep(q, f, i)
        <4>1. i <= n => i \in 1..n
          OBVIOUS
        <4> QED  BY <2>1, <4>1
      <3> HIDE DEF g
      <3> QED  BY <3>2, <3>3 DEF FlatStep
    <2>3. n + 1 \in Nat /\ Upto(n + 1, g)
      <3> HIDE DEF g
      <3> QED  BY <2>2
    <2> HIDE DEF g, Upto
    <2> QED  BY <2>3
  <1>3. PICK f : Upto(Len(q), f)
    <2> HIDE DEF Upto
    <2>1. Good \in SUBSET Nat
      OBVIOUS
    <2>2. Good = Nat
      <3> HIDE DEF Good
      <3> QED  BY <1>1, <1>2, <2>1, Upwards
    <2> QED  BY <2>2
  <1> DEFINE g == [i \in 1..Len(q) |-> f[i]]
  <1>4. ASSUME NEW i \in 1..Len(q) PROVE g[i] = FlatStep(q, g, i)
    <2>1. i # 1 => i - 1 \in 1..Len(q)
      OBVIOUS
    <2> QED  BY <1>3, <2>1 DEF FlatStep
  <1>5. g = [i \in 1..Len(q) |-> g[i]]
    OBVIOUS
  <1>6. IsFlat(q, g)
    <2> HIDE DEF g
    <2> QED  BY <1>4, <1>5 DEF IsFlat
  <1> HIDE DEF g
  <1> QED  BY <1>6 DEF FlatOf

(* FlattenSeq list by list.                                                *)
LEMMA FlatSteps ==
    ASSUME NEW X, NEW q \in Seq(Seq(X))
    PROVE  /\ FlattenSeq(q) = FlatTo(q, Len(q))
           /\ \A n \in 0..Len(q) - 1 : FlatTo(q, n + 1) = FlatTo(q, n) \o q[n + 1]
           /\ \A n \in 0..Len(q) : FlatTo(q, n) \in Seq(X)
  <1>1. Len(q) \in Nat /\ \A n \in 1..Len(q) : q[n] \in Seq(X)
    OBVIOUS
  <1>2. FlattenSeq(q) = FlatTo(q, Len(q))
    <2>1. CASE Len(q) = 0
      <3>1. q = <<>>
        BY <2>1
      <3> QED  BY <2>1, <3>1 DEF FlattenSeq, FlatTo
    <2>2. CASE Len(q) # 0
      BY <2>2 DEF FlattenSeq, FlatTo, FlatOf, IsFlat, FlatStep
    <2> QED  BY <2>1, <2>2
  <1>3. \A i \in 1..Len(q) : FlatOf(q)[i] = FlatStep(q, FlatOf(q), i)
    <2>1. IsFlat(q, FlatOf(q))
      BY <1>1, FlatExists
    <2> QED  BY <2>1 DEF IsFlat
  <1>4. ASSUME NEW n \in 0..Len(q) - 1 PROVE FlatTo(q, n + 1) = FlatTo(q, n) \o q[n + 1]
    <2>1. n \in Nat /\ n + 1 \in 1..Len(q) /\ n + 1 # 0 /\ (n + 1) - 1 = n
      BY <1>1
    <2>2. q[n + 1] \in Seq(X)
      BY <1>1, <2>1
    <2>3. FlatTo(q, n + 1) = IF n + 1 = 1 THEN q[n + 1] ELSE FlatOf(q)[n] \o q[n + 1]
      BY <1>3, <2>1 DEF FlatTo, FlatStep
    <2>4. CASE n = 0
      <3>1. <<>> \o q[n + 1] = q[n + 1]
        BY <2>2, ConcatEmptySeq
      <3> QED  BY <2>3, <2>4, <3>1 DEF FlatTo
    <2>5. CASE n # 0
      <3>1. FlatTo(q, n) = FlatOf(q)[n]
        BY <2>5 DEF FlatTo
      <3>2. n + 1 # 1
        BY <2>1, <2>5
      <3> QED  BY <2>3, <3>1, <3>2
    <2> QED  BY <2>4, <2>5
  <1>5. \A n \in 0..Len(q) : FlatTo(q, n) \in Seq(X)
    <2> DEFINE T == {n \in Nat : n <= Len(q) => FlatTo(q, n) \in Seq(X)}
    <2>1. 0 \in T
      BY DEF FlatTo
    <2>2. ASSUME NEW n \in T PROVE n + 1 \in T
      <3>1. SUFFICES ASSUME n + 1 <= Len(q) PROVE FlatTo(q, n + 1) \in Seq(X)
        OBVIOUS
      <3>2. n \in 0..Len(q) - 1 /\ FlatTo(q, n) \in Seq(X) /\ q[n + 1] \in Seq(X)
        BY <1>1, <3>1
      <3>3. FlatTo(q, n) \o q[n + 1] \in Seq(X)
        BY <3>2, ConcatProperties
      <3> QED  BY <1>4, <3>2, <3>3
    <2>3. T \in SUBSET Nat
      OBVIOUS
    <2>4. T = Nat
      <3> HIDE DEF T
      <3> QED  BY <2>1, <2>2, <2>3, Upwards
    <2> QED  BY <1>1, <2>4
  <1> QED  BY <1>2, <1>4, <1>5

(* A batch that joins the queue comes last ...                             *)
LEMMA FlatAppend ==
    ASSUME NEW X, NEW q \in Seq(Seq(X)), NEW b \in Seq(X)
    PROVE  FlattenSeq(Append(q, b)) = FlattenSeq(q) \o b /\ FlattenSeq(q) \in Seq(X)
  <1> DEFINE r == Append(q, b)
             m == Len(q)
  <1>1. /\ m \in Nat /\ r \in Seq(Seq(X)) /\ Len(r) = m + 1 /\ r[m + 1] = b
        /\ \A i \in 1..m : r[i] = q[i]
    BY AppendProperties
  <1>2. /\ FlattenSeq(q) = FlatTo(q, m)
        /\ \A n \in 0..m - 1 : FlatTo(q, n + 1) = FlatTo(q, n) \o q[n + 1]
        /\ \A n \in 0..m : FlatTo(q, n) \in Seq(X)
    BY FlatSteps
  <1> HIDE DEF r
  <1>3. /\ FlattenSeq(r) = FlatTo(r, Len(r))
        /\ \A n \in 0..Len(r) - 1 : FlatTo(r, n + 1) = FlatTo(r, n) \o r[n + 1]
    BY <1>1, FlatSteps
  <1> HIDE DEF m
  <1> DEFINE T == {n \in Nat : n <= m => FlatTo(r, n) = FlatTo(q, n)}
  <1>4. T = Nat
    <2>1. 0 \in T
      BY DEF FlatTo
    <2>2. ASSUME NEW n \in T PROVE n + 1 \in T
      <3>1. SUFFICES ASSUME n + 1 <= m PROVE FlatTo(r, n + 1) = FlatTo(q, n + 1)
        OBVIOUS
      <3>2. n \in 0..m - 1 /\ n \in 0..Len(r) - 1 /\ FlatTo(r, n) = FlatTo(q, n) /\ r[n + 1] = q[n + 1]
        BY <1>1, <3>1
      <3> QED  BY <1>2, <1>3, <3>2
    <2>3. T \in SUBSET Nat
      OBVIOUS
    <2> HIDE DEF T
    <2> QED  BY <2>1, <2>2, <2>3, Upwards
  <1>5. FlatTo(r, m) = FlatTo(q, m) /\ m \in 0..Len(r) - 1 /\ m \in 0..m
    <2>1. m \in T
      <3> HIDE DEF T
      <3> QED  BY <1>1, <1>4
    <2> QED  BY <1>1, <2>1
  <1>6. FlatTo(r, m + 1) = FlatTo(r, m) \o b
    BY <1>1, <1>3, <1>5
  <1> QED  BY <1>1, <1>2, <1>3, <1>5, <1>6 DEF r

(* ... and one that leaves it came first.                                  *)
LEMMA FlatTail ==
    ASSUME NEW X, NEW q \in Seq(Seq(X)), q # <<>>
    PROVE  FlattenSeq(q) = Head(q) \o FlattenSeq(Tail(q)) /\ FlattenSeq(Tail(q)) \in Seq(X)
  <1> DEFINE r == Tail(q)
             m == Len(r)
             h == Head(q)
  <1>1. /\ m \in Nat /\ r \in Seq(Seq(X)) /\ Len(q) = m + 1 /\ q[1] = h /\ h \in Seq(X)
        /\ \A i \in 1..m : r[i] = q[i + 1]
    BY HeadTailProperties
  <1>2. /\ FlattenSeq(q) = FlatTo(q, Len(q))
        /\ \A n \in 0..Len(q) - 1 : FlatTo(q, n + 1) = FlatTo(q, n) \o q[n + 1]
    BY FlatSteps
  <1> HIDE DEF r, h
  <1>3. /\ FlattenSeq(r) = FlatTo(r, m)
        /\ \A n \in 0..m - 1 : FlatTo(r, n + 1) = FlatTo(r, n) \o r[n + 1]
        /\ \A n \in 0..m : FlatTo(r, n) \in Seq(X)
    BY <1>1, FlatSteps
  <1> HIDE DEF m
  <1> DEFINE T == {n \in Nat : n <= m => FlatTo(q, n + 1) = h \o FlatTo(r, n)}
  <1>4. T = Nat
    <2>1. 0 \in T
      <3>0. 0 \in 0..Len(q) - 1
        BY <1>1
      <3>1. FlatTo(q, 0 + 1) = FlatTo(q, 0) \o q[0 + 1]
        BY <1>2, <3>0
      <3>2. h \o <<>> = h /\ <<>> \o h = h
        BY <1>1, ConcatEmptySeq
      <3> QED  BY <1>1, <3>1, <3>2 DEF FlatTo
    <2>2. ASSUME NEW n \in T PROVE n + 1 \in T
      <3>1. SUFFICES ASSUME n + 1 <= m PROVE FlatTo(q, (n + 1) + 1) = h \o FlatTo(r, n + 1)
        OBVIOUS
      <3>2. /\ n \in 0..m - 1 /\ n \in 0..m /\ n + 1 \in 0..Len(q) - 1
            /\ FlatTo(q, n + 1) = h \o FlatTo(r, n) /\ r[n + 1] = q[(n + 1) + 1]
        BY <1>1, <3>1
      <3>3. FlatTo(q, (n + 1) + 1) = (h \o FlatTo(r, n)) \o r[n + 1]
        BY <1>2, <3>2
      <3>4. FlatTo(r, n) \in Seq(X) /\ r[n + 1] \in Seq(X)
        BY <1>1, <1>3, <3>2
      <3> DEFINE x == FlatTo(r, n)
                 y == r[n + 1]
      <3>5. x \in Seq(X) /\ y \in Seq(X)
        BY <3>4
      <3> HIDE DEF x, y
      <3>6. (h \o x) \o y = h \o (x \o y)
        <4>1. Regroups(X)
          BY Regroup
        <4>2. h \in Seq(X)
          BY <1>1
        <4> QED  BY ONLY <3>5, <4>1, <4>2 DEF Regroups
      <3> QED  BY <1>3, <3>2, <3>3, <3>6 DEF x, y
    <2>3. T \in SUBSET Nat
      OBVIOUS
    <2> HIDE DEF T
    <2> QED  BY <2>1, <2>2, <2>3, Upwards
  <1>5. FlatTo(q, m + 1) = h \o FlatTo(r, m) /\ m \in 0..m
    <2>1. m \in T
      <3> HIDE DEF T
      <3> QED  BY <1>1, <1>4
    <2> QED  BY <1>1, <2>1
  <1> QED  BY <1>1, <1>2, <1>3, <1>5 DEF r, h

-----------------------------------------------------------------------------
(* Origin mode.  The rows between the parser and GetTx, and how many GetTx *)
(* has returned.                                                           *)
Items == 1..rows \cup {Nil}
Taken == parsed - Len(csv) - Len(tx)

OriginTypes ==
    /\ rows \in Nat /\ parsed \in 0..rows
    /\ csvClosed \in BOOLEAN /\ txClosed \in BOOLEAN /\ tested \in BOOLEAN
    /\ csv \in Seq(Nat) /\ tx \in Seq(Nat)
    /\ used \in Seq(Items) /\ batch \in Seq(Items) /\ queue \in Seq(Seq(Items))

(* Both channels together hold the rows after the ones taken, in order.    *)
InChannels ==
    /\ Len(csv) + Len(tx) <= parsed
    /\ \A i \in DOMAIN tx : tx[i] = Taken + i
    /\ \A i \in DOMAIN csv : csv[i] = Taken + Len(tx) + i

(* Each channel is closed behind its last row.                             *)
ClosedBehind ==
    /\ csvClosed => parsed = rows
    /\ txClosed => csvClosed /\ csv = <<>>

(* The reader has used every second row that it has taken.                 *)
EverySecond ==
    /\ Len(Flow) <= (rows + 1) \div 2
    /\ Taken = IF tested THEN 2 * Len(Flow) + 1
               ELSE IF 2 * Len(Flow) <= rows THEN 2 * Len(Flow) ELSE rows
    /\ \A i \in DOMAIN Flow : Flow[i] = IF 2 * i <= rows THEN 2 * i ELSE Nil

OriginInv == mode = "origin" => OriginTypes /\ InChannels /\ ClosedBehind /\ EverySecond

(* Sending and taking a batch change nothing about what has been read.     *)
LEMMA FlowGoes ==
    ASSUME NEW X, used \in Seq(X), batch \in Seq(X), queue \in Seq(Seq(X))
    PROVE  /\ Flow \in Seq(X)
           /\ SendBatch => Flow' = Flow /\ queue' \in Seq(Seq(X)) /\ batch' \in Seq(X)
           /\ TakeBatch => Flow' = Flow /\ queue' \in Seq(Seq(X)) /\ used' \in Seq(X)
           /\ \A g \in Seq(X) : used' = used /\ queue' = queue /\ batch' = batch \o g
                    => Flow' = Flow \o g
  <1> DEFINE f == FlattenSeq(queue)
  <1>0. used \in Seq(X) /\ batch \in Seq(X) /\ queue \in Seq(Seq(X))
    OBVIOUS
  <1>1. f \in Seq(X) /\ FlattenSeq(Append(queue, batch)) = f \o batch
    BY <1>0, FlatAppend
  <1>2. used \o f \in Seq(X) /\ Flow = (used \o f) \o batch /\ Flow \in Seq(X)
    BY <1>0, <1>1, ConcatProperties DEF Flow
  <1>3. ASSUME SendBatch
        PROVE  Flow' = Flow /\ queue' \in Seq(Seq(X)) /\ batch' \in Seq(X)
    <2>1. used' = used /\ queue' = Append(queue, batch) /\ batch' = <<>>
      BY <1>3 DEF SendBatch
    <2>2. FlattenSeq(queue') = f \o batch
      BY <1>1, <2>1
    <2>3. Flow' = (used \o (f \o batch)) \o <<>>
      BY <2>1, <2>2 DEF Flow
    <2>4. f \o batch \in Seq(X)
      BY <1>0, <1>1, ConcatProperties
    <2> HIDE DEF f
    <2>5. (used \o f) \o batch = used \o (f \o batch)
      <3>1. Regroups(X)
        BY Regroup
      <3> QED  BY <1>0, <1>1, <3>1, Zenon DEF Regroups
    <2>6. Flow \o <<>> = Flow
      BY <1>2, ConcatEmptySeq
    <2> QED  BY <1>0, <1>2, <2>1, <2>3, <2>5, <2>6, AppendProperties
  <1>4. ASSUME TakeBatch
        PROVE  Flow' = Flow /\ queue' \in Seq(Seq(X)) /\ used' \in Seq(X)
    <2> DEFINE h == Head(queue)
               g == FlattenSeq(Tail(queue))
    <2>1. /\ queue # <<>> /\ used' = used \o h /\ queue' = Tail(queue) /\ batch' = batch
      BY <1>4 DEF TakeBatch
    <2>2. f = h \o g /\ g \in Seq(X)
      BY <1>0, <2>1, FlatTail
    <2>3. h \in Seq(X) /\ Tail(queue) \in Seq(Seq(X))
      BY <1>0, <2>1, HeadTailProperties
    <2>4. FlattenSeq(queue') = g
      BY <2>1
    <2>5. Flow' = ((used \o h) \o g) \o batch
      BY <2>1, <2>4 DEF Flow
    <2> HIDE DEF f, g, h
    <2>6. (used \o h) \o g = used \o (h \o g)
      <3>1. used \in Seq(X) /\ h \in Seq(X) /\ g \in Seq(X)
        BY <1>0, <2>2, <2>3
      <3>2. Regroups(X)
        BY Regroup
      <3> QED  BY ONLY <3>1, <3>2 DEF Regroups
    <2>7. used \o h \in Seq(X)
      BY <1>0, <2>3, ConcatProperties
    <2>8. Flow' = Flow
      <3>1. (used \o h) \o g = used \o f
        BY <2>2, <2>6
      <3> QED  BY <1>2, <2>5, <3>1
    <2>9. queue' \in Seq(Seq(X)) /\ used' \in Seq(X)
      BY <2>1, <2>3, <2>7
    <2> QED  BY <2>8, <2>9
  <1>5. ASSUME NEW g \in Seq(X), used' = used /\ queue' = queue /\ batch' = batch \o g
        PROVE  Flow' = Flow \o g
    <2>1. Flow' = (used \o f) \o (batch \o g)
      BY <1>5 DEF Flow
    <2> HIDE DEF f
    <2> DEFINE x == used \o f
    <2>2. x \in Seq(X)
      BY <1>2
    <2> HIDE DEF x
    <2>3. (x \o batch) \o g = x \o (batch \o g)
      <3>1. Regroups(X)
        BY Regroup
      <3> QED  BY <1>0, <2>2, <3>1, Zenon DEF Regroups
    <2> QED  BY <1>2, <2>1, <2>3 DEF x
  <1> QED  BY <1>2, <1>3, <1>4, <1>5

(* So it is in origin mode, where one item at a time is read.              *)
LEMMA FlowMoves ==
    ASSUME OriginTypes
    PROVE  /\ Flow \in Seq(Items)
           /\ SendBatch => Flow' = Flow /\ queue' \in Seq(Seq(Items)) /\ batch' \in Seq(Items)
           /\ TakeBatch => Flow' = Flow /\ queue' \in Seq(Seq(Items)) /\ used' \in Seq(Items)
           /\ \A t \in Items : used' = used /\ queue' = queue /\ batch' = Append(batch, t)
                    => Flow' = Append(Flow, t)
  <1>1. PICK X : X = Items
    OBVIOUS
  <1>2. used \in Seq(X) /\ batch \in Seq(X) /\ queue \in Seq(Seq(X))
    BY <1>1 DEF OriginTypes
  <1>3. /\ Flow \in Seq(X)
        /\ SendBatch => Flow' = Flow /\ queue' \in Seq(Seq(X)) /\ batch' \in Seq(X)
        /\ TakeBatch => Flow' = Flow /\ queue' \in Seq(Seq(X)) /\ used' \in Seq(X)
        /\ \A g \in Seq(X) : used' = used /\ queue' = queue /\ batch' = batch \o g => Flow' = Flow \o g
    BY <1>2, FlowGoes
  <1>4. ASSUME NEW t \in X, used' = used /\ queue' = queue /\ batch' = Append(batch, t)
        PROVE  Flow' = Append(Flow, t)
    <2>1. <<t>> \in Seq(X) /\ Append(batch, t) = batch \o <<t>>
      BY <1>2, AppendIsConcat
    <2>2. Flow' = Flow \o <<t>>
      BY <1>3, <1>4, <2>1
    <2>3. Append(Flow, t) = Flow \o <<t>>
      BY <1>3, AppendIsConcat
    <2> QED  BY <2>2, <2>3
  <1> QED  BY <1>1, <1>3, <1>4

(* GetTx returns the next row, or nothing after the last one.              *)
LEMMA GotNext ==
    ASSUME OriginTypes, InChannels, ClosedBehind, NEW t, Got(t), UNCHANGED <<rows, parsed, csv>>
    PROVE  /\ tx' \in Seq(Nat)
           /\ \/ /\ t = Taken + 1 /\ Taken' = Taken + 1 /\ Taken < rows
                 /\ Len(csv) + Len(tx') <= parsed
                 /\ \A i \in DOMAIN tx' : tx'[i] = Taken + 1 + i
                 /\ Len(tx') = Len(tx) - 1
              \/ t = Nil /\ Taken = rows /\ tx' = tx /\ txClosed
  <1>0. rows \in Nat /\ parsed \in 0..rows /\ csv \in Seq(Nat) /\ tx \in Seq(Nat)
    BY ONLY OriginTypes DEF OriginTypes
  <1>9. Len(csv) \in Nat /\ Len(tx) \in Nat
    <2>1. csv \in Seq(Nat) /\ tx \in Seq(Nat)
      BY <1>0
    <2> QED  BY ONLY <2>1
  <1>1. /\ rows \in Nat /\ parsed \in 0..rows /\ Len(csv) \in Nat /\ Len(tx) \in Nat
        /\ tx \in Seq(Nat)
    BY ONLY <1>0, <1>9, Zenon
  <1>2. CASE tx # <<>>
    <2>1. t = Head(tx) /\ tx' = Tail(tx)
      BY <1>2 DEF Got
    <2>2. /\ Head(tx) = tx[1] /\ 1 \in DOMAIN tx /\ Len(Tail(tx)) = Len(tx) - 1
          /\ Tail(tx) \in Seq(Nat) /\ Len(tx) > 0
          /\ DOMAIN Tail(tx) = 1..Len(tx) - 1
          /\ \A i \in 1..Len(tx) - 1 : Tail(tx)[i] = tx[i + 1] /\ i + 1 \in DOMAIN tx
      BY <1>1, <1>2, HeadTailProperties
    <2>3. Taken' = Taken + 1 /\ Taken < rows /\ Taken \in Int
      BY <1>1, <2>1, <2>2 DEF Taken
    <2>4. ASSUME NEW i \in DOMAIN tx' PROVE tx'[i] = Taken + 1 + i
      <3>0. i \in 1..Len(tx) - 1
        BY <2>1, <2>2
      <3>1. i \in 1..Len(tx) - 1 /\ i + 1 \in DOMAIN tx /\ tx'[i] = tx[i + 1]
        BY <2>1, <2>2, <3>0
      <3>2. tx[i + 1] = Taken + (i + 1)
        BY <3>1 DEF InChannels
      <3> QED  BY <1>1, <2>3, <3>1, <3>2
    <2>5. t = Taken + 1
      BY <2>1, <2>2 DEF InChannels
    <2>6. Len(csv) + Len(tx') <= parsed
      BY <1>1, <2>1, <2>2 DEF InChannels
    <2> QED  BY <2>1, <2>2, <2>3, <2>4, <2>5, <2>6, Zenon
  <1>3. CASE tx = <<>>
    BY <1>1, <1>3 DEF Got, Taken, ClosedBehind
  <1> QED  BY <1>2, <1>3

(* Nothing has been read at the start.                                     *)
LEMMA InitOrigin == Init => OriginInv
  <1> SUFFICES ASSUME Init, mode = "origin"
               PROVE  OriginTypes /\ InChannels /\ ClosedBehind /\ EverySecond
    BY DEF OriginInv
  <1>1. /\ rows \in Nat /\ parsed = 0 /\ csv = <<>> /\ tx = <<>> /\ ~csvClosed /\ ~txClosed
        /\ ~tested /\ used = <<>> /\ batch = <<>> /\ queue = <<>>
        /\ csvClosed \in BOOLEAN /\ txClosed \in BOOLEAN /\ tested \in BOOLEAN
    BY FeedAssumption DEF Init
  <1>2. Flow = <<>>
    <2>1. FlattenSeq(queue) = <<>>
      BY <1>1 DEF FlattenSeq
    <2> QED  BY <1>1, <2>1 DEF Flow
  <1>3. OriginTypes
    BY <1>1 DEF OriginTypes
  <1>4. Taken = 0
    <2>1. Len(csv) = 0 /\ Len(tx) = 0 /\ parsed = 0
      <3>1. csv = <<>> /\ tx = <<>> /\ parsed = 0
        BY DEF Init
      <3> QED  BY <3>1
    <2> QED  BY <2>1 DEF Taken
  <1> QED  BY <1>1, <1>2, <1>3, <1>4 DEF InChannels, ClosedBehind, EverySecond

(* The parser, the converter and the two closing calls.                    *)
LEMMA ChannelsKeep ==
    ASSUME OriginTypes, InChannels, ClosedBehind, EverySecond, Parse \/ CloseCsv \/ Convert \/ CloseTx
    PROVE  OriginTypes' /\ InChannels' /\ ClosedBehind' /\ EverySecond'
  <1>0. /\ rows \in Nat /\ parsed \in 0..rows /\ Len(csv) \in Nat /\ Len(tx) \in Nat
        /\ csv \in Seq(Nat) /\ tx \in Seq(Nat)
        /\ DOMAIN csv = 1..Len(csv) /\ DOMAIN tx = 1..Len(tx)
    BY DEF OriginTypes
  <1>1. UNCHANGED <<used, queue, batch, tested, rows>>
    BY DEF Parse, CloseCsv, Convert, CloseTx, reader
  <1>2. Flow' = Flow /\ Items' = Items
    BY <1>1 DEF Flow, Items
  <1>3. CASE Parse
    <2>1. /\ parsed < rows /\ parsed' = parsed + 1 /\ csv' = Append(csv, parsed + 1)
          /\ UNCHANGED <<csvClosed, tx, txClosed>>
      BY <1>3 DEF Parse
    <2>2. /\ csv' \in Seq(Nat) /\ Len(csv') = Len(csv) + 1 /\ csv'[Len(csv) + 1] = parsed + 1
          /\ \A i \in 1..Len(csv) : csv'[i] = csv[i]
          /\ DOMAIN csv' = 1..Len(csv) + 1
      BY <1>0, <2>1, AppendProperties
    <2>3. Taken' = Taken /\ Taken \in Int /\ Len(csv') + Len(tx') <= parsed'
      <3>1. /\ parsed \in Int /\ Len(csv) \in Int /\ Len(tx) \in Int
            /\ parsed' = parsed + 1 /\ Len(csv') = Len(csv) + 1 /\ Len(tx') = Len(tx)
        BY <1>0, <2>1, <2>2
      <3>2. /\ Taken = parsed - Len(csv) - Len(tx) /\ Taken' = parsed' - Len(csv') - Len(tx')
            /\ Len(csv) + Len(tx) <= parsed
        BY DEF Taken, InChannels
      <3> QED  BY ONLY <3>1, <3>2
    <2>4. ASSUME NEW i \in DOMAIN csv' PROVE csv'[i] = Taken + Len(tx) + i
      <3>1. CASE i = Len(csv) + 1
        <4>1. csv'[i] = parsed + 1
          BY <2>2, <3>1
        <4>2. Taken = parsed - Len(csv) - Len(tx)
          BY DEF Taken
        <4>3. parsed \in Int /\ Len(csv) \in Int /\ Len(tx) \in Int
          BY <1>0
        <4>4. Taken + Len(tx) + (Len(csv) + 1) = parsed + 1
          BY ONLY <4>2, <4>3
        <4> QED  BY <3>1, <4>1, <4>4
      <3>2. CASE i # Len(csv) + 1
        <4>1. i \in DOMAIN csv /\ csv'[i] = csv[i]
          BY <1>0, <2>2, <3>2
        <4> QED  BY <4>1 DEF InChannels
      <3> QED  BY <3>1, <3>2
    <2>5. ClosedBehind'
      BY <1>0, <1>1, <2>1 DEF ClosedBehind, OriginTypes
    <2>6. parsed' \in 0..rows' /\ OriginTypes'
      <3>1. parsed' \in 0..rows'
        BY <1>0, <1>1, <2>1
      <3> QED  BY <1>1, <1>2, <2>1, <2>2, <3>1 DEF OriginTypes
    <2>7. InChannels'
      <3>1. tx' = tx /\ DOMAIN tx' = DOMAIN tx
        BY <2>1
      <3>2. \A i \in DOMAIN tx' : tx'[i] = Taken' + i
        BY <2>3, <3>1 DEF InChannels
      <3>3. \A i \in DOMAIN csv' : csv'[i] = Taken' + Len(tx') + i
        BY <2>3, <2>4, <3>1
      <3> QED  BY <2>3, <3>2, <3>3 DEF InChannels
    <2> QED  BY <1>1, <1>2, <2>3, <2>5, <2>6, <2>7 DEF EverySecond
  <1>4. CASE Convert
    <2>1. /\ csv # <<>> /\ tx' = Append(tx, Head(csv)) /\ csv' = Tail(csv)
          /\ UNCHANGED <<parsed, csvClosed, txClosed>>
      BY <1>4 DEF Convert
    <2>2. /\ Head(csv) = csv[1] /\ 1 \in DOMAIN csv /\ csv[1] \in Nat
          /\ Len(csv') = Len(csv) - 1 /\ csv' \in Seq(Nat) /\ Len(csv) > 0
          /\ DOMAIN csv' = 1..Len(csv) - 1
          /\ \A i \in 1..Len(csv) - 1 : csv'[i] = csv[i + 1] /\ i + 1 \in DOMAIN csv
      BY <1>0, <2>1, HeadTailProperties
    <2>3. /\ tx' \in Seq(Nat) /\ Len(tx') = Len(tx) + 1 /\ tx'[Len(tx) + 1] = csv[1]
          /\ \A i \in 1..Len(tx) : tx'[i] = tx[i]
          /\ DOMAIN tx' = 1..Len(tx) + 1
      BY <1>0, <2>1, <2>2, AppendProperties
    <2>4. Taken' = Taken /\ Taken \in Int /\ Len(csv') + Len(tx') <= parsed'
      <3>1. /\ parsed \in Int /\ Len(csv) \in Int /\ Len(tx) \in Int
            /\ parsed' = parsed /\ Len(csv') = Len(csv) - 1 /\ Len(tx') = Len(tx) + 1
        BY <1>0, <2>1, <2>2, <2>3
      <3>2. /\ Taken = parsed - Len(csv) - Len(tx) /\ Taken' = parsed' - Len(csv') - Len(tx')
            /\ Len(csv) + Len(tx) <= parsed
        BY DEF Taken, InChannels
      <3> QED  BY ONLY <3>1, <3>2
    <2>5. ASSUME NEW i \in DOMAIN csv' PROVE csv'[i] = Taken + Len(tx') + i
      <3>0. i \in 1..Len(csv) - 1 /\ i \in Int
        BY ONLY i \in DOMAIN csv', <1>0, <2>2
      <3>1. i \in Int /\ i + 1 \in DOMAIN csv /\ csv'[i] = csv[i + 1]
        BY <2>2, <3>0
      <3>2. csv[i + 1] = Taken + Len(tx) + (i + 1)
        BY <3>1 DEF InChannels
      <3> QED  BY <1>0, <2>3, <2>4, <3>1, <3>2
    <2>6. ASSUME NEW i \in DOMAIN tx' PROVE tx'[i] = Taken + i
      <3>1. CASE i = Len(tx) + 1
        <4>1. csv[1] = Taken + Len(tx) + 1
          BY <2>2 DEF InChannels
        <4> QED  BY <1>0, <2>3, <2>4, <3>1, <4>1
      <3>2. CASE i # Len(tx) + 1
        <4>1. i \in DOMAIN tx /\ tx'[i] = tx[i]
          BY <1>0, <2>3, <3>2
        <4> QED  BY <4>1 DEF InChannels
      <3> QED  BY <3>1, <3>2
    <2>7. ClosedBehind'
      BY <1>1, <2>1 DEF ClosedBehind
    <2> QED  BY <1>0, <1>1, <1>2, <2>1, <2>2, <2>3, <2>4, <2>5, <2>6, <2>7
             DEF OriginTypes, InChannels, EverySecond
  <1>5. CASE CloseCsv
    <2>1. parsed = rows /\ csvClosed' = TRUE /\ UNCHANGED <<parsed, csv, tx, txClosed>>
      BY <1>5 DEF CloseCsv
    <2> QED  BY <1>1, <1>2, <2>1 DEF OriginTypes, InChannels, ClosedBehind, EverySecond, Taken
  <1>6. CASE CloseTx
    <2>1. Converted /\ txClosed' = TRUE /\ UNCHANGED <<parsed, csvClosed, csv, tx>>
      BY <1>6 DEF CloseTx
    <2> QED  BY <1>1, <1>2, <2>1
             DEF OriginTypes, InChannels, ClosedBehind, EverySecond, Taken, Converted
  <1> QED  BY <1>3, <1>4, <1>5, <1>6

(* The two calls of GetTx: one row for the test, the next for the batch.   *)
LEMMA ReaderKeeps ==
    ASSUME OriginTypes, InChannels, ClosedBehind, EverySecond, TestTx \/ AddTx
    PROVE  OriginTypes' /\ InChannels' /\ ClosedBehind' /\ EverySecond'
  <1>0. /\ rows \in Nat /\ parsed \in 0..rows /\ Len(csv) \in Nat /\ Len(tx) \in Nat
        /\ csv \in Seq(Nat) /\ tx \in Seq(Nat) /\ tested \in BOOLEAN
        /\ DOMAIN csv = 1..Len(csv)
        /\ Flow \in Seq(Items) /\ Len(Flow) \in Nat /\ Taken \in Int
    BY FlowMoves DEF OriginTypes, Taken
  <1>1. UNCHANGED <<used, queue, rows, parsed, csv, csvClosed, txClosed>> /\ Items' = Items
    BY DEF TestTx, AddTx, Items
  <1>2. PICK t \in Items :
           /\ Got(t)
           /\ \/ ~tested /\ tested' = (t # Nil) /\ batch' = batch
              \/ tested /\ tested' = FALSE /\ batch' = Append(batch, t)
    BY DEF TestTx, AddTx, Items
  <1>3. /\ tx' \in Seq(Nat)
        /\ \/ /\ t = Taken + 1 /\ Taken' = Taken + 1 /\ Taken < rows
              /\ Len(csv) + Len(tx') <= parsed
              /\ \A i \in DOMAIN tx' : tx'[i] = Taken + 1 + i
              /\ Len(tx') = Len(tx) - 1
           \/ t = Nil /\ Taken = rows /\ tx' = tx /\ txClosed
    BY <1>1, <1>2, GotNext
  <1>4. InChannels' /\ ClosedBehind'
    <2>1. CASE tx' = tx
      BY <1>1, <2>1 DEF InChannels, ClosedBehind, Taken
    <2>2. CASE tx' # tx
      <3>1. /\ Taken' = Taken + 1 /\ Len(tx') = Len(tx) - 1
            /\ Len(csv) + Len(tx') <= parsed
            /\ \A i \in DOMAIN tx' : tx'[i] = Taken + 1 + i
        BY <1>3, <2>2
      <3>2. Taken' + Len(tx') = Taken + Len(tx)
        BY <1>0, <3>1
      <3>3. \A i \in DOMAIN csv : csv[i] = (Taken + Len(tx)) + i
        BY DEF InChannels
      <3>4. \A i \in DOMAIN csv' : csv'[i] = (Taken' + Len(tx')) + i
        BY <1>1, <3>2, <3>3
      <3>5. \A i \in DOMAIN tx' : tx'[i] = Taken' + i
        BY <3>1
      <3>6. Len(csv') + Len(tx') <= parsed'
        BY <1>1, <3>1
      <3>7. InChannels'
        BY <3>4, <3>5, <3>6 DEF InChannels
      <3>8. ClosedBehind'
        BY <1>0, <1>1, <3>1, <3>7 DEF ClosedBehind
      <3> QED  BY <3>7, <3>8
    <2> QED  BY <2>1, <2>2
  <1>5. Taken' = IF t = Nil THEN rows ELSE Taken + 1
    <2>1. CASE t = Nil /\ Taken = rows /\ tx' = tx
      BY <1>1, <2>1 DEF Taken
    <2>2. CASE t = Taken + 1 /\ Taken' = Taken + 1 /\ Taken < rows
      <3>1. t # Nil
        <4>1. Taken \in Nat
          BY <1>0 DEF InChannels, Taken
        <4> QED  BY <2>2, <4>1, FeedAssumption
      <3> QED  BY <2>2, <3>1
    <2> QED  BY <1>3, <2>1, <2>2
  <1>6. t # Nil => t = Taken + 1 /\ Taken < rows
    BY <1>3
  <1>7. t = Nil => Taken = rows
    <2>1. Taken \in Nat
      BY <1>0 DEF InChannels, Taken
    <2> QED  BY <1>3, <2>1, FeedAssumption
  <1>8. CASE ~tested
    <2>1. ~tested /\ tested' = (t # Nil) /\ batch' = batch
      BY <1>2, <1>8
    <2>2. Flow' = Flow
      BY <1>1, <2>1 DEF Flow
    <2>3. EverySecond'
      <3>1. CASE t = Nil
        <4>1. Taken' = rows /\ Taken = rows /\ ~tested'
          BY <1>5, <1>7, <2>1, <3>1
        <4> QED  BY <1>0, <1>1, <2>1, <2>2, <4>1 DEF EverySecond
      <3>2. CASE t # Nil
        <4>1. Taken' = Taken + 1 /\ Taken < rows /\ tested'
          BY <1>5, <1>6, <2>1, <3>2
        <4>2. Taken = 2 * Len(Flow)
          BY <1>0, <2>1, <4>1 DEF EverySecond
        <4> QED  BY <1>0, <1>1, <2>2, <4>1, <4>2 DEF EverySecond
      <3> QED  BY <3>1, <3>2
    <2>4. OriginTypes'
      BY <1>1, <1>3, <2>1 DEF OriginTypes
    <2> QED  BY <1>4, <2>3, <2>4
  <1>9. CASE tested
    <2> DEFINE n == Len(Flow)
    <2>1. tested /\ tested' = FALSE /\ batch' = Append(batch, t)
      BY <1>2, <1>9
    <2>2. Flow' = Append(Flow, t)
      BY <1>1, <2>1, FlowMoves
    <2>3. /\ Len(Flow') = n + 1 /\ Flow'[n + 1] = t /\ DOMAIN Flow' = 1..n + 1
          /\ DOMAIN Flow = 1..n /\ n \in Nat
          /\ \A i \in 1..n : Flow'[i] = Flow[i]
      BY <1>0, <2>2, AppendProperties
    <2>4. Taken = 2 * n + 1
      BY <2>1 DEF EverySecond
    <2> HIDE DEF n
    <2>5. t = IF 2 * (n + 1) <= rows THEN 2 * (n + 1) ELSE Nil
      <3>1. CASE t = Nil
        BY <1>0, <1>7, <2>3, <2>4, <3>1
      <3>2. CASE t # Nil
        BY <1>0, <1>6, <2>3, <2>4, <3>2
      <3> QED  BY <3>1, <3>2
    <2>6. n + 1 <= (rows + 1) \div 2
      <3>1. 2 * n + 1 <= rows
        <4>1. Taken <= rows
          BY <1>0 DEF Taken
        <4> QED  BY <2>4, <4>1
      <3> QED  BY <1>0, <2>3, <3>1
    <2>7. Taken' = IF 2 * (n + 1) <= rows THEN 2 * (n + 1) ELSE rows
      <3>1. CASE t = Nil
        BY <1>0, <1>5, <1>7, <2>3, <2>4, <3>1
      <3>2. CASE t # Nil
        BY <1>0, <1>5, <1>6, <2>3, <2>4, <3>2
      <3> QED  BY <3>1, <3>2
    <2>8. ASSUME NEW i \in 1..n + 1 PROVE Flow'[i] = IF 2 * i <= rows THEN 2 * i ELSE Nil
      <3>1. CASE i = n + 1
        BY <2>3, <2>5, <3>1
      <3>2. CASE i # n + 1
        <4>1. i \in 1..n
          BY <2>3, <3>2
        <4> QED  BY <2>3, <4>1 DEF EverySecond
      <3> QED  BY <3>1, <3>2
    <2>9. EverySecond'
      BY <1>1, <2>1, <2>3, <2>6, <2>7, <2>8 DEF EverySecond
    <2>10. OriginTypes'
      <3>1. batch' \in Seq(Items)
        BY <2>1, AppendProperties DEF OriginTypes
      <3> QED  BY <1>1, <1>3, <2>1, <3>1 DEF OriginTypes
    <2> QED  BY <1>4, <2>9, <2>10
  <1> QED  BY <1>8, <1>9

(* Each step of the parser, of the converter, of the reader and of the     *)
(* generator keeps the channels in order.                                  *)
LEMMA NextOrigin == OriginInv /\ [Next]_vars => OriginInv'
  <1> SUFFICES ASSUME OriginInv, [Next]_vars, mode' = "origin"
               PROVE  OriginTypes' /\ InChannels' /\ ClosedBehind' /\ EverySecond'
    BY DEF OriginInv
  <1>1. mode' = mode
    BY DEF Next, Simulate, Leader, Parse, CloseCsv, Convert, CloseTx, TestTx, AddTx, ReadItem,
           ReadNothing, RandomTx, SendBatch, TakeBatch, vars
  <1>2. OriginTypes /\ InChannels /\ ClosedBehind /\ EverySecond
    BY <1>1 DEF OriginInv
  <1>3. CASE Parse \/ CloseCsv \/ Convert \/ CloseTx
    BY <1>2, <1>3, ChannelsKeep
  <1>4. CASE TestTx \/ AddTx
    BY <1>2, <1>4, ReaderKeeps
  <1>5. CASE SendBatch
    <2>1. UNCHANGED <<rows, parsed, csvClosed, csv, tx, txClosed, tested, used>>
      BY <1>5 DEF SendBatch, channels
    <2>2. Flow' = Flow /\ queue' \in Seq(Seq(Items)) /\ batch' \in Seq(Items)
      BY <1>2, <1>5, FlowMoves
    <2>3. Items' = Items /\ Taken' = Taken
      BY <2>1 DEF Items, Taken
    <2> QED  BY <1>2, <2>1, <2>2, <2>3 DEF OriginTypes, InChannels, ClosedBehind, EverySecond
  <1>6. CASE TakeBatch
    <2>1. UNCHANGED <<rows, parsed, csvClosed, csv, tx, txClosed, tested, batch>>
      BY <1>6 DEF TakeBatch, channels
    <2>2. Flow' = Flow /\ queue' \in Seq(Seq(Items)) /\ used' \in Seq(Items)
      BY <1>2, <1>6, FlowMoves
    <2>3. Items' = Items /\ Taken' = Taken
      BY <2>1 DEF Items, Taken
    <2> QED  BY <1>2, <2>1, <2>2, <2>3 DEF OriginTypes, InChannels, ClosedBehind, EverySecond
  <1>7. CASE UNCHANGED vars
    <2>1. UNCHANGED <<rows, parsed, csvClosed, csv, tx, txClosed, tested, batch, queue, used>>
      BY <1>7 DEF vars, channels, reader
    <2>2. Flow' = Flow /\ Items' = Items /\ Taken' = Taken
      BY <2>1 DEF Flow, Items, Taken
    <2> QED  BY <1>2, <2>1, <2>2 DEF OriginTypes, InChannels, ClosedBehind, EverySecond
  <1> QED  BY <1>1, <1>3, <1>4, <1>5, <1>6, <1>7
         DEF Next, Simulate, Leader, ReadItem, ReadNothing, RandomTx

(* Whatever the three goroutines and their channels do, in origin mode the *)
(* generator gets every second row, in order, and one nil transaction if   *)
(* the data set is of odd length (GetTx called twice per item,             *)
(* block_generator.go, lines 43 to 45).                                    *)
THEOREM HalfArrives == Spec => [](OriginInv /\ EverySecondRow)
  <1>1. OriginInv => EverySecondRow
    BY DEF OriginInv, EverySecond, EverySecondRow
  <1> QED  BY <1>1, InitOrigin, NextOrigin, PTL DEF Spec

-----------------------------------------------------------------------------
(* The simulator.  Its rows, as functions of how far a reader has come.    *)
NoteType == [note : Nat, value : Nat, seen : Nat]
PlainRow == [kind : {"USDT", "BG", "BT", "BR"}, note : Nat, value : Nat, owner : Accounts]
HalvingRow == [kind : {"BS"}, from : Nat, owner : Accounts,
               note : Nat, value : Nat, note2 : Nat, value2 : Nat]
RowType == PlainRow \cup HalvingRow \cup {Sep}

(* The two folds of the model: what rows have moved, and what they leave.  *)
FoldStep(sums, x, r) == IF sums THEN x + Moves(r) ELSE After(x, r)
IsFold(sums, base, q, g) ==
    g = [s \in SUBSET DOMAIN q |->
            IF s = {} THEN base ELSE FoldStep(sums, g[s \ {Max(s)}], q[Max(s)])]

(* A fold goes through a sequence of any length.                           *)
LEMMA FoldExists ==
    ASSUME NEW sums, NEW base, NEW q, Len(q) \in Nat, DOMAIN q = 1..Len(q)
    PROVE  \E g : IsFold(sums, base, q, g)
  <1> DEFINE St(g, s) == IF s = {} THEN base ELSE FoldStep(sums, g[s \ {Max(s)}], q[Max(s)])
             Upto(n, g) == \A s \in SUBSET (1..n) : g[s] = St(g, s)
             Good == {n \in Nat : \E g : Upto(n, g)}
  <1>0. ASSUME NEW n \in Nat, NEW s \in SUBSET (1..n + 1), s # {}
        PROVE  s \ {Max(s)} \in SUBSET (1..n)
    <2>1. Max(s) \in s /\ \A m \in s : m <= Max(s)
      <3>1. n + 1 \in Nat
        OBVIOUS
      <3> QED  BY <1>0, <3>1, MaxIn
    <2>2. \A m \in s : m \in 1..n + 1
      BY <1>0
    <2>3. ASSUME NEW m \in s, m # Max(s) PROVE m \in 1..n
      <3>1. m \in 1..n + 1 /\ Max(s) \in 1..n + 1 /\ m <= Max(s)
        BY <2>1, <2>2
      <3> QED  BY <2>3, <3>1
    <2> QED  BY <2>3
  <1>1. 0 \in Good
    <2>1. Upto(0, [s \in SUBSET (1..0) |-> base])
      OBVIOUS
    <2> HIDE DEF Upto
    <2> QED  BY <2>1
  <1>2. ASSUME NEW n \in Good PROVE n + 1 \in Good
    <2>1. n \in Nat /\ \E g : Upto(n, g)
      OBVIOUS
    <2>2. PICK g : Upto(n, g)
      BY <2>1
    <2> DEFINE h == [s \in SUBSET (1..n + 1) |-> IF s \in SUBSET (1..n) THEN g[s] ELSE St(g, s)]
    <2>3. ASSUME NEW s \in SUBSET (1..n + 1) PROVE h[s] = St(h, s)
      <3>1. h[s] = St(g, s)
        BY <2>2
      <3>2. CASE s = {}
        BY <3>1, <3>2
      <3>3. CASE s # {}
        <4>1. s \ {Max(s)} \in SUBSET (1..n) /\ s \ {Max(s)} \in SUBSET (1..n + 1)
          BY <1>0, <2>1, <3>3
        <4>2. h[s \ {Max(s)}] = g[s \ {Max(s)}]
          BY <4>1
        <4> HIDE DEF h
        <4> QED  BY <3>1, <3>3, <4>2
      <3> QED  BY <3>2, <3>3
    <2>4. n + 1 \in Nat /\ Upto(n + 1, h)
      <3> HIDE DEF h, St
      <3> QED  BY <2>1, <2>3
    <2> HIDE DEF h, Upto
    <2> QED  BY <2>4
  <1>3. PICK g : Upto(Len(q), g)
    <2> HIDE DEF Upto
    <2>1. Good \in SUBSET Nat
      OBVIOUS
    <2>2. Good = Nat
      <3> HIDE DEF Good
      <3> QED  BY <1>1, <1>2, <2>1, Upwards
    <2> QED  BY <2>2
  <1> DEFINE h == [s \in SUBSET DOMAIN q |-> g[s]]
  <1>4. ASSUME NEW s \in SUBSET DOMAIN q PROVE h[s] = St(h, s)
    <2>1. g[s] = St(g, s)
      BY <1>3
    <2>2. s \ {Max(s)} \in SUBSET DOMAIN q
      OBVIOUS
    <2>3. h[s] = g[s] /\ h[s \ {Max(s)}] = g[s \ {Max(s)}]
      BY <2>2
    <2> HIDE DEF h
    <2> QED  BY <2>1, <2>3
  <1>5. h = [s \in SUBSET DOMAIN q |-> h[s]]
    OBVIOUS
  <1>6. IsFold(sums, base, q, h)
    <2> HIDE DEF h
    <2> QED  BY <1>4, <1>5 DEF IsFold
  <1> HIDE DEF h
  <1> QED  BY <1>6

(* What the first n rows have moved, and what is known after them.         *)
IsMoved(q, g) ==
    g = [s \in SUBSET DOMAIN q |-> IF s = {} THEN 0 ELSE g[s \ {Max(s)}] + Moves(q[Max(s)])]
MovedTo(q, n) == (CHOOSE g : IsMoved(q, g))[1..n]
IsLedger(q, g) ==
    g = [s \in SUBSET DOMAIN q |-> IF s = {} THEN {} ELSE After(g[s \ {Max(s)}], q[Max(s)])]
LedgerTo(q, n) == (CHOOSE g : IsLedger(q, g))[1..n]

(* What rows have moved, row by row ...                                    *)
LEMMA MovedFolds ==
    ASSUME NEW q, Len(q) \in Nat, DOMAIN q = 1..Len(q)
    PROVE  /\ MovedBy(q) = MovedTo(q, Len(q))
           /\ MovedTo(q, 0) = 0
           /\ \A n \in 0..Len(q) - 1 : MovedTo(q, n + 1) = MovedTo(q, n) + Moves(q[n + 1])
  <1> DEFINE G == CHOOSE g : IsMoved(q, g)
  <1>1. MovedBy(q) = G[DOMAIN q]
    BY DEF MovedBy, FoldLeft, MapThenFoldSet, IsMoved
  <1>2. IsMoved(q, G)
    <2>1. \A g : IsFold(TRUE, 0, q, g) => IsMoved(q, g)
      BY DEF IsFold, IsMoved, FoldStep
    <2>2. \E g : IsMoved(q, g)
      BY <2>1, FoldExists
    <2> QED  BY <2>2
  <1>3. \A n : MovedTo(q, n) = G[1..n]
    BY DEF MovedTo
  <1> HIDE DEF G
  <1>4. G[1..0] = 0
    BY <1>2 DEF IsMoved
  <1>5. ASSUME NEW n \in 0..Len(q) - 1 PROVE G[1..n + 1] = G[1..n] + Moves(q[n + 1])
    <2>1. n \in Nat /\ 1..n + 1 \in SUBSET DOMAIN q
      OBVIOUS
    <2>2. Max(1..n + 1) = n + 1 /\ (1..n + 1) \ {n + 1} = 1..n /\ 1..n + 1 # {}
      BY <2>1, LastPlace
    <2>3. G[1..n + 1] = G[(1..n + 1) \ {Max(1..n + 1)}] + Moves(q[Max(1..n + 1)])
      BY <1>2, <2>1, <2>2 DEF IsMoved
    <2> QED  BY <2>2, <2>3
  <1> QED  BY <1>1, <1>3, <1>4, <1>5

(* ... and the ledger after them.                                          *)
LEMMA LedgerFolds ==
    ASSUME NEW q, Len(q) \in Nat, DOMAIN q = 1..Len(q)
    PROVE  /\ LedgerAfter(q) = LedgerTo(q, Len(q))
           /\ LedgerTo(q, 0) = {}
           /\ \A n \in 0..Len(q) - 1 : LedgerTo(q, n + 1) = After(LedgerTo(q, n), q[n + 1])
  <1> DEFINE G == CHOOSE g : IsLedger(q, g)
  <1>1. LedgerAfter(q) = G[DOMAIN q]
    BY DEF LedgerAfter, FoldLeft, MapThenFoldSet, IsLedger
  <1>2. IsLedger(q, G)
    <2>1. \A g : IsFold(FALSE, {}, q, g) => IsLedger(q, g)
      BY DEF IsFold, IsLedger, FoldStep
    <2>2. \E g : IsLedger(q, g)
      BY <2>1, FoldExists
    <2> QED  BY <2>2
  <1>3. \A n : LedgerTo(q, n) = G[1..n]
    BY DEF LedgerTo
  <1> HIDE DEF G
  <1>4. G[1..0] = {}
    BY <1>2 DEF IsLedger
  <1>5. ASSUME NEW n \in 0..Len(q) - 1 PROVE G[1..n + 1] = After(G[1..n], q[n + 1])
    <2>1. n \in Nat /\ 1..n + 1 \in SUBSET DOMAIN q
      OBVIOUS
    <2>2. Max(1..n + 1) = n + 1 /\ (1..n + 1) \ {n + 1} = 1..n /\ 1..n + 1 # {}
      BY <2>1, LastPlace
    <2>3. G[1..n + 1] = After(G[(1..n + 1) \ {Max(1..n + 1)}], q[Max(1..n + 1)])
      BY <1>2, <2>1, <2>2 DEF IsLedger
    <2> QED  BY <2>2, <2>3
  <1> QED  BY <1>1, <1>3, <1>4, <1>5

(* One more row: its part is added to what the rows before it have done.   *)
LEMMA FoldAppend ==
    ASSUME NEW X, NEW q \in Seq(X), NEW r \in X
    PROVE  /\ MovedBy(<<>>) = 0
           /\ MovedBy(Append(q, r)) = MovedBy(q) + Moves(r)
           /\ LedgerAfter(<<>>) = {}
           /\ LedgerAfter(Append(q, r)) = After(LedgerAfter(q), r)
  <1> DEFINE p == Append(q, r)
             m == Len(q)
  <1>1. /\ m \in Nat /\ Len(p) = m + 1 /\ p[m + 1] = r /\ DOMAIN q = 1..m /\ DOMAIN p = 1..m + 1
        /\ \A i \in 1..m : p[i] = q[i]
    BY AppendProperties
  <1>2. Len(<<>>) = 0 /\ DOMAIN <<>> = 1..0
    OBVIOUS
  <1>3. MovedBy(<<>>) = 0 /\ LedgerAfter(<<>>) = {}
    BY <1>2, MovedFolds, LedgerFolds
  <1> HIDE DEF p
  <1>4. /\ MovedBy(q) = MovedTo(q, m) /\ MovedTo(q, 0) = 0
        /\ \A n \in 0..m - 1 : MovedTo(q, n + 1) = MovedTo(q, n) + Moves(q[n + 1])
        /\ LedgerAfter(q) = LedgerTo(q, m) /\ LedgerTo(q, 0) = {}
        /\ \A n \in 0..m - 1 : LedgerTo(q, n + 1) = After(LedgerTo(q, n), q[n + 1])
    BY <1>1, MovedFolds, LedgerFolds
  <1>5. /\ MovedBy(p) = MovedTo(p, m + 1) /\ MovedTo(p, 0) = 0
        /\ \A n \in 0..m : MovedTo(p, n + 1) = MovedTo(p, n) + Moves(p[n + 1])
        /\ LedgerAfter(p) = LedgerTo(p, m + 1) /\ LedgerTo(p, 0) = {}
        /\ \A n \in 0..m : LedgerTo(p, n + 1) = After(LedgerTo(p, n), p[n + 1])
    <2>1. Len(p) \in Nat /\ DOMAIN p = 1..Len(p) /\ Len(p) - 1 = m
      BY <1>1
    <2> HIDE DEF m
    <2> QED  BY <1>1, <2>1, MovedFolds, LedgerFolds
  <1> HIDE DEF m
  <1> DEFINE T == {n \in Nat : n <= m => MovedTo(p, n) = MovedTo(q, n) /\ LedgerTo(p, n) = LedgerTo(q, n)}
  <1>6. T = Nat
    <2>1. 0 \in T
      BY <1>4, <1>5
    <2>2. ASSUME NEW n \in T PROVE n + 1 \in T
      <3>1. SUFFICES ASSUME n + 1 <= m
                     PROVE  MovedTo(p, n + 1) = MovedTo(q, n + 1) /\ LedgerTo(p, n + 1) = LedgerTo(q, n + 1)
        OBVIOUS
      <3>2. /\ n \in 0..m - 1 /\ n \in 0..m /\ n + 1 \in 1..m
            /\ MovedTo(p, n) = MovedTo(q, n) /\ LedgerTo(p, n) = LedgerTo(q, n)
        BY <1>1, <3>1
      <3> QED  BY <1>1, <1>4, <1>5, <3>2
    <2>3. T \in SUBSET Nat
      OBVIOUS
    <2> HIDE DEF T
    <2> QED  BY <2>1, <2>2, <2>3, Upwards
  <1>7. MovedTo(p, m) = MovedTo(q, m) /\ LedgerTo(p, m) = LedgerTo(q, m) /\ m \in 0..m
    <2>1. m \in T
      <3> HIDE DEF T
      <3> QED  BY <1>1, <1>6
    <2> QED  BY <1>1, <2>1
  <1> QED  BY <1>1, <1>3, <1>4, <1>5, <1>7 DEF p

(* A list without the element at one place.                                *)
LEMMA Without ==
    ASSUME NEW X, NEW s \in Seq(X), NEW i \in DOMAIN s
    PROVE  /\ RemoveAt(s, i) \in Seq(X) /\ Len(RemoveAt(s, i)) = Len(s) - 1
           /\ \A j \in 1..Len(s) - 1 : RemoveAt(s, i)[j] = IF j < i THEN s[j] ELSE s[j + 1]
  <1> DEFINE m == Len(s)
             x == SubSeq(s, 1, i - 1)
             y == SubSeq(s, i + 1, m)
  <1>1. m \in Nat /\ i \in 1..m /\ DOMAIN s = 1..m
    OBVIOUS
  <1>2. /\ x \in Seq(X) /\ Len(x) = i - 1 /\ \A j \in 1..i - 1 : x[j] = s[j]
    <2>1. 1 \in 1..m + 1 /\ i - 1 \in 1 - 1..m /\ (i - 1) - 1 + 1 = i - 1
      BY <1>1
    <2> QED  BY <1>1, <2>1, SubSeqProperties
  <1>3. /\ y \in Seq(X) /\ Len(y) = m - i /\ \A j \in 1..m - i : y[j] = s[i + j]
    <2>1. /\ i + 1 \in Int /\ m \in Int
          /\ \A k \in i + 1..m : s[k] \in X
      BY <1>1
    <2>2. /\ y \in Seq(X) /\ Len(y) = IF i + 1 <= m THEN m - (i + 1) + 1 ELSE 0
          /\ \A j \in 1..m - (i + 1) + 1 : y[j] = s[(i + 1) + j - 1]
      BY <2>1, SubSeqProperties
    <2> HIDE DEF m, x, y
    <2>3. m - (i + 1) + 1 = m - i /\ (~ (i + 1 <= m) => m - i = 0)
      BY ONLY <1>1
    <2>4. ASSUME NEW j \in 1..m - i PROVE y[j] = s[i + j]
      <3>1. j \in 1..m - (i + 1) + 1
        BY <2>3
      <3>2. (i + 1) + j - 1 = i + j
        BY <1>1
      <3> QED  BY <2>2, <3>1, <3>2
    <2> QED  BY <2>2, <2>3, <2>4
  <1>4. RemoveAt(s, i) = x \o y
    BY DEF RemoveAt
  <1> HIDE DEF m, x, y
  <1>5. /\ x \o y \in Seq(X) /\ Len(x \o y) = m - 1
        /\ \A j \in 1..Len(x) + Len(y) : (x \o y)[j] = IF j <= Len(x) THEN x[j] ELSE y[j - Len(x)]
    <2>1. /\ x \o y \in Seq(X) /\ Len(x \o y) = Len(x) + Len(y)
          /\ \A j \in 1..Len(x) + Len(y) : (x \o y)[j] = IF j <= Len(x) THEN x[j] ELSE y[j - Len(x)]
      BY <1>2, <1>3, ConcatProperties
    <2>2. Len(x) + Len(y) = m - 1
      BY <1>1, <1>2, <1>3
    <2> QED  BY <2>1, <2>2
  <1>6. ASSUME NEW j \in 1..m - 1 PROVE (x \o y)[j] = IF j < i THEN s[j] ELSE s[j + 1]
    <2>1. j \in 1..Len(x) + Len(y)
      BY <1>1, <1>2, <1>3
    <2>2. CASE j < i
      BY <1>1, <1>2, <1>5, <2>1, <2>2
    <2>3. CASE ~ (j < i)
      <3>1. j - Len(x) \in 1..m - i /\ ~ (j <= Len(x)) /\ i + (j - Len(x)) = j + 1
        <4> DEFINE k == Len(x)
        <4>1. /\ k = i - 1 /\ m \in Int /\ i \in Int /\ 1 <= i /\ i <= m
              /\ j \in Int /\ j <= m - 1 /\ i <= j
          BY <1>1, <1>2, <2>3
        <4> HIDE DEF k
        <4>2. j - k \in 1..m - i /\ ~ (j <= k) /\ i + (j - k) = j + 1
          BY ONLY <4>1
        <4> QED  BY <4>2 DEF k
      <3> QED  BY <1>3, <1>5, <2>1, <2>3, <3>1
    <2> QED  BY <2>2, <2>3
  <1> QED  BY <1>4, <1>5, <1>6 DEF m

-----------------------------------------------------------------------------
SimTypes ==
    /\ wallet \in [Accounts -> Seq(NoteType)] /\ owners \in Seq(Accounts) /\ drawn \in Nat
    /\ step \in {"next", "exact", "gather", "end", "finalize", "block", "flush", "over"}
    /\ step \in {"exact", "gather", "end"} =>
          pay.from \in Accounts /\ pay.to \in Accounts /\ pay.value \in Nat
    /\ pos \in Nat \ {0} /\ accum \in Nat /\ count \in Nat /\ done \in Nat /\ block \in Nat
    /\ buffer \in Seq(RowType) /\ file \in Seq(RowType)

(* What a banknote transfer writes and leaves behind.                      *)
LEMMA TransferTypes ==
    ASSUME SimTypes, step \in {"exact", "gather"}, NEW i \in DOMAIN wallet[pay.from], BanknoteTransfer(i)
    PROVE  /\ wallet' \in [Accounts -> Seq(NoteType)]
           /\ \E r \in PlainRow : /\ r = Row("BT", wallet[pay.from][i].note, wallet[pay.from][i].value, pay.to)
                                  /\ buffer' = Append(buffer, r)
           /\ buffer' \in Seq(RowType) /\ drawn' = drawn
  <1> DEFINE n == wallet[pay.from][i]
             r == Row("BT", n.note, n.value, pay.to)
             left == [wallet EXCEPT ![pay.from] = RemoveAt(@, i)]
             m == Note(n.note, n.value)
  <1>1. /\ pay.from \in Accounts /\ pay.to \in Accounts /\ block \in Nat
        /\ wallet \in [Accounts -> Seq(NoteType)] /\ buffer \in Seq(RowType)
    BY DEF SimTypes
  <1>2. n \in NoteType
    <2>1. wallet[pay.from] \in Seq(NoteType)
      BY <1>1
    <2> QED  BY <2>1
  <1>3. n.note \in Nat /\ n.value \in Nat
    BY <1>2 DEF NoteType
  <1>4. r \in PlainRow /\ m \in NoteType
    BY <1>1, <1>3 DEF PlainRow, Row, Note, NoteType
  <1>5. buffer' = Append(buffer, r) /\ drawn' = drawn /\ wallet' = [left EXCEPT ![pay.to] = Append(@, m)]
    BY DEF BanknoteTransfer, Moved
  <1>6. left \in [Accounts -> Seq(NoteType)]
    <2>1. RemoveAt(wallet[pay.from], i) \in Seq(NoteType)
      BY <1>1, Without
    <2> QED  BY <1>1, <2>1
  <1> HIDE DEF left, m, r
  <1>7. Append(left[pay.to], m) \in Seq(NoteType)
    <2>1. left[pay.to] \in Seq(NoteType)
      BY <1>1, <1>6
    <2> QED  BY <1>4, <2>1, AppendProperties
  <1>8. Append(buffer, r) \in Seq(RowType)
    <2>1. r \in RowType
      BY <1>4 DEF RowType
    <2> QED  BY <1>1, <2>1, AppendProperties
  <1> QED  BY <1>4, <1>5, <1>6, <1>7, <1>8 DEF r


(* What recycling takes from a wallet, and what it leaves.                 *)
RecycledRow == [kind : {"BR"}, note : Nat, value : Nat, owner : Accounts]
RowOf(a, i) == Row("BR", wallet[a][i].note, wallet[a][i].value, a)
GonePlaces(a) == {i \in DOMAIN wallet[a] : Removed(wallet[a])[i]}
LeftPlaces(a) == {i \in DOMAIN wallet[a] : ~Removed(wallet[a])[i]}
LEMMA RecycledTypes ==
    ASSUME SimTypes, NEW a \in Accounts
    PROVE  /\ Recycled(a) \in Seq(RecycledRow) /\ Kept(a) \in Seq(NoteType)
           /\ \E p : Enumerates(p, Kept(a), wallet[a], LeftPlaces(a))
           /\ \E p : Enumerates(p, Recycled(a), [i \in DOMAIN wallet[a] |-> RowOf(a, i)], GonePlaces(a))
  <1> DEFINE list == wallet[a]
             all == [i \in DOMAIN list |-> RowOf(a, i)]
  <1>1. list \in Seq(NoteType)
    BY DEF SimTypes
  <1>2. all \in Seq(RecycledRow) /\ DOMAIN all = DOMAIN list
    <2>1. ASSUME NEW i \in DOMAIN list PROVE RowOf(a, i) \in RecycledRow
      <3>1. list[i] \in NoteType
        BY <1>1
      <3> QED  BY <3>1 DEF RowOf, NoteType, Row, RecycledRow
    <2>2. DOMAIN list = 1..Len(list) /\ Len(list) \in Nat
      BY <1>1
    <2> HIDE DEF list
    <2> QED  BY <2>1, <2>2
  <1>3. Recycled(a) = Keep(all, GonePlaces(a)) /\ Kept(a) = Keep(list, LeftPlaces(a))
    BY DEF Recycled, Kept, GonePlaces, LeftPlaces, RowOf
  <1>4. GonePlaces(a) \in SUBSET DOMAIN all /\ LeftPlaces(a) \in SUBSET DOMAIN list
    BY <1>2 DEF GonePlaces, LeftPlaces
  <1> HIDE DEF all
  <1>5. Keep(all, GonePlaces(a)) \in Seq(RecycledRow) /\ \E p : Enumerates(p, Keep(all, GonePlaces(a)), all, GonePlaces(a))
    BY <1>2, <1>4, KeepPlaces
  <1>6. Keep(list, LeftPlaces(a)) \in Seq(NoteType) /\ \E p : Enumerates(p, Keep(list, LeftPlaces(a)), list, LeftPlaces(a))
    <2> HIDE DEF list
    <2> QED  BY <1>1, <1>4, KeepPlaces
  <1> QED  BY <1>3, <1>5, <1>6 DEF all

Recycling == [i \in DOMAIN owners |-> Recycled(owners[i])]
(* The rows of a recycling, over all owners.                               *)
LEMMA RecyclingTypes ==
    ASSUME SimTypes
    PROVE  Recycling \in Seq(Seq(RecycledRow)) /\ FlattenSeq(Recycling) \in Seq(RecycledRow)
  <1>1. owners \in Seq(Accounts) /\ DOMAIN owners = 1..Len(owners) /\ Len(owners) \in Nat
    BY DEF SimTypes
  <1>2. \A i \in DOMAIN owners : Recycled(owners[i]) \in Seq(RecycledRow)
    BY <1>1, RecycledTypes
  <1>3. Recycling \in Seq(Seq(RecycledRow))
    BY <1>1, <1>2 DEF Recycling
  <1>4. /\ FlattenSeq(Recycling) = FlatTo(Recycling, Len(Recycling))
        /\ \A n \in 0..Len(Recycling) : FlatTo(Recycling, n) \in Seq(RecycledRow)
    BY <1>3, FlatSteps
  <1>5. Len(Recycling) \in 0..Len(Recycling)
    BY <1>3
  <1> QED  BY <1>3, <1>4, <1>5

(* Those are rows.                                                         *)
LEMMA RecycledIsRow == RecycledRow \subseteq RowType /\ PlainRow \subseteq RowType
  BY DEF RecycledRow, RowType, PlainRow


(* What the start of a transfer does.                                      *)
LEMMA TransferBegins ==
    ASSUME SimTypes, NEW a \in Accounts, NEW b \in Accounts, NEW n \in Nat
    PROVE  /\ NewOwners(a, b) \in Seq(Accounts) /\ Len(NewOwners(a, b)) \in Nat
           /\ \A m \in Nat : InitialNotes(m) \in Seq(NoteType)
           /\ ToSet(NewOwners(a, b)) \subseteq Accounts
           /\ Row("USDT", 0, n, a) \in PlainRow
  <1> DEFINE both == IF a = b THEN <<a>> ELSE <<a, b>>
             T == {i \in DOMAIN both : both[i] \notin ToSet(owners)}
  <1>1. both \in Seq(Accounts) /\ T \in SUBSET DOMAIN both
    OBVIOUS
  <1>2. NewOwners(a, b) = Keep(both, T)
    BY DEF NewOwners
  <1> HIDE DEF both, T
  <1>3. NewOwners(a, b) \in Seq(Accounts)
    BY <1>1, <1>2, KeepPlaces
  <1>4. ASSUME NEW m \in Nat PROVE InitialNotes(m) \in Seq(NoteType)
    <2>1. ShardNumber \in Nat /\ DefaultBalance \in Nat /\ block \in Nat
      BY SimulatorAssumption DEF SimTypes
    <2>2. ASSUME NEW i \in 1..ShardNumber PROVE Note(m + i, DefaultBalance) \in NoteType
      <3>1. m + i \in Nat
        BY <2>1
      <3> QED  BY <2>1, <3>1 DEF Note, NoteType
    <2> QED  BY <2>1, <2>2 DEF InitialNotes
  <1>5. Row("USDT", 0, n, a) \in PlainRow
    BY DEF Row, PlainRow
  <1>6. ToSet(NewOwners(a, b)) \subseteq Accounts
    BY <1>3 DEF ToSet
  <1>7. Len(NewOwners(a, b)) \in Nat
    BY <1>3
  <1> HIDE DEF T
  <1> QED  BY ONLY <1>3, <1>4, <1>5, <1>6, <1>7

(* The program begins with typed variables.                                *)
LEMMA InitTypes == SimInit => SimTypes
  BY DEF SimInit, SimTypes

(* The types of a step that begins a transfer or ends the program ...      *)
LEMMA TypesOutside ==
    ASSUME SimTypes, NextTransfer \/ EndTransfer \/ EndOfInput \/ Finalize \/ EndBlock \/ LastFlush \/ Interrupt
    PROVE  SimTypes'
  <1>1. /\ wallet \in [Accounts -> Seq(NoteType)] /\ owners \in Seq(Accounts) /\ drawn \in Nat
        /\ pos \in Nat \ {0} /\ accum \in Nat /\ count \in Nat /\ done \in Nat /\ block \in Nat
        /\ buffer \in Seq(RowType) /\ file \in Seq(RowType)
    BY DEF SimTypes
  <1>2. CASE NextTransfer
    <2>1. PICK a \in Accounts, b \in Accounts, x \in Values :
             LET new == NewOwners(a, b) IN
             /\ pay' = [from |-> a, to |-> b, value |-> x]
             /\ owners' = owners \o new
             /\ wallet' = [c \in Accounts |->
                             IF c \in ToSet(new)
                             THEN InitialNotes(drawn + (IF c = new[1] THEN 0 ELSE ShardNumber))
                             ELSE wallet[c]]
             /\ drawn' = drawn + ShardNumber * Len(new)
             /\ buffer' = Append(buffer, Row("USDT", 0, x, a))
      BY <1>2 DEF NextTransfer
    <2> DEFINE new == NewOwners(a, b)
               r == Row("USDT", 0, x, a)
    <2>2. x \in Nat /\ ShardNumber \in Nat
      BY SimulatorAssumption
    <2>3. /\ new \in Seq(Accounts) /\ Len(new) \in Nat /\ ToSet(new) \subseteq Accounts
          /\ \A m \in Nat : InitialNotes(m) \in Seq(NoteType)
          /\ r \in PlainRow
      BY <2>2, TransferBegins
    <2> HIDE DEF new, r
    <2>4. owners' \in Seq(Accounts)
      BY <1>1, <2>1, <2>3, ConcatProperties DEF new
    <2>5. wallet' \in [Accounts -> Seq(NoteType)]
      <3>1. drawn + 0 \in Nat /\ drawn + ShardNumber \in Nat
        BY <1>1, <2>2
      <3>2. \A c \in Accounts : InitialNotes(drawn + (IF c = new[1] THEN 0 ELSE ShardNumber)) \in Seq(NoteType)
        BY <2>3, <3>1
      <3>3. \A c \in Accounts : wallet[c] \in Seq(NoteType)
        BY <1>1
      <3> QED  BY <2>1, <3>2, <3>3 DEF new
    <2>6. drawn' \in Nat
      <3>1. ShardNumber * Len(new) \in Nat
        BY <2>2, <2>3
      <3> QED  BY <1>1, <2>1, <3>1 DEF new
    <2>7. buffer' \in Seq(RowType)
      BY <1>1, <2>1, <2>3, RecycledIsRow, AppendProperties DEF r
    <2>8. step' = "exact" /\ pay'.from \in Accounts /\ pay'.to \in Accounts /\ pay'.value \in Nat
      BY <1>2, <2>1, <2>2 DEF NextTransfer
    <2>9. UNCHANGED <<pos, accum, count, done, block, file>>
      BY <1>2 DEF NextTransfer, job
    <2> QED  BY <1>1, <2>4, <2>5, <2>6, <2>7, <2>8, <2>9 DEF SimTypes
  <1>3. CASE EndTransfer
    <2>1. /\ buffer' = Append(buffer, Sep) /\ count' = count + 1 /\ done' = done + 1
          /\ step' \in {"finalize", "next"}
          /\ UNCHANGED <<wallet, owners, drawn, pos, accum, block, file>>
      BY <1>3 DEF EndTransfer, bank, loop
    <2>2. buffer' \in Seq(RowType)
      <3>1. Sep \in RowType
        BY DEF RowType
      <3> QED  BY <1>1, <2>1, <3>1, AppendProperties
    <2> QED  BY <1>1, <2>1, <2>2 DEF SimTypes
  <1>4. CASE EndOfInput
    <2>1. /\ step' \in {"finalize", "flush"}
          /\ UNCHANGED <<wallet, owners, drawn, pos, accum, count, done, block, buffer, file>>
      BY <1>4 DEF EndOfInput, bank, loop, out
    <2> QED  BY <1>1, <2>1 DEF SimTypes
  <1>5. CASE Finalize
    <2>1. step' = "block" /\ UNCHANGED <<owners, drawn, pos, accum, count, done, block, file>>
      BY <1>5 DEF Finalize, loop, job
    <2>2. CASE wallet' = wallet /\ buffer' = buffer
      BY <1>1, <2>1, <2>2 DEF SimTypes
    <2>3. CASE /\ wallet' = [a \in Accounts |-> Kept(a)]
               /\ buffer' = buffer \o FlattenSeq(Recycling)
      <3>1. wallet' \in [Accounts -> Seq(NoteType)]
        BY <2>3, RecycledTypes
      <3>2. FlattenSeq(Recycling) \in Seq(RowType)
        <4>1. FlattenSeq(Recycling) \in Seq(RecycledRow)
          BY RecyclingTypes
        <4> HIDE DEF Recycling
        <4> QED  BY <4>1, RecycledIsRow
      <3>3. buffer' \in Seq(RowType)
        BY <1>1, <2>3, <3>2, ConcatProperties
      <3> QED  BY <1>1, <2>1, <3>1, <3>3 DEF SimTypes
    <2> QED  BY <1>5, <2>2, <2>3 DEF Finalize, Recycling
  <1>6. CASE EndBlock
    <2>1. /\ file' = file \/ file' = file \o buffer
          /\ buffer' = buffer \/ buffer' = <<>>
          /\ count' = 0 /\ block' = block + 1 /\ step' \in {"flush", "next"}
          /\ UNCHANGED <<wallet, owners, drawn, pos, accum, done>>
      BY <1>6 DEF EndBlock, bank, loop
    <2>2. file \o buffer \in Seq(RowType)
      BY <1>1, ConcatProperties
    <2>3. file' \in Seq(RowType)
      BY <1>1, <2>1, <2>2
    <2>6. buffer' \in Seq(RowType)
      <3>1. CASE buffer' = <<>>
        BY <3>1
      <3> QED  BY <1>1, <2>1, <3>1
    <2>4. count' \in Nat /\ block' \in Nat
      BY <1>1, <2>1
    <2>5. step' \notin {"exact", "gather", "end"} /\ step' \in {"next", "flush"}
      BY <2>1
    <2> QED  BY <1>1, <2>1, <2>3, <2>4, <2>5, <2>6 DEF SimTypes
  <1>7. ASSUME Over, file' \in Seq(RowType) PROVE SimTypes'
    BY <1>7 DEF Over, SimTypes
  <1>8. CASE LastFlush
    <2>1. file \o buffer \in Seq(RowType)
      BY <1>1, ConcatProperties
    <2> QED  BY <1>7, <1>8, <2>1 DEF LastFlush
  <1>9. CASE Interrupt
    <2>1. PICK k \in 0..(IF step = "flush" \/ (step = "block" /\ FlushDue) THEN Len(buffer) ELSE 0) :
             file' = file \o SubSeq(buffer, 1, k)
      BY <1>9 DEF Interrupt
    <2>2. k \in 0..Len(buffer)
      BY <1>1, <2>1
    <2>3. SubSeq(buffer, 1, k) \in Seq(RowType)
      BY <1>1, <2>2, SubSeqProperties
    <2>4. file' \in Seq(RowType)
      BY <1>1, <2>1, <2>3, ConcatProperties
    <2> QED  BY <1>7, <1>9, <2>4 DEF Interrupt
  <1> QED  BY <1>2, <1>3, <1>4, <1>5, <1>6, <1>8, <1>9


(* A place in a wallet holds a banknote.                                   *)
LEMMA NoteFacts ==
    ASSUME SimTypes, NEW a \in Accounts, NEW i \in DOMAIN wallet[a]
    PROVE  wallet[a][i] \in NoteType /\ wallet[a][i].note \in Nat /\ wallet[a][i].value \in Nat
  <1>1. wallet[a] \in Seq(NoteType)
    BY DEF SimTypes
  <1>2. wallet[a][i] \in NoteType
    BY <1>1
  <1> QED  BY <1>2 DEF NoteType

(* ... and of one inside a transfer, with the row that it writes, if any.  *)
LEMMA SplitTypes ==
    ASSUME SimTypes, Split
    PROVE  /\ wallet' \in [Accounts -> Seq(NoteType)]
           /\ SplitRow(InHand.value - (pay.value - accum), pay.value - accum) \in HalvingRow
           /\ buffer' = Append(buffer, SplitRow(InHand.value - (pay.value - accum), pay.value - accum))
           /\ buffer' \in Seq(RowType) /\ drawn' \in Nat
  <1> DEFINE toB == pay.value - accum
             toA == InHand.value - toB
             n == wallet[pay.from][pos]
             keep == Note(drawn + 1, toA)
             give == Note(drawn + 2, toB)
             rest == [wallet EXCEPT ![pay.from] = Append(RemoveAt(@, pos), keep)]
             r == SplitRow(toA, toB)
  <1>1. /\ step = "gather" /\ pos <= Len(wallet[pay.from]) /\ accum < pay.value
        /\ accum + n.value > pay.value
        /\ wallet' = [rest EXCEPT ![pay.to] = Append(@, give)] /\ buffer' = Append(buffer, r)
        /\ drawn' = drawn + 2
    BY DEF Split, Gathering, InHand
  <1>2. /\ pay.from \in Accounts /\ pay.to \in Accounts /\ pay.value \in Nat /\ accum \in Nat
        /\ drawn \in Nat /\ block \in Nat /\ buffer \in Seq(RowType) /\ pos \in Nat \ {0}
        /\ wallet \in [Accounts -> Seq(NoteType)]
    BY <1>1 DEF SimTypes
  <1>3. pos \in DOMAIN wallet[pay.from]
    <2>1. wallet[pay.from] \in Seq(NoteType)
      BY <1>2
    <2> QED  BY <1>1, <1>2, <2>1
  <1>4. n.note \in Nat /\ n.value \in Nat
    BY <1>2, <1>3, NoteFacts
  <1>5. toB \in Nat /\ toA \in Nat
    <2> DEFINE v == n.value
               w == pay.value
    <2>1. v \in Nat /\ w \in Nat /\ accum < w /\ accum + v > w /\ InHand.value = v
      BY <1>1, <1>2, <1>4 DEF InHand
    <2>2. toB = w - accum /\ toA = v - (w - accum)
      BY <2>1
    <2> HIDE DEF v, w, toA, toB
    <2> QED  BY <1>2, <2>1, <2>2
  <1>6. keep \in NoteType /\ give \in NoteType
    <2> HIDE DEF toA, toB
    <2> QED  BY <1>2, <1>5 DEF Note, NoteType
  <1>7. r \in HalvingRow
    <2> HIDE DEF toA, toB
    <2> QED  BY <1>2, <1>4, <1>5 DEF SplitRow, HalvingRow, InHand
  <1> HIDE DEF keep, give
  <1>8. rest \in [Accounts -> Seq(NoteType)]
    <2>1. RemoveAt(wallet[pay.from], pos) \in Seq(NoteType)
      BY <1>2, <1>3, Without
    <2>2. Append(RemoveAt(wallet[pay.from], pos), keep) \in Seq(NoteType)
      BY <1>6, <2>1, AppendProperties
    <2> QED  BY <1>2, <2>2
  <1> HIDE DEF rest
  <1>9. Append(rest[pay.to], give) \in Seq(NoteType)
    <2>1. rest[pay.to] \in Seq(NoteType)
      BY <1>2, <1>8
    <2> QED  BY <1>6, <2>1, AppendProperties
  <1>10. buffer' \in Seq(RowType)
    <2>1. r \in RowType
      BY <1>7 DEF RowType
    <2> HIDE DEF r
    <2> QED  BY <1>1, <1>2, <2>1, AppendProperties
  <1> QED  BY <1>1, <1>2, <1>7, <1>8, <1>9, <1>10

(* What banknote_new writes and leaves behind.                             *)
LEMMA NewTypes ==
    ASSUME SimTypes, BanknoteNew
    PROVE  /\ wallet' \in [Accounts -> Seq(NoteType)]
           /\ Row("BG", drawn + 1, Missing, pay.to) \in PlainRow
           /\ buffer' = Append(buffer, Row("BG", drawn + 1, Missing, pay.to))
           /\ buffer' \in Seq(RowType) /\ drawn' \in Nat
  <1> DEFINE n == Note(drawn + 1, Missing)
             r == Row("BG", drawn + 1, Missing, pay.to)
  <1>1. /\ step = "gather" /\ accum < pay.value
        /\ wallet' = [wallet EXCEPT ![pay.to] = Append(@, n)] /\ buffer' = Append(buffer, r)
        /\ drawn' = drawn + 1
    BY DEF BanknoteNew
  <1>2. /\ pay.to \in Accounts /\ pay.value \in Nat /\ accum \in Nat
        /\ drawn \in Nat /\ block \in Nat /\ buffer \in Seq(RowType)
        /\ wallet \in [Accounts -> Seq(NoteType)]
    BY <1>1 DEF SimTypes
  <1>3. Missing \in Nat
    BY <1>1, <1>2 DEF Missing
  <1>4. n \in NoteType /\ r \in PlainRow
    BY <1>2, <1>3 DEF Note, NoteType, Row, PlainRow
  <1> HIDE DEF n, r
  <1>5. Append(wallet[pay.to], n) \in Seq(NoteType)
    <2>1. wallet[pay.to] \in Seq(NoteType)
      BY <1>2
    <2> QED  BY <1>4, <2>1, AppendProperties
  <1>6. buffer' \in Seq(RowType)
    BY <1>1, <1>2, <1>4, RecycledIsRow, AppendProperties
  <1> QED  BY <1>1, <1>2, <1>4, <1>5, <1>6 DEF r

(* The first loop finds a banknote of the payer, or nothing happens.       *)
LEMMA ExactFinds ==
    ASSUME SimTypes, Exact
    PROVE  \/ UNCHANGED <<wallet, buffer, drawn>> /\ step' = "gather"
           \/ step' = "end" /\ \E i \in DOMAIN wallet[pay.from] :
                                  wallet[pay.from][i].value = pay.value /\ BanknoteTransfer(i)
  <1> DEFINE fits == {i \in DOMAIN wallet[pay.from] : wallet[pay.from][i].value = pay.value}
             first == CHOOSE i \in fits : \A j \in fits : i <= j
  <1>1. \/ UNCHANGED <<wallet, buffer, drawn>> /\ step' = "gather"
        \/ fits # {} /\ step' = "end" /\ BanknoteTransfer(first)
    BY DEF Exact
  <1>2. ASSUME fits # {} PROVE first \in fits
    <2>1. wallet[pay.from] \in Seq(NoteType)
      BY DEF SimTypes, Exact
    <2>2. fits \in SUBSET Nat
      BY <2>1
    <2> HIDE DEF fits
    <2>3. \E i \in fits : \A j \in fits : i <= j
      BY <1>2, <2>2, LeastNat
    <2> QED  BY <2>3
  <1>3. CASE fits # {} /\ step' = "end" /\ BanknoteTransfer(first)
    <2> HIDE DEF first
    <2>1. first \in DOMAIN wallet[pay.from] /\ wallet[pay.from][first].value = pay.value
      BY <1>2, <1>3
    <2> QED  BY <1>3, <2>1
  <1> QED  BY <1>1, <1>3

(* The types within a transfer ...                                         *)
LEMMA TypesInside ==
    ASSUME SimTypes, Exact \/ TransferOne \/ Split \/ Paid \/ BanknoteNew
    PROVE  SimTypes'
  <1>1. /\ wallet \in [Accounts -> Seq(NoteType)] /\ owners \in Seq(Accounts) /\ drawn \in Nat
        /\ pos \in Nat \ {0} /\ accum \in Nat /\ count \in Nat /\ done \in Nat /\ block \in Nat
        /\ buffer \in Seq(RowType) /\ file \in Seq(RowType)
        /\ pay.from \in Accounts /\ pay.to \in Accounts /\ pay.value \in Nat
    BY DEF SimTypes, Exact, TransferOne, Split, Paid, BanknoteNew, Gathering
  <1>2. /\ step' \in {"end", "gather"} /\ UNCHANGED <<owners, pay, count, done, block, file>>
    BY DEF SimTypes, Exact, TransferOne, Split, Paid, BanknoteNew, Gathering, bank, loop, job, out
  <1>3. CASE Exact
    <2>1. pos' = 1 /\ accum' = 0
      BY <1>3 DEF Exact
    <2>2. /\ wallet' \in [Accounts -> Seq(NoteType)] /\ buffer' \in Seq(RowType) /\ drawn' = drawn
      <3>1. step \in {"exact", "gather"}
        BY <1>3 DEF Exact
      <3> DEFINE fits == {i \in DOMAIN wallet[pay.from] : wallet[pay.from][i].value = pay.value}
                 first == CHOOSE i \in fits : \A j \in fits : i <= j
      <3>2. CASE fits = {}
        BY <1>1, <1>3, <3>2 DEF Exact
      <3>3. CASE fits # {}
        <4>1. BanknoteTransfer(first)
          BY <1>3, <3>3 DEF Exact
        <4>2. first \in DOMAIN wallet[pay.from]
          <5>1. wallet[pay.from] \in Seq(NoteType)
            BY <1>1
          <5>2. fits \in SUBSET Nat
            BY <5>1
          <5>3. \E i \in fits : \A j \in fits : i <= j
            <6> HIDE DEF fits
            <6> QED  BY <3>3, <5>2, LeastNat
          <5>4. first \in fits
            <6> HIDE DEF fits
            <6> QED  BY <5>3
          <5> QED  BY <5>4
        <4> HIDE DEF first
        <4> QED  BY <3>1, <4>1, <4>2, TransferTypes
      <3> QED  BY <3>2, <3>3
    <2> QED  BY <1>1, <1>2, <2>1, <2>2 DEF SimTypes
  <1>4. CASE TransferOne
    <2>1. pos \in DOMAIN wallet[pay.from]
      <3>1. wallet[pay.from] \in Seq(NoteType) /\ pos <= Len(wallet[pay.from])
        BY <1>1, <1>4 DEF TransferOne, Gathering
      <3> QED  BY <1>1, <3>1
    <2>2. wallet[pay.from][pos].value \in Nat
      BY <1>1, <2>1, NoteFacts
    <2>3. pos' = pos + 1 /\ accum' = accum + wallet[pay.from][pos].value
      BY <1>4 DEF TransferOne, LiveStep, InHand
    <2>4. BanknoteTransfer(pos) /\ step \in {"exact", "gather"}
      BY <1>4 DEF TransferOne, Gathering
    <2>5. /\ wallet' \in [Accounts -> Seq(NoteType)] /\ buffer' \in Seq(RowType) /\ drawn' = drawn
      BY <2>1, <2>4, TransferTypes
    <2>6. pos' \in Nat \ {0} /\ accum' \in Nat
      <3> DEFINE v == wallet[pay.from][pos].value
      <3>1. v \in Nat /\ pos' = pos + 1 /\ accum' = accum + v
        BY <2>2, <2>3
      <3>2. pos \in Nat /\ accum \in Nat
        BY <1>1
      <3> HIDE DEF v
      <3> QED  BY ONLY <3>1, <3>2
    <2> QED  BY <1>1, <1>2, <2>5, <2>6 DEF SimTypes
  <1>5. CASE Split
    <2>1. pos' = pos /\ accum' = pay.value
      BY <1>5 DEF Split
    <2>2. /\ wallet' \in [Accounts -> Seq(NoteType)] /\ buffer' \in Seq(RowType) /\ drawn' \in Nat
      BY <1>5, SplitTypes
    <2> QED  BY <1>1, <1>2, <2>1, <2>2 DEF SimTypes
  <1>6. CASE Paid
    <2>1. UNCHANGED <<wallet, drawn, pos, accum, buffer>>
      BY <1>6 DEF Paid, bank, loop, out
    <2> QED  BY <1>1, <1>2, <2>1 DEF SimTypes
  <1>7. CASE BanknoteNew
    <2>1. pos' = pos /\ accum' = accum
      BY <1>7 DEF BanknoteNew, loop
    <2>2. /\ wallet' \in [Accounts -> Seq(NoteType)] /\ buffer' \in Seq(RowType) /\ drawn' \in Nat
      BY <1>7, NewTypes
    <2> QED  BY <1>1, <1>2, <2>1, <2>2 DEF SimTypes
  <1> QED  BY <1>3, <1>4, <1>5, <1>6, <1>7

(* ... and over every step of the program.                                 *)
LEMMA TypesKeep == SimTypes /\ [SimNext]_simVars => SimTypes'
  <1>1. SimTypes /\ UNCHANGED simVars => SimTypes'
    BY DEF SimTypes, simVars, bank, loop, job, out
  <1> QED  BY <1>1, TypesInside, TypesOutside DEF SimNext

-----------------------------------------------------------------------------
(* Groups of rows.  Transfers that are over have moved their value; Since  *)
(* are the rows after a place, Open the transfers that are not over.       *)
Since(R, i) == SubSeq(R, i + 1, Len(R))
Open(R) == {i \in DOMAIN R : R[i].kind = "USDT" /\ \A k \in (i + 1)..Len(R) : R[k] # Sep}
PaidIn(R) ==
    \A i, j \in DOMAIN R :
        /\ i < j /\ R[i].kind = "USDT" /\ R[j] = Sep
        /\ \A k \in (i + 1)..(j - 1) : R[k] # Sep
        => R[i].value = MovedBy(SubSeq(R, i + 1, j - 1))

(* Parts of a list to which a row is added.                                *)
LEMMA PartsAppend ==
    ASSUME NEW X, NEW q \in Seq(X), NEW r \in X, NEW i \in 0..Len(q)
    PROVE  /\ \A j \in i..Len(q) : SubSeq(Append(q, r), i + 1, j) = SubSeq(q, i + 1, j)
           /\ Since(Append(q, r), i) = Append(Since(q, i), r)
           /\ Since(q, i) \in Seq(X)
  <1> DEFINE p == Append(q, r)
             m == Len(q)
  <1>1. /\ m \in Nat /\ p \in Seq(X) /\ Len(p) = m + 1 /\ p[m + 1] = r
        /\ \A k \in 1..m : p[k] = q[k]
    BY AppendProperties
  <1>2. i \in Nat /\ i <= m
    BY <1>1
  <1> HIDE DEF p, m
  <1>3. ASSUME NEW j \in i..m PROVE SubSeq(p, i + 1, j) = SubSeq(q, i + 1, j)
    <2>1. j \in Nat /\ i <= j /\ j <= m
      BY <1>1, <1>2
    <2> DEFINE x == SubSeq(p, i + 1, j)
               y == SubSeq(q, i + 1, j)
    <2>2. i + 1 \in 1..(m + 1) + 1 /\ j \in i..m + 1 /\ i + 1 \in 1..m + 1 /\ j \in (i + 1) - 1..Len(q) /\ j \in (i + 1) - 1..Len(p)
      BY <1>1, <1>2, <2>1 DEF m
    <2>8. /\ i + 1 \in Int /\ j \in Int
          /\ \A k \in i + 1..j : p[k] \in X /\ q[k] \in X
      BY <1>1, <1>2, <2>1, <2>2
    <2>9. /\ (IF i + 1 <= j THEN j - (i + 1) + 1 ELSE 0) = j - i /\ j - (i + 1) + 1 = j - i
          /\ \A k \in 1..j - i : (i + 1) + k - 1 = i + k
      BY ONLY <1>2, <2>1
    <2>3. x \in Seq(X) /\ Len(x) = j - i /\ \A k \in 1..j - i : x[k] = p[i + k]
      <3>1. /\ x \in Seq(X) /\ Len(x) = IF i + 1 <= j THEN j - (i + 1) + 1 ELSE 0
            /\ \A k \in 1..j - (i + 1) + 1 : x[k] = p[(i + 1) + k - 1]
        BY <2>8, SubSeqProperties
      <3> HIDE DEF x
      <3> QED  BY ONLY <2>9, <3>1
    <2>4. y \in Seq(X) /\ Len(y) = j - i /\ \A k \in 1..j - i : y[k] = q[i + k]
      <3>1. /\ y \in Seq(X) /\ Len(y) = IF i + 1 <= j THEN j - (i + 1) + 1 ELSE 0
            /\ \A k \in 1..j - (i + 1) + 1 : y[k] = q[(i + 1) + k - 1]
        BY <2>8, SubSeqProperties
      <3> HIDE DEF y
      <3> QED  BY ONLY <2>9, <3>1
    <2>5. \A k \in 1..j - i : p[i + k] = q[i + k]
      <3> TAKE k \in 1..j - i
      <3>1. i + k \in 1..m
        BY <1>1, <1>2, <2>1
      <3> QED  BY <1>1, <3>1
    <2>6. x \in Seq(X) /\ y \in Seq(X) /\ Len(x) = Len(y) /\ \A k \in 1..Len(x) : x[k] = y[k]
      BY <1>2, <2>1, <2>3, <2>4, <2>5
    <2>7. x = y
      <3> HIDE DEF x, y
      <3> QED  BY <2>6, SeqEqual
    <2> QED  BY <2>7
  <1>4. Since(q, i) \in Seq(X) /\ Len(Since(q, i)) = m - i /\ \A k \in 1..m - i : Since(q, i)[k] = q[i + k]
    <2>1. i + 1 \in 1..Len(q) + 1 /\ Len(q) \in (i + 1) - 1..Len(q) /\ Len(q) = m
      BY <1>1, <1>2 DEF m
    <2> QED  BY <1>1, <1>2, <2>1, SubSeqProperties DEF Since
  <1>5. Since(p, i) = Append(Since(q, i), r)
    <2> DEFINE x == Since(p, i)
               y == Append(Since(q, i), r)
    <2>1. x \in Seq(X) /\ Len(x) = m + 1 - i /\ \A k \in 1..m + 1 - i : x[k] = p[i + k]
      <3>1. i + 1 \in 1..Len(p) + 1 /\ Len(p) \in (i + 1) - 1..Len(p)
        BY <1>1, <1>2
      <3> QED  BY <1>1, <1>2, <3>1, SubSeqProperties DEF Since
    <2>2. /\ y \in Seq(X) /\ Len(y) = (m - i) + 1 /\ y[(m - i) + 1] = r
          /\ \A k \in 1..m - i : y[k] = q[i + k]
      BY <1>4, AppendProperties
    <2>3. ASSUME NEW k \in 1..m + 1 - i PROVE x[k] = y[k]
      <3>1. CASE k = (m - i) + 1
        <4>1. i + k = m + 1
          BY <1>1, <1>2, <3>1
        <4> QED  BY <1>1, <2>1, <2>2, <3>1, <4>1
      <3>2. CASE k # (m - i) + 1
        <4>1. k \in 1..m - i /\ i + k \in 1..m
          BY <1>1, <1>2, <3>2
        <4> QED  BY <1>1, <2>1, <2>2, <4>1
      <3> QED  BY <3>1, <3>2
    <2>4. Len(x) = Len(y)
      BY <1>1, <1>2, <2>1, <2>2
    <2>5. x \in Seq(X) /\ y \in Seq(X) /\ \A k \in 1..Len(x) : x[k] = y[k]
      BY <1>1, <1>2, <2>1, <2>2, <2>3
    <2>7. x = y
      <3> HIDE DEF x, y
      <3> QED  BY <2>4, <2>5, SeqEqual
    <2> QED  BY <2>7
  <1> QED  BY <1>3, <1>4, <1>5 DEF p, m


(* What a new row does to the groups: a separator closes the open ones,    *)
(* which must have been paid; an ordinary row joins those that are open;   *)
(* an origin row begins one.                                               *)
ClosedPaid(R, r) == r = Sep => \A i \in Open(R) : R[i].value = MovedBy(Since(R, i))
Joins(R, r, i) == /\ i \in Open(R) /\ Append(R, r)[i] = R[i]
                  /\ MovedBy(Since(Append(R, r), i)) = MovedBy(Since(R, i)) + Moves(r)
Begins(R, r, i) == /\ i = Len(R) + 1 /\ Append(R, r)[i] = r /\ r.kind = "USDT"
                   /\ MovedBy(Since(Append(R, r), i)) = 0
LEMMA GroupsAppend ==
    ASSUME NEW R \in Seq(RowType), NEW r \in RowType, PaidIn(R), ClosedPaid(R, r)
    PROVE  /\ PaidIn(Append(R, r))
           /\ \A i \in Open(Append(R, r)) : r # Sep /\ (Joins(R, r, i) \/ Begins(R, r, i))
  <1> DEFINE p == Append(R, r)
             m == Len(R)
  <1>1. /\ m \in Nat /\ p \in Seq(RowType) /\ Len(p) = m + 1 /\ p[m + 1] = r
        /\ \A k \in 1..m : p[k] = R[k]
        /\ DOMAIN p = 1..m + 1 /\ DOMAIN R = 1..m
    BY AppendProperties
  <1>2. ASSUME NEW i \in 1..m
        PROVE  /\ \A j \in i..m : SubSeq(p, i + 1, j) = SubSeq(R, i + 1, j)
               /\ MovedBy(Since(p, i)) = MovedBy(Since(R, i)) + Moves(r)
    <2>1. i \in 0..Len(R)
      BY <1>1
    <2>2. /\ \A j \in i..m : SubSeq(p, i + 1, j) = SubSeq(R, i + 1, j)
          /\ Since(p, i) = Append(Since(R, i), r) /\ Since(R, i) \in Seq(RowType)
      BY <2>1, PartsAppend
    <2> HIDE DEF p, m
    <2>3. MovedBy(Append(Since(R, i), r)) = MovedBy(Since(R, i)) + Moves(r)
      BY <2>2, FoldAppend
    <2> QED  BY <2>2, <2>3
  <1> HIDE DEF p, m
  <1>3. ASSUME NEW i \in DOMAIN p, NEW j \in DOMAIN p, i < j, p[i].kind = "USDT", p[j] = Sep,
               \A k \in (i + 1)..(j - 1) : p[k] # Sep
        PROVE  p[i].value = MovedBy(SubSeq(p, i + 1, j - 1))
    <2>1. i \in 1..m /\ j \in 1..m + 1 /\ j - 1 \in i..m /\ p[i] = R[i]
      BY <1>1, <1>3
    <2>2. \A k \in (i + 1)..(j - 1) : k \in 1..m /\ R[k] # Sep
      <3> TAKE k \in (i + 1)..(j - 1)
      <3>1. k \in 1..m
        BY <1>1, <2>1
      <3> QED  BY <1>1, <1>3, <3>1
    <2>3. CASE j \in 1..m
      <3>1. R[j] = Sep
        BY <1>1, <1>3, <2>3
      <3>2. R[i].value = MovedBy(SubSeq(R, i + 1, j - 1))
        BY <1>1, <1>3, <2>1, <2>2, <2>3, <3>1 DEF PaidIn
      <3> QED  BY <1>2, <2>1, <3>2
    <2>4. CASE j = m + 1
      <3>1. r = Sep /\ j - 1 = m /\ m \in i..m
        BY <1>1, <1>3, <2>1, <2>4
      <3>2. i \in Open(R)
        BY <1>1, <1>3, <2>1, <2>2, <3>1 DEF Open, m
      <3>3. SubSeq(p, i + 1, j - 1) = Since(R, i)
        BY <1>2, <2>1, <3>1 DEF Since, m
      <3> QED  BY <2>1, <3>1, <3>2, <3>3 DEF ClosedPaid
    <2> QED  BY <1>1, <2>1, <2>3, <2>4
  <1>4. PaidIn(p)
    BY <1>3 DEF PaidIn
  <1>5. ASSUME NEW i \in Open(p)
        PROVE  /\ r # Sep
               /\ \/ /\ i \in Open(R) /\ p[i] = R[i]
                     /\ MovedBy(Since(p, i)) = MovedBy(Since(R, i)) + Moves(r)
                  \/ /\ i = m + 1 /\ p[i] = r /\ r.kind = "USDT"
                     /\ MovedBy(Since(p, i)) = 0
    <2>1. i \in 1..m + 1 /\ p[i].kind = "USDT" /\ \A k \in (i + 1)..(m + 1) : p[k] # Sep
      BY <1>1 DEF Open
    <2>2. CASE i = m + 1
      <3>1. r.kind = "USDT"
        BY <1>1, <2>1, <2>2
      <3>2. r # Sep
        BY <3>1 DEF Sep
      <3>3. Since(p, i) = <<>>
        BY <1>1, <2>2, SubSeqEmpty DEF Since
      <3>4. MovedBy(Since(p, i)) = 0
        BY <3>3, FoldAppend
      <3> QED  BY <1>1, <2>2, <3>1, <3>2, <3>4
    <2>3. CASE i # m + 1
      <3>1. i \in 1..m /\ m + 1 \in (i + 1)..(m + 1)
        BY <1>1, <2>1, <2>3
      <3>2. r # Sep
        BY <1>1, <2>1, <3>1
      <3>3. \A k \in (i + 1)..m : R[k] # Sep
        <4> TAKE k \in (i + 1)..m
        <4>1. k \in 1..m /\ k \in (i + 1)..(m + 1)
          BY <1>1, <3>1
        <4> QED  BY <1>1, <2>1, <4>1
      <3>4. i \in Open(R)
        BY <1>1, <2>1, <3>1, <3>3 DEF Open, m
      <3> QED  BY <1>1, <1>2, <3>1, <3>2, <3>4
    <2> QED  BY <2>2, <2>3
  <1>6. \A i \in Open(p) : r # Sep /\ (Joins(R, r, i) \/ Begins(R, r, i))
    BY <1>5 DEF Joins, Begins, p, m
  <1> QED  BY <1>4, <1>6 DEF p

(* An interrupt keeps the first rows only.                                 *)
LEMMA GroupsPrefix ==
    ASSUME NEW R \in Seq(RowType), PaidIn(R), NEW n \in 0..Len(R)
    PROVE  PaidIn(SubSeq(R, 1, n))
  <1> DEFINE p == SubSeq(R, 1, n)
             m == Len(R)
  <1>1. m \in Nat /\ n \in Nat /\ n <= m /\ DOMAIN R = 1..m
    OBVIOUS
  <1>2. \A k \in 1..n : R[k] \in RowType
    BY <1>1
  <1>3. p \in Seq(RowType) /\ Len(p) = n /\ \A k \in 1..n : p[k] = R[k]
    BY <1>1, <1>2, SubSeqProperties
  <1>4. DOMAIN p = 1..n
    BY <1>3
  <1> HIDE DEF p, m
  <1>5. ASSUME NEW i \in DOMAIN p, NEW j \in DOMAIN p, i < j, p[i].kind = "USDT", p[j] = Sep,
               \A k \in (i + 1)..(j - 1) : p[k] # Sep
        PROVE  p[i].value = MovedBy(SubSeq(p, i + 1, j - 1))
    <2>1. i \in 1..n /\ j \in 1..n /\ i \in DOMAIN R /\ j \in DOMAIN R /\ i \in Nat /\ j \in Nat
      BY <1>1, <1>4, <1>5
    <2>2. \A k \in (i + 1)..(j - 1) : k \in 1..n /\ p[k] = R[k]
      BY <1>1, <1>3, <2>1
    <2>3. R[i].value = MovedBy(SubSeq(R, i + 1, j - 1))
      BY <1>3, <1>5, <2>1, <2>2 DEF PaidIn
    <2> DEFINE x == SubSeq(p, i + 1, j - 1)
               y == SubSeq(R, i + 1, j - 1)
    <2>4. /\ x \in Seq(RowType) /\ y \in Seq(RowType) /\ Len(x) = Len(y)
          /\ \A k \in 1..Len(x) : x[k] = y[k]
      <3>1. i + 1 \in Int /\ j - 1 \in Int
        BY <2>1
      <3>2. \A k \in (i + 1)..(j - 1) : p[k] \in RowType /\ R[k] \in RowType
        BY <1>2, <2>2
      <3>3. /\ x \in Seq(RowType) /\ Len(x) = IF i + 1 <= j - 1 THEN (j - 1) - (i + 1) + 1 ELSE 0
            /\ \A k \in 1..(j - 1) - (i + 1) + 1 : x[k] = p[(i + 1) + k - 1]
        BY <3>1, <3>2, SubSeqProperties
      <3>4. /\ y \in Seq(RowType) /\ Len(y) = IF i + 1 <= j - 1 THEN (j - 1) - (i + 1) + 1 ELSE 0
            /\ \A k \in 1..(j - 1) - (i + 1) + 1 : y[k] = R[(i + 1) + k - 1]
        BY <3>1, <3>2, SubSeqProperties
      <3>5. ASSUME NEW k \in 1..Len(x) PROVE x[k] = y[k]
        <4>1. k \in 1..(j - 1) - (i + 1) + 1
          <5> HIDE DEF x, y
          <5>1. Len(x) \in Nat
            BY <3>3
          <5> QED  BY <2>1, <3>3, <5>1
        <4>2. (i + 1) + k - 1 \in (i + 1)..(j - 1)
          <5>1. i \in Int /\ j \in Int /\ k \in Int /\ 1 <= k /\ k <= j - 1 - i
            BY <2>1, <4>1
          <5>2. (i + 1) + k - 1 = i + k
            BY <5>1
          <5> QED  BY <5>1, <5>2
        <4> QED  BY <2>2, <3>3, <3>4, <4>1, <4>2
      <3> QED  BY <3>3, <3>4, <3>5
    <2>5. x = y
      <3> HIDE DEF x, y
      <3> QED  BY <2>4, SeqEqual
    <2> QED  BY <1>3, <2>1, <2>3, <2>5
  <1>6. PaidIn(p)
    BY <1>5 DEF PaidIn
  <1> QED  BY <1>6 DEF p


(* A list that grows row by row.                                           *)
GrowsByRows(X, q, b) ==
    /\ q \o SubSeq(b, 1, 0) = q /\ q \o SubSeq(b, 1, Len(b)) = q \o b
    /\ \A n \in 0..Len(b) : q \o SubSeq(b, 1, n) \in Seq(X)
    /\ \A n \in 0..Len(b) - 1 :
          q \o SubSeq(b, 1, n + 1) = Append(q \o SubSeq(b, 1, n), b[n + 1])
LEMMA RowByRow ==
    ASSUME NEW X, NEW q \in Seq(X), NEW b \in Seq(X)
    PROVE  GrowsByRows(X, q, b)
  <1>1. Len(b) \in Nat /\ \A k \in 1..Len(b) : b[k] \in X
    OBVIOUS
  <1>2. ASSUME NEW n \in 0..Len(b)
        PROVE  /\ SubSeq(b, 1, n) \in Seq(X) /\ Len(SubSeq(b, 1, n)) = n
               /\ \A k \in 1..n : SubSeq(b, 1, n)[k] = b[k]
    <2>1. n \in Nat /\ \A k \in 1..n : b[k] \in X
      BY <1>1
    <2> QED  BY <2>1, SubSeqProperties
  <1>3. q \o SubSeq(b, 1, 0) = q
    <2>1. SubSeq(b, 1, 0) = <<>>
      BY SubSeqEmpty
    <2> QED  BY <2>1, ConcatEmptySeq
  <1>4. SubSeq(b, 1, Len(b)) = b
    <2> DEFINE x == SubSeq(b, 1, Len(b))
    <2>1. x \in Seq(X) /\ Len(x) = Len(b) /\ \A k \in 1..Len(x) : x[k] = b[k]
      BY <1>1, <1>2
    <2>2. x = b
      <3> HIDE DEF x
      <3> QED  BY <2>1, SeqEqual
    <2> QED  BY <2>2
  <1>5. \A n \in 0..Len(b) : q \o SubSeq(b, 1, n) \in Seq(X)
    BY <1>2, ConcatProperties
  <1>6. ASSUME NEW n \in 0..Len(b) - 1
        PROVE  q \o SubSeq(b, 1, n + 1) = Append(q \o SubSeq(b, 1, n), b[n + 1])
    <2> DEFINE x == SubSeq(b, 1, n)
               y == SubSeq(b, 1, n + 1)
    <2>0. n \in 0..Len(b) /\ n + 1 \in 0..Len(b) /\ n \in Nat /\ b[n + 1] \in X
      BY <1>1
    <2>1. /\ x \in Seq(X) /\ Len(x) = n /\ \A k \in 1..n : x[k] = b[k]
          /\ y \in Seq(X) /\ Len(y) = n + 1 /\ \A k \in 1..n + 1 : y[k] = b[k]
      BY <1>2, <2>0
    <2> DEFINE z == Append(x, b[n + 1])
    <2>2. /\ z \in Seq(X) /\ Len(z) = Len(y) /\ \A k \in 1..Len(z) : z[k] = y[k]
      <3> HIDE DEF x, y
      <3>1. /\ z \in Seq(X) /\ Len(z) = n + 1 /\ z[n + 1] = b[n + 1]
            /\ \A k \in 1..n : z[k] = x[k]
        BY <2>0, <2>1, AppendProperties
      <3>2. ASSUME NEW k \in 1..n + 1 PROVE z[k] = y[k]
        <4>1. k = n + 1 \/ k \in 1..n
          BY <2>0
        <4> HIDE DEF z
        <4> QED  BY <2>1, <3>1, <4>1
      <3> HIDE DEF z
      <3> QED  BY <2>1, <3>1, <3>2
    <2>3. z = y
      <3> HIDE DEF y, z
      <3> QED  BY <2>1, <2>2, SeqEqual
    <2>4. z = x \o <<b[n + 1]>> /\ <<b[n + 1]>> \in Seq(X)
      <3> HIDE DEF x
      <3> QED  BY <2>0, <2>1, AppendIsConcat
    <2> DEFINE e == b[n + 1]
    <2>5. e \in X
      BY <2>0
    <2>6. q \o (x \o <<e>>) = (q \o x) \o <<e>> /\ q \o x \in Seq(X)
      <3> HIDE DEF x, e
      <3>1. <<e>> \in Seq(X)
        BY <2>5
      <3>2. Regroups(X)
        BY Regroup
      <3>3. q \o (x \o <<e>>) = (q \o x) \o <<e>>
        <4>1. q \in Seq(X) /\ x \in Seq(X)
          BY <2>1
        <4> QED  BY ONLY <3>1, <3>2, <4>1 DEF Regroups
      <3>4. q \o x \in Seq(X)
        BY <2>1, ConcatProperties
      <3> QED  BY <3>3, <3>4
    <2>7. (q \o x) \o <<e>> = Append(q \o x, e)
      <3> DEFINE w == q \o x
      <3>1. w \in Seq(X)
        BY <2>6
      <3>2. w \o <<e>> = Append(w, e)
        <4> HIDE DEF w, e
        <4> QED  BY <2>5, <3>1, AppendIsConcat
      <3> QED  BY <3>2
    <2> QED  BY <2>3, <2>4, <2>6, <2>7
  <1>7. q \o SubSeq(b, 1, Len(b)) = q \o b
    BY <1>4
  <1>8. \A n \in 0..Len(b) - 1 :
           q \o SubSeq(b, 1, n + 1) = Append(q \o SubSeq(b, 1, n), b[n + 1])
    BY ONLY <1>6, Zenon
  <1> QED  BY ONLY <1>3, <1>5, <1>7, <1>8, Zenon DEF GrowsByRows

(* Recycled banknotes belong to no group.                                  *)
LEMMA GroupsConcat ==
    ASSUME NEW R \in Seq(RowType), NEW b \in Seq(RecycledRow), PaidIn(R), Open(R) = {}
    PROVE  PaidIn(R \o b) /\ Open(R \o b) = {}
  <1> DEFINE f(n) == R \o SubSeq(b, 1, n)
             T == {n \in Nat : n <= Len(b) => PaidIn(f(n)) /\ Open(f(n)) = {}}
  <1>1. b \in Seq(RowType) /\ Len(b) \in Nat /\ \A k \in 1..Len(b) : b[k] \in RecycledRow
    BY RecycledIsRow
  <1>2. /\ f(0) = R /\ f(Len(b)) = R \o b
        /\ \A n \in 0..Len(b) : f(n) \in Seq(RowType)
        /\ \A n \in 0..Len(b) - 1 : f(n + 1) = Append(f(n), b[n + 1])
    <2>1. /\ R \o SubSeq(b, 1, 0) = R /\ R \o SubSeq(b, 1, Len(b)) = R \o b
          /\ \A n \in 0..Len(b) : R \o SubSeq(b, 1, n) \in Seq(RowType)
          /\ \A n \in 0..Len(b) - 1 :
                R \o SubSeq(b, 1, n + 1) = Append(R \o SubSeq(b, 1, n), b[n + 1])
      <3>1. R \in Seq(RowType) /\ b \in Seq(RowType)
        BY <1>1
      <3> HIDE DEF f
      <3>2. GrowsByRows(RowType, R, b)
        BY <3>1, RowByRow
      <3> QED  BY <3>2 DEF GrowsByRows
    <2> QED  BY <2>1
  <1> HIDE DEF f
  <1>3. 0 \in T
    BY <1>2
  <1>4. ASSUME NEW n \in T PROVE n + 1 \in T
    <2>1. SUFFICES ASSUME n + 1 <= Len(b) PROVE PaidIn(f(n + 1)) /\ Open(f(n + 1)) = {}
      OBVIOUS
    <2>2. /\ n \in 0..Len(b) - 1 /\ n \in 0..Len(b) /\ n + 1 \in 1..Len(b)
          /\ PaidIn(f(n)) /\ Open(f(n)) = {}
      BY <1>1, <2>1
    <2>3. b[n + 1] \in RowType /\ b[n + 1] # Sep /\ b[n + 1].kind # "USDT"
      <3>1. b[n + 1] \in RecycledRow
        BY <1>1, <2>2
      <3>2. b[n + 1].kind = "BR"
        BY <3>1 DEF RecycledRow
      <3> QED  BY <3>1, <3>2, RecycledIsRow DEF Sep
    <2>4. f(n) \in Seq(RowType) /\ f(n + 1) = Append(f(n), b[n + 1])
      BY <1>2, <2>2
    <2> DEFINE q == f(n)
               r == b[n + 1]
    <2>5. /\ q \in Seq(RowType) /\ r \in RowType /\ PaidIn(q) /\ Open(q) = {}
          /\ r # Sep /\ r.kind # "USDT"
      BY <2>2, <2>3, <2>4
    <2> HIDE DEF q, r
    <2>6. /\ PaidIn(Append(q, r))
          /\ \A i \in Open(Append(q, r)) : Joins(q, r, i) \/ Begins(q, r, i)
      <3>1. ClosedPaid(q, r)
        BY <2>5 DEF ClosedPaid
      <3> QED  BY <2>5, <3>1, GroupsAppend
    <2>7. \A i \in Open(Append(q, r)) : FALSE
      BY <2>5, <2>6 DEF Joins, Begins
    <2> QED  BY <2>4, <2>6, <2>7 DEF q, r
  <1>5. T = Nat
    <2>1. T \in SUBSET Nat
      OBVIOUS
    <2> HIDE DEF T
    <2> QED  BY <1>3, <1>4, <2>1, Upwards
  <1>6. Len(b) \in T
    <2> HIDE DEF T
    <2> QED  BY <1>1, <1>5
  <1>7. PaidIn(f(Len(b))) /\ Open(f(Len(b))) = {}
    BY <1>1, <1>6
  <1> QED  BY <1>2, <1>7


-----------------------------------------------------------------------------
(* How the rows change: by one row, by the recycled banknotes, by a flush  *)
(* not at all, and an interrupt loses the last ones.                       *)
LEMMA RowsTypes == SimTypes => Rows \in Seq(RowType)
  BY ConcatProperties DEF SimTypes, Rows

(* What is recorded grows by what is written to the buffer ...             *)
LEMMA RowsAppend ==
    ASSUME SimTypes, NEW r \in RowType, file' = file, buffer' = Append(buffer, r)
    PROVE  Rows' = Append(Rows, r)
  <1>1. file \in Seq(RowType) /\ buffer \in Seq(RowType) /\ <<r>> \in Seq(RowType)
    BY DEF SimTypes
  <1>2. Rows' = file \o (buffer \o <<r>>)
    BY <1>1, AppendIsConcat DEF Rows
  <1>3. file \o (buffer \o <<r>>) = (file \o buffer) \o <<r>>
    <2>1. Regroups(RowType)
      BY Regroup
    <2> QED  BY <1>1, <2>1, Zenon DEF Regroups
  <1>4. (file \o buffer) \o <<r>> = Append(file \o buffer, r)
    <2> DEFINE q == file \o buffer
    <2>1. q \in Seq(RowType)
      BY <1>1, ConcatProperties
    <2>2. q \o <<r>> = Append(q, r)
      <3> HIDE DEF q
      <3> QED  BY <2>1, AppendIsConcat
    <2> QED  BY <2>2
  <1> QED  BY <1>2, <1>3, <1>4 DEF Rows

(* ... does not change when the buffer goes to the file ...                *)
LEMMA RowsFlush ==
    ASSUME SimTypes, EndBlock \/ LastFlush
    PROVE  Rows' = Rows
  <1>1. file \in Seq(RowType) /\ buffer \in Seq(RowType) /\ file \o buffer \in Seq(RowType)
    BY ConcatProperties DEF SimTypes
  <1>2. \/ file' = file /\ buffer' = buffer
        \/ file' = file \o buffer /\ buffer' = <<>>
    BY DEF EndBlock, LastFlush, Over
  <1>3. (file \o buffer) \o <<>> = file \o buffer
    BY <1>1, ConcatEmptySeq
  <1> QED  BY <1>2, <1>3 DEF Rows

(* ... grows by the recycled banknotes ...                                 *)
LEMMA RowsRecycled ==
    ASSUME SimTypes, Finalize
    PROVE  \/ block % RecycleInterval # 0 /\ UNCHANGED <<wallet, Rows>>
           \/ wallet' = [a \in Accounts |-> Kept(a)] /\ Rows' = Rows \o FlattenSeq(Recycling)
  <1> DEFINE f == FlattenSeq(Recycling)
  <1>1. file \in Seq(RowType) /\ buffer \in Seq(RowType) /\ f \in Seq(RowType)
    <2>1. f \in Seq(RecycledRow)
      BY RecyclingTypes
    <2> HIDE DEF f
    <2> QED  BY <2>1, RecycledIsRow DEF SimTypes
  <1>2. file' = file
    BY DEF Finalize
  <1>3. CASE block % RecycleInterval # 0 /\ UNCHANGED <<wallet, buffer>>
    BY <1>2, <1>3 DEF Rows
  <1>4. CASE wallet' = [a \in Accounts |-> Kept(a)] /\ buffer' = buffer \o f
    <2>1. Rows' = file \o (buffer \o f)
      BY <1>2, <1>4 DEF Rows
    <2>2. file \o (buffer \o f) = (file \o buffer) \o f
      <3> HIDE DEF f
      <3>1. Regroups(RowType)
        BY Regroup
      <3> QED  BY <1>1, <3>1, Zenon DEF Regroups
    <2> QED  BY <1>4, <2>1, <2>2 DEF Rows
  <1> QED  BY <1>3, <1>4 DEF Finalize, Recycling

(* ... and loses its end in an interrupt.                                  *)
LEMMA RowsInterrupted ==
    ASSUME SimTypes, Interrupt
    PROVE  \E n \in 0..Len(Rows) : Rows' = SubSeq(Rows, 1, n)
  <1> DEFINE l == Len(file)
             m == Len(buffer)
  <1>1. file \in Seq(RowType) /\ buffer \in Seq(RowType) /\ l \in Nat /\ m \in Nat
    BY DEF SimTypes
  <1>2. PICK k \in 0..m : file' = file \o SubSeq(buffer, 1, k) /\ buffer' = <<>>
    <2>1. PICK k \in 0..(IF step = "flush" \/ (step = "block" /\ FlushDue) THEN Len(buffer) ELSE 0) :
             file' = file \o SubSeq(buffer, 1, k)
      BY DEF Interrupt
    <2>2. k \in 0..m /\ buffer' = <<>>
      BY <1>1, <2>1 DEF Interrupt, Over
    <2> QED  BY <2>1, <2>2
  <1> DEFINE b == SubSeq(buffer, 1, k)
             x == file \o b
             y == SubSeq(Rows, 1, l + k)
  <1>3. k \in Nat /\ k <= m /\ l + k \in Nat /\ b \in Seq(RowType) /\ Len(b) = k /\ \A i \in 1..k : b[i] = buffer[i]
    <2>1. k \in Nat /\ k <= m /\ \A i \in 1..k : buffer[i] \in RowType
      BY <1>1, <1>2
    <2> QED  BY <1>1, <2>1, SubSeqProperties
  <1>4. /\ Rows \in Seq(RowType) /\ Len(Rows) = l + m
        /\ \A i \in 1..l + m : Rows[i] = IF i <= l THEN file[i] ELSE buffer[i - l]
    BY <1>1, ConcatProperties DEF Rows
  <1>5. x \in Seq(RowType) /\ Len(x) = l + k /\ \A i \in 1..l + k : x[i] = IF i <= l THEN file[i] ELSE b[i - l]
    <2> HIDE DEF b
    <2> QED  BY <1>1, <1>3, ConcatProperties
  <1> HIDE DEF l, m
  <1>6. y \in Seq(RowType) /\ Len(y) = l + k /\ \A i \in 1..l + k : y[i] = Rows[i]
    <2>1. \A i \in 1..l + k : Rows[i] \in RowType
      BY <1>1, <1>3, <1>4
    <2> QED  BY <1>1, <1>3, <2>1, SubSeqProperties
  <1>7. ASSUME NEW i \in 1..l + k PROVE x[i] = y[i]
    <2>1. i \in 1..l + m /\ (~ (i <= l) => i - l \in 1..k)
      BY <1>1, <1>3
    <2> HIDE DEF x, y, b
    <2> QED  BY <1>3, <1>4, <1>5, <1>6, <2>1
  <1>8. x = y
    <2> HIDE DEF x, y
    <2>1. \A i \in 1..Len(x) : x[i] = y[i]
      BY <1>5, <1>7
    <2> QED  BY <1>5, <1>6, <2>1, SeqEqual
  <1>9. Rows' = x
    <2>1. Rows' = x \o <<>>
      BY <1>2 DEF Rows
    <2> HIDE DEF x
    <2> QED  BY <1>5, <2>1, ConcatEmptySeq
  <1>10. l + k \in 0..Len(Rows)
    BY <1>1, <1>3, <1>4
  <1> QED  BY <1>8, <1>9, <1>10


(* What the rows of a transfer that is not over have moved is what the     *)
(* program has counted.                                                    *)
CountedSoFar == IF step = "exact" THEN 0 ELSE IF step = "gather" THEN accum ELSE pay.value
GroupInv ==
    /\ PaidIn(Rows)
    /\ step # "over" =>
          \A i \in Open(Rows) : /\ step \in {"exact", "gather", "end"}
                                /\ Rows[i].value = pay.value
                                /\ MovedBy(Since(Rows, i)) = CountedSoFar
    /\ step = "gather" => accum <= pay.value

(* There are no groups at the start.                                       *)
LEMMA InitGroups == SimInit => GroupInv
  <1> SUFFICES ASSUME SimInit PROVE GroupInv
    OBVIOUS
  <1>1. file = <<>> /\ buffer = <<>> /\ step = "next"
    BY DEF SimInit
  <1>2. Rows = <<>>
    BY <1>1 DEF Rows
  <1> QED  BY <1>1, <1>2 DEF GroupInv, PaidIn, Open

(* A row inside a transfer adds what it moves.                             *)
LEMMA GroupsInside ==
    ASSUME SimTypes, GroupInv, step \in {"exact", "gather"}, NEW r \in RowType,
           r # Sep, r.kind # "USDT", file' = file, buffer' = Append(buffer, r), pay' = pay,
           step' \in {"gather", "end"}, CountedSoFar' = CountedSoFar + Moves(r),
           step' = "gather" => accum' <= pay.value
    PROVE  GroupInv'
  <1> DEFINE R == Rows
  <1>1. R \in Seq(RowType) /\ Rows' = Append(R, r)
    BY RowsTypes, RowsAppend
  <1>2. PaidIn(R) /\ \A i \in Open(R) : R[i].value = pay.value /\ MovedBy(Since(R, i)) = CountedSoFar
    BY DEF GroupInv
  <1> HIDE DEF R
  <1>3. PaidIn(Append(R, r)) /\ \A i \in Open(Append(R, r)) :
           /\ i \in Open(R) /\ Append(R, r)[i] = R[i]
           /\ MovedBy(Since(Append(R, r), i)) = MovedBy(Since(R, i)) + Moves(r)
    <2>1. ClosedPaid(R, r)
      BY DEF ClosedPaid
    <2>2. /\ PaidIn(Append(R, r))
          /\ \A i \in Open(Append(R, r)) : Joins(R, r, i) \/ Begins(R, r, i)
      BY <1>1, <1>2, <2>1, GroupsAppend
    <2>3. \A i \in Open(Append(R, r)) : Joins(R, r, i)
      BY <2>2 DEF Begins
    <2> QED  BY <2>2, <2>3 DEF Joins
  <1>4. ASSUME NEW i \in Open(Rows')
        PROVE  Rows'[i].value = pay'.value /\ MovedBy(Since(Rows', i)) = CountedSoFar'
    BY <1>1, <1>2, <1>3
  <1>5. PaidIn(Rows)'
    BY <1>1, <1>3 DEF PaidIn
  <1>6. \A i \in Open(Rows') : /\ step' \in {"exact", "gather", "end"}
                               /\ Rows'[i].value = pay'.value /\ MovedBy(Since(Rows', i)) = CountedSoFar'
    BY <1>4
  <1> QED  BY <1>5, <1>6 DEF GroupInv

(* Every step keeps the books of the open transfer.                        *)
LEMMA GroupsKeep ==
    ASSUME SimTypes, GroupInv, [SimNext]_simVars
    PROVE  GroupInv'
  <1> DEFINE R == Rows
  <1>1. R \in Seq(RowType) /\ PaidIn(R) /\ (Rows' = R => PaidIn(Rows)' /\ Open(Rows') = Open(R))
    BY RowsTypes DEF GroupInv
  <1>2. step # "over" => \A i \in Open(R) : /\ step \in {"exact", "gather", "end"}
                                /\ R[i].value = pay.value
                                /\ MovedBy(Since(R, i)) = CountedSoFar
    BY DEF GroupInv
  <1>3. CASE NextTransfer
    <2>1. PICK a \in Accounts, x \in Values :
             pay'.value = x /\ buffer' = Append(buffer, Row("USDT", 0, x, a))
      BY <1>3 DEF NextTransfer
    <2> DEFINE r == Row("USDT", 0, x, a)
    <2>2. r.kind = "USDT" /\ r.value = x /\ r # Sep
      BY DEF Row, Sep
    <2>3. r \in RowType
      <3>1. x \in Nat
        BY SimulatorAssumption
      <3>2. r \in PlainRow
        BY <3>1, TransferBegins
      <3> QED  BY <3>2, RecycledIsRow
    <2>4. step = "next" /\ step' = "exact" /\ file' = file
      BY <1>3 DEF NextTransfer
    <2> HIDE DEF r
    <2>5. Rows' = Append(R, r)
      BY <2>1, <2>3, <2>4, RowsAppend DEF r
    <2>6. Open(R) = {}
      BY <1>2, <2>4
    <2> HIDE DEF R
    <2>7. PaidIn(Append(R, r)) /\ \A i \in Open(Append(R, r)) :
             Append(R, r)[i] = r /\ MovedBy(Since(Append(R, r), i)) = 0
      <3>1. ClosedPaid(R, r)
        BY <2>2 DEF ClosedPaid
      <3>2. /\ PaidIn(Append(R, r))
            /\ \A i \in Open(Append(R, r)) : Joins(R, r, i) \/ Begins(R, r, i)
        BY <1>1, <2>3, <3>1, GroupsAppend
      <3> QED  BY <2>6, <3>2 DEF Joins, Begins
    <2>8. CountedSoFar' = 0
      BY <2>4 DEF CountedSoFar
    <2> QED  BY <2>1, <2>2, <2>4, <2>5, <2>7, <2>8 DEF GroupInv
  <1>4. CASE Exact
    <2> DEFINE fits == {i \in DOMAIN wallet[pay.from] : wallet[pay.from][i].value = pay.value}
               first == CHOOSE i \in fits : \A j \in fits : i <= j
    <2>1. step = "exact" /\ pay' = pay /\ file' = file /\ accum' = 0 /\ pay.value \in Nat
      BY <1>4 DEF Exact, SimTypes
    <2>2. CASE fits = {}
      <3>1. step' = "gather" /\ buffer' = buffer
        BY <1>4, <2>2 DEF Exact
      <3> HIDE DEF fits
      <3>2. Rows' = R /\ CountedSoFar' = CountedSoFar
        BY <2>1, <3>1 DEF Rows, CountedSoFar
      <3> QED  BY <1>1, <1>2, <2>1, <3>1, <3>2 DEF GroupInv
    <2>3. CASE fits # {}
      <3>1. BanknoteTransfer(first) /\ step' = "end"
        BY <1>4, <2>3 DEF Exact
      <3>2. first \in DOMAIN wallet[pay.from] /\ wallet[pay.from][first].value = pay.value
        <4>1. wallet[pay.from] \in Seq(NoteType)
          BY <2>1 DEF SimTypes
        <4>2. fits \in SUBSET Nat
          BY <4>1
        <4>3. \E i \in fits : \A j \in fits : i <= j
          <5> HIDE DEF fits
          <5> QED  BY <2>3, <4>2, LeastNat
        <4>4. first \in fits
          <5> HIDE DEF fits
          <5> QED  BY <4>3
        <4> QED  BY <4>4
      <3> HIDE DEF first, fits
      <3>3. PICK r \in PlainRow : /\ r = Row("BT", wallet[pay.from][first].note, wallet[pay.from][first].value, pay.to)
                                  /\ buffer' = Append(buffer, r)
        BY <2>1, <3>1, <3>2, TransferTypes
      <3>4. r.kind = "BT" /\ r.value = pay.value /\ r # Sep /\ r \in RowType
        BY <3>2, <3>3, RecycledIsRow DEF Row, Sep
      <3>5. CountedSoFar' = CountedSoFar + Moves(r)
        BY <2>1, <3>1, <3>4 DEF CountedSoFar, Moves
      <3> QED  BY <2>1, <3>1, <3>3, <3>4, <3>5, GroupsInside
    <2> QED  BY <2>2, <2>3
  <1>5. CASE TransferOne
    <2> DEFINE n == wallet[pay.from][pos]
    <2>1. /\ step = "gather" /\ step' = "gather" /\ pay' = pay /\ file' = file
          /\ accum' = accum + n.value /\ accum + n.value <= pay.value /\ BanknoteTransfer(pos)
      BY <1>5 DEF TransferOne, Gathering, InHand
    <2>2. pos \in DOMAIN wallet[pay.from] /\ n.value \in Nat /\ accum \in Nat
      <3>1. wallet[pay.from] \in Seq(NoteType) /\ pos <= Len(wallet[pay.from]) /\ pos \in Nat \ {0} /\ pay.from \in Accounts
        BY <1>5 DEF TransferOne, Gathering, SimTypes
      <3>2. pos \in DOMAIN wallet[pay.from]
        BY <3>1
      <3> QED  BY <3>1, <3>2, NoteFacts DEF SimTypes
    <2>3. PICK r \in PlainRow : /\ r = Row("BT", n.note, n.value, pay.to)
                                /\ buffer' = Append(buffer, r)
      BY <2>1, <2>2, TransferTypes
    <2>4. r.kind = "BT" /\ r.value = n.value /\ r # Sep /\ r \in RowType
      BY <2>3, RecycledIsRow DEF Row, Sep
    <2>5. CountedSoFar' = CountedSoFar + Moves(r) /\ accum' <= pay.value
      BY <2>1, <2>4 DEF CountedSoFar, Moves
    <2> QED  BY <2>1, <2>3, <2>4, <2>5, GroupsInside
  <1>6. CASE Split
    <2> DEFINE r == SplitRow(InHand.value - (pay.value - accum), pay.value - accum)
    <2>1. /\ step = "gather" /\ step' = "gather" /\ pay' = pay /\ file' = file /\ accum' = pay.value
          /\ accum \in Nat /\ pay.value \in Nat
      BY <1>6 DEF Split, Gathering, SimTypes
    <2>2. r \in HalvingRow /\ buffer' = Append(buffer, r)
      BY <1>6, SplitTypes
    <2>3. r.kind = "BS" /\ r.value2 = pay.value - accum /\ r # Sep /\ r \in RowType
      BY <2>2 DEF SplitRow, Sep, RowType
    <2> HIDE DEF r
    <2>4. CountedSoFar' = CountedSoFar + Moves(r) /\ accum' <= pay.value
      BY <2>1, <2>3 DEF CountedSoFar, Moves
    <2> QED  BY <2>1, <2>2, <2>3, <2>4, GroupsInside
  <1>7. CASE Paid
    <2>1. /\ step = "gather" /\ step' = "end" /\ pay' = pay /\ file' = file /\ buffer' = buffer
          /\ accum >= pay.value /\ accum \in Nat /\ pay.value \in Nat /\ accum <= pay.value
      BY <1>7 DEF Paid, loop, out, SimTypes, GroupInv
    <2>2. Rows' = R /\ CountedSoFar' = CountedSoFar
      BY <2>1 DEF Rows, CountedSoFar
    <2> QED  BY <1>1, <1>2, <2>1, <2>2 DEF GroupInv
  <1>8. CASE BanknoteNew
    <2> DEFINE r == Row("BG", drawn + 1, Missing, pay.to)
    <2>1. /\ step = "gather" /\ step' = "end" /\ pay' = pay /\ file' = file
          /\ accum \in Nat /\ pay.value \in Nat
      BY <1>8 DEF BanknoteNew, loop, SimTypes
    <2>2. r \in PlainRow /\ buffer' = Append(buffer, r)
      BY <1>8, NewTypes
    <2>3. r.kind = "BG" /\ r.value = pay.value - accum /\ r # Sep /\ r \in RowType
      BY <2>2, RecycledIsRow DEF Row, Sep, Missing
    <2> HIDE DEF r
    <2>4. CountedSoFar' = CountedSoFar + Moves(r)
      BY <2>1, <2>3 DEF CountedSoFar, Moves
    <2> QED  BY <2>1, <2>2, <2>3, <2>4, GroupsInside
  <1>9. CASE EndTransfer
    <2>1. step = "end" /\ buffer' = Append(buffer, Sep) /\ file' = file /\ step' \in {"finalize", "next"}
      BY <1>9 DEF EndTransfer
    <2>2. Sep \in RowType
      BY DEF RowType
    <2>3. Rows' = Append(R, Sep)
      BY <2>1, <2>2, RowsAppend
    <2>4. \A i \in Open(R) : R[i].value = MovedBy(Since(R, i))
      BY <1>2, <2>1 DEF CountedSoFar
    <2> HIDE DEF R
    <2>5. PaidIn(Append(R, Sep)) /\ Open(Append(R, Sep)) = {}
      <3>1. ClosedPaid(R, Sep)
        BY <2>4 DEF ClosedPaid
      <3> QED  BY <1>1, <2>2, <3>1, GroupsAppend
    <2> QED  BY <2>1, <2>3, <2>5 DEF GroupInv
  <1>10. CASE EndOfInput
    <2>1. step = "next" /\ file' = file /\ buffer' = buffer /\ step' \in {"finalize", "flush"}
      BY <1>10 DEF EndOfInput, out
    <2>2. Rows' = R /\ Open(R) = {}
      BY <1>2, <2>1 DEF Rows
    <2> QED  BY <1>1, <2>1, <2>2 DEF GroupInv
  <1>11. CASE Finalize
    <2>1. step = "finalize" /\ step' = "block"
      BY <1>11 DEF Finalize
    <2>2. Open(R) = {}
      BY <1>2, <2>1
    <2>3. CASE Rows' = R
      BY <1>1, <2>1, <2>2, <2>3 DEF GroupInv
    <2>4. CASE Rows' = R \o FlattenSeq(Recycling)
      <3> DEFINE b == FlattenSeq(Recycling)
      <3>1. b \in Seq(RecycledRow)
        BY RecyclingTypes
      <3> HIDE DEF R, b
      <3>2. PaidIn(R \o b) /\ Open(R \o b) = {}
        BY <1>1, <2>2, <3>1, GroupsConcat
      <3> QED  BY <2>1, <2>4, <3>2 DEF GroupInv, b
    <2> QED  BY <1>11, <2>3, <2>4, RowsRecycled
  <1>12. CASE EndBlock
    <2>1. step = "block" /\ step' \in {"flush", "next"} /\ Rows' = R
      BY <1>12, RowsFlush DEF EndBlock
    <2>2. Open(R) = {}
      BY <1>2, <2>1
    <2> QED  BY <1>1, <2>1, <2>2 DEF GroupInv
  <1>13. CASE LastFlush
    <2>1. step' = "over" /\ Rows' = R
      BY <1>13, RowsFlush DEF LastFlush, Over
    <2> QED  BY <1>1, <2>1 DEF GroupInv
  <1>14. CASE Interrupt
    <2>1. step' = "over"
      BY <1>14 DEF Interrupt, Over
    <2>2. PICK n \in 0..Len(R) : Rows' = SubSeq(R, 1, n)
      BY <1>14, RowsInterrupted
    <2> HIDE DEF R
    <2>3. PaidIn(Rows')
      BY <1>1, <2>2, GroupsPrefix
    <2> QED  BY <2>1, <2>3 DEF GroupInv
  <1>15. CASE UNCHANGED simVars
    <2>1. UNCHANGED <<step, pay, accum, file, buffer>>
      BY <1>15 DEF simVars, loop, out
    <2>2. Rows' = R /\ CountedSoFar' = CountedSoFar
      BY <2>1 DEF Rows, CountedSoFar
    <2> QED  BY <1>1, <1>2, <2>1, <2>2 DEF GroupInv
  <1> QED  BY <1>3, <1>4, <1>5, <1>6, <1>7, <1>8, <1>9, <1>10, <1>11, <1>12, <1>13, <1>14, <1>15 DEF SimNext

(* A step of the reader is no step of the simulator.                       *)
LEMMA NextIsSim == [Next]_vars => [SimNext]_simVars
  BY DEF Next, Simulate, Leader, Parse, CloseCsv, Convert, CloseTx, TestTx, AddTx, ReadItem,
         ReadNothing, RandomTx, SendBatch, TakeBatch, vars

(* The rows of a transfer that is over move exactly its value, for every   *)
(* data set, wherever the loop over the live wallet has been: what is not  *)
(* found there is split off or issued (process_transfer of tx_simulator.py). *)
THEOREM TransfersPayExactly == Spec => []GroupPaysExactly
  <1>1. Init => SimTypes /\ GroupInv
    BY InitTypes, InitGroups DEF Init
  <1>2. SimTypes /\ GroupInv /\ [Next]_vars => (SimTypes /\ GroupInv)'
    BY NextIsSim, TypesKeep, GroupsKeep
  <1>3. GroupInv => GroupPaysExactly
    BY DEF GroupInv, PaidIn, GroupPaysExactly
  <1> QED  BY <1>1, <1>2, <1>3, PTL DEF Spec

-----------------------------------------------------------------------------
(* The loop over the payer's wallet.  Each banknote it transfers is a row  *)
(* and leaves the wallet one shorter, while the loop goes one on.          *)
LastOrigin(R, i) == R[i].kind = "USDT" /\ \A k \in (i + 1)..Len(R) : R[k].kind # "USDT"
Halfway(i) ==
    step = "gather" /\ accum < pay.value /\ pay.from # pay.to =>
        pos = Len(Rows) - i + 1 /\ pos <= Len(wallet[pay.from]) + 2
PassInv ==
    step \in {"exact", "gather"} =>
        \E i \in DOMAIN Rows : /\ LastOrigin(Rows, i) /\ Halfway(i)
                               /\ step = "exact" => i = Len(Rows)

(* No loop has begun at the start.                                         *)
LEMMA InitPass == SimInit => PassInv
  BY DEF SimInit, PassInv

(* An origin row is the last one until the next.                           *)
LEMMA LastOriginAppend ==
    ASSUME NEW R \in Seq(RowType), NEW r \in RowType
    PROVE  /\ r.kind = "USDT" => LastOrigin(Append(R, r), Len(R) + 1)
           /\ r.kind # "USDT" => \A i \in DOMAIN R : LastOrigin(R, i) => LastOrigin(Append(R, r), i)
           /\ Len(Append(R, r)) = Len(R) + 1 /\ DOMAIN Append(R, r) = 1..Len(R) + 1
           /\ Len(R) \in Nat
  <1> DEFINE p == Append(R, r)
             m == Len(R)
  <1>1. /\ m \in Nat /\ Len(p) = m + 1 /\ p[m + 1] = r /\ \A k \in 1..m : p[k] = R[k]
        /\ DOMAIN p = 1..m + 1 /\ DOMAIN R = 1..m
    BY AppendProperties
  <1> HIDE DEF p, m
  <1>2. r.kind = "USDT" => LastOrigin(p, m + 1)
    BY <1>1 DEF LastOrigin
  <1>3. ASSUME r.kind # "USDT", NEW i \in DOMAIN R, LastOrigin(R, i)
        PROVE  LastOrigin(p, i)
    <2>1. i \in 1..m /\ p[i] = R[i]
      BY <1>1
    <2>2. ASSUME NEW k \in (i + 1)..m + 1 PROVE p[k].kind # "USDT"
      <3>1. k = m + 1 \/ (k \in 1..m /\ k \in (i + 1)..m)
        BY <1>1, <2>1
      <3> QED  BY <1>1, <1>3, <3>1 DEF LastOrigin, m
    <2> QED  BY <1>1, <1>3, <2>1, <2>2 DEF LastOrigin
  <1> QED  BY <1>1, <1>2, <1>3 DEF p, m

(* Every step of the loop over the live wallet keeps the count: two places *)
(* on, one banknote less, one row more.                                    *)
LEMMA PassKeeps ==
    ASSUME SimTypes, PassInv, [SimNext]_simVars
    PROVE  PassInv'
  <1> DEFINE R == Rows
  <1>1. R \in Seq(RowType)
    BY RowsTypes
  <1>2. CASE step' \notin {"exact", "gather"}
    BY <1>2 DEF PassInv
  <1>3. CASE NextTransfer
    <2>1. PICK a \in Accounts, x \in Values : buffer' = Append(buffer, Row("USDT", 0, x, a))
      BY <1>3 DEF NextTransfer
    <2> DEFINE r == Row("USDT", 0, x, a)
    <2>2. r.kind = "USDT" /\ r \in RowType
      <3>1. x \in Nat
        BY SimulatorAssumption
      <3>2. r \in PlainRow
        BY <3>1, TransferBegins
      <3> QED  BY <3>2, RecycledIsRow DEF Row
    <2>3. step' = "exact" /\ file' = file
      BY <1>3 DEF NextTransfer
    <2> HIDE DEF r
    <2>4. Rows' = Append(R, r)
      BY <2>1, <2>2, <2>3, RowsAppend DEF r
    <2>5. LastOrigin(Append(R, r), Len(R) + 1) /\ Len(Append(R, r)) = Len(R) + 1 /\ Len(R) + 1 \in DOMAIN Append(R, r)
      BY <1>1, <2>2, LastOriginAppend
    <2>6. PICK i : i = Len(R) + 1
      OBVIOUS
    <2>7. i \in DOMAIN Rows' /\ LastOrigin(Rows', i) /\ i = Len(Rows')
      BY <2>4, <2>5, <2>6
    <2>8. Halfway(i)'
      BY <2>3 DEF Halfway
    <2> QED  BY <2>3, <2>7, <2>8 DEF PassInv
  <1>4. CASE Exact /\ step' = "gather"
    <2>1. /\ step = "exact" /\ pos' = 1 /\ UNCHANGED <<wallet, buffer, file, pay>>
      BY <1>4 DEF Exact
    <2>2. Rows' = R /\ pay.from \in Accounts
      BY <2>1 DEF Rows, SimTypes
    <2>3. PICK i \in DOMAIN R : LastOrigin(R, i) /\ i = Len(R)
      BY <2>1 DEF PassInv
    <2>4. Len(R) \in Nat /\ Len(wallet[pay.from]) \in Nat
      <3>1. wallet[pay.from] \in Seq(NoteType)
        BY <2>2 DEF SimTypes
      <3> QED  BY <1>1, <3>1
    <2>5. Halfway(i)'
      <3>1. pos' = Len(Rows') - i + 1 /\ pos' <= Len(wallet'[pay'.from]) + 2
        <4> HIDE DEF R
        <4> QED  BY <2>1, <2>2, <2>3, <2>4
      <3> QED  BY <3>1 DEF Halfway
    <2> QED  BY <1>4, <2>2, <2>3, <2>5 DEF PassInv
  <1>5. CASE TransferOne
    <2> DEFINE n == wallet[pay.from][pos]
    <2>1. /\ step = "gather" /\ step' = "gather" /\ pay' = pay /\ file' = file /\ BanknoteTransfer(pos)
          /\ accum < pay.value /\ pos <= Len(wallet[pay.from]) /\ pos' = pos + 1
          /\ pay.from \in Accounts /\ pay.to \in Accounts /\ pos \in Nat \ {0}
          /\ wallet \in [Accounts -> Seq(NoteType)]
      BY <1>5 DEF TransferOne, Gathering, SimTypes, LiveStep
    <2>2. pos \in DOMAIN wallet[pay.from] /\ Len(wallet[pay.from]) \in Nat
      <3>1. wallet[pay.from] \in Seq(NoteType)
        BY <2>1
      <3> QED  BY <2>1, <3>1
    <2>3. PICK r \in PlainRow : /\ r = Row("BT", n.note, n.value, pay.to)
                                /\ buffer' = Append(buffer, r)
      BY <2>1, <2>2, TransferTypes
    <2>4. r.kind # "USDT" /\ r \in RowType
      BY <2>3, RecycledIsRow DEF Row
    <2>5. Rows' = Append(R, r)
      BY <2>1, <2>3, <2>4, RowsAppend
    <2>6. PICK i \in DOMAIN R : LastOrigin(R, i) /\ Halfway(i)
      BY <2>1 DEF PassInv
    <2>7. /\ i \in DOMAIN Append(R, r) /\ LastOrigin(Append(R, r), i)
          /\ Len(Append(R, r)) = Len(R) + 1 /\ Len(R) \in Nat /\ i \in Nat
      <3> HIDE DEF R
      <3> QED  BY <1>1, <2>4, <2>6, LastOriginAppend
    <2>8. pay.from # pay.to => Len(wallet'[pay.from]) = Len(wallet[pay.from]) - 1
      <3>1. wallet'[pay.from] = RemoveAt(wallet[pay.from], pos) \/ pay.from = pay.to
        BY <2>1 DEF BanknoteTransfer, Moved
      <3>2. wallet[pay.from] \in Seq(NoteType)
        BY <2>1
      <3> QED  BY <2>2, <3>1, <3>2, Without
    <2>9. Halfway(i)'
      <3> SUFFICES ASSUME pay.from # pay.to
                   PROVE  pos' = Len(Rows') - i + 1 /\ pos' <= Len(wallet'[pay.from]) + 2
        BY <2>1 DEF Halfway
      <3>1. pos = Len(R) - i + 1
        BY <2>1, <2>6 DEF Halfway
      <3>2. Len(Rows') = Len(R) + 1
        BY <2>5, <2>7
      <3> DEFINE w == Len(wallet[pay.from])
                 v == Len(wallet'[pay.from])
                 l == Len(R)
                 k == Len(Rows')
      <3>3. l \in Nat /\ i \in Nat /\ k = l + 1 /\ pos = l - i + 1
        BY <2>7, <3>1, <3>2
      <3>4. w \in Nat /\ pos \in 1..w /\ v = w - 1 /\ pos' = pos + 1
        BY <2>1, <2>2, <2>8
      <3> HIDE DEF w, v, l, k
      <3>5. pos' = k - i + 1 /\ pos' <= v + 2
        BY ONLY <3>3, <3>4
      <3> QED  BY <3>5 DEF v, k
    <2> QED  BY <2>1, <2>5, <2>6, <2>7, <2>9 DEF PassInv
  <1>6. CASE Split
    <2> DEFINE r == SplitRow(InHand.value - (pay.value - accum), pay.value - accum)
    <2>1. /\ step = "gather" /\ step' = "gather" /\ pay' = pay /\ file' = file /\ accum' = pay.value
          /\ pay.value \in Nat
      BY <1>6 DEF Split, Gathering, SimTypes
    <2>2. r \in HalvingRow /\ buffer' = Append(buffer, r)
      BY <1>6, SplitTypes
    <2>3. r.kind # "USDT" /\ r \in RowType
      BY <2>2 DEF SplitRow, RowType
    <2> HIDE DEF r
    <2>4. Rows' = Append(R, r)
      BY <2>1, <2>2, <2>3, RowsAppend
    <2>5. PICK i \in DOMAIN R : LastOrigin(R, i)
      BY <2>1 DEF PassInv
    <2>6. i \in DOMAIN Append(R, r) /\ LastOrigin(Append(R, r), i)
      <3> HIDE DEF R
      <3> QED  BY <1>1, <2>3, <2>5, LastOriginAppend
    <2>7. Halfway(i)'
      BY <2>1 DEF Halfway
    <2> QED  BY <2>1, <2>4, <2>6, <2>7 DEF PassInv
  <1>7. CASE UNCHANGED simVars
    <2>1. UNCHANGED <<step, pay, accum, pos, wallet, file, buffer>>
      BY <1>7 DEF simVars, loop, out, bank
    <2>2. Rows' = R
      BY <2>1 DEF Rows
    <2> QED  BY <2>1, <2>2 DEF PassInv, Halfway
  <1>8. Exact \/ TransferOne \/ Split \/ NextTransfer \/ UNCHANGED simVars \/ step' \notin {"exact", "gather"}
    BY DEF SimNext, Paid, BanknoteNew, EndTransfer, EndOfInput, Finalize, EndBlock, LastFlush, Interrupt, Over
  <1>9. Exact => step' \in {"end", "gather"}
    BY DEF Exact
  <1> QED  BY <1>2, <1>3, <1>4, <1>5, <1>6, <1>7, <1>8, <1>9

(* A transfer that issues a banknote, although the payer has others, has   *)
(* passed over every second one (tx_simulator.py, lines 358 to 382, loops  *)
(* over the list that banknote_transfer takes the banknotes out of).       *)
LEMMA PassTells == SimTypes /\ PassInv => NewNoteDespiteNotes
  <1> SUFFICES ASSUME SimTypes, PassInv, step = "gather", accum < pay.value,
                      pos > Len(wallet[pay.from]), pay.from # pay.to
               PROVE  LET given == SinceLast(LAMBDA r : r.kind = "USDT")
                      IN  Len(given) - Len(wallet[pay.from]) \in {0, 1}
    BY DEF NewNoteDespiteNotes
  <1> DEFINE R == Rows
             I == {j \in 1..Len(R) : R[j].kind = "USDT"}
             given == SubSeq(R, Max(I) + 1, Len(R))
  <1>1. R \in Seq(RowType) /\ Len(R) \in Nat /\ DOMAIN R = 1..Len(R)
    BY RowsTypes
  <1>2. PICK i \in DOMAIN R : LastOrigin(R, i) /\ pos = Len(R) - i + 1 /\ pos <= Len(wallet[pay.from]) + 2
    BY DEF PassInv, Halfway
  <1> HIDE DEF R
  <1>3. i \in I /\ I \in SUBSET (1..Len(R)) /\ i \in Nat
    BY <1>1, <1>2 DEF LastOrigin
  <1>4. Max(I) = i
    <2>1. Max(I) \in I /\ i <= Max(I)
      <3> HIDE DEF I
      <3> QED  BY <1>1, <1>3, MaxIn
    <2>2. Max(I) \notin (i + 1)..Len(R) /\ Max(I) \in 1..Len(R)
      BY <1>2, <2>1 DEF LastOrigin
    <2> HIDE DEF I
    <2> QED  BY <1>1, <1>3, <2>1, <2>2
  <1>5. Len(given) = Len(R) - i
    <2>1. \A k \in i + 1..Len(R) : R[k] \in RowType
      BY <1>1, <1>3
    <2>2. i <= Len(R)
      BY <1>1, <1>2
    <2> HIDE DEF I
    <2> QED  BY <1>1, <1>3, <1>4, <2>1, <2>2, SubSeqProperties
  <1>6. SinceLast(LAMBDA r : r.kind = "USDT") = given
    BY <1>3 DEF SinceLast, SelectLastInSeq, R
  <1>7. Len(wallet[pay.from]) \in Nat
    <2>1. wallet[pay.from] \in Seq(NoteType)
      BY DEF SimTypes
    <2> QED  BY <2>1
  <1>8. Len(given) - Len(wallet[pay.from]) \in {0, 1}
    <2> HIDE DEF given
    <2>1. pos > Len(wallet[pay.from])
      OBVIOUS
    <2> DEFINE w == Len(wallet[pay.from])
               g == Len(given)
               n == Len(R)
    <2>2. n \in Nat /\ i \in Nat /\ w \in Nat /\ g = n - i
      BY <1>1, <1>3, <1>5, <1>7
    <2>3. pos = n - i + 1 /\ pos <= w + 2 /\ pos > w
      BY <1>2, <2>1
    <2> HIDE DEF w, g, n
    <2>4. g = pos - 1 /\ (pos = w + 1 \/ pos = w + 2)
      BY ONLY <2>2, <2>3
    <2>5. g - w \in {0, 1}
      BY ONLY <2>2, <2>4
    <2> QED  BY <2>5 DEF g, w
  <1> QED  BY <1>6, <1>8

(* A transfer that had to issue a banknote did so with about as many of    *)
(* the payer's own passed over as it took, for every data set              *)
(* (process_transfer of tx_simulator.py iterates over the list that        *)
(* banknote_transfer removes from).                                        *)
THEOREM NotesPassedOver == Spec => []NewNoteDespiteNotes
  <1>1. Init => SimTypes /\ PassInv
    BY InitTypes, InitPass DEF Init
  <1>2. SimTypes /\ PassInv /\ [Next]_vars => (SimTypes /\ PassInv)'
    BY NextIsSim, TypesKeep, PassKeeps
  <1> QED  BY <1>1, <1>2, PassTells, PTL DEF Spec

-----------------------------------------------------------------------------
(* Recycling.  Which banknotes of a list the loop removes: an old one,     *)
(* unless it has just removed the one before.                              *)
Hit(list, h, i) == i > 0 /\ Old(list[i]) /\ ~h[i - 1]
IsHits(list, h) == h = [i \in 0..Len(list) |-> Hit(list, h, i)]
HitsOf(list) == CHOOSE h : IsHits(list, h)

(* There is one such function: each place looks only at the one before.    *)
LEMMA HitsExist ==
    ASSUME NEW list, Len(list) \in Nat
    PROVE  IsHits(list, HitsOf(list))
  <1> DEFINE Upto(n, h) == \A i \in 0..n : h[i] = Hit(list, h, i)
             Good == {n \in Nat : \E h : Upto(n, h)}
  <1>1. 0 \in Good
    <2>1. Upto(0, [i \in {0} |-> FALSE])
      <3>1. \A h : Hit(list, h, 0) = FALSE
        <4>1. ~ (0 > 0)
          OBVIOUS
        <4> QED  BY <4>1 DEF Hit
      <3>2. ASSUME NEW i \in 0..0 PROVE i = 0
        OBVIOUS
      <3> QED  BY <3>1, <3>2
    <2> QED  BY <2>1
  <1>2. ASSUME NEW n \in Good PROVE n + 1 \in Good
    <2>1. PICK h : Upto(n, h)
      OBVIOUS
    <2> DEFINE g == [i \in 0..n + 1 |-> IF i <= n THEN h[i] ELSE Hit(list, h, i)]
    <2>2. ASSUME NEW i \in 0..n + 1 PROVE g[i] = Hit(list, g, i)
      <3>1. i # 0 => i - 1 \in 0..n + 1 /\ i - 1 <= n
        OBVIOUS
      <3>2. i # 0 => g[i - 1] = h[i - 1]
        BY <3>1
      <3>3. g[i] = Hit(list, h, i)
        <4>1. i <= n => i \in 0..n
          OBVIOUS
        <4> QED  BY <2>1, <4>1
      <3>4. i = 0 => ~ (i > 0)
        OBVIOUS
      <3> HIDE DEF g
      <3> QED  BY <3>2, <3>3, <3>4 DEF Hit
    <2>3. n + 1 \in Nat /\ Upto(n + 1, g)
      <3> HIDE DEF g
      <3> QED  BY <2>2
    <2> HIDE DEF g, Upto
    <2> QED  BY <2>3
  <1>3. PICK h : Upto(Len(list), h)
    <2> HIDE DEF Upto
    <2>1. Good \in SUBSET Nat
      OBVIOUS
    <2>2. Good = Nat
      <3> HIDE DEF Good
      <3> QED  BY <1>1, <1>2, <2>1, Upwards
    <2> QED  BY <2>2
  <1> DEFINE g == [i \in 0..Len(list) |-> h[i]]
  <1>4. ASSUME NEW i \in 0..Len(list) PROVE g[i] = Hit(list, g, i)
    <2>1. i # 0 => i - 1 \in 0..Len(list)
      OBVIOUS
    <2>2. i = 0 => ~ (i > 0)
      OBVIOUS
    <2> QED  BY <1>3, <2>1, <2>2 DEF Hit
  <1>5. g = [i \in 0..Len(list) |-> g[i]]
    OBVIOUS
  <1>6. IsHits(list, g)
    <2> HIDE DEF g
    <2> QED  BY <1>4, <1>5 DEF IsHits
  <1> HIDE DEF g
  <1> QED  BY <1>6 DEF HitsOf

(* An old banknote that stays comes behind one that goes.                  *)
LEMMA StaysBehind ==
    ASSUME NEW X, NEW list \in Seq(X), NEW i \in DOMAIN list, Old(list[i]), ~Removed(list)[i]
    PROVE  i - 1 \in DOMAIN list /\ Removed(list)[i - 1]
  <1> DEFINE h == HitsOf(list)
  <1>1. Len(list) \in Nat /\ DOMAIN list = 1..Len(list)
    OBVIOUS
  <1>2. \A j \in 0..Len(list) : h[j] = Hit(list, h, j)
    <2>1. IsHits(list, h)
      BY <1>1, HitsExist
    <2> HIDE DEF h
    <2> QED  BY <2>1 DEF IsHits
  <1>3. \A j \in DOMAIN list : Removed(list)[j] = h[j]
    BY DEF Removed, HitsOf, IsHits, Hit
  <1> HIDE DEF h
  <1>4. ~ Hit(list, h, i) /\ i > 0 /\ i - 1 \in 0..Len(list)
    BY <1>1, <1>2, <1>3
  <1>5. h[i - 1]
    BY <1>4 DEF Hit
  <1>6. Hit(list, h, i - 1)
    BY <1>2, <1>4, <1>5
  <1>7. i - 1 > 0
    BY <1>6 DEF Hit
  <1>8. i - 1 \in DOMAIN list
    BY <1>1, <1>4, <1>7
  <1> QED  BY <1>3, <1>5, <1>8

(* Each list of a list of lists is a part of what they make up.            *)
LEMMA FlatParts ==
    ASSUME NEW X, NEW q \in Seq(Seq(X))
    PROVE  /\ \A m \in DOMAIN q : \E d \in Nat : \A i \in DOMAIN q[m] :
                 d + i \in DOMAIN FlattenSeq(q) /\ FlattenSeq(q)[d + i] = q[m][i]
           /\ \A j \in DOMAIN FlattenSeq(q) : \E m \in DOMAIN q : \E i \in DOMAIN q[m] :
                 FlattenSeq(q)[j] = q[m][i]
  <1> DEFINE l == Len(q)
             f(n) == FlatTo(q, n)
             In(n) == /\ \A m \in 1..n : \E d \in Nat : \A i \in DOMAIN q[m] :
                            d + i \in DOMAIN f(n) /\ f(n)[d + i] = q[m][i]
                      /\ \A j \in DOMAIN f(n) : \E m \in 1..n : \E i \in DOMAIN q[m] : f(n)[j] = q[m][i]
             T == {n \in Nat : n <= l => In(n)}
  <1>1. l \in Nat /\ DOMAIN q = 1..l /\ \A m \in 1..l : q[m] \in Seq(X)
    OBVIOUS
  <1>2. /\ FlattenSeq(q) = f(l) /\ \A n \in 0..l - 1 : f(n + 1) = f(n) \o q[n + 1]
        /\ \A n \in 0..l : f(n) \in Seq(X)
    BY FlatSteps
  <1>3. f(0) = <<>>
    BY DEF FlatTo
  <1> HIDE DEF l, f
  <1>4. 0 \in T
    BY <1>3
  <1>5. ASSUME NEW n \in T PROVE n + 1 \in T
    <2>1. SUFFICES ASSUME n + 1 <= l PROVE In(n + 1)
      <3> HIDE DEF In
      <3> QED  OBVIOUS
    <2>2. /\ n \in Nat /\ n \in 0..l - 1 /\ n \in 0..l /\ n + 1 \in 1..l /\ In(n)
      <3> HIDE DEF In
      <3> QED  BY <1>1, <2>1
    <2> DEFINE x == f(n)
               y == q[n + 1]
               z == x \o y
    <2>3. x \in Seq(X) /\ y \in Seq(X) /\ f(n + 1) = z
      BY <1>1, <1>2, <2>2
    <2> HIDE DEF x, y
    <2>4. /\ Len(x) \in Nat /\ Len(y) \in Nat /\ DOMAIN x = 1..Len(x) /\ DOMAIN y = 1..Len(y)
          /\ DOMAIN z = 1..Len(x) + Len(y)
          /\ \A i \in 1..Len(x) + Len(y) : z[i] = IF i <= Len(x) THEN x[i] ELSE y[i - Len(x)]
      <3>1. /\ z \in Seq(X) /\ Len(z) = Len(x) + Len(y)
            /\ \A i \in 1..Len(x) + Len(y) : z[i] = IF i <= Len(x) THEN x[i] ELSE y[i - Len(x)]
        BY <2>3, ConcatProperties
      <3> HIDE DEF z
      <3> QED  BY <2>3, <3>1
    <2> HIDE DEF z
    <2>5. ASSUME NEW m \in 1..n + 1
          PROVE  \E d \in Nat : \A i \in DOMAIN q[m] : d + i \in DOMAIN z /\ z[d + i] = q[m][i]
      <3>1. CASE m \in 1..n
        <4>1. PICK d \in Nat : \A i \in DOMAIN q[m] : d + i \in DOMAIN x /\ x[d + i] = q[m][i]
          BY <2>2, <3>1 DEF x
        <4>2. ASSUME NEW i \in DOMAIN q[m] PROVE d + i \in DOMAIN z /\ z[d + i] = q[m][i]
          <5>1. d + i \in 1..Len(x) /\ d + i \in 1..Len(x) + Len(y)
            BY <2>4, <4>1
          <5>2. z[d + i] = x[d + i]
            BY <2>4, <5>1
          <5> QED  BY <2>4, <4>1, <5>1, <5>2
        <4> QED  BY <4>2
      <3>2. CASE m = n + 1
        <4>1. ASSUME NEW i \in DOMAIN y PROVE Len(x) + i \in DOMAIN z /\ z[Len(x) + i] = y[i]
          <5>1. Len(x) + i \in 1..Len(x) + Len(y) /\ ~ (Len(x) + i <= Len(x)) /\ (Len(x) + i) - Len(x) = i
            BY <2>4
          <5> QED  BY <2>4, <5>1
        <4> QED  BY <2>4, <3>2, <4>1 DEF y
      <3> QED  BY <2>2, <3>1, <3>2
    <2>6. ASSUME NEW j \in DOMAIN z
          PROVE  \E m \in 1..n + 1 : \E i \in DOMAIN q[m] : z[j] = q[m][i]
      <3>1. CASE j <= Len(x)
        <4>1. j \in DOMAIN x /\ z[j] = x[j]
          BY <2>4, <3>1
        <4>2. PICK m \in 1..n : \E i \in DOMAIN q[m] : x[j] = q[m][i]
          BY <2>2, <4>1 DEF x
        <4>3. m \in 1..n + 1
          BY <2>2
        <4>4. PICK i \in DOMAIN q[m] : x[j] = q[m][i]
          BY <4>2
        <4>5. z[j] = q[m][i]
          BY <4>1, <4>4
        <4> QED  BY <4>3, <4>5
      <3>2. CASE ~ (j <= Len(x))
        <4>1. j - Len(x) \in DOMAIN y /\ z[j] = y[j - Len(x)] /\ n + 1 \in 1..n + 1
          BY <2>2, <2>4, <3>2
        <4> QED  BY <4>1 DEF y
      <3> QED  BY <3>1, <3>2
    <2> QED  BY <2>3, <2>5, <2>6
  <1>6. T = Nat
    <2>1. T \in SUBSET Nat
      OBVIOUS
    <2> HIDE DEF T
    <2> QED  BY <1>4, <1>5, <2>1, Upwards
  <1>7. l \in T
    <2> HIDE DEF T
    <2> QED  BY <1>1, <1>6
  <1>8. In(l)
    <2> HIDE DEF In
    <2> QED  BY <1>1, <1>7
  <1>9. /\ \A m \in 1..l : \E d \in Nat : \A i \in DOMAIN q[m] :
              d + i \in DOMAIN f(l) /\ f(l)[d + i] = q[m][i]
        /\ \A j \in DOMAIN f(l) : \E m \in 1..l : \E i \in DOMAIN q[m] : f(l)[j] = q[m][i]
    BY <1>8
  <1>10. ASSUME NEW m \in DOMAIN q
         PROVE  \E d \in Nat : \A i \in DOMAIN q[m] :
                    d + i \in DOMAIN FlattenSeq(q) /\ FlattenSeq(q)[d + i] = q[m][i]
    <2>1. m \in 1..l
      BY <1>1
    <2> QED  BY <1>2, <1>9, <2>1
  <1>11. ASSUME NEW j \in DOMAIN FlattenSeq(q)
         PROVE  \E m \in DOMAIN q : \E i \in DOMAIN q[m] : FlattenSeq(q)[j] = q[m][i]
    <2>1. j \in DOMAIN f(l)
      BY <1>2
    <2>2. PICK m \in 1..l : \E i \in DOMAIN q[m] : f(l)[j] = q[m][i]
      BY <1>9, <2>1
    <2> QED  BY <1>1, <1>2, <2>2
  <1> QED  BY <1>10, <1>11

-----------------------------------------------------------------------------
(* Who has a wallet.                                                       *)
LEMMA NewOwnersAre ==
    ASSUME NEW a \in Accounts, NEW b \in Accounts
    PROVE  /\ Len(NewOwners(a, b)) <= 2
           /\ Len(NewOwners(a, b)) = 2 => NewOwners(a, b)[1] # NewOwners(a, b)[2]
           /\ \A c \in ToSet(NewOwners(a, b)) : c \notin ToSet(owners)
           /\ {a, b} \subseteq ToSet(owners) \cup ToSet(NewOwners(a, b))
  <1> DEFINE both == IF a = b THEN <<a>> ELSE <<a, b>>
             T == {i \in DOMAIN both : both[i] \notin ToSet(owners)}
             new == NewOwners(a, b)
  <1>1. both \in Seq(Accounts) /\ T \in SUBSET DOMAIN both
    OBVIOUS
  <1>2. new = Keep(both, T)
    BY DEF NewOwners
  <1>3. /\ DOMAIN both \in SUBSET {1, 2} /\ 1 \in DOMAIN both
        /\ 2 \in DOMAIN both => both[1] # both[2]
        /\ \E i \in DOMAIN both : both[i] = a
        /\ \E i \in DOMAIN both : both[i] = b
    OBVIOUS
  <1>4. \A i \in T : both[i] \notin ToSet(owners)
    OBVIOUS
  <1>5. \A i \in DOMAIN both : i \in T \/ both[i] \in ToSet(owners)
    OBVIOUS
  <1> HIDE DEF both, T, new
  <1>6. new \in Seq(Accounts) /\ \E p : Enumerates(p, new, both, T)
    BY <1>1, <1>2, KeepPlaces
  <1>7. PICK p : Enumerates(p, new, both, T)
    BY <1>6
  <1>8. /\ Len(new) \in Nat /\ DOMAIN new = 1..Len(new)
        /\ \A i \in DOMAIN new : p[i] \in T /\ new[i] = both[p[i]]
        /\ \A i, j \in DOMAIN new : i < j => p[i] < p[j]
        /\ \A k \in T : \E i \in DOMAIN new : p[i] = k
    BY <1>6, <1>7 DEF Enumerates
  <1>9. T \in SUBSET {1, 2}
    BY <1>1, <1>3
  <1>10. Len(new) <= 2
    <2>1. SUFFICES ASSUME Len(new) > 2 PROVE FALSE
      BY <1>8
    <2>2. 1 \in DOMAIN new /\ 2 \in DOMAIN new /\ 3 \in DOMAIN new
      BY <1>8, <2>1
    <2>3. p[1] \in {1, 2} /\ p[2] \in {1, 2} /\ p[3] \in {1, 2}
      BY <1>8, <1>9, <2>2
    <2>4. p[1] < p[2] /\ p[2] < p[3]
      BY <1>8, <2>2
    <2> QED  BY <2>3, <2>4
  <1>11. Len(new) = 2 => new[1] # new[2]
    <2>1. SUFFICES ASSUME Len(new) = 2 PROVE new[1] # new[2]
      OBVIOUS
    <2>2. 1 \in DOMAIN new /\ 2 \in DOMAIN new
      BY <1>8, <2>1
    <2>3. p[1] \in {1, 2} /\ p[2] \in {1, 2}
      BY <1>8, <1>9, <2>2
    <2>6. p[1] < p[2]
      BY <1>8, <2>2
    <2>4. p[1] = 1 /\ p[2] = 2
      BY <2>3, <2>6
    <2>5. 2 \in DOMAIN both
      BY <1>1, <1>8, <2>2, <2>4
    <2> QED  BY <1>3, <1>8, <2>2, <2>4, <2>5
  <1>12. \A c \in ToSet(new) : c \notin ToSet(owners)
    <2>1. \A i \in DOMAIN new : new[i] \notin ToSet(owners)
      BY <1>4, <1>8
    <2> QED  BY <2>1 DEF ToSet
  <1>13. \A i \in DOMAIN both : both[i] \in ToSet(owners) \cup ToSet(new)
    <2> TAKE i \in DOMAIN both
    <2>1. i \in T => both[i] \in ToSet(new)
      BY <1>8 DEF ToSet
    <2> QED  BY <1>5, <2>1
  <1> QED  BY <1>3, <1>10, <1>11, <1>12, <1>13 DEF new

Owned ==
    /\ \A a \in Accounts : wallet[a] # <<>> => a \in ToSet(owners)
    /\ step \in {"exact", "gather", "end"} => {pay.from, pay.to} \subseteq ToSet(owners)

(* Nothing happens to the wallets of others than the payer and the payee.  *)
LEMMA OthersKeep ==
    ASSUME SimTypes, Exact \/ TransferOne \/ Split \/ Paid \/ BanknoteNew
    PROVE  /\ \A c \in Accounts : c # pay.from /\ c # pay.to => wallet'[c] = wallet[c]
           /\ owners' = owners /\ pay' = pay
  <1>1. wallet \in [Accounts -> Seq(NoteType)] /\ owners' = owners /\ pay' = pay
    BY DEF SimTypes, Exact, TransferOne, Split, Paid, BanknoteNew, bank, loop
  <1>2. ASSUME NEW i, BanknoteTransfer(i), NEW c \in Accounts, c # pay.from, c # pay.to
        PROVE  wallet'[c] = wallet[c]
    BY <1>1, <1>2 DEF BanknoteTransfer, Moved
  <1>3. (\E i : BanknoteTransfer(i)) \/ wallet' = wallet \/ Split \/ BanknoteNew
    BY DEF Exact, TransferOne, Paid, bank
  <1>4. ASSUME Split \/ BanknoteNew, NEW c \in Accounts, c # pay.from, c # pay.to
        PROVE  wallet'[c] = wallet[c]
    BY <1>1, <1>4 DEF Split, BanknoteNew
  <1> QED  BY <1>1, <1>2, <1>3, <1>4

(* Recycling leaves an empty wallet empty.                                 *)
LEMMA KeptNothing ==
    ASSUME SimTypes, NEW a \in Accounts, wallet[a] = <<>>
    PROVE  Kept(a) = <<>>
  <1>1. Kept(a) \in Seq(NoteType) /\ \E p : Enumerates(p, Kept(a), wallet[a], LeftPlaces(a))
    BY RecycledTypes
  <1>2. LeftPlaces(a) = {}
    BY DEF LeftPlaces
  <1>3. PICK p : p \in [DOMAIN Kept(a) -> {}]
    BY <1>1, <1>2 DEF Enumerates
  <1>4. DOMAIN Kept(a) = {}
    BY <1>3
  <1> QED  BY <1>1, <1>4

(* Only accounts that initialize_address_if_needed has entered ever hold   *)
(* banknotes.                                                              *)
LEMMA OwnedKeeps ==
    ASSUME SimTypes, Owned, [SimNext]_simVars
    PROVE  Owned'
  <1>1. wallet \in [Accounts -> Seq(NoteType)] /\ owners \in Seq(Accounts)
    BY DEF SimTypes
  <1>2. CASE NextTransfer
    <2>1. PICK a \in Accounts, b \in Accounts, x \in Values :
             LET new == NewOwners(a, b) IN
             /\ pay' = [from |-> a, to |-> b, value |-> x]
             /\ owners' = owners \o new
             /\ wallet' = [c \in Accounts |->
                             IF c \in ToSet(new)
                             THEN InitialNotes(drawn + (IF c = new[1] THEN 0 ELSE ShardNumber))
                             ELSE wallet[c]]
      BY <1>2 DEF NextTransfer
    <2> DEFINE new == NewOwners(a, b)
    <2>2. new \in Seq(Accounts) /\ {a, b} \subseteq ToSet(owners) \cup ToSet(new)
      <3>1. x \in Nat
        BY SimulatorAssumption
      <3> QED  BY <3>1, TransferBegins, NewOwnersAre
    <2>3. pay'.from = a /\ pay'.to = b /\ owners' = owners \o new
      BY <2>1
    <2>4. \A c \in Accounts : c \notin ToSet(new) => wallet'[c] = wallet[c]
      BY <2>1
    <2> HIDE DEF new
    <2>5. ToSet(owners) \cup ToSet(new) \subseteq ToSet(owners')
      <3> DEFINE z == owners \o new
      <3>1. /\ z \in Seq(Accounts) /\ Len(z) = Len(owners) + Len(new)
            /\ \A i \in 1..Len(owners) + Len(new) : z[i] = IF i <= Len(owners) THEN owners[i] ELSE new[i - Len(owners)]
        BY <1>1, <2>2, ConcatProperties
      <3>2. Len(owners) \in Nat /\ Len(new) \in Nat /\ DOMAIN owners = 1..Len(owners) /\ DOMAIN new = 1..Len(new)
        BY <1>1, <2>2
      <3> HIDE DEF z
      <3>3. DOMAIN z = 1..Len(owners) + Len(new)
        BY <3>1
      <3>4. ASSUME NEW i \in DOMAIN owners PROVE i \in DOMAIN z /\ z[i] = owners[i]
        BY <3>1, <3>2, <3>3
      <3>5. ASSUME NEW i \in DOMAIN new PROVE Len(owners) + i \in DOMAIN z /\ z[Len(owners) + i] = new[i]
        <4>1. Len(owners) + i \in 1..Len(owners) + Len(new) /\ ~ (Len(owners) + i <= Len(owners)) /\ (Len(owners) + i) - Len(owners) = i
          BY <3>2
        <4> QED  BY <3>1, <3>3, <4>1
      <3>6. ToSet(owners) \subseteq ToSet(z) /\ ToSet(new) \subseteq ToSet(z)
        BY <3>4, <3>5 DEF ToSet
      <3> QED  BY <2>3, <3>6 DEF z
    <2>6. {pay'.from, pay'.to} \subseteq ToSet(owners')
      BY <2>2, <2>3, <2>5
    <2>7. ASSUME NEW c \in Accounts, wallet'[c] # <<>> PROVE c \in ToSet(owners')
      BY <2>4, <2>5, <2>7 DEF Owned
    <2> QED  BY <2>6, <2>7 DEF Owned
  <1>3. CASE Exact \/ TransferOne \/ Split \/ Paid \/ BanknoteNew
    <2>1. /\ \A c \in Accounts : c # pay.from /\ c # pay.to => wallet'[c] = wallet[c]
          /\ owners' = owners /\ pay' = pay
      BY <1>3, OthersKeep
    <2>2. step \in {"exact", "gather", "end"}
      BY <1>3 DEF Exact, TransferOne, Split, Paid, BanknoteNew, Gathering
    <2>3. {pay.from, pay.to} \subseteq ToSet(owners)
      BY <2>2 DEF Owned
    <2>4. ToSet(owners') = ToSet(owners)
      BY <2>1
    <2> QED  BY <2>1, <2>3, <2>4 DEF Owned
  <1>4. CASE EndTransfer \/ EndOfInput \/ EndBlock
    <2>1. UNCHANGED <<wallet, owners>> /\ step' \in {"finalize", "next", "flush"}
      BY <1>4 DEF EndTransfer, EndOfInput, EndBlock, bank
    <2> QED  BY <2>1 DEF Owned
  <1>5. CASE Finalize
    <2>1. owners' = owners /\ step' = "block"
      BY <1>5 DEF Finalize
    <2>2. ASSUME NEW c \in Accounts, wallet'[c] # <<>> PROVE wallet[c] # <<>>
      <3>1. CASE wallet' = wallet
        BY <2>2, <3>1
      <3>2. CASE wallet' = [d \in Accounts |-> Kept(d)]
        <4>1. wallet'[c] = Kept(c)
          BY <3>2
        <4> QED  BY <2>2, <4>1, KeptNothing
      <3> QED  BY <1>5, <3>1, <3>2, RowsRecycled
    <2> QED  BY <2>1, <2>2 DEF Owned
  <1>6. CASE LastFlush \/ Interrupt
    BY <1>6 DEF LastFlush, Interrupt, Over, Owned
  <1>7. CASE UNCHANGED simVars
    BY <1>7 DEF simVars, bank, loop, Owned
  <1> QED  BY <1>2, <1>3, <1>4, <1>5, <1>6, <1>7 DEF SimNext

(* A block is finished behind a separator.                                 *)
EndsGroup ==
    step = "finalize" \/ (step = "next" /\ count > 0) =>
        Rows # <<>> /\ Rows[Len(Rows)] = Sep

(* The separator stays the last row until the next transfer.               *)
LEMMA EndsGroupKeeps ==
    ASSUME SimTypes, EndsGroup, [SimNext]_simVars
    PROVE  EndsGroup'
  <1>1. CASE EndTransfer
    <2>1. file' = file /\ buffer' = Append(buffer, Sep) /\ Sep \in RowType
      BY <1>1 DEF EndTransfer, RowType
    <2>2. Rows' = Append(Rows, Sep) /\ Rows \in Seq(RowType)
      BY <2>1, RowsAppend, RowsTypes
    <2> DEFINE R == Rows
               p == Append(R, Sep)
    <2>3. R \in Seq(RowType) /\ Rows' = p
      BY <2>2
    <2> HIDE DEF R
    <2>4. Len(p) = Len(R) + 1 /\ p[Len(R) + 1] = Sep /\ Len(R) \in Nat
      BY <2>1, <2>3, AppendProperties
    <2>5. p # <<>> /\ p[Len(p)] = Sep
      BY <2>4
    <2> HIDE DEF p
    <2> QED  BY <2>3, <2>5 DEF EndsGroup
  <1>2. CASE EndOfInput
    <2>1. step = "next" /\ UNCHANGED <<count, file, buffer>> /\ (step' = "finalize" => count > 0) /\ step' # "next"
      BY <1>2 DEF EndOfInput, out
    <2> QED  BY <2>1 DEF EndsGroup, Rows
  <1>3. CASE EndBlock
    <2>1. count' = 0 /\ step' # "finalize"
      BY <1>3 DEF EndBlock
    <2>2. ~ (count' > 0)
      BY <2>1
    <2> QED  BY <2>1, <2>2 DEF EndsGroup
  <1>4. CASE UNCHANGED simVars
    BY <1>4 DEF simVars, job, out, EndsGroup, Rows
  <1>5. CASE step' \notin {"finalize", "next"}
    BY <1>5 DEF EndsGroup
  <1>6. EndTransfer \/ EndOfInput \/ EndBlock \/ UNCHANGED simVars \/ step' \notin {"finalize", "next"}
    BY DEF SimNext, NextTransfer, Exact, TransferOne, Gathering, Split, Paid, BanknoteNew,
           Finalize, LastFlush, Interrupt, Over
  <1> QED  BY <1>1, <1>2, <1>3, <1>4, <1>5, <1>6

(* What follows the last separator is what the recycling has added.        *)
LEMMA SinceSep ==
    ASSUME NEW R \in Seq(RowType), NEW b \in Seq(RecycledRow), R # <<>>, R[Len(R)] = Sep
    PROVE  SubSeq(R \o b, SelectLastInSeq(R \o b, LAMBDA r : r = Sep) + 1, Len(R \o b)) = b
  <1> DEFINE z == R \o b
             I == {j \in 1..Len(z) : z[j] = Sep}
             m == Len(R)
             n == Len(b)
  <1>1. /\ b \in Seq(RowType) /\ m \in Nat /\ n \in Nat /\ m > 0
        /\ \A k \in 1..n : b[k] \in RecycledRow /\ b[k] # Sep
    <2>1. b \in Seq(RowType) /\ m \in Nat /\ n \in Nat /\ m > 0
      BY RecycledIsRow
    <2>2. \A k \in 1..n : b[k] \in RecycledRow
      OBVIOUS
    <2>3. \A r \in RecycledRow : r # Sep
      BY DEF RecycledRow, Sep
    <2> HIDE DEF n
    <2> QED  BY <2>1, <2>2, <2>3
  <1>2. /\ z \in Seq(RowType) /\ Len(z) = m + n
        /\ \A i \in 1..m + n : z[i] = IF i <= m THEN R[i] ELSE b[i - m]
    BY <1>1, ConcatProperties
  <1> HIDE DEF z, n
  <1>3. R[m] = Sep
    OBVIOUS
  <1> HIDE DEF m
  <1>4. m \in I /\ I \in SUBSET (1..Len(z)) /\ Len(z) \in Nat
    BY <1>1, <1>2, <1>3
  <1>5. \A j \in I : j \in 1..m + n /\ j <= m
    <2> TAKE j \in I
    <2>1. j \in 1..m + n /\ z[j] = Sep
      BY <1>2
    <2>2. SUFFICES ASSUME ~ (j <= m) PROVE FALSE
      BY <2>1
    <2>3. j - m \in 1..n /\ z[j] = b[j - m]
      BY <1>1, <1>2, <2>1, <2>2
    <2> QED  BY <1>1, <2>1, <2>3
  <1>6. Max(I) = m
    <2> HIDE DEF I
    <2>1. Max(I) \in I /\ m <= Max(I)
      BY <1>4, MaxIn
    <2> QED  BY <1>1, <1>5, <2>1
  <1>7. SelectLastInSeq(z, LAMBDA r : r = Sep) = m
    BY <1>4, <1>6 DEF SelectLastInSeq
  <1> HIDE DEF I
  <1> DEFINE y == SubSeq(z, m + 1, Len(z))
  <1>8. y \in Seq(RowType) /\ Len(y) = n /\ \A k \in 1..n : y[k] = z[(m + 1) + k - 1]
    <2>1. \A k \in m + 1..Len(z) : z[k] \in RowType
      BY <1>1, <1>2
    <2>2. (m + n) - (m + 1) + 1 = n /\ m + 1 \in Int /\ m + n \in Int /\ (m + 1 <= m + n <=> 1 <= n)
      BY <1>1
    <2>3. n = 0 \/ 1 <= n
      BY <1>1
    <2>4. /\ y \in Seq(RowType)
          /\ Len(y) = IF m + 1 <= m + n THEN (m + n) - (m + 1) + 1 ELSE 0
          /\ \A k \in 1..(m + n) - (m + 1) + 1 : y[k] = z[(m + 1) + k - 1]
      BY <1>2, <2>1, <2>2, SubSeqProperties
    <2> HIDE DEF y
    <2> QED  BY <2>2, <2>3, <2>4
  <1>9. ASSUME NEW k \in 1..n PROVE y[k] = b[k]
    <2>1. (m + 1) + k - 1 \in 1..m + n /\ ~ ((m + 1) + k - 1 <= m) /\ ((m + 1) + k - 1) - m = k
      BY <1>1
    <2> HIDE DEF y
    <2> QED  BY <1>2, <1>8, <2>1
  <1>10. y = b
    <2> HIDE DEF y
    <2>1. Len(b) = n /\ \A k \in 1..Len(y) : y[k] = b[k]
      BY <1>8, <1>9 DEF n
    <2> QED  BY <1>1, <1>8, <2>1, SeqEqual
  <1> QED  BY <1>7, <1>10 DEF z

(* Each old banknote that stays has its own neighbour that goes.           *)
LEMMA StaysAndGoes ==
    ASSUME SimTypes, Owned, NEW a \in Accounts
    PROVE  Cardinality({i \in DOMAIN Kept(a) : Old(Kept(a)[i])})
               <= Cardinality({j \in DOMAIN FlattenSeq(Recycling) : FlattenSeq(Recycling)[j].owner = a})
  <1> DEFINE list == wallet[a]
             all == [i \in DOMAIN list |-> RowOf(a, i)]
             kept == Kept(a)
             gone == Recycled(a)
             f == FlattenSeq(Recycling)
             left == {i \in DOMAIN kept : Old(kept[i])}
             taken == {j \in DOMAIN f : f[j].owner = a}
  <1>1. list \in Seq(NoteType) /\ owners \in Seq(Accounts)
    BY DEF SimTypes
  <1>2. /\ kept \in Seq(NoteType) /\ gone \in Seq(RecycledRow) /\ DOMAIN gone = 1..Len(gone) /\ Len(gone) \in Nat
        /\ \E p : Enumerates(p, kept, list, LeftPlaces(a))
        /\ \E p : Enumerates(p, gone, all, GonePlaces(a))
    <2>1. /\ kept \in Seq(NoteType) /\ gone \in Seq(RecycledRow)
          /\ \E p : Enumerates(p, kept, list, LeftPlaces(a))
          /\ \E p : Enumerates(p, gone, all, GonePlaces(a))
      BY RecycledTypes
    <2> HIDE DEF kept, gone, all, list
    <2> QED  BY <2>1
  <1>3. PICK p : Enumerates(p, kept, list, LeftPlaces(a))
    BY <1>2
  <1>4. PICK g : Enumerates(g, gone, all, GonePlaces(a))
    BY <1>2
  <1>5. Recycling \in Seq(Seq(RecycledRow)) /\ f \in Seq(RecycledRow)
    BY RecyclingTypes
  <1>6. IsFiniteSet(DOMAIN f)
    <2>1. DOMAIN f = 1..Len(f) /\ Len(f) \in Int
      BY <1>5
    <2> HIDE DEF f
    <2> QED  BY <2>1, FS_Interval
  <1>7. IsFiniteSet(taken) /\ Cardinality(taken) \in Nat
    <2>1. taken \in SUBSET DOMAIN f
      OBVIOUS
    <2> HIDE DEF taken, f
    <2> QED  BY <1>6, <2>1, FS_Subset, FS_CardinalityType
  <1>8. CASE list = <<>>
    <2>1. kept = <<>>
      BY <1>8, KeptNothing
    <2>2. left = {}
      BY <2>1
    <2>3. Cardinality(left) = 0
      BY <2>2, FS_EmptySet
    <2> HIDE DEF left, taken
    <2>4. Cardinality(left) <= Cardinality(taken)
      BY <1>7, <2>3
    <2> QED  BY <2>4 DEF left, taken
  <1>9. CASE list # <<>>
    <2>1. PICK m \in DOMAIN owners : owners[m] = a
      BY <1>9 DEF Owned, ToSet
    <2>2. m \in DOMAIN Recycling /\ Recycling[m] = gone
      BY <2>1 DEF Recycling
    <2>3. PICK d \in Nat : \A i \in DOMAIN gone : d + i \in DOMAIN f /\ f[d + i] = gone[i]
      <3> HIDE DEF gone
      <3>1. \A n \in DOMAIN Recycling : \E d \in Nat : \A i \in DOMAIN Recycling[n] :
               d + i \in DOMAIN FlattenSeq(Recycling) /\ FlattenSeq(Recycling)[d + i] = Recycling[n][i]
        BY <1>5, FlatParts
      <3> QED  BY <2>2, <3>1
    <2>4. ASSUME NEW i \in left
          PROVE  \E j \in DOMAIN gone : g[j] = p[i] - 1
      <3>1. i \in DOMAIN kept /\ Old(kept[i])
        OBVIOUS
      <3>2. p[i] \in LeftPlaces(a) /\ kept[i] = list[p[i]]
        <4> HIDE DEF kept, list
        <4> QED  BY <1>3, <3>1 DEF Enumerates
      <3>3. p[i] \in DOMAIN list /\ ~Removed(list)[p[i]] /\ Old(list[p[i]])
        BY <3>1, <3>2 DEF LeftPlaces
      <3>4. p[i] - 1 \in DOMAIN list /\ Removed(list)[p[i] - 1]
        <4> HIDE DEF list, kept
        <4> QED  BY <1>1, <3>3, StaysBehind
      <3>5. p[i] - 1 \in GonePlaces(a)
        BY <3>4 DEF GonePlaces
      <3> HIDE DEF gone, all
      <3> QED  BY <1>4, <3>5 DEF Enumerates
    <2> DEFINE at(i) == CHOOSE j \in DOMAIN gone : g[j] = p[i] - 1
               h == [i \in left |-> d + at(i)]
    <2>5. ASSUME NEW i \in left PROVE at(i) \in DOMAIN gone /\ g[at(i)] = p[i] - 1
      <3> HIDE DEF left, gone
      <3> QED  BY <2>4
    <2> HIDE DEF at
    <2>6. ASSUME NEW j \in DOMAIN gone PROVE gone[j].owner = a
      <3>1. g[j] \in GonePlaces(a) /\ gone[j] = all[g[j]]
        <4> HIDE DEF gone, all
        <4> QED  BY <1>4 DEF Enumerates
      <3>2. g[j] \in DOMAIN list
        BY <3>1 DEF GonePlaces
      <3>3. all[g[j]] = RowOf(a, g[j])
        BY <3>2
      <3> HIDE DEF gone, all
      <3> QED  BY <3>1, <3>3 DEF RowOf, Row
    <2>7. ASSUME NEW i \in left PROVE h[i] \in taken
      <3>1. at(i) \in DOMAIN gone
        BY <2>5
      <3>2. h[i] \in DOMAIN f /\ f[h[i]] = gone[at(i)]
        <4> HIDE DEF gone, f, left
        <4> QED  BY <2>3, <3>1
      <3>3. gone[at(i)].owner = a
        <4> HIDE DEF gone
        <4> QED  BY <2>6, <3>1
      <3> HIDE DEF gone, f, h
      <3> QED  BY <3>2, <3>3
    <2>8. ASSUME NEW i \in left, NEW k \in left, h[i] = h[k] PROVE i = k
      <3>0. d \in Nat
        BY <2>3
      <3>1. at(i) \in Nat /\ at(k) \in Nat
        <4>1. at(i) \in DOMAIN gone /\ at(k) \in DOMAIN gone
          BY <2>5
        <4> HIDE DEF gone
        <4> QED  BY <1>2, <4>1
      <3>2. h[i] = d + at(i) /\ h[k] = d + at(k)
        OBVIOUS
      <3> DEFINE u == at(i)
                 v == at(k)
      <3>9. d + u = d + v /\ u \in Nat /\ v \in Nat
        <4> HIDE DEF h
        <4> QED  BY <2>8, <3>1, <3>2
      <3> HIDE DEF u, v
      <3>10. u = v
        BY <3>0, <3>9
      <3>3. at(i) = at(k)
        BY <3>10 DEF u, v
      <3>4. p[i] - 1 = p[k] - 1
        BY <2>5, <3>3
      <3>5. i \in DOMAIN kept /\ k \in DOMAIN kept /\ DOMAIN kept = 1..Len(kept) /\ Len(kept) \in Nat
        BY <1>2
      <3>6. p[i] \in Nat /\ p[k] \in Nat
        <4>1. p[i] \in LeftPlaces(a) /\ p[k] \in LeftPlaces(a)
          <5> HIDE DEF kept, list
          <5> QED  BY <1>3, <3>5 DEF Enumerates
        <4>2. LeftPlaces(a) \subseteq DOMAIN list /\ DOMAIN list \subseteq Nat
          BY <1>1 DEF LeftPlaces
        <4> HIDE DEF list
        <4> QED  BY <4>1, <4>2
      <3>7. p[i] = p[k]
        BY <3>4, <3>6
      <3>8. (i < k => p[i] < p[k]) /\ (k < i => p[k] < p[i])
        <4> HIDE DEF kept, list
        <4> QED  BY <1>3, <3>5 DEF Enumerates
      <3> HIDE DEF kept
      <3> QED  BY <3>5, <3>6, <3>7, <3>8
    <2> HIDE DEF left, taken, h
    <2>9. h \in Injection(left, taken)
      <3>1. h \in [left -> taken]
        BY <2>7 DEF h
      <3>2. DOMAIN h = left
        BY <3>1
      <3> QED  BY <2>8, <3>1, <3>2 DEF Injection, IsInjective
    <2>10. Cardinality(left) <= Cardinality(taken)
      BY <1>7, <2>9, FS_Injection
    <2> QED  BY <2>10 DEF left, taken
  <1> QED  BY <1>8, <1>9

(* Recycling establishes it, and the step after it leaves the block.       *)
LEMMA RecyclingKeeps ==
    ASSUME SimTypes, Owned, EndsGroup, RecycleMissesNeighbours, [SimNext]_simVars
    PROVE  RecycleMissesNeighbours'
  <1>1. CASE step' # "block"
    BY <1>1 DEF RecycleMissesNeighbours
  <1>2. CASE Finalize
    <2> DEFINE f == FlattenSeq(Recycling)
    <2>1. block' = block /\ step = "finalize"
      BY <1>2 DEF Finalize, job
    <2>2. CASE block % RecycleInterval # 0
      BY <2>1, <2>2 DEF RecycleMissesNeighbours
    <2>3. CASE wallet' = [c \in Accounts |-> Kept(c)] /\ Rows' = Rows \o f
      <3>1. /\ Rows \in Seq(RowType) /\ f \in Seq(RecycledRow)
            /\ Rows # <<>> /\ Rows[Len(Rows)] = Sep
        BY <2>1, RowsTypes, RecyclingTypes DEF EndsGroup
      <3>2. SubSeq(Rows', SelectLastInSeq(Rows', LAMBDA r : r = Sep) + 1, Len(Rows')) = f
        <4> DEFINE R == Rows
        <4>1. R \in Seq(RowType) /\ R # <<>> /\ R[Len(R)] = Sep /\ Rows' = R \o f
          BY <2>3, <3>1
        <4> HIDE DEF f, R
        <4> QED  BY <3>1, <4>1, SinceSep
      <3>3. ASSUME NEW a \in Accounts
            PROVE  Cardinality({i \in DOMAIN wallet'[a] : block' - wallet'[a][i].seen > RecycleLength})
                       <= Cardinality({j \in DOMAIN f : f[j].owner = a})
        <4>1. wallet'[a] = Kept(a)
          BY <2>3
        <4>2. {i \in DOMAIN wallet'[a] : block' - wallet'[a][i].seen > RecycleLength} = {i \in DOMAIN Kept(a) : Old(Kept(a)[i])}
          BY <2>1, <4>1 DEF Old
        <4> QED  BY <4>2, StaysAndGoes
      <3> HIDE DEF f
      <3> QED  BY <3>2, <3>3 DEF RecycleMissesNeighbours, SinceLast, SelectLastInSeq, Old
    <2> QED  BY <1>2, <2>2, <2>3, RowsRecycled
  <1>3. CASE UNCHANGED simVars
    <2>1. UNCHANGED <<step, block, wallet, file, buffer>>
      BY <1>3 DEF simVars, bank, job, out
    <2>2. Rows' = Rows
      BY <2>1 DEF Rows
    <2>3. SinceLast(LAMBDA r : r = Sep)' = SinceLast(LAMBDA r : r = Sep)
      BY <2>2 DEF SinceLast, SelectLastInSeq
    <2>4. \A a \in Accounts : {i \in DOMAIN wallet[a] : Old(wallet[a][i])}'
                                = {i \in DOMAIN wallet[a] : Old(wallet[a][i])}
      BY <2>1 DEF Old
    <2> QED  BY <2>1, <2>3, <2>4 DEF RecycleMissesNeighbours
  <1>4. Finalize \/ UNCHANGED simVars \/ step' # "block"
    BY DEF SimNext, NextTransfer, Exact, TransferOne, Gathering, Split, Paid, BanknoteNew,
           EndTransfer, EndOfInput, EndBlock, LastFlush, Interrupt, Over
  <1> QED  BY <1>1, <1>2, <1>3, <1>4

(* Of the old banknotes of a wallet, recycling takes at least as many as   *)
(* it leaves, for every data set (finalize_block of tx_simulator.py        *)
(* removes from the list that its loop is over): no two old ones in a row  *)
(* stay.                                                                   *)
THEOREM RecyclingMisses == Spec => []RecycleMissesNeighbours
  <1>1. Init => SimTypes /\ Owned /\ EndsGroup /\ RecycleMissesNeighbours
    <2> SUFFICES ASSUME Init PROVE SimTypes /\ Owned /\ EndsGroup /\ RecycleMissesNeighbours
      OBVIOUS
    <2>1. SimInit
      BY DEF Init
    <2>2. Owned /\ EndsGroup /\ RecycleMissesNeighbours
      BY <2>1 DEF SimInit, Owned, EndsGroup, RecycleMissesNeighbours
    <2> QED  BY <2>1, <2>2, InitTypes
  <1>2. SimTypes /\ Owned /\ EndsGroup /\ RecycleMissesNeighbours /\ [Next]_vars
        => (SimTypes /\ Owned /\ EndsGroup /\ RecycleMissesNeighbours)'
    BY NextIsSim, TypesKeep, OwnedKeeps, EndsGroupKeeps, RecyclingKeeps
  <1> QED  BY <1>1, <1>2, PTL DEF Spec

-----------------------------------------------------------------------------
(* The rows and the wallets.  What wallets W hold, and that each banknote  *)
(* is in one place of one of them.                                         *)
HeldIn(W) == UNION {{Known(W[a][i].note, W[a][i].value, a) : i \in DOMAIN W[a]} : a \in Accounts}
DistinctIn(W) ==
    \A a, b \in Accounts : \A i \in DOMAIN W[a], j \in DOMAIN W[b] :
        W[a][i].note = W[b][j].note => a = b /\ i = j
Wallets == [Accounts -> Seq(NoteType)]

(* What wallets hold, place by place.                                      *)
LEMMA InWallets ==
    ASSUME NEW W, NEW h
    PROVE  h \in HeldIn(W) <=> \E a \in Accounts : \E i \in DOMAIN W[a] :
                                  h = Known(W[a][i].note, W[a][i].value, a)
  BY DEF HeldIn

(* The fields of what a node knows of a banknote.                          *)
LEMMA KnownFields ==
    ASSUME NEW n, NEW v, NEW a
    PROVE  Known(n, v, a).note = n /\ Known(n, v, a).value = v /\ Known(n, v, a).owner = a
  BY DEF Known

(* If no banknote is in two places, its hash tells it.                     *)
LEMMA HeldOnce ==
    ASSUME NEW W, DistinctIn(W)
    PROVE  \A h, k \in HeldIn(W) : h.note = k.note => h = k
  <1> TAKE h, k \in HeldIn(W)
  <1>1. PICK a \in Accounts : \E i \in DOMAIN W[a] : h = Known(W[a][i].note, W[a][i].value, a)
    BY InWallets
  <1>2. PICK i \in DOMAIN W[a] : h = Known(W[a][i].note, W[a][i].value, a)
    BY <1>1
  <1>3. PICK b \in Accounts : \E j \in DOMAIN W[b] : k = Known(W[b][j].note, W[b][j].value, b)
    BY InWallets
  <1>4. PICK j \in DOMAIN W[b] : k = Known(W[b][j].note, W[b][j].value, b)
    BY <1>3
  <1>5. h.note = k.note => W[a][i].note = W[b][j].note
    BY <1>2, <1>4, KnownFields
  <1>6. h.note = k.note => a = b /\ i = j
    BY <1>5 DEF DistinctIn
  <1> QED  BY <1>2, <1>4, <1>6

(* A banknote leaves its place ...                                         *)
Drop(W, a, i) == [W EXCEPT ![a] = RemoveAt(@, i)]
LEMMA DropHeld ==
    ASSUME NEW W \in Wallets, DistinctIn(W), NEW a \in Accounts, NEW i \in DOMAIN W[a]
    PROVE  /\ Drop(W, a, i) \in Wallets /\ DistinctIn(Drop(W, a, i))
           /\ HeldIn(Drop(W, a, i)) = {h \in HeldIn(W) : h.note # W[a][i].note}
  <1> DEFINE V == Drop(W, a, i)
             m == Len(W[a])
             src(b, j) == IF b = a /\ j >= i THEN j + 1 ELSE j
  <1>1. /\ W[a] \in Seq(NoteType) /\ m \in Nat /\ i \in 1..m /\ DOMAIN W[a] = 1..m
    BY DEF Wallets
  <1>2. /\ RemoveAt(W[a], i) \in Seq(NoteType) /\ Len(RemoveAt(W[a], i)) = m - 1
        /\ \A j \in 1..m - 1 : RemoveAt(W[a], i)[j] = IF j < i THEN W[a][j] ELSE W[a][j + 1]
    BY <1>1, Without
  <1>3. V \in Wallets /\ V[a] = RemoveAt(W[a], i) /\ \A b \in Accounts : b # a => V[b] = W[b]
    BY <1>2 DEF Wallets, Drop
  <1> HIDE DEF V, m
  <1>4. DOMAIN V[a] = 1..m - 1
    BY <1>2, <1>3
  <1>5. ASSUME NEW b \in Accounts, NEW j \in DOMAIN V[b]
        PROVE  /\ src(b, j) \in DOMAIN W[b] /\ V[b][j] = W[b][src(b, j)]
               /\ b = a => src(b, j) # i
    <2>1. CASE b # a
      BY <1>3, <1>5, <2>1
    <2>2. CASE b = a
      <3>1. j \in 1..m - 1 /\ j \in Nat /\ i \in Nat
        BY <1>1, <1>4, <1>5, <2>2
      <3>2. j < i \/ j >= i
        BY <3>1
      <3>3. CASE j < i
        <4>1. src(b, j) = j /\ j \in 1..m /\ j # i
          BY <1>1, <3>1, <3>3
        <4> QED  BY <1>1, <1>2, <1>3, <2>2, <3>1, <3>3, <4>1
      <3>4. CASE j >= i
        <4>1. src(b, j) = j + 1 /\ j + 1 \in 1..m /\ j + 1 # i /\ ~ (j < i)
          BY <1>1, <2>2, <3>1, <3>4
        <4> QED  BY <1>1, <1>2, <1>3, <2>2, <3>1, <3>4, <4>1
      <3> QED  BY <3>2, <3>3, <3>4
    <2> QED  BY <2>1, <2>2
  <1>6. ASSUME NEW b \in Accounts, NEW j \in DOMAIN W[b], ~ (b = a /\ j = i)
        PROVE  \E k \in DOMAIN V[b] : V[b][k] = W[b][j]
    <2>1. CASE b # a
      BY <1>3, <1>6, <2>1
    <2>2. CASE b = a
      <3>1. j \in 1..m /\ j \in Nat /\ i \in Nat /\ j # i
        BY <1>1, <1>6, <2>2
      <3>2. CASE j < i
        <4>1. j \in 1..m - 1
          BY <1>1, <3>1, <3>2
        <4> QED  BY <1>2, <1>3, <1>4, <2>2, <3>2, <4>1
      <3>3. CASE j > i
        <4>1. j - 1 \in 1..m - 1 /\ ~ (j - 1 < i) /\ (j - 1) + 1 = j
          BY <1>1, <3>1, <3>3
        <4> QED  BY <1>2, <1>3, <1>4, <2>2, <4>1
      <3> QED  BY <3>1, <3>2, <3>3
    <2> QED  BY <2>1, <2>2
  <1>7. DistinctIn(V)
    <2>1. SUFFICES ASSUME NEW b \in Accounts, NEW c \in Accounts, NEW j \in DOMAIN V[b], NEW k \in DOMAIN V[c],
                          V[b][j].note = V[c][k].note
                   PROVE  b = c /\ j = k
      BY DEF DistinctIn
    <2>2. /\ src(b, j) \in DOMAIN W[b] /\ V[b][j] = W[b][src(b, j)]
          /\ src(c, k) \in DOMAIN W[c] /\ V[c][k] = W[c][src(c, k)]
      BY <1>5
    <2>3. b = c /\ src(b, j) = src(c, k)
      <3> HIDE DEF src
      <3> QED  BY <2>1, <2>2 DEF DistinctIn
    <2>4. j \in Nat /\ k \in Nat /\ i \in Nat
      <3>1. V[b] \in Seq(NoteType) /\ V[c] \in Seq(NoteType)
        BY <1>3 DEF Wallets
      <3> QED  BY <1>1, <3>1
    <2> QED  BY <2>3, <2>4
  <1> HIDE DEF src
  <1>8. ASSUME NEW h \in HeldIn(V) PROVE h \in HeldIn(W) /\ h.note # W[a][i].note
    <2>1. PICK b \in Accounts : \E j \in DOMAIN V[b] : h = Known(V[b][j].note, V[b][j].value, b)
      BY InWallets
    <2>2. PICK j \in DOMAIN V[b] : h = Known(V[b][j].note, V[b][j].value, b)
      BY <2>1
    <2>3. /\ src(b, j) \in DOMAIN W[b] /\ V[b][j] = W[b][src(b, j)] /\ (b = a => src(b, j) # i)
      BY <1>5
    <2>4. h \in HeldIn(W)
      BY <2>2, <2>3, InWallets
    <2>5. h.note = W[b][src(b, j)].note
      BY <2>2, <2>3, KnownFields
    <2> QED  BY <2>3, <2>4, <2>5 DEF DistinctIn
  <1>9. ASSUME NEW h \in HeldIn(W), h.note # W[a][i].note PROVE h \in HeldIn(V)
    <2>1. PICK b \in Accounts : \E j \in DOMAIN W[b] : h = Known(W[b][j].note, W[b][j].value, b)
      BY InWallets
    <2>2. PICK j \in DOMAIN W[b] : h = Known(W[b][j].note, W[b][j].value, b)
      BY <2>1
    <2>3. ~ (b = a /\ j = i)
      BY <1>9, <2>2, KnownFields
    <2>4. PICK k \in DOMAIN V[b] : V[b][k] = W[b][j]
      BY <1>6, <2>3
    <2> QED  BY <2>2, <2>4, InWallets
  <1> QED  BY <1>3, <1>7, <1>8, <1>9 DEF V

(* ... and a new one, or the one that left, is added to a wallet.          *)
Add(W, a, n) == [W EXCEPT ![a] = Append(@, n)]
LEMMA AddHeld ==
    ASSUME NEW W \in Wallets, DistinctIn(W), NEW a \in Accounts, NEW n \in NoteType,
           \A h \in HeldIn(W) : h.note # n.note
    PROVE  /\ Add(W, a, n) \in Wallets /\ DistinctIn(Add(W, a, n))
           /\ HeldIn(Add(W, a, n)) = HeldIn(W) \cup {Known(n.note, n.value, a)}
  <1> DEFINE V == Add(W, a, n)
             m == Len(W[a])
  <1>1. /\ W[a] \in Seq(NoteType) /\ m \in Nat /\ DOMAIN W[a] = 1..m
    BY DEF Wallets
  <1>2. /\ Append(W[a], n) \in Seq(NoteType) /\ Len(Append(W[a], n)) = m + 1
        /\ Append(W[a], n)[m + 1] = n /\ \A j \in 1..m : Append(W[a], n)[j] = W[a][j]
    BY <1>1, AppendProperties
  <1>3. V \in Wallets /\ V[a] = Append(W[a], n) /\ \A b \in Accounts : b # a => V[b] = W[b]
    BY <1>2 DEF Wallets, Add
  <1> HIDE DEF V, m
  <1>4. DOMAIN V[a] = 1..m + 1
    BY <1>2, <1>3
  <1>5. ASSUME NEW b \in Accounts, NEW j \in DOMAIN V[b]
        PROVE  \/ b = a /\ j = m + 1 /\ V[b][j] = n
               \/ j \in DOMAIN W[b] /\ V[b][j] = W[b][j]
    <2>1. CASE b # a
      BY <1>3, <1>5, <2>1
    <2>2. CASE b = a
      <3>1. j = m + 1 \/ j \in 1..m
        BY <1>1, <1>4, <1>5, <2>2
      <3> QED  BY <1>1, <1>2, <1>3, <2>2, <3>1
    <2> QED  BY <2>1, <2>2
  <1>6. ASSUME NEW b \in Accounts, NEW j \in DOMAIN W[b]
        PROVE  j \in DOMAIN V[b] /\ V[b][j] = W[b][j] /\ W[b][j].note # n.note
    <2>1. W[b][j].note # n.note
      <3>1. Known(W[b][j].note, W[b][j].value, b) \in HeldIn(W)
        BY <1>6, InWallets
      <3> QED  BY <3>1, KnownFields
    <2>2. CASE b # a
      BY <1>3, <1>6, <2>1, <2>2
    <2>3. CASE b = a
      <3>1. j \in 1..m /\ j \in 1..m + 1
        BY <1>1, <1>6, <2>3
      <3> QED  BY <1>1, <1>2, <1>3, <1>4, <2>1, <2>3, <3>1
    <2> QED  BY <2>2, <2>3
  <1>7. DistinctIn(V)
    <2>1. SUFFICES ASSUME NEW b \in Accounts, NEW c \in Accounts, NEW j \in DOMAIN V[b], NEW k \in DOMAIN V[c],
                          V[b][j].note = V[c][k].note
                   PROVE  b = c /\ j = k
      BY DEF DistinctIn
    <2>2. \/ b = a /\ j = m + 1 /\ V[b][j] = n
          \/ j \in DOMAIN W[b] /\ V[b][j] = W[b][j] /\ W[b][j].note # n.note
      BY <1>5, <1>6
    <2>3. \/ c = a /\ k = m + 1 /\ V[c][k] = n
          \/ k \in DOMAIN W[c] /\ V[c][k] = W[c][k] /\ W[c][k].note # n.note
      BY <1>5, <1>6
    <2> QED  BY <2>1, <2>2, <2>3 DEF DistinctIn
  <1>8. ASSUME NEW h \in HeldIn(V) PROVE h \in HeldIn(W) \cup {Known(n.note, n.value, a)}
    <2>1. PICK b \in Accounts : \E j \in DOMAIN V[b] : h = Known(V[b][j].note, V[b][j].value, b)
      BY InWallets
    <2>2. PICK j \in DOMAIN V[b] : h = Known(V[b][j].note, V[b][j].value, b)
      BY <2>1
    <2>3. \/ b = a /\ j = m + 1 /\ V[b][j] = n
          \/ j \in DOMAIN W[b] /\ V[b][j] = W[b][j]
      BY <1>5
    <2> QED  BY <2>2, <2>3, InWallets
  <1>9. ASSUME NEW h \in HeldIn(W) PROVE h \in HeldIn(V)
    <2>1. PICK b \in Accounts : \E j \in DOMAIN W[b] : h = Known(W[b][j].note, W[b][j].value, b)
      BY InWallets
    <2>2. PICK j \in DOMAIN W[b] : h = Known(W[b][j].note, W[b][j].value, b)
      BY <2>1
    <2>3. j \in DOMAIN V[b] /\ V[b][j] = W[b][j]
      BY <1>6
    <2> QED  BY <2>2, <2>3, InWallets
  <1>10. Known(n.note, n.value, a) \in HeldIn(V)
    <2>1. m + 1 \in DOMAIN V[a] /\ V[a][m + 1] = n
      BY <1>1, <1>2, <1>3, <1>4
    <2> QED  BY <2>1, InWallets
  <1> QED  BY <1>3, <1>7, <1>8, <1>9, <1>10 DEF V

(* WalletsAreReplay, of what is held, what the rows R leave known, and the *)
(* hashes drawn: no hash that a row or a wallet names is still to come.    *)
ShareIn(R, k) ==
    /\ \E r \in R : r.kind = "BS" /\ r.note2 = k.note /\ r.owner = k.owner
    /\ \A r \in R : r.kind = "BT" => r.note # k.note
Told(H, L, R) ==
    /\ \A k \in L : \E h \in H : h.note = k.note /\ h.value = k.value /\ (h.owner = k.owner \/ ShareIn(R, k))
    /\ \A h \in H : (\A k \in L : k.note # h.note) =>
          h.value = DefaultBalance /\ \A r \in R : r # Sep => h.note \notin Names(r)
Drawn(H, R, n) ==
    /\ n \in Nat
    /\ \A h \in H : h.note \in 1..n
    /\ \A r \in R : r # Sep => Names(r) \subseteq 0..n
Once(H) == \A h, k \in H : h.note = k.note => h = k

(* A transfer: the row and the wallets name the new owner.                 *)
LEMMA TransferTold ==
    ASSUME NEW H, NEW L, NEW R, NEW n, NEW note, NEW v, NEW a, NEW b,
           Told(H, L, R), Drawn(H, R, n), Once(H), Known(note, v, a) \in H
    PROVE  LET r == Row("BT", note, v, b)
               K == {h \in H : h.note # note} \cup {Known(note, v, b)}
           IN  Told(K, After(L, r), R \cup {r}) /\ Drawn(K, R \cup {r}, n)
  <1> DEFINE r == Row("BT", note, v, b)
             new == Known(note, v, b)
             K == {h \in H : h.note # note} \cup {new}
             M == {k \in L : k.note # note} \cup {new}
  <1>1. /\ r.kind = "BT" /\ r.note = note /\ r # Sep /\ Names(r) = {note}
        /\ new.note = note /\ new.value = v /\ new.owner = b
        /\ Known(note, v, a).note = note
    BY DEF Row, Sep, Names, Known
  <1>2. After(L, r) = M
    <2>1. r.value = v /\ r.owner = b
      BY DEF Row
    <2> HIDE DEF r
    <2> QED  BY <1>1, <2>1 DEF After
  <1>3. note \in 1..n /\ n \in Nat
    BY <1>1 DEF Drawn
  <1> HIDE DEF r, new
  <1>4. ASSUME NEW k \in M
        PROVE  \E h \in K : h.note = k.note /\ h.value = k.value /\ (h.owner = k.owner \/ ShareIn(R \cup {r}, k))
    <2>1. CASE k = new
      BY <2>1
    <2>2. CASE k # new
      <3>1. k \in L /\ k.note # note
        BY <2>2
      <3>2. PICK h \in H : h.note = k.note /\ h.value = k.value /\ (h.owner = k.owner \/ ShareIn(R, k))
        BY <3>1 DEF Told
      <3>3. ShareIn(R, k) => ShareIn(R \cup {r}, k)
        BY <1>1, <3>1 DEF ShareIn
      <3>4. h \in K
        BY <3>1, <3>2
      <3> QED  BY <3>2, <3>3, <3>4
    <2> QED  BY <2>1, <2>2
  <1>5. ASSUME NEW h \in K, \A k \in M : k.note # h.note
        PROVE  h.value = DefaultBalance /\ \A s \in R \cup {r} : s # Sep => h.note \notin Names(s)
    <2>1. h # new
      BY <1>1, <1>5
    <2>2. h \in H /\ h.note # note
      BY <2>1
    <2>3. \A k \in L : k.note # h.note
      BY <1>5, <2>2
    <2>4. h.value = DefaultBalance /\ \A s \in R : s # Sep => h.note \notin Names(s)
      BY <2>2, <2>3 DEF Told
    <2> QED  BY <1>1, <2>2, <2>4
  <1>6. Told(K, M, R \cup {r})
    <2> HIDE DEF K, M
    <2> QED  BY <1>4, <1>5 DEF Told
  <1>7. Drawn(K, R \cup {r}, n)
    BY <1>1, <1>3 DEF Drawn
  <1> QED  BY <1>2, <1>6, <1>7 DEF r, new

(* A split: the payee's share is the payer's in the row.                   *)
LEMMA SplitTold ==
    ASSUME NEW H, NEW L, NEW R, NEW n, NEW note, NEW v, NEW a, NEW b, NEW x, NEW y,
           Told(H, L, R), Drawn(H, R, n), Once(H), Known(note, v, a) \in H,
           NEW r, r.kind = "BS", r.from = note, r.owner = a,
           r.note = n + 1, r.value = x, r.note2 = n + 2, r.value2 = y
    PROVE  LET K == {h \in H : h.note # note} \cup {Known(n + 1, x, a), Known(n + 2, y, b)}
           IN  Told(K, After(L, r), R \cup {r}) /\ Drawn(K, R \cup {r}, n + 2)
  <1> DEFINE one == Known(n + 1, x, a)
             two == Known(n + 2, y, a)
             own == Known(n + 2, y, b)
             K == {h \in H : h.note # note} \cup {one, own}
             M == {k \in L : k.note # note} \cup {one, two}
  <1>1. /\ r # Sep /\ Names(r) = {note, n + 1, n + 2}
        /\ one.note = n + 1 /\ one.value = x /\ one.owner = a
        /\ two.note = n + 2 /\ two.value = y /\ two.owner = a
        /\ own.note = n + 2 /\ own.value = y /\ own.owner = b
        /\ Known(note, v, a).note = note
    BY DEF Sep, Names, Known
  <1>2. After(L, r) = M
    BY DEF After
  <1>3. note \in 1..n /\ n \in Nat
    BY <1>1 DEF Drawn
  <1> HIDE DEF one, two, own
  <1>4. ASSUME NEW k \in M
        PROVE  \E h \in K : h.note = k.note /\ h.value = k.value /\ (h.owner = k.owner \/ ShareIn(R \cup {r}, k))
    <2>1. CASE k = one
      BY <2>1
    <2>2. CASE k = two
      <3>1. \A s \in R \cup {r} : s.kind = "BT" => s.note # n + 2
        <4> TAKE s \in R \cup {r}
        <4>1. CASE s = r
          BY <4>1
        <4>2. CASE s \in R /\ s # Sep
          <5>1. s.note \in 0..n
            BY <4>2 DEF Drawn, Names
          <5> QED  BY <1>3, <5>1
        <4>3. CASE s = Sep
          BY <4>3 DEF Sep
        <4> QED  BY <4>1, <4>2, <4>3
      <3>2. ShareIn(R \cup {r}, k)
        BY <1>1, <2>2, <3>1 DEF ShareIn
      <3> QED  BY <1>1, <2>2, <3>2
    <2>3. CASE k # one /\ k # two
      <3>1. k \in L /\ k.note # note
        BY <2>3
      <3>2. PICK h \in H : h.note = k.note /\ h.value = k.value /\ (h.owner = k.owner \/ ShareIn(R, k))
        BY <3>1 DEF Told
      <3>3. ShareIn(R, k) => ShareIn(R \cup {r}, k)
        BY <1>1, <3>1 DEF ShareIn
      <3>4. h \in K
        BY <3>1, <3>2
      <3> QED  BY <3>2, <3>3, <3>4
    <2> QED  BY <2>1, <2>2, <2>3
  <1>5. ASSUME NEW h \in K, \A k \in M : k.note # h.note
        PROVE  h.value = DefaultBalance /\ \A s \in R \cup {r} : s # Sep => h.note \notin Names(s)
    <2>1. h # one /\ h # own
      BY <1>1, <1>5
    <2>2. h \in H /\ h.note # note
      BY <2>1
    <2>3. \A k \in L : k.note # h.note
      BY <1>5, <2>2
    <2>4. h.value = DefaultBalance /\ \A s \in R : s # Sep => h.note \notin Names(s)
      BY <2>2, <2>3 DEF Told
    <2>5. h.note \in 1..n
      BY <2>2 DEF Drawn
    <2>6. h.note \notin Names(r)
      BY <1>1, <1>3, <2>2, <2>5
    <2> QED  BY <2>4, <2>6
  <1>6. Told(K, M, R \cup {r})
    <2> HIDE DEF K, M
    <2> QED  BY <1>4, <1>5 DEF Told
  <1>7. Drawn(K, R \cup {r}, n + 2)
    <2>1. \A h \in K : h.note \in 1..n + 2
      <3> TAKE h \in K
      <3>1. h = one \/ h = own \/ h.note \in 1..n
        BY DEF Drawn
      <3> QED  BY <1>1, <1>3, <3>1
    <2>2. \A s \in R \cup {r} : s # Sep => Names(s) \subseteq 0..n + 2
      <3> TAKE s \in R \cup {r}
      <3>1. CASE s = r
        BY <1>1, <1>3, <3>1
      <3>2. CASE s # r
        <4>1. s # Sep => Names(s) \subseteq 0..n
          BY <3>2 DEF Drawn
        <4>2. 0..n \subseteq 0..n + 2
          BY <1>3
        <4> QED  BY <4>1, <4>2
      <3> QED  BY <3>1, <3>2
    <2> HIDE DEF K
    <2> QED  BY <1>3, <2>1, <2>2 DEF Drawn
  <1> QED  BY <1>2, <1>6, <1>7 DEF one, own

(* An issue.                                                               *)
LEMMA NewTold ==
    ASSUME NEW H, NEW L, NEW R, NEW n, NEW v, NEW b, Told(H, L, R), Drawn(H, R, n)
    PROVE  LET r == Row("BG", n + 1, v, b)
               K == H \cup {Known(n + 1, v, b)}
           IN  Told(K, After(L, r), R \cup {r}) /\ Drawn(K, R \cup {r}, n + 1)
  <1> DEFINE r == Row("BG", n + 1, v, b)
             new == Known(n + 1, v, b)
             K == H \cup {new}
             M == L \cup {new}
  <1>1. /\ r.kind = "BG" /\ r # Sep /\ Names(r) = {n + 1}
        /\ new.note = n + 1 /\ new.value = v /\ new.owner = b
    BY DEF Row, Sep, Names, Known
  <1>2. After(L, r) = M
    <2>1. r.note = n + 1 /\ r.value = v /\ r.owner = b
      BY DEF Row
    <2> HIDE DEF r
    <2> QED  BY <1>1, <2>1 DEF After
  <1>3. n \in Nat
    BY DEF Drawn
  <1> HIDE DEF r, new
  <1>4. ASSUME NEW k \in M
        PROVE  \E h \in K : h.note = k.note /\ h.value = k.value /\ (h.owner = k.owner \/ ShareIn(R \cup {r}, k))
    <2>1. CASE k = new
      BY <2>1
    <2>2. CASE k # new
      <3>1. k \in L
        BY <2>2
      <3>2. PICK h \in H : h.note = k.note /\ h.value = k.value /\ (h.owner = k.owner \/ ShareIn(R, k))
        BY <3>1 DEF Told
      <3>3. ShareIn(R, k) => ShareIn(R \cup {r}, k)
        BY <1>1 DEF ShareIn
      <3> QED  BY <3>2, <3>3
    <2> QED  BY <2>1, <2>2
  <1>5. ASSUME NEW h \in K, \A k \in M : k.note # h.note
        PROVE  h.value = DefaultBalance /\ \A s \in R \cup {r} : s # Sep => h.note \notin Names(s)
    <2>1. h # new
      BY <1>1, <1>5
    <2>2. h \in H /\ \A k \in L : k.note # h.note
      BY <1>5, <2>1
    <2>3. h.value = DefaultBalance /\ \A s \in R : s # Sep => h.note \notin Names(s)
      BY <2>2 DEF Told
    <2>4. h.note \in 1..n
      BY <2>2 DEF Drawn
    <2> QED  BY <1>1, <1>3, <2>3, <2>4
  <1>6. Told(K, M, R \cup {r})
    <2> HIDE DEF K, M
    <2> QED  BY <1>4, <1>5 DEF Told
  <1>7. Drawn(K, R \cup {r}, n + 1)
    <2>1. \A h \in K : h.note \in 1..n + 1
      <3> TAKE h \in K
      <3>1. h = new \/ h.note \in 1..n
        BY DEF Drawn
      <3> QED  BY <1>1, <1>3, <3>1
    <2>2. \A s \in R \cup {r} : s # Sep => Names(s) \subseteq 0..n + 1
      <3> TAKE s \in R \cup {r}
      <3>1. CASE s = r
        BY <1>1, <1>3, <3>1
      <3>2. CASE s # r
        <4>1. s # Sep => Names(s) \subseteq 0..n
          BY <3>2 DEF Drawn
        <4>2. 0..n \subseteq 0..n + 1
          BY <1>3
        <4> QED  BY <4>1, <4>2
      <3> QED  BY <3>1, <3>2
    <2> HIDE DEF K
    <2> QED  BY <1>3, <2>1, <2>2 DEF Drawn
  <1> QED  BY <1>2, <1>6, <1>7 DEF r, new

(* An origin row or a separator, with the initial banknotes of new owners. *)
LEMMA InitialTold ==
    ASSUME NEW H, NEW L, NEW R, NEW n, NEW m, NEW I, NEW r, Told(H, L, R), Drawn(H, R, n),
           m \in Nat, n <= m, \A h \in I : h.note \in n + 1..m /\ h.value = DefaultBalance,
           r = Sep \/ (r.kind = "USDT" /\ r.note = 0)
    PROVE  Told(H \cup I, After(L, r), R \cup {r}) /\ Drawn(H \cup I, R \cup {r}, m)
  <1>1. After(L, r) = L /\ r.kind # "BS" /\ r.kind # "BT" /\ n \in Nat
    BY DEF After, Sep, Drawn
  <1>2. r # Sep => Names(r) = {0}
    BY <1>1 DEF Names
  <1>3. ASSUME NEW k \in L
        PROVE  \E h \in H \cup I : h.note = k.note /\ h.value = k.value /\ (h.owner = k.owner \/ ShareIn(R \cup {r}, k))
    <2>1. PICK h \in H : h.note = k.note /\ h.value = k.value /\ (h.owner = k.owner \/ ShareIn(R, k))
      BY DEF Told
    <2>2. ShareIn(R, k) => ShareIn(R \cup {r}, k)
      BY <1>1 DEF ShareIn
    <2> QED  BY <2>1, <2>2
  <1>4. ASSUME NEW h \in H \cup I, \A k \in L : k.note # h.note
        PROVE  h.value = DefaultBalance /\ \A s \in R \cup {r} : s # Sep => h.note \notin Names(s)
    <2>1. h.note \in Nat /\ h.note > 0
      BY <1>1 DEF Drawn
    <2>2. h.value = DefaultBalance /\ \A s \in R : s # Sep => h.note \notin Names(s)
      <3>1. CASE h \in H
        BY <1>4, <3>1 DEF Told
      <3>2. CASE h \in I
        <4>1. h.value = DefaultBalance /\ h.note \notin 0..n
          BY <1>1, <3>2
        <4> QED  BY <4>1 DEF Drawn
      <3> QED  BY <3>1, <3>2
    <2> QED  BY <1>2, <2>1, <2>2
  <1>5. Told(H \cup I, L, R \cup {r})
    <2> DEFINE K == H \cup I
               S == R \cup {r}
    <2>1. /\ \A k \in L : \E h \in K : h.note = k.note /\ h.value = k.value /\ (h.owner = k.owner \/ ShareIn(S, k))
          /\ \A h \in K : (\A k \in L : k.note # h.note) =>
                h.value = DefaultBalance /\ \A s \in S : s # Sep => h.note \notin Names(s)
      BY <1>3, <1>4
    <2> HIDE DEF K, S
    <2>2. Told(K, L, S)
      BY <2>1 DEF Told
    <2> QED  BY <2>2 DEF K, S
  <1>6. Drawn(H \cup I, R \cup {r}, m)
    <2>1. \A h \in H \cup I : h.note \in 1..m
      <3> TAKE h \in H \cup I
      <3>1. h.note \in 1..n \/ h.note \in n + 1..m
        BY DEF Drawn
      <3> QED  BY <1>1, <3>1
    <2>2. \A s \in R \cup {r} : s # Sep => Names(s) \subseteq 0..m
      <3>1. 0..n \subseteq 0..m /\ {0} \subseteq 0..m
        BY <1>1
      <3> QED  BY <1>2, <3>1 DEF Drawn
    <2> QED  BY <2>1, <2>2 DEF Drawn
  <1> QED  BY <1>1, <1>5, <1>6

(* A recycled banknote is gone from the wallets and from what is known.    *)
LEMMA RecycledTold ==
    ASSUME NEW H, NEW L, NEW R, NEW n, NEW r, Told(H, L, R), Drawn(H, R, n),
           r.kind = "BR", r.note \in 0..n
    PROVE  LET K == {h \in H : h.note # r.note}
           IN  Told(K, After(L, r), R \cup {r}) /\ Drawn(K, R \cup {r}, n)
  <1> DEFINE K == {h \in H : h.note # r.note}
             M == {k \in L : k.note # r.note}
             S == R \cup {r}
  <1>1. After(L, r) = M /\ Names(r) = {r.note} /\ r # Sep
    BY DEF After, Names, Sep
  <1>2. ASSUME NEW k \in M
        PROVE  \E h \in K : h.note = k.note /\ h.value = k.value /\ (h.owner = k.owner \/ ShareIn(S, k))
    <2>1. PICK h \in H : h.note = k.note /\ h.value = k.value /\ (h.owner = k.owner \/ ShareIn(R, k))
      BY DEF Told
    <2>2. ShareIn(R, k) => ShareIn(S, k)
      BY <1>1 DEF ShareIn
    <2>3. h \in K
      BY <2>1
    <2> HIDE DEF K, S
    <2> QED  BY <2>1, <2>2, <2>3
  <1>3. ASSUME NEW h \in K, \A k \in M : k.note # h.note
        PROVE  h.value = DefaultBalance /\ \A s \in S : s # Sep => h.note \notin Names(s)
    <2>1. h \in H /\ h.note # r.note
      OBVIOUS
    <2>2. \A k \in L : k.note # h.note
      BY <1>3, <2>1
    <2>3. h.value = DefaultBalance /\ \A s \in R : s # Sep => h.note \notin Names(s)
      BY <2>1, <2>2 DEF Told
    <2> QED  BY <1>1, <2>1, <2>3
  <1>4. Told(K, M, S)
    <2> HIDE DEF K, M, S
    <2> QED  BY <1>2, <1>3 DEF Told
  <1>5. Drawn(K, S, n)
    BY <1>1 DEF Drawn
  <1> QED  BY <1>1, <1>4, <1>5

(* What the wallets hold is told by the rows, as long as the program runs. *)
Replay == /\ DistinctIn(wallet)
          /\ Told(HeldIn(wallet), LedgerAfter(Rows), ToSet(Rows))
          /\ Drawn(HeldIn(wallet), ToSet(Rows), drawn)
ReplayInv == step # "over" => Replay

(* A row at the end of a list, as the ledger and as a set.                 *)
LEMMA RowAdded ==
    ASSUME NEW q \in Seq(RowType), NEW r \in RowType
    PROVE  /\ LedgerAfter(Append(q, r)) = After(LedgerAfter(q), r)
           /\ ToSet(Append(q, r)) = ToSet(q) \cup {r}
  <1> DEFINE p == Append(q, r)
  <1>1. /\ Len(q) \in Nat /\ DOMAIN q = 1..Len(q) /\ DOMAIN p = 1..Len(q) + 1
        /\ p[Len(q) + 1] = r /\ \A i \in 1..Len(q) : p[i] = q[i]
    BY AppendProperties
  <1>2. \A i \in 1..Len(q) + 1 : i = Len(q) + 1 \/ i \in 1..Len(q)
    BY <1>1
  <1>3. Len(q) + 1 \in 1..Len(q) + 1 /\ \A i \in 1..Len(q) : i \in 1..Len(q) + 1
    BY <1>1
  <1> HIDE DEF p
  <1>4. ToSet(p) = ToSet(q) \cup {r}
    <2>1. ToSet(p) = {p[i] : i \in 1..Len(q) + 1} /\ ToSet(q) = {q[i] : i \in 1..Len(q)}
      BY <1>1 DEF ToSet
    <2>2. \A i \in 1..Len(q) + 1 : p[i] \in ToSet(q) \cup {r}
      BY <1>1, <1>2, <2>1
    <2>3. \A x \in ToSet(q) \cup {r} : \E i \in 1..Len(q) + 1 : x = p[i]
      BY <1>1, <1>3, <2>1
    <2>4. ToSet(p) \subseteq ToSet(q) \cup {r}
      BY <2>1, <2>2
    <2>5. ToSet(q) \cup {r} \subseteq ToSet(p)
      BY <2>1, <2>3
    <2> QED  BY <2>4, <2>5
  <1>5. LedgerAfter(Append(q, r)) = After(LedgerAfter(q), r)
    BY FoldAppend
  <1> QED  BY <1>4, <1>5 DEF p

(* The banknotes that the property speaks of.                              *)
LEMMA WalletsHold == Held = HeldIn(wallet)
  BY DEF Held, HeldIn

(* A banknote that has moved.                                              *)
LEMMA ReplayTransfer ==
    ASSUME SimTypes, Replay, step \in {"exact", "gather"}, NEW i \in DOMAIN wallet[pay.from],
           BanknoteTransfer(i), file' = file
    PROVE  Replay'
  <1> DEFINE n == wallet[pay.from][i]
             r == Row("BT", n.note, n.value, pay.to)
             m == Note(n.note, n.value)
             W == Drop(wallet, pay.from, i)
             V == Add(W, pay.to, m)
             H == HeldIn(wallet)
             K == {h \in H : h.note # n.note}
             L == LedgerAfter(Rows)
             S == ToSet(Rows)
  <1>1. /\ wallet \in Wallets /\ DistinctIn(wallet) /\ pay.from \in Accounts /\ pay.to \in Accounts /\ block \in Nat
    BY DEF SimTypes, Wallets, Replay
  <1>2. W \in Wallets /\ DistinctIn(W) /\ HeldIn(W) = K
    BY <1>1, DropHeld
  <1>3. n.note \in Nat /\ n.value \in Nat
    BY <1>1, NoteFacts
  <1>4. m \in NoteType /\ m.note = n.note /\ m.value = n.value /\ r \in RowType
    BY <1>1, <1>3, RecycledIsRow DEF Note, NoteType, Row, PlainRow
  <1>5. V \in Wallets /\ DistinctIn(V) /\ HeldIn(V) = K \cup {Known(n.note, n.value, pay.to)}
    <2>1. \A h \in HeldIn(W) : h.note # m.note
      BY <1>2, <1>4
    <2> HIDE DEF W, m
    <2> QED  BY <1>1, <1>2, <1>4, <2>1, AddHeld
  <1>6. wallet' = V /\ drawn' = drawn /\ buffer' = Append(buffer, r)
    BY DEF BanknoteTransfer, Moved, Drop, Add
  <1>7. Rows \in Seq(RowType) /\ Rows' = Append(Rows, r)
    <2> HIDE DEF r
    <2> QED  BY <1>4, <1>6, RowsTypes, RowsAppend
  <1>8. LedgerAfter(Rows') = After(L, r) /\ ToSet(Rows') = S \cup {r}
    <2> HIDE DEF r
    <2> QED  BY <1>4, <1>7, RowAdded
  <1>9. Told(H, L, S) /\ Drawn(H, S, drawn) /\ Once(H) /\ Known(n.note, n.value, pay.from) \in H
    BY <1>1, HeldOnce, InWallets DEF Replay, Once
  <1> HIDE DEF H, L, S
  <1>10. /\ Told(K \cup {Known(n.note, n.value, pay.to)}, After(L, r), S \cup {r})
         /\ Drawn(K \cup {Known(n.note, n.value, pay.to)}, S \cup {r}, drawn)
    BY <1>9, TransferTold
  <1> HIDE DEF V, K, r
  <1>11. /\ DistinctIn(wallet')
         /\ Told(HeldIn(wallet'), LedgerAfter(Rows'), ToSet(Rows'))
         /\ Drawn(HeldIn(wallet'), ToSet(Rows'), drawn')
    BY <1>5, <1>6, <1>8, <1>10
  <1> QED  BY <1>11 DEF Replay

(* A banknote that is split into two new ones.                             *)
LEMMA ReplaySplit ==
    ASSUME SimTypes, Replay, Split
    PROVE  Replay'
  <1> DEFINE n == wallet[pay.from][pos]
             toB == pay.value - accum
             toA == n.value - toB
             r == SplitRow(toA, toB)
             one == Note(drawn + 1, toA)
             two == Note(drawn + 2, toB)
             W == Drop(wallet, pay.from, pos)
             U == Add(W, pay.from, one)
             V == Add(U, pay.to, two)
             H == HeldIn(wallet)
             K == {h \in H : h.note # n.note}
             L == LedgerAfter(Rows)
             S == ToSet(Rows)
  <1>1. /\ wallet \in Wallets /\ DistinctIn(wallet) /\ pay.from \in Accounts /\ pay.to \in Accounts
        /\ block \in Nat /\ drawn \in Nat /\ pos \in Nat \ {0} /\ pay.value \in Nat /\ accum \in Nat
    BY DEF SimTypes, Wallets, Replay, Split, Gathering
  <1>2. pos \in DOMAIN wallet[pay.from]
    <2>1. wallet[pay.from] \in Seq(NoteType) /\ pos <= Len(wallet[pay.from])
      BY <1>1 DEF Wallets, Split, Gathering
    <2> QED  BY <1>1, <2>1
  <1>3. n.note \in Nat /\ n.value \in Nat /\ InHand = n
    BY <1>1, <1>2, NoteFacts DEF InHand
  <1>4. /\ r \in HalvingRow /\ buffer' = Append(buffer, r) /\ file' = file /\ drawn' = drawn + 2
    BY <1>3, SplitTypes DEF Split, job
  <1>5. toA \in Nat /\ toB \in Nat
    <2>1. accum < pay.value /\ accum + n.value > pay.value
      BY <1>3 DEF Split, Gathering
    <2> HIDE DEF n
    <2> QED  BY <1>1, <1>3, <2>1
  <1> HIDE DEF toA, toB
  <1>6. /\ one \in NoteType /\ one.note = drawn + 1 /\ one.value = toA
        /\ two \in NoteType /\ two.note = drawn + 2 /\ two.value = toB
    BY <1>1, <1>5 DEF Note, NoteType
  <1>7. /\ r.kind = "BS" /\ r.from = n.note /\ r.owner = pay.from
        /\ r.note = drawn + 1 /\ r.value = toA /\ r.note2 = drawn + 2 /\ r.value2 = toB
    BY <1>3 DEF SplitRow
  <1>8. wallet' = V
    <2>1. wallet' = [[wallet EXCEPT ![pay.from] = Append(RemoveAt(@, pos), one)] EXCEPT ![pay.to] = Append(@, two)]
      BY <1>3 DEF Split, toA, toB
    <2>2. [wallet EXCEPT ![pay.from] = Append(RemoveAt(@, pos), one)] = U
      <3> HIDE DEF one, two
      <3> QED  BY <1>1 DEF Wallets, Drop, Add
    <2> HIDE DEF one, two, U
    <2> QED  BY <2>1, <2>2 DEF Add
  <1>9. Told(H, L, S) /\ Drawn(H, S, drawn) /\ Once(H) /\ Known(n.note, n.value, pay.from) \in H
    BY <1>1, <1>2, HeldOnce, InWallets DEF Replay, Once
  <1>10. W \in Wallets /\ DistinctIn(W) /\ HeldIn(W) = K
    BY <1>1, <1>2, DropHeld
  <1>11. \A h \in K : h.note \in 1..drawn
    BY <1>9 DEF Drawn
  <1> HIDE DEF n, one, two, W, H, K
  <1>12. U \in Wallets /\ DistinctIn(U) /\ HeldIn(U) = K \cup {Known(drawn + 1, toA, pay.from)}
    <2>1. \A h \in HeldIn(W) : h.note # one.note
      BY <1>1, <1>6, <1>10, <1>11
    <2> QED  BY <1>1, <1>6, <1>10, <2>1, AddHeld
  <1> HIDE DEF U
  <1>13. V \in Wallets /\ DistinctIn(V)
         /\ HeldIn(V) = K \cup {Known(drawn + 1, toA, pay.from), Known(drawn + 2, toB, pay.to)}
    <2>1. \A h \in HeldIn(U) : h.note # two.note
      <3>1. Known(drawn + 1, toA, pay.from).note = drawn + 1
        BY KnownFields
      <3> QED  BY <1>1, <1>6, <1>11, <1>12, <3>1
    <2>2. HeldIn(V) = HeldIn(U) \cup {Known(two.note, two.value, pay.to)} /\ V \in Wallets /\ DistinctIn(V)
      BY <1>1, <1>6, <1>12, <2>1, AddHeld
    <2> HIDE DEF V
    <2> QED  BY <1>6, <1>12, <2>2
  <1> HIDE DEF V, r
  <1>14. r \in RowType
    BY <1>4 DEF RowType
  <1>15. Rows \in Seq(RowType) /\ Rows' = Append(Rows, r)
    BY <1>4, <1>14, RowsTypes, RowsAppend
  <1>16. LedgerAfter(Rows') = After(L, r) /\ ToSet(Rows') = S \cup {r}
    BY <1>14, <1>15, RowAdded
  <1> HIDE DEF L, S
  <1>17. LET X == {h \in H : h.note # n.note} \cup {Known(drawn + 1, toA, pay.from), Known(drawn + 2, toB, pay.to)}
         IN  Told(X, After(L, r), S \cup {r}) /\ Drawn(X, S \cup {r}, drawn + 2)
    BY <1>7, <1>9, SplitTold
  <1>18. /\ DistinctIn(wallet')
         /\ Told(HeldIn(wallet'), LedgerAfter(Rows'), ToSet(Rows'))
         /\ Drawn(HeldIn(wallet'), ToSet(Rows'), drawn')
    BY <1>4, <1>8, <1>13, <1>16, <1>17 DEF K
  <1> QED  BY <1>18 DEF Replay

(* An issue.                                                               *)
LEMMA ReplayNew ==
    ASSUME SimTypes, Replay, BanknoteNew
    PROVE  Replay'
  <1> DEFINE r == Row("BG", drawn + 1, Missing, pay.to)
             m == Note(drawn + 1, Missing)
             V == Add(wallet, pay.to, m)
             H == HeldIn(wallet)
             K == H \cup {Known(drawn + 1, Missing, pay.to)}
             L == LedgerAfter(Rows)
             S == ToSet(Rows)
  <1>1. /\ wallet \in Wallets /\ DistinctIn(wallet) /\ pay.to \in Accounts
        /\ block \in Nat /\ drawn \in Nat /\ pay.value \in Nat /\ accum \in Nat /\ accum < pay.value
    BY DEF SimTypes, Wallets, Replay, BanknoteNew
  <1>2. Missing \in Nat
    BY <1>1 DEF Missing
  <1>3. /\ r \in RowType /\ wallet' = V /\ file' = file
        /\ buffer' = Append(buffer, r) /\ drawn' = drawn + 1
    BY NewTypes, RecycledIsRow DEF BanknoteNew, Add, job
  <1>4. m \in NoteType /\ m.note = drawn + 1 /\ m.value = Missing
    BY <1>1, <1>2 DEF Note, NoteType
  <1>5. Told(H, L, S) /\ Drawn(H, S, drawn)
    BY DEF Replay
  <1>6. \A h \in H : h.note # m.note
    BY <1>1, <1>4, <1>5 DEF Drawn
  <1> HIDE DEF m, r
  <1>7. V \in Wallets /\ DistinctIn(V) /\ HeldIn(V) = H \cup {Known(m.note, m.value, pay.to)}
    BY <1>1, <1>4, <1>6, AddHeld
  <1>8. Rows \in Seq(RowType) /\ Rows' = Append(Rows, r)
    BY <1>3, RowsTypes, RowsAppend
  <1>9. LedgerAfter(Rows') = After(L, r) /\ ToSet(Rows') = S \cup {r}
    BY <1>3, <1>8, RowAdded
  <1> HIDE DEF H, L, S
  <1>10. Told(K, After(L, r), S \cup {r}) /\ Drawn(K, S \cup {r}, drawn + 1)
    BY <1>5, NewTold DEF r
  <1> HIDE DEF V
  <1>11. /\ DistinctIn(wallet')
         /\ Told(HeldIn(wallet'), LedgerAfter(Rows'), ToSet(Rows'))
         /\ Drawn(HeldIn(wallet'), ToSet(Rows'), drawn')
    BY <1>3, <1>4, <1>7, <1>9, <1>10
  <1> QED  BY <1>11 DEF Replay

(* A separator.                                                            *)
LEMMA ReplayEnd ==
    ASSUME SimTypes, Replay, EndTransfer
    PROVE  Replay'
  <1> DEFINE H == HeldIn(wallet)
             L == LedgerAfter(Rows)
             S == ToSet(Rows)
  <1>1. /\ wallet' = wallet /\ drawn' = drawn /\ file' = file /\ buffer' = Append(buffer, Sep)
        /\ Sep \in RowType /\ drawn \in Nat
    BY DEF EndTransfer, bank, RowType, SimTypes
  <1>2. Rows \in Seq(RowType) /\ Rows' = Append(Rows, Sep)
    BY <1>1, RowsTypes, RowsAppend
  <1>3. LedgerAfter(Rows') = After(L, Sep) /\ ToSet(Rows') = S \cup {Sep}
    BY <1>1, <1>2, RowAdded
  <1>4. Told(H, L, S) /\ Drawn(H, S, drawn) /\ DistinctIn(wallet)
    BY DEF Replay
  <1> HIDE DEF L, S
  <1>5. Told(H \cup {}, After(L, Sep), S \cup {Sep}) /\ Drawn(H \cup {}, S \cup {Sep}, drawn)
    <2>1. \A h \in {} : h.note \in drawn + 1..drawn /\ h.value = DefaultBalance
      OBVIOUS
    <2>2. drawn \in Nat /\ drawn <= drawn
      BY <1>1
    <2> HIDE DEF H
    <2> QED  BY ONLY <1>4, <2>1, <2>2, InitialTold
  <1>6. /\ DistinctIn(wallet')
        /\ Told(HeldIn(wallet'), LedgerAfter(Rows'), ToSet(Rows'))
        /\ Drawn(HeldIn(wallet'), ToSet(Rows'), drawn')
    <2>1. H \cup {} = H
      OBVIOUS
    <2> QED  BY <1>1, <1>3, <1>4, <1>5, <2>1
  <1> QED  BY <1>6 DEF Replay

(* The notes a new owner is given: hashes in a row, all of one value.      *)
LEMMA FreshNotes ==
    ASSUME NEW n \in Nat, NEW i \in 1..ShardNumber
    PROVE  InitialNotes(n)[i].note = n + i /\ InitialNotes(n)[i].value = DefaultBalance
  BY DEF InitialNotes, Note

(* New owners get hashes that nobody has had.                              *)
LEMMA ReplayBegins ==
    ASSUME SimTypes, Owned, Replay, NextTransfer
    PROVE  Replay'
  <1>1. PICK a \in Accounts, b \in Accounts, x \in Values :
             LET new == NewOwners(a, b) IN
             /\ wallet' = [c \in Accounts |->
                             IF c \in ToSet(new)
                             THEN InitialNotes(drawn + (IF c = new[1] THEN 0 ELSE ShardNumber))
                             ELSE wallet[c]]
             /\ drawn' = drawn + ShardNumber * Len(new)
             /\ buffer' = Append(buffer, Row("USDT", 0, x, a))
    BY DEF NextTransfer
  <1> DEFINE new == NewOwners(a, b)
             r == Row("USDT", 0, x, a)
             first(c) == drawn + (IF c = new[1] THEN 0 ELSE ShardNumber)
             V == [c \in Accounts |-> IF c \in ToSet(new) THEN InitialNotes(first(c)) ELSE wallet[c]]
             m == drawn + ShardNumber * Len(new)
             I == {h \in HeldIn(V) : h.owner \in ToSet(new)}
             H == HeldIn(wallet)
             L == LedgerAfter(Rows)
             S == ToSet(Rows)
  <1>2. /\ wallet' = V /\ drawn' = m /\ file' = file /\ buffer' = Append(buffer, r)
    BY <1>1 DEF NextTransfer
  <1>3. /\ x \in Nat /\ drawn \in Nat /\ ShardNumber \in Nat \ {0} /\ wallet \in [Accounts -> Seq(NoteType)]
        /\ \A n \in Nat : Len(InitialNotes(n)) = ShardNumber /\ DOMAIN InitialNotes(n) = 1..ShardNumber
    BY SimulatorAssumption DEF SimTypes, InitialNotes
  <1>4. /\ new \in Seq(Accounts) /\ Len(new) \in Nat /\ Len(new) <= 2 /\ r \in RowType
        /\ (Len(new) = 2 => new[1] # new[2]) /\ \A c \in ToSet(new) : c \notin ToSet(owners)
        /\ ToSet(new) = {new[i] : i \in 1..Len(new)}
    <2>1. /\ new \in Seq(Accounts) /\ Len(new) \in Nat /\ Len(new) <= 2 /\ r \in RowType
          /\ (Len(new) = 2 => new[1] # new[2]) /\ \A c \in ToSet(new) : c \notin ToSet(owners)
      BY <1>3, TransferBegins, NewOwnersAre, RecycledIsRow
    <2> HIDE DEF new
    <2> QED  BY <2>1 DEF ToSet
  <1>20. Len(new) = 0 \/ Len(new) = 1 \/ Len(new) = 2
    <2>1. \A k \in Nat : k <= 2 => k = 0 \/ k = 1 \/ k = 2
      OBVIOUS
    <2> HIDE DEF new
    <2> QED  BY <1>4, <2>1
  <1>5. Told(H, L, S) /\ Drawn(H, S, drawn) /\ DistinctIn(wallet)
    BY DEF Replay
  <1>6. ASSUME NEW n \in Nat, NEW i \in 1..ShardNumber
        PROVE  InitialNotes(n)[i].note = n + i /\ InitialNotes(n)[i].value = DefaultBalance
    BY FreshNotes
  <1> HIDE DEF new, r, H, L, S
  <1>7. ASSUME NEW c \in ToSet(new)
        PROVE  /\ c \in Accounts /\ first(c) \in Nat /\ DOMAIN V[c] = 1..ShardNumber /\ wallet[c] = <<>>
               /\ \A i \in 1..ShardNumber : /\ V[c][i].note = first(c) + i /\ V[c][i].value = DefaultBalance
                                            /\ first(c) + i \in drawn + 1..m
    <2>1. c \in Accounts /\ first(c) \in Nat /\ wallet[c] = <<>>
      <3>1. c \in Accounts
        <4>1. PICK k \in 1..Len(new) : c = new[k]
          BY <1>4, <1>7
        <4> QED  BY <1>4, <4>1
      <3>2. first(c) \in Nat
        <4>1. drawn \in Nat /\ ShardNumber \in Nat
          BY <1>3
        <4> QED  BY ONLY <4>1
      <3>3. wallet[c] = <<>>
        <4>1. c \notin ToSet(owners)
          BY <1>4, <1>7
        <4> QED  BY ONLY Owned, <3>1, <4>1 DEF Owned
      <3> QED  BY <3>1, <3>2, <3>3
    <2>2. V[c] = InitialNotes(first(c))
      BY <1>7, <2>1
    <2>3. ShardNumber * 1 = ShardNumber /\ ShardNumber * 2 = ShardNumber + ShardNumber
      BY <1>3
    <2>4. PICK k \in 1..Len(new) : c = new[k]
      BY <1>4
    <2>5. \/ Len(new) = 1 /\ first(c) = drawn
          \/ Len(new) = 2 /\ (first(c) = drawn \/ first(c) = drawn + ShardNumber)
      <3>1. (Len(new) = 1 \/ Len(new) = 2) /\ (Len(new) = 1 => c = new[1])
        BY <1>20, <2>4
      <3> QED  BY <1>3, <3>1
    <2>6. \/ m = drawn + ShardNumber /\ first(c) = drawn
          \/ m = drawn + (ShardNumber + ShardNumber) /\ (first(c) = drawn \/ first(c) = drawn + ShardNumber)
      BY <2>3, <2>5
    <2> HIDE DEF first, m, V
    <2>7. \A i \in 1..ShardNumber : first(c) + i \in drawn + 1..m
      BY <1>3, <2>6
    <2>8. DOMAIN V[c] = 1..ShardNumber
      BY <1>3, <2>1, <2>2
    <2>9. ASSUME NEW i \in 1..ShardNumber
          PROVE  V[c][i].note = first(c) + i /\ V[c][i].value = DefaultBalance
      BY <1>6, <2>1, <2>2
    <2> QED  BY <2>1, <2>7, <2>8, <2>9
  <1>8. ASSUME NEW c \in ToSet(new), NEW d \in ToSet(new), NEW i \in 1..ShardNumber, NEW j \in 1..ShardNumber,
               first(c) + i = first(d) + j
        PROVE  c = d /\ i = j
    <2>1. PICK k \in 1..Len(new) : c = new[k]
      BY <1>4
    <2>2. PICK l \in 1..Len(new) : d = new[l]
      BY <1>4
    <2>3. (k = 1 \/ k = 2) /\ (l = 1 \/ l = 2) /\ (k # l => Len(new) = 2)
      <3>1. ASSUME NEW z \in {0, 1, 2}, NEW p \in 1..z, NEW q \in 1..z
            PROVE  (p = 1 \/ p = 2) /\ (q = 1 \/ q = 2) /\ (p # q => z = 2)
        OBVIOUS
      <3>2. Len(new) \in {0, 1, 2}
        BY <1>20
      <3> QED  BY <3>1, <3>2
    <2>4. c = d \/ (c = new[1] /\ d # new[1]) \/ (c # new[1] /\ d = new[1])
      BY <1>4, <2>1, <2>2, <2>3
    <2>5. c = d => i = j
      BY <1>3, <1>7, <1>8
    <2>6. c = new[1] /\ d # new[1] => FALSE
      BY <1>3, <1>8
    <2>7. c # new[1] /\ d = new[1] => FALSE
      BY <1>3, <1>8
    <2> QED  BY <2>4, <2>5, <2>6, <2>7
  <1>9. \A c \in Accounts : c \notin ToSet(new) => V[c] = wallet[c]
    OBVIOUS
  <1> HIDE DEF first, m, V
  <1>10. ASSUME NEW c \in Accounts, NEW i \in DOMAIN wallet[c]
         PROVE  wallet[c][i].note \in 1..drawn
    <2>1. Known(wallet[c][i].note, wallet[c][i].value, c) \in H
      BY InWallets DEF H
    <2> QED  BY <1>5, <2>1, KnownFields DEF Drawn
  <1>11. DistinctIn(V)
    <2>1. SUFFICES ASSUME NEW c \in Accounts, NEW d \in Accounts, NEW i \in DOMAIN V[c], NEW j \in DOMAIN V[d],
                          V[c][i].note = V[d][j].note
                   PROVE  c = d /\ i = j
      BY DEF DistinctIn
    <2>2. CASE c \in ToSet(new) /\ d \in ToSet(new)
      <3>1. i \in 1..ShardNumber /\ j \in 1..ShardNumber
        BY <1>7, <2>1, <2>2
      <3>2. V[c][i].note = first(c) + i /\ V[d][j].note = first(d) + j
        BY <1>7, <2>2, <3>1
      <3>3. first(c) + i = first(d) + j
        BY <2>1, <3>2
      <3> QED  BY <1>8, <2>2, <3>1, <3>3
    <2>3. CASE c \notin ToSet(new) /\ d \notin ToSet(new)
      BY <1>5, <1>9, <2>1, <2>3 DEF DistinctIn
    <2>4. CASE c \in ToSet(new) /\ d \notin ToSet(new)
      <3>1. V[c][i].note \in drawn + 1..m /\ V[d][j].note \in 1..drawn
        BY <1>7, <1>9, <1>10, <2>1, <2>4
      <3> QED  BY <1>3, <2>1, <3>1
    <2>5. CASE c \notin ToSet(new) /\ d \in ToSet(new)
      <3>1. V[d][j].note \in drawn + 1..m /\ V[c][i].note \in 1..drawn
        BY <1>7, <1>9, <1>10, <2>1, <2>5
      <3> QED  BY <1>3, <2>1, <3>1
    <2> QED  BY <2>2, <2>3, <2>4, <2>5
  <1>12. HeldIn(V) = H \cup I
    <2>1. ASSUME NEW h \in HeldIn(V) PROVE h \in H \cup I
      <3>1. PICK c \in Accounts : \E i \in DOMAIN V[c] : h = Known(V[c][i].note, V[c][i].value, c)
        BY InWallets
      <3>2. h.owner = c
        BY <3>1, KnownFields
      <3>3. CASE c \in ToSet(new)
        BY <3>2, <3>3
      <3>4. CASE c \notin ToSet(new)
        <4>1. h \in HeldIn(wallet)
          BY <1>9, <3>1, <3>4, InWallets
        <4> QED  BY <4>1 DEF H
      <3> QED  BY <3>3, <3>4
    <2>2. ASSUME NEW h \in H PROVE h \in HeldIn(V)
      <3>1. PICK c \in Accounts : \E i \in DOMAIN wallet[c] : h = Known(wallet[c][i].note, wallet[c][i].value, c)
        BY InWallets DEF H
      <3>2. c \notin ToSet(new)
        BY <1>7, <3>1
      <3> QED  BY <1>9, <3>1, <3>2, InWallets
    <2> QED  BY <2>1, <2>2
  <1>13. ASSUME NEW h \in I PROVE h.note \in drawn + 1..m /\ h.value = DefaultBalance
    <2>1. PICK c \in Accounts : \E i \in DOMAIN V[c] : h = Known(V[c][i].note, V[c][i].value, c)
      BY InWallets
    <2>2. PICK i \in DOMAIN V[c] : h = Known(V[c][i].note, V[c][i].value, c)
      BY <2>1
    <2>3. h.owner = c /\ h.note = V[c][i].note /\ h.value = V[c][i].value /\ c \in ToSet(new)
      BY <2>2, KnownFields
    <2>4. i \in 1..ShardNumber
      BY <1>7, <2>2, <2>3
    <2>5. V[c][i].note \in drawn + 1..m /\ V[c][i].value = DefaultBalance
      BY <1>7, <2>3, <2>4
    <2> QED  BY <2>3, <2>5
  <1>14. m \in Nat /\ drawn <= m
    <2>1. ShardNumber * 0 = 0 /\ ShardNumber * 1 = ShardNumber /\ ShardNumber * 2 = ShardNumber + ShardNumber
      BY <1>3
    <2>3. m \in {drawn, drawn + ShardNumber, drawn + (ShardNumber + ShardNumber)}
      <3>1. m = drawn + ShardNumber * Len(new) /\ drawn + 0 = drawn
        BY <1>3 DEF m
      <3> QED  BY <1>20, <2>1, <3>1
    <2> QED  BY <1>3, <2>3
  <1>15. r.kind = "USDT" /\ r.note = 0
    BY DEF r, Row
  <1> HIDE DEF I
  <1>16. Told(H \cup I, After(L, r), S \cup {r}) /\ Drawn(H \cup I, S \cup {r}, m)
    BY ONLY <1>3, <1>5, <1>13, <1>14, <1>15, InitialTold
  <1>17. Rows \in Seq(RowType) /\ Rows' = Append(Rows, r)
    BY <1>2, <1>4, RowsTypes, RowsAppend
  <1>18. LedgerAfter(Rows') = After(L, r) /\ ToSet(Rows') = S \cup {r}
    BY <1>4, <1>17, RowAdded DEF L, S
  <1>19. /\ DistinctIn(wallet')
         /\ Told(HeldIn(wallet'), LedgerAfter(Rows'), ToSet(Rows'))
         /\ Drawn(HeldIn(wallet'), ToSet(Rows'), drawn')
    BY <1>2, <1>11, <1>12, <1>16, <1>18
  <1> QED  BY <1>19 DEF Replay

(* The recycled banknotes, one row after the other.                        *)
LEMMA RecyclingTold ==
    ASSUME NEW R \in Seq(RowType), NEW f \in Seq(RecycledRow), NEW H, NEW n \in Nat,
           Told(H, LedgerAfter(R), ToSet(R)), Drawn(H, ToSet(R), n),
           \A j \in DOMAIN f : f[j].note \in 0..n
    PROVE  LET K == {h \in H : \A j \in DOMAIN f : f[j].note # h.note}
           IN  /\ Told(K, LedgerAfter(R \o f), ToSet(R \o f))
               /\ Drawn(K, ToSet(R \o f), n)
  <1> DEFINE l == Len(f)
             q(m) == R \o SubSeq(f, 1, m)
             K(m) == {h \in H : \A j \in 1..m : f[j].note # h.note}
             Done(m) == Told(K(m), LedgerAfter(q(m)), ToSet(q(m))) /\ Drawn(K(m), ToSet(q(m)), n)
             T == {m \in Nat : m <= l => Done(m)}
  <1>1. l \in Nat /\ DOMAIN f = 1..l /\ \A j \in 1..l : f[j] \in RecycledRow /\ f[j].kind = "BR"
    <2>1. \A r \in RecycledRow : r.kind = "BR"
      BY DEF RecycledRow
    <2> QED  BY <2>1
  <1>2. /\ q(0) = R /\ q(l) = R \o f
        /\ \A m \in 0..l : q(m) \in Seq(RowType)
        /\ \A m \in 0..l - 1 : q(m + 1) = Append(q(m), f[m + 1])
    <2>1. f \in Seq(RowType)
      BY RecycledIsRow
    <2>2. /\ R \o SubSeq(f, 1, 0) = R /\ R \o SubSeq(f, 1, Len(f)) = R \o f
          /\ \A m \in 0..Len(f) : R \o SubSeq(f, 1, m) \in Seq(RowType)
          /\ \A m \in 0..Len(f) - 1 : R \o SubSeq(f, 1, m + 1) = Append(R \o SubSeq(f, 1, m), f[m + 1])
      <3>1. GrowsByRows(RowType, R, f)
        BY <2>1, RowByRow
      <3> QED  BY ONLY <3>1 DEF GrowsByRows
    <2> QED  BY ONLY <2>2 DEF q
  <1>3. K(0) = H
    OBVIOUS
  <1> HIDE DEF q
  <1>4. 0 \in T
    BY <1>2, <1>3
  <1>5. ASSUME NEW m \in T PROVE m + 1 \in T
    <2>1. SUFFICES ASSUME m + 1 <= l PROVE Done(m + 1)
      OBVIOUS
    <2>2. m \in Nat /\ m \in 0..l - 1 /\ m \in 0..l /\ m + 1 \in 1..l /\ Done(m)
      BY <1>1, <2>1
    <2> DEFINE r == f[m + 1]
    <2>3. r \in RowType /\ r.kind = "BR" /\ r.note \in 0..n
      BY <1>1, <2>2, RecycledIsRow
    <2>4. q(m) \in Seq(RowType) /\ q(m + 1) = Append(q(m), r)
      BY <1>2, <2>2
    <2>5. LedgerAfter(q(m + 1)) = After(LedgerAfter(q(m)), r) /\ ToSet(q(m + 1)) = ToSet(q(m)) \cup {r}
      <3> HIDE DEF r
      <3> QED  BY <2>3, <2>4, RowAdded
    <2>6. K(m + 1) = {h \in K(m) : h.note # r.note}
      <3>1. \A j \in 1..m + 1 : j = m + 1 \/ j \in 1..m
        BY <2>2
      <3>2. m + 1 \in 1..m + 1 /\ \A j \in 1..m : j \in 1..m + 1
        BY <2>2
      <3> QED  BY <3>1, <3>2
    <2> DEFINE X == K(m)
               Y == K(m + 1)
               M == LedgerAfter(q(m))
               S == ToSet(q(m))
    <2>7. Told(X, M, S) /\ Drawn(X, S, n)
      BY <2>2
    <2>8. Y = {h \in X : h.note # r.note}
      BY <2>6
    <2> HIDE DEF X, Y, M, S, r
    <2>9. LET Z == {h \in X : h.note # r.note}
          IN  Told(Z, After(M, r), S \cup {r}) /\ Drawn(Z, S \cup {r}, n)
      BY <2>3, <2>7, RecycledTold
    <2>10. Told(Y, After(M, r), S \cup {r}) /\ Drawn(Y, S \cup {r}, n)
      BY <2>8, <2>9
    <2>11. LedgerAfter(q(m + 1)) = After(M, r) /\ ToSet(q(m + 1)) = S \cup {r}
      BY <2>5 DEF M, S
    <2>12. Told(Y, LedgerAfter(q(m + 1)), ToSet(q(m + 1))) /\ Drawn(Y, ToSet(q(m + 1)), n)
      BY <2>10, <2>11
    <2> QED  BY <2>12 DEF Y
  <1>6. T = Nat
    <2>1. T \in SUBSET Nat
      OBVIOUS
    <2> HIDE DEF T
    <2> QED  BY <1>4, <1>5, <2>1, Upwards
  <1>7. l \in T
    <2> HIDE DEF T
    <2> QED  BY <1>1, <1>6
  <1>8. Done(l)
    BY <1>1, <1>7
  <1>9. K(l) = {h \in H : \A j \in DOMAIN f : f[j].note # h.note}
    BY <1>1
  <1> HIDE DEF K
  <1> QED  BY <1>2, <1>8, <1>9

(* The recycled rows take from the ledger what recycling took from the     *)
(* wallets, row by row over all owners.                                    *)
LEMMA ReplayFinalize ==
    ASSUME SimTypes, Owned, Replay, Finalize
    PROVE  Replay'
  <1> DEFINE f == FlattenSeq(Recycling)
             V == [a \in Accounts |-> Kept(a)]
             H == HeldIn(wallet)
             K == {h \in H : \A j \in DOMAIN f : f[j].note # h.note}
             R == Rows
  <1>1. drawn' = drawn /\ drawn \in Nat /\ wallet \in [Accounts -> Seq(NoteType)]
        /\ owners \in Seq(Accounts) /\ DistinctIn(wallet)
    BY DEF Finalize, SimTypes, Replay
  <1>2. CASE UNCHANGED <<wallet, Rows>>
    BY <1>1, <1>2 DEF Replay
  <1>3. CASE wallet' = V /\ Rows' = R \o f
    <2>1. Recycling \in Seq(Seq(RecycledRow)) /\ f \in Seq(RecycledRow) /\ R \in Seq(RowType)
      BY RecyclingTypes, RowsTypes
    <2>2. DOMAIN Recycling = DOMAIN owners /\ \A m \in DOMAIN owners : owners[m] \in Accounts /\ Recycling[m] = Recycled(owners[m])
      BY <1>1 DEF Recycling
    <2>3. ASSUME NEW a \in Accounts, NEW k \in DOMAIN Recycled(a)
          PROVE  \E i \in GonePlaces(a) : Recycled(a)[k] = RowOf(a, i)
      <3> DEFINE all == [i \in DOMAIN wallet[a] |-> RowOf(a, i)]
      <3>1. PICK p : Enumerates(p, Recycled(a), all, GonePlaces(a))
        BY RecycledTypes
      <3>2. p[k] \in GonePlaces(a) /\ Recycled(a)[k] = all[p[k]]
        <4> HIDE DEF all
        <4> QED  BY <2>3, <3>1 DEF Enumerates
      <3>3. p[k] \in DOMAIN wallet[a]
        BY <3>2 DEF GonePlaces
      <3> QED  BY <3>2, <3>3
    <2>4. ASSUME NEW a \in Accounts, NEW i \in GonePlaces(a)
          PROVE  \E k \in DOMAIN Recycled(a) : Recycled(a)[k] = RowOf(a, i)
      <3> DEFINE all == [j \in DOMAIN wallet[a] |-> RowOf(a, j)]
      <3>1. PICK p : Enumerates(p, Recycled(a), all, GonePlaces(a))
        BY RecycledTypes
      <3>2. PICK k \in DOMAIN Recycled(a) : p[k] = i /\ Recycled(a)[k] = all[p[k]]
        <4> HIDE DEF all
        <4> QED  BY <2>4, <3>1 DEF Enumerates
      <3>3. i \in DOMAIN wallet[a]
        BY <2>4 DEF GonePlaces
      <3> QED  BY <3>2, <3>3
    <2>5. \A a, i : RowOf(a, i).note = wallet[a][i].note
      BY DEF RowOf, Row
    <2>6. ASSUME NEW j \in DOMAIN f
          PROVE  \E a \in Accounts : \E i \in GonePlaces(a) : f[j] = RowOf(a, i)
      <3>1. PICK m \in DOMAIN Recycling : \E k \in DOMAIN Recycling[m] : f[j] = Recycling[m][k]
        BY <2>1, <2>6, FlatParts
      <3>2. PICK k \in DOMAIN Recycling[m] : f[j] = Recycling[m][k]
        BY <3>1
      <3>3. owners[m] \in Accounts /\ k \in DOMAIN Recycled(owners[m]) /\ f[j] = Recycled(owners[m])[k]
        BY <2>2, <3>2
      <3> HIDE DEF f
      <3> QED  BY <2>3, <3>3
    <2>7. ASSUME NEW a \in Accounts, NEW i \in GonePlaces(a)
          PROVE  \E j \in DOMAIN f : f[j].note = wallet[a][i].note
      <3>1. a \in ToSet(owners)
        <4>1. wallet[a] # <<>>
          BY <2>7 DEF GonePlaces
        <4> QED  BY <4>1 DEF Owned
      <3>2. PICK m \in DOMAIN owners : owners[m] = a
        BY <3>1 DEF ToSet
      <3>3. PICK k \in DOMAIN Recycled(a) : Recycled(a)[k] = RowOf(a, i)
        BY <2>4, <2>7
      <3>4. k \in DOMAIN Recycling[m] /\ Recycling[m][k] = RowOf(a, i) /\ m \in DOMAIN Recycling
        BY <2>2, <3>2, <3>3
      <3>5. PICK d \in Nat : \A x \in DOMAIN Recycling[m] : d + x \in DOMAIN f /\ f[d + x] = Recycling[m][x]
        BY <2>1, <3>4, FlatParts
      <3> HIDE DEF f
      <3> QED  BY <2>5, <3>4, <3>5
    <2> HIDE DEF f
    <2>8. ASSUME NEW a \in Accounts
          PROVE  \E p : /\ \A i \in DOMAIN V[a] : p[i] \in LeftPlaces(a) /\ V[a][i] = wallet[a][p[i]]
                        /\ \A i, j \in DOMAIN V[a] : p[i] = p[j] => i = j
                        /\ \A k \in LeftPlaces(a) : \E i \in DOMAIN V[a] : p[i] = k
      <3>1. V[a] = Kept(a) /\ Kept(a) \in Seq(NoteType)
        BY RecycledTypes
      <3>2. PICK p : Enumerates(p, Kept(a), wallet[a], LeftPlaces(a))
        BY RecycledTypes
      <3> DEFINE s == Kept(a)
      <3>3. /\ \A i \in DOMAIN s : p[i] \in LeftPlaces(a) /\ s[i] = wallet[a][p[i]]
            /\ \A i, j \in DOMAIN s : i < j => p[i] < p[j]
            /\ \A k \in LeftPlaces(a) : \E i \in DOMAIN s : p[i] = k
        BY <3>2 DEF Enumerates
      <3>4. LeftPlaces(a) \in SUBSET Nat /\ DOMAIN s \in SUBSET Nat
        <4>1. wallet[a] \in Seq(NoteType)
          BY <1>1
        <4> QED  BY <3>1, <4>1 DEF LeftPlaces
      <3> HIDE DEF s, V
      <3>5. \A i, j \in DOMAIN s : p[i] = p[j] => i = j
        <4> TAKE i, j \in DOMAIN s
        <4>1. i \in Nat /\ j \in Nat /\ p[i] \in Nat /\ p[j] \in Nat
          BY <3>3, <3>4
        <4> QED  BY <3>3, <4>1
      <3>6. V[a] = s
        BY <3>1 DEF s
      <3> QED  BY <3>3, <3>5, <3>6
    <2> HIDE DEF V
    <2>9. DistinctIn(V)
      <3>1. SUFFICES ASSUME NEW a \in Accounts, NEW b \in Accounts, NEW i \in DOMAIN V[a], NEW j \in DOMAIN V[b],
                            V[a][i].note = V[b][j].note
                     PROVE  a = b /\ i = j
        BY DEF DistinctIn
      <3>2. PICK p : /\ \A k \in DOMAIN V[a] : p[k] \in LeftPlaces(a) /\ V[a][k] = wallet[a][p[k]]
                     /\ \A k, l \in DOMAIN V[a] : p[k] = p[l] => k = l
        BY <2>8
      <3>3. PICK q : \A k \in DOMAIN V[b] : q[k] \in LeftPlaces(b) /\ V[b][k] = wallet[b][q[k]]
        BY <2>8
      <3>4. p[i] \in DOMAIN wallet[a] /\ q[j] \in DOMAIN wallet[b] /\ wallet[a][p[i]].note = wallet[b][q[j]].note
        BY <3>1, <3>2, <3>3 DEF LeftPlaces
      <3>5. a = b /\ p[i] = q[j]
        BY <1>1, <3>4 DEF DistinctIn
      <3>6. PICK t : /\ \A k \in DOMAIN V[a] : t[k] \in LeftPlaces(a) /\ V[a][k] = wallet[a][t[k]]
                     /\ \A k, l \in DOMAIN V[a] : t[k] = t[l] => k = l
        BY <2>8
      <3>7. t[i] \in DOMAIN wallet[a] /\ t[j] \in DOMAIN wallet[a] /\ wallet[a][t[i]].note = wallet[a][t[j]].note
        BY <3>1, <3>5, <3>6 DEF LeftPlaces
      <3>8. t[i] = t[j]
        BY <1>1, <3>7 DEF DistinctIn
      <3> QED  BY <3>1, <3>5, <3>6, <3>8
    <2>10. HeldIn(V) = K
      <3>1. ASSUME NEW h \in HeldIn(V) PROVE h \in K
        <4>1. PICK a \in Accounts : \E i \in DOMAIN V[a] : h = Known(V[a][i].note, V[a][i].value, a)
          BY InWallets
        <4>2. PICK i \in DOMAIN V[a] : h = Known(V[a][i].note, V[a][i].value, a)
          BY <4>1
        <4>3. PICK p : \A k \in DOMAIN V[a] : p[k] \in LeftPlaces(a) /\ V[a][k] = wallet[a][p[k]]
          BY <2>8
        <4>4. p[i] \in LeftPlaces(a) /\ p[i] \in DOMAIN wallet[a]
              /\ h = Known(wallet[a][p[i]].note, wallet[a][p[i]].value, a)
          BY <4>2, <4>3 DEF LeftPlaces
        <4>5. h \in H /\ h.note = wallet[a][p[i]].note
          BY <4>4, InWallets, KnownFields
        <4>6. ASSUME NEW j \in DOMAIN f, f[j].note = h.note PROVE FALSE
          <5>1. PICK b \in Accounts : \E k \in GonePlaces(b) : f[j] = RowOf(b, k)
            BY <2>6
          <5>2. PICK k \in GonePlaces(b) : f[j] = RowOf(b, k)
            BY <5>1
          <5>3. k \in DOMAIN wallet[b] /\ wallet[b][k].note = wallet[a][p[i]].note
            BY <2>5, <4>5, <4>6, <5>2 DEF GonePlaces
          <5>4. a = b /\ k = p[i]
            BY <1>1, <4>4, <5>3 DEF DistinctIn
          <5> QED  BY <4>4, <5>2, <5>4 DEF LeftPlaces, GonePlaces
        <4> QED  BY <4>5, <4>6
      <3>2. ASSUME NEW h \in K PROVE h \in HeldIn(V)
        <4>1. PICK a \in Accounts : \E i \in DOMAIN wallet[a] : h = Known(wallet[a][i].note, wallet[a][i].value, a)
          BY InWallets
        <4>2. PICK i \in DOMAIN wallet[a] : h = Known(wallet[a][i].note, wallet[a][i].value, a)
          BY <4>1
        <4>3. i \notin GonePlaces(a)
          <5>1. h.note = wallet[a][i].note
            BY <4>2, KnownFields
          <5> QED  BY <2>7, <5>1
        <4>4. i \in LeftPlaces(a)
          BY <4>3 DEF LeftPlaces, GonePlaces
        <4>5. PICK p : /\ \A k \in DOMAIN V[a] : V[a][k] = wallet[a][p[k]]
                       /\ \A k \in LeftPlaces(a) : \E j \in DOMAIN V[a] : p[j] = k
          BY <2>8
        <4>6. PICK k \in DOMAIN V[a] : V[a][k] = wallet[a][i]
          BY <4>4, <4>5
        <4> QED  BY <4>2, <4>6, InWallets
      <3> QED  BY <3>1, <3>2
    <2>11. Told(H, LedgerAfter(R), ToSet(R)) /\ Drawn(H, ToSet(R), drawn)
      BY DEF Replay
    <2>12. ASSUME NEW j \in DOMAIN f PROVE f[j].note \in 0..drawn
      <3>1. PICK a \in Accounts : \E i \in GonePlaces(a) : f[j] = RowOf(a, i)
        BY <2>6
      <3>2. PICK i \in GonePlaces(a) : f[j] = RowOf(a, i)
        BY <3>1
      <3>3. Known(wallet[a][i].note, wallet[a][i].value, a) \in H
        BY <3>2, InWallets DEF GonePlaces
      <3>4. wallet[a][i].note \in 1..drawn
        BY <2>11, <3>3, KnownFields DEF Drawn
      <3> QED  BY <1>1, <2>5, <3>2, <3>4
    <2> HIDE DEF H, R
    <2>13. LET Z == {h \in H : \A j \in DOMAIN f : f[j].note # h.note}
           IN  Told(Z, LedgerAfter(R \o f), ToSet(R \o f)) /\ Drawn(Z, ToSet(R \o f), drawn)
      <3>1. \A j \in DOMAIN f : f[j].note \in 0..drawn
        BY <2>12
      <3>2. drawn \in Nat
        BY <1>1
      <3> QED  BY ONLY <2>1, <2>11, <3>1, <3>2, RecyclingTold
    <2>14. /\ DistinctIn(wallet')
           /\ Told(HeldIn(wallet'), LedgerAfter(Rows'), ToSet(Rows'))
           /\ Drawn(HeldIn(wallet'), ToSet(Rows'), drawn')
      BY <1>1, <1>3, <2>9, <2>10, <2>13
    <2> QED  BY <2>14 DEF Replay
  <1> QED  BY <1>2, <1>3, RowsRecycled

(* Every step keeps the invariant; the end of the program forgets it.      *)
LEMMA ReplayKeeps ==
    ASSUME SimTypes, Owned, ReplayInv, [SimNext]_simVars
    PROVE  ReplayInv'
  <1>1. SUFFICES ASSUME step' # "over" PROVE Replay'
    BY DEF ReplayInv
  <1>2. CASE UNCHANGED <<wallet, drawn, file, buffer, step>>
    <2>1. Replay
      BY <1>1, <1>2 DEF ReplayInv
    <2>2. Rows' = Rows
      BY <1>2 DEF Rows
    <2> QED  BY <1>2, <2>1, <2>2 DEF Replay
  <1>3. CASE step = "over"
    BY <1>1, <1>2, <1>3
       DEF SimNext, NextTransfer, Exact, TransferOne, Gathering, Split, Paid, BanknoteNew, EndTransfer,
           EndOfInput, Finalize, EndBlock, LastFlush, Interrupt, Over, simVars, bank, out
  <1>4. ASSUME step # "over" PROVE Replay'
    <2>1. Replay
      BY <1>4 DEF ReplayInv
    <2>2. ASSUME Paid \/ EndOfInput \/ EndBlock PROVE Replay'
      <3>1. UNCHANGED <<wallet, drawn>> /\ (EndBlock \/ UNCHANGED <<file, buffer>>)
        BY <2>2 DEF Paid, EndOfInput, EndBlock, bank, out
      <3>2. Rows' = Rows
        BY <3>1, RowsFlush DEF Rows
      <3> QED  BY <2>1, <3>1, <3>2 DEF Replay
    <2>3. CASE Exact
      <3> DEFINE fits == {i \in DOMAIN wallet[pay.from] : wallet[pay.from][i].value = pay.value}
                 first == CHOOSE i \in fits : \A j \in fits : i <= j
      <3>1. CASE fits = {}
        <4>1. UNCHANGED <<wallet, drawn, file, buffer>>
          BY <2>3, <3>1 DEF Exact, job
        <4>2. Rows' = Rows
          BY <4>1 DEF Rows
        <4> QED  BY <2>1, <4>1, <4>2 DEF Replay
      <3>2. CASE fits # {}
        <4>1. BanknoteTransfer(first) /\ file' = file /\ step \in {"exact", "gather"}
          BY <2>3, <3>2 DEF Exact
        <4>2. fits \in SUBSET Nat
          <5>1. wallet[pay.from] \in Seq(NoteType)
            BY <2>3 DEF SimTypes, Exact
          <5> QED  BY <5>1
        <4>3. \E i \in fits : \A j \in fits : i <= j
          <5> HIDE DEF fits
          <5> QED  BY <3>2, <4>2, LeastNat
        <4>4. first \in fits
          <5> HIDE DEF fits
          <5> QED  BY <4>3
        <4>5. first \in DOMAIN wallet[pay.from]
          BY <4>4
        <4> HIDE DEF first
        <4> QED  BY <2>1, <4>1, <4>5, ReplayTransfer
      <3> QED  BY <3>1, <3>2
    <2>4. CASE TransferOne
      <3>1. BanknoteTransfer(pos) /\ file' = file /\ step \in {"exact", "gather"} /\ pos <= Len(wallet[pay.from])
        BY <2>4 DEF TransferOne, Gathering
      <3>2. wallet[pay.from] \in Seq(NoteType) /\ pos \in Nat \ {0}
        BY <3>1 DEF SimTypes
      <3>3. pos \in DOMAIN wallet[pay.from]
        BY <3>1, <3>2
      <3> QED  BY <2>1, <3>1, <3>3, ReplayTransfer
    <2>5. ~ LastFlush /\ ~ Interrupt
      BY <1>1 DEF LastFlush, Interrupt, Over
    <2>6. CASE UNCHANGED simVars
      BY <1>2, <2>6 DEF simVars, bank, out
    <2> QED  BY <2>1, <2>2, <2>3, <2>4, <2>5, <2>6, ReplayBegins, ReplaySplit, ReplayNew, ReplayEnd, ReplayFinalize
             DEF SimNext
  <1> QED  BY <1>3, <1>4

(* The wallets that the program keeps are what a reader of its rows would  *)
(* find: banknote_transfer, banknote_split, banknote_new and the recycling *)
(* of finalize_block write what they do to the lists that the loops are    *)
(* over, for every data set; only the payee's share of a split has another *)
(* owner in the rows.                                                      *)
THEOREM RowsTellWallets == Spec => []WalletsAreReplay
  <1>1. Init => SimTypes /\ Owned /\ ReplayInv
    <2> SUFFICES ASSUME Init PROVE SimTypes /\ Owned /\ ReplayInv
      OBVIOUS
    <2>1. SimInit
      BY DEF Init
    <2>2. Owned
      BY <2>1 DEF SimInit, Owned
    <2>3. Rows = <<>> /\ drawn = 0 /\ \A a \in Accounts : wallet[a] = <<>>
      BY <2>1 DEF SimInit, Rows
    <2>4. LedgerAfter(Rows) = {} /\ ToSet(Rows) = {} /\ HeldIn(wallet) = {}
      <3>1. LedgerAfter(<<>>) = {}
        <4>1. <<>> \in Seq({0}) /\ 0 \in {0}
          OBVIOUS
        <4> QED  BY <4>1, FoldAppend
      <3> QED  BY <2>3, <3>1 DEF HeldIn, ToSet
    <2>5. Replay
      BY <2>3, <2>4 DEF Replay, DistinctIn, Told, Drawn
    <2> QED  BY <2>1, <2>2, <2>5, InitTypes DEF ReplayInv
  <1>2. SimTypes /\ Owned /\ ReplayInv /\ [Next]_vars => (SimTypes /\ Owned /\ ReplayInv)'
    BY NextIsSim, TypesKeep, OwnedKeeps, ReplayKeeps
  <1>3. ReplayInv => WalletsAreReplay
    <2> SUFFICES ASSUME Replay PROVE WalletsAreReplay
      BY DEF ReplayInv, WalletsAreReplay
    <2>1. \A h, k \in HeldIn(wallet) : h.note = k.note => h = k
      BY HeldOnce DEF Replay
    <2>2. Held = HeldIn(wallet) /\ Ledger = LedgerAfter(Rows)
      BY WalletsHold DEF Ledger
    <2>3. \A k : ShareIn(ToSet(Rows), k) => ShareOfPayee(k)
      BY DEF ShareIn, ShareOfPayee
    <2> QED  BY <2>1, <2>2, <2>3 DEF Replay, Told, WalletsAreReplay
  <1> QED  BY <1>1, <1>2, <1>3, PTL DEF Spec

(* What the loop of Keep has at each place.                                *)
LEMMA KeptSteps ==
    ASSUME NEW X, NEW q \in Seq(X), NEW T
    PROVE  /\ KeptOf(q, T)[0] = <<>> /\ Keep(q, T) = KeptOf(q, T)[Len(q)]
           /\ \A n \in 0..Len(q) - 1 :
                 KeptOf(q, T)[n + 1] = IF n + 1 \in T THEN Append(KeptOf(q, T)[n], q[n + 1])
                                                      ELSE KeptOf(q, T)[n]
           /\ \A n \in 0..Len(q) : KeptOf(q, T)[n] \in Seq(X)
  <1> DEFINE f == KeptOf(q, T)
             l == Len(q)
             G == {n \in Nat : n <= l => f[n] \in Seq(X)}
  <1>1. l \in Nat /\ \A n \in 1..l : q[n] \in X
    OBVIOUS
  <1>2. \A n \in 0..l : f[n] = KeptStep(q, T, f, n)
    <2>1. IsKept(q, T, f)
      BY <1>1, KeptExists
    <2> HIDE DEF f
    <2> QED  BY <2>1 DEF IsKept
  <1>3. Keep(q, T) = f[l]
    BY KeepIsKept
  <1> HIDE DEF f, l
  <1>4. f[0] = <<>>
    BY <1>1, <1>2 DEF KeptStep
  <1>5. ASSUME NEW n \in 0..l - 1
        PROVE  f[n + 1] = IF n + 1 \in T THEN Append(f[n], q[n + 1]) ELSE f[n]
    <2>1. n + 1 \in 0..l /\ n + 1 # 0 /\ (n + 1) - 1 = n
      BY <1>1
    <2> QED  BY <1>2, <2>1 DEF KeptStep
  <1>6. G = Nat
    <2>1. 0 \in G
      <3>1. <<>> \in Seq(X)
        OBVIOUS
      <3> QED  BY <1>4, <3>1
    <2>2. ASSUME NEW n \in G PROVE n + 1 \in G
      <3>1. SUFFICES ASSUME n + 1 <= l PROVE f[n + 1] \in Seq(X)
        OBVIOUS
      <3>2. n \in 0..l - 1 /\ n + 1 \in 1..l /\ f[n] \in Seq(X)
        BY <1>1, <3>1
      <3>3. q[n + 1] \in X /\ f[n + 1] = IF n + 1 \in T THEN Append(f[n], q[n + 1]) ELSE f[n]
        BY <1>1, <1>5, <3>2
      <3> QED  BY <3>2, <3>3, AppendProperties
    <2>3. G \in SUBSET Nat
      OBVIOUS
    <2> HIDE DEF G
    <2> QED  BY <2>1, <2>2, <2>3, Upwards
  <1>7. \A n \in 0..l : f[n] \in Seq(X)
    <2> TAKE n \in 0..l
    <2>1. n \in G
      <3> HIDE DEF G
      <3> QED  BY <1>1, <1>6
    <2> QED  BY <1>1, <2>1
  <1> QED  BY <1>3, <1>4, <1>5, <1>7 DEF f, l

(* A stretch of the list adds what the loop keeps of it alone ...          *)
Stretch(q, T, g, S, a) ==
    /\ a + Len(g) <= Len(q)
    /\ \A k \in 1..Len(g) : g[k] = q[a + k] /\ (k \in S <=> a + k \in T)
LEMMA KeptGrows ==
    ASSUME NEW X, NEW q \in Seq(X), NEW T, NEW g \in Seq(X), NEW S,
           NEW a \in Nat, Stretch(q, T, g, S, a)
    PROVE  KeptOf(q, T)[a + Len(g)] = KeptOf(q, T)[a] \o Keep(g, S)
  <1> DEFINE f == KeptOf(q, T)
             h == KeptOf(g, S)
             m == Len(g)
             l == Len(q)
             P(k) == f[a + k] = f[a] \o h[k]
             G == {k \in Nat : k <= m => P(k)}
  <1>1. l \in Nat /\ m \in Nat /\ a + m <= l
    BY DEF Stretch
  <1>2. /\ \A n \in 0..l - 1 : f[n + 1] = IF n + 1 \in T THEN Append(f[n], q[n + 1]) ELSE f[n]
        /\ \A n \in 0..l : f[n] \in Seq(X)
    BY KeptSteps
  <1>3. /\ h[0] = <<>> /\ Keep(g, S) = h[m]
        /\ \A n \in 0..m - 1 : h[n + 1] = IF n + 1 \in S THEN Append(h[n], g[n + 1]) ELSE h[n]
        /\ \A n \in 0..m : h[n] \in Seq(X)
    BY KeptSteps
  <1>4. \A k \in 1..m : g[k] \in X /\ g[k] = q[a + k] /\ (k \in S <=> a + k \in T)
    BY DEF Stretch
  <1> HIDE DEF f, h, m, l
  <1>5. f[a] \in Seq(X)
    BY <1>1, <1>2
  <1>6. 0 \in G
    <2>1. a + 0 = a /\ f[a] \o <<>> = f[a]
      BY <1>5, ConcatEmptySeq
    <2>2. P(0)
      BY <1>3, <2>1
    <2> HIDE DEF P
    <2> QED  BY <2>2
  <1>7. ASSUME NEW k \in G PROVE k + 1 \in G
    <2>0. k \in Nat /\ (k <= m => P(k))
      <3> HIDE DEF P
      <3> QED  OBVIOUS
    <2>1. SUFFICES ASSUME k + 1 <= m PROVE P(k + 1)
      <3> HIDE DEF P
      <3> QED  BY <2>0
    <2>10. /\ k \in 0..m - 1 /\ k \in 0..m /\ k + 1 \in 1..m /\ k <= m
           /\ a + k \in 0..l - 1 /\ (a + k) + 1 = a + (k + 1)
      BY ONLY <1>1, <2>0, <2>1, a \in Nat
    <2>2. /\ k \in 0..m - 1 /\ k \in 0..m /\ k + 1 \in 1..m /\ f[a + k] = f[a] \o h[k]
          /\ a + k \in 0..l - 1 /\ (a + k) + 1 = a + (k + 1)
      <3>1. P(k)
        <4> HIDE DEF P
        <4> QED  BY ONLY <2>0, <2>10
      <3> QED  BY ONLY <2>10, <3>1
    <2> DEFINE x == f[a]
               y == h[k]
               z == g[k + 1]
    <2>3. x \in Seq(X) /\ y \in Seq(X) /\ z \in X
      BY <1>3, <1>4, <1>5, <2>2
    <2>4. f[a + (k + 1)] = IF k + 1 \in S THEN Append(x \o y, z) ELSE x \o y
      <3>1. f[(a + k) + 1] = IF (a + k) + 1 \in T THEN Append(f[a + k], q[(a + k) + 1]) ELSE f[a + k]
        BY <1>2, <2>2
      <3>2. z = q[a + (k + 1)] /\ (k + 1 \in S <=> a + (k + 1) \in T)
        BY <1>4, <2>2
      <3> QED  BY <2>2, <3>1, <3>2
    <2>5. h[k + 1] = IF k + 1 \in S THEN Append(y, z) ELSE y
      BY <1>3, <2>2
    <2> HIDE DEF x, y, z
    <2>6. Append(x \o y, z) = x \o Append(y, z)
      <3>1. <<z>> \in Seq(X) /\ x \o y \in Seq(X)
        BY <2>3, ConcatProperties
      <3>2. (x \o y) \o <<z>> = x \o (y \o <<z>>)
        <4>1. Regroups(X)
          BY Regroup
        <4> DEFINE e == <<z>>
        <4>2. x \in Seq(X) /\ y \in Seq(X) /\ e \in Seq(X)
          BY ONLY <2>3, <3>1, Zenon
        <4> HIDE DEF e
        <4>3. (x \o y) \o e = x \o (y \o e)
          BY ONLY <4>1, <4>2 DEF Regroups
        <4> QED  BY <4>3 DEF e
      <3>3. Append(y, z) = y \o <<z>> /\ Append(x \o y, z) = (x \o y) \o <<z>>
        BY <2>3, <3>1, AppendIsConcat
      <3> QED  BY <3>2, <3>3
    <2> QED  BY <2>4, <2>5, <2>6 DEF x
  <1>8. G = Nat
    <2>1. G \in SUBSET Nat
      OBVIOUS
    <2> HIDE DEF G
    <2> QED  BY <1>6, <1>7, <2>1, Upwards
  <1>9. m \in G
    <2> HIDE DEF G
    <2> QED  BY <1>1, <1>8
  <1>10. P(m)
    <2> HIDE DEF P
    <2> QED  BY <1>1, <1>9
  <1> QED  BY <1>3, <1>10 DEF f, m

(* ... nothing, where the loop keeps none of it.                           *)
LEMMA KeptIdle ==
    ASSUME NEW X, NEW q \in Seq(X), NEW T, NEW a \in Nat, NEW b \in Nat, a <= b, b <= Len(q),
           \A k \in a + 1..b : k \notin T
    PROVE  KeptOf(q, T)[b] = KeptOf(q, T)[a]
  <1> DEFINE f == KeptOf(q, T)
             l == Len(q)
             G == {k \in Nat : a + k <= b => f[a + k] = f[a]}
  <1>1. l \in Nat /\ b <= l
    OBVIOUS
  <1>2. \A n \in 0..l - 1 : f[n + 1] = IF n + 1 \in T THEN Append(f[n], q[n + 1]) ELSE f[n]
    BY KeptSteps
  <1> HIDE DEF f, l
  <1>3. 0 \in G
    OBVIOUS
  <1>4. ASSUME NEW k \in G PROVE k + 1 \in G
    <2>1. SUFFICES ASSUME a + (k + 1) <= b PROVE f[a + (k + 1)] = f[a]
      OBVIOUS
    <2>2. /\ a + k <= b /\ a + k \in 0..l - 1 /\ (a + k) + 1 = a + (k + 1) /\ a + (k + 1) \in a + 1..b
      BY <1>1, <2>1
    <2>3. f[a + k] = f[a]
      BY <2>2
    <2>4. f[(a + k) + 1] = f[a + k]
      BY <1>2, <2>2
    <2> QED  BY <2>2, <2>3, <2>4
  <1>5. G = Nat
    <2>1. G \in SUBSET Nat
      OBVIOUS
    <2> HIDE DEF G
    <2> QED  BY <1>3, <1>4, <2>1, Upwards
  <1>6. b - a \in G
    <2>1. b - a \in Nat
      OBVIOUS
    <2> HIDE DEF G
    <2> QED  BY <1>5, <2>1
  <1>7. a + (b - a) = b
    OBVIOUS
  <1>8. f[a + (b - a)] = f[a]
    BY <1>6, <1>7
  <1> QED  BY <1>7, <1>8 DEF f

(* What the loop has on the way is where its result begins.                *)
LEMMA KeptPrefix ==
    ASSUME NEW X, NEW q \in Seq(X), NEW T, NEW n \in 0..Len(q)
    PROVE  IsPrefix(KeptOf(q, T)[n], Keep(q, T))
  <1> DEFINE l == Len(q)
             g == SubSeq(q, n + 1, l)
             S == {k \in DOMAIN g : n + k \in T}
             x == KeptOf(q, T)[n]
             y == Keep(g, S)
  <1>1. l \in Nat /\ n \in Nat /\ n <= l /\ \A k \in 1..l : q[k] \in X
    OBVIOUS
  <1>2. g \in Seq(X) /\ Len(g) = l - n /\ \A k \in 1..l - n : g[k] = q[n + k]
    <2>1. \A k \in n + 1..l : q[k] \in X
      BY <1>1
    <2>2. /\ g \in Seq(X) /\ Len(g) = (IF n + 1 <= l THEN l - (n + 1) + 1 ELSE 0)
          /\ \A k \in 1..l - (n + 1) + 1 : g[k] = q[(n + 1) + k - 1]
      BY <1>1, <2>1, SubSeqProperties
    <2>3. l - (n + 1) + 1 = l - n /\ (n + 1 <= l \/ l - n = 0) /\ \A k \in 1..l - n : (n + 1) + k - 1 = n + k
      BY <1>1
    <2> HIDE DEF g, l
    <2> QED  BY <2>2, <2>3
  <1> HIDE DEF g
  <1>3. DOMAIN g = 1..l - n /\ S \in SUBSET DOMAIN g
    BY <1>2
  <1>4. Keep(q, T) = x \o y
    <2>1. n + Len(g) <= Len(q) /\ n + Len(g) = Len(q)
      BY <1>1, <1>2
    <2>2. \A k \in 1..Len(g) : g[k] = q[n + k] /\ (k \in S <=> n + k \in T)
      BY <1>2, <1>3
    <2>3. KeptOf(q, T)[n + Len(g)] = x \o y
      <3>1. n \in Nat /\ n + Len(g) <= Len(q) /\ q \in Seq(X) /\ g \in Seq(X)
        BY <1>1, <1>2, <2>1
      <3> HIDE DEF S, l, x, y
      <3>2. KeptOf(q, T)[n + Len(g)] = KeptOf(q, T)[n] \o Keep(g, S)
        <4>1. Stretch(q, T, g, S, n)
          BY <2>2, <3>1 DEF Stretch
        <4> QED  BY ONLY <3>1, <4>1, KeptGrows
      <3> QED  BY <3>2 DEF x, y
    <2>4. Keep(q, T) = KeptOf(q, T)[Len(q)]
      BY KeptSteps
    <2> HIDE DEF x, y
    <2> QED  BY <2>1, <2>3, <2>4
  <1>5. x \in Seq(X) /\ y \in Seq(X)
    <2> HIDE DEF S
    <2> QED  BY <1>2, <1>3, KeepPlaces, KeptSteps
  <1> DEFINE z == x \o y
  <1> HIDE DEF x, y, z
  <1>6. /\ z \in Seq(X) /\ Len(z) = Len(x) + Len(y) /\ Len(x) \in Nat /\ Len(y) \in Nat
        /\ \A k \in 1..Len(x) : z[k] = x[k]
    <2>1. /\ z \in Seq(X) /\ Len(z) = Len(x) + Len(y)
          /\ \A k \in 1..Len(x) + Len(y) : z[k] = IF k <= Len(x) THEN x[k] ELSE y[k - Len(x)]
      BY <1>5, ConcatProperties DEF z
    <2>2. Len(x) \in Nat /\ Len(y) \in Nat
      BY <1>5
    <2>3. \A k \in 1..Len(x) : k \in 1..Len(x) + Len(y) /\ k <= Len(x)
      BY <2>2
    <2> QED  BY <2>1, <2>2, <2>3
  <1> DEFINE u == SubSeq(x, 1, Len(x))
             v == SubSeq(z, 1, Len(x))
  <1>7. u \in Seq(X) /\ Len(u) = Len(x) /\ \A k \in 1..Len(x) : u[k] = x[k]
    <2>1. \A k \in 1..Len(x) : x[k] \in X
      BY <1>5
    <2> QED  BY <1>5, <1>6, <2>1, SubSeqProperties
  <1>8. v \in Seq(X) /\ Len(v) = Len(x) /\ \A k \in 1..Len(x) : v[k] = z[k]
    <2>1. \A k \in 1..Len(x) : z[k] \in X
      BY <1>5, <1>6
    <2> QED  BY <1>5, <1>6, <2>1, SubSeqProperties
  <1>9. u = v
    <2> HIDE DEF u, v
    <2>1. \A k \in 1..Len(u) : u[k] = v[k]
      BY <1>6, <1>7, <1>8
    <2>2. Len(u) = Len(v) /\ u \in Seq(X) /\ v \in Seq(X)
      BY <1>7, <1>8
    <2> QED  BY <2>1, <2>2, SeqEqual
  <1>10. IsPrefix(x, z)
    BY <1>6, <1>9 DEF IsPrefix
  <1> QED  BY <1>4, <1>10 DEF x, z

(* What a group begins with: an origin row, or a recycled banknote.        *)
FirstRows(R) ==
    \A i \in DOMAIN R : (i = 1 \/ R[i - 1] = Sep) => R[i].kind \in {"USDT", "BR", "~"}
InGroup(R) == R # <<>> /\ R[Len(R)] # Sep
FileInv == /\ FirstRows(Rows)
           /\ step \in {"exact", "gather"} => InGroup(Rows)

(* A row joins a group that is begun, or begins one as it should ...       *)
LEMMA FirstRowsAppend ==
    ASSUME NEW R \in Seq(RowType), NEW r \in RowType, FirstRows(R),
           InGroup(R) \/ r.kind \in {"USDT", "BR", "~"}
    PROVE  FirstRows(Append(R, r)) /\ (r # Sep => InGroup(Append(R, r)))
  <1> DEFINE p == Append(R, r)
             m == Len(R)
  <1>1. /\ m \in Nat /\ DOMAIN R = 1..m /\ DOMAIN p = 1..m + 1 /\ Len(p) = m + 1 /\ p[m + 1] = r
        /\ \A i \in 1..m : p[i] = R[i]
    BY AppendProperties
  <1> HIDE DEF p
  <1>2. ASSUME NEW i \in 1..m + 1, i = 1 \/ p[i - 1] = Sep
        PROVE  p[i].kind \in {"USDT", "BR", "~"}
    <2>1. CASE i = m + 1
      <3>1. ~ InGroup(R)
        <4>1. SUFFICES ASSUME R # <<>> PROVE R[m] = Sep
          BY DEF InGroup
        <4>2. m \in 1..m /\ i # 1 /\ i - 1 = m
          BY <1>1, <2>1, <4>1
        <4>3. p[m] = R[m]
          BY <1>1, <4>2
        <4> QED  BY <1>2, <4>2, <4>3
      <3> QED  BY <1>1, <2>1, <3>1
    <2>2. CASE i # m + 1
      <3>1. i \in 1..m /\ (i = 1 \/ i - 1 \in 1..m)
        BY <1>1, <2>2
      <3>2. p[i] = R[i] /\ (i = 1 \/ R[i - 1] = Sep)
        BY <1>1, <1>2, <3>1
      <3> QED  BY <1>1, <3>1, <3>2 DEF FirstRows
    <2> QED  BY <2>1, <2>2
  <1>3. r # Sep => InGroup(p)
    BY <1>1 DEF InGroup
  <1> QED  BY <1>1, <1>2, <1>3 DEF FirstRows, p

(* ... as recycled banknotes may ...                                       *)
LEMMA FirstRowsConcat ==
    ASSUME NEW R \in Seq(RowType), NEW b \in Seq(RecycledRow), FirstRows(R)
    PROVE  FirstRows(R \o b)
  <1> DEFINE z == R \o b
             m == Len(R)
             n == Len(b)
  <1>1. /\ b \in Seq(RowType) /\ m \in Nat /\ n \in Nat /\ \A k \in 1..n : b[k].kind = "BR"
    <2>1. \A r \in RecycledRow : r.kind = "BR"
      BY DEF RecycledRow
    <2> QED  BY <2>1, RecycledIsRow
  <1>2. /\ z \in Seq(RowType) /\ Len(z) = m + n
        /\ \A i \in 1..m + n : z[i] = IF i <= m THEN R[i] ELSE b[i - m]
    BY <1>1, ConcatProperties
  <1>3. DOMAIN R = 1..m
    OBVIOUS
  <1> HIDE DEF z, m, n
  <1>4. ASSUME NEW i \in 1..m + n, i = 1 \/ z[i - 1] = Sep
        PROVE  z[i].kind \in {"USDT", "BR", "~"}
    <2>1. CASE i <= m
      <3>1. i \in 1..m /\ (i = 1 \/ (i - 1 \in 1..m + n /\ i - 1 <= m))
        BY <1>1, <2>1
      <3>2. z[i] = R[i] /\ (i = 1 \/ R[i - 1] = Sep)
        BY <1>2, <1>4, <2>1, <3>1
      <3> QED  BY <1>3, <3>1, <3>2 DEF FirstRows
    <2>2. CASE ~ (i <= m)
      <3>1. i - m \in 1..n /\ z[i] = b[i - m]
        BY <1>1, <1>2, <2>2
      <3> QED  BY <1>1, <3>1
    <2> QED  BY <2>1, <2>2
  <1>5. DOMAIN z = 1..m + n
    BY <1>2
  <1> QED  BY <1>4, <1>5 DEF FirstRows, z

(* ... and a file that ends early has no other beginnings.                 *)
LEMMA FirstRowsPrefix ==
    ASSUME NEW R \in Seq(RowType), FirstRows(R), NEW n \in 0..Len(R)
    PROVE  FirstRows(SubSeq(R, 1, n))
  <1> DEFINE p == SubSeq(R, 1, n)
  <1>1. n \in Nat /\ n <= Len(R) /\ Len(R) \in Nat /\ \A k \in 1..n : R[k] \in RowType
    OBVIOUS
  <1>2. Len(p) = n /\ p \in Seq(RowType) /\ \A k \in 1..n : p[k] = R[k]
    BY <1>1, SubSeqProperties
  <1> HIDE DEF p
  <1>3. DOMAIN p = 1..n /\ \A k \in 1..n : k \in DOMAIN R /\ (k = 1 \/ k - 1 \in 1..n)
    BY <1>1, <1>2
  <1> QED  BY <1>2, <1>3 DEF FirstRows, p

(* No transfer writes anything before its origin row.                      *)
LEMMA FileKeeps ==
    ASSUME SimTypes, FileInv, [SimNext]_simVars
    PROVE  FileInv'
  <1> DEFINE R == Rows
  <1>1. R \in Seq(RowType) /\ FirstRows(R)
    BY RowsTypes DEF FileInv
  <1>2. ASSUME NEW r \in RowType, InGroup(R) \/ r.kind \in {"USDT", "BR", "~"},
               file' = file, buffer' = Append(buffer, r), r = Sep => step' \notin {"exact", "gather"}
        PROVE  FileInv'
    <2>1. Rows' = Append(R, r)
      BY <1>2, RowsAppend
    <2> HIDE DEF R
    <2>2. FirstRows(Append(R, r)) /\ (r # Sep => InGroup(Append(R, r)))
      BY <1>1, <1>2, FirstRowsAppend
    <2>3. FirstRows(Rows') /\ (step' \in {"exact", "gather"} => InGroup(Rows'))
      BY <1>2, <2>1, <2>2
    <2> QED  BY <2>3 DEF FileInv, FirstRows, InGroup
  <1>3. ASSUME Rows' = R, step' \in {"exact", "gather"} => step \in {"exact", "gather"}
        PROVE  FileInv'
    <2>1. FirstRows(Rows') /\ (step' \in {"exact", "gather"} => InGroup(Rows'))
      BY <1>3 DEF FileInv
    <2> QED  BY <2>1 DEF FileInv, FirstRows, InGroup
  <1>4. step \in {"exact", "gather"} => InGroup(R)
    BY DEF FileInv
  <1>5. CASE NextTransfer
    <2>1. PICK a \in Accounts, x \in Values : buffer' = Append(buffer, Row("USDT", 0, x, a))
      BY <1>5 DEF NextTransfer
    <2> DEFINE r == Row("USDT", 0, x, a)
    <2>2. r.kind = "USDT" /\ r # Sep /\ file' = file
      BY <1>5 DEF Row, Sep, NextTransfer
    <2>3. r \in RowType
      <3>1. x \in Nat
        BY SimulatorAssumption
      <3> QED  BY <3>1, TransferBegins, RecycledIsRow
    <2> HIDE DEF r, R
    <2> QED  BY <1>2, <2>1, <2>2, <2>3 DEF r
  <1>6. CASE Exact
    <2>1. step = "exact" /\ file' = file
      BY <1>6 DEF Exact
    <2>2. CASE UNCHANGED <<wallet, buffer, drawn>>
      <3>1. Rows' = R
        BY <2>1, <2>2 DEF Rows
      <3> QED  BY <1>3, <2>1, <3>1
    <2>3. CASE \E i \in DOMAIN wallet[pay.from] : BanknoteTransfer(i)
      <3>1. PICK i \in DOMAIN wallet[pay.from] : BanknoteTransfer(i)
        BY <2>3
      <3>2. PICK r \in PlainRow : /\ r = Row("BT", wallet[pay.from][i].note, wallet[pay.from][i].value, pay.to)
                                  /\ buffer' = Append(buffer, r)
        BY <2>1, <3>1, TransferTypes
      <3>3. r \in RowType /\ r # Sep
        BY <3>2, RecycledIsRow DEF Row, Sep
      <3> HIDE DEF R
      <3> QED  BY <1>2, <1>4, <2>1, <3>2, <3>3
    <2> QED  BY <1>6, <2>2, <2>3, ExactFinds
  <1>7. CASE TransferOne
    <2>1. step = "gather" /\ file' = file /\ BanknoteTransfer(pos)
      BY <1>7 DEF TransferOne, Gathering
    <2>2. pos \in DOMAIN wallet[pay.from]
      <3>1. wallet[pay.from] \in Seq(NoteType) /\ pos <= Len(wallet[pay.from]) /\ pos \in Nat \ {0}
        BY <1>7 DEF TransferOne, Gathering, SimTypes
      <3> QED  BY <3>1
    <2>3. PICK r \in PlainRow : /\ r = Row("BT", wallet[pay.from][pos].note, wallet[pay.from][pos].value, pay.to)
                                /\ buffer' = Append(buffer, r)
      BY <2>1, <2>2, TransferTypes
    <2>4. r \in RowType /\ r # Sep
      BY <2>3, RecycledIsRow DEF Row, Sep
    <2> HIDE DEF R
    <2> QED  BY <1>2, <1>4, <2>1, <2>3, <2>4
  <1>8. CASE Split
    <2> DEFINE r == SplitRow(InHand.value - (pay.value - accum), pay.value - accum)
    <2>1. step = "gather" /\ file' = file /\ r \in HalvingRow /\ buffer' = Append(buffer, r)
      BY <1>8, SplitTypes DEF Split, Gathering
    <2>2. r \in RowType /\ r # Sep
      BY <2>1 DEF SplitRow, Sep, RowType
    <2> HIDE DEF r, R
    <2> QED  BY <1>2, <1>4, <2>1, <2>2
  <1>9. CASE BanknoteNew
    <2> DEFINE r == Row("BG", drawn + 1, Missing, pay.to)
    <2>1. step = "gather" /\ file' = file /\ r \in PlainRow /\ buffer' = Append(buffer, r)
      BY <1>9, NewTypes DEF BanknoteNew
    <2>2. r \in RowType /\ r # Sep
      BY <2>1, RecycledIsRow DEF Row, Sep
    <2> HIDE DEF r, R
    <2> QED  BY <1>2, <1>4, <2>1, <2>2
  <1>10. CASE EndTransfer
    <2>1. file' = file /\ buffer' = Append(buffer, Sep) /\ step' \in {"finalize", "next"}
      BY <1>10 DEF EndTransfer
    <2>2. Sep \in RowType /\ Sep.kind = "~"
      BY DEF RowType, Sep
    <2> QED  BY <1>2, <2>1, <2>2
  <1>11. CASE Paid \/ EndOfInput
    <2>1. Rows' = R /\ step' \notin {"exact", "gather"}
      BY <1>11 DEF Paid, EndOfInput, out, Rows
    <2> QED  BY <1>3, <2>1
  <1>12. CASE Finalize
    <2> DEFINE b == FlattenSeq(Recycling)
    <2>1. step' = "block" /\ b \in Seq(RecycledRow)
      BY <1>12, RecyclingTypes DEF Finalize
    <2>2. CASE Rows' = R
      BY <1>3, <2>1, <2>2
    <2>3. CASE Rows' = R \o b
      <3>1. FirstRows(R \o b)
        <4> HIDE DEF b, R
        <4> QED  BY <1>1, <2>1, FirstRowsConcat
      <3>2. FirstRows(Rows')
        BY <2>3, <3>1
      <3> QED  BY <2>1, <3>2 DEF FileInv, FirstRows
    <2> QED  BY <1>12, <2>2, <2>3, RowsRecycled
  <1>13. CASE EndBlock \/ LastFlush
    <2>1. Rows' = R /\ step' \notin {"exact", "gather"}
      BY <1>13, RowsFlush DEF EndBlock, LastFlush, Over
    <2> QED  BY <1>3, <2>1
  <1>14. CASE Interrupt
    <2>1. step' = "over"
      BY <1>14 DEF Interrupt, Over
    <2>2. PICK n \in 0..Len(R) : Rows' = SubSeq(R, 1, n)
      BY <1>14, RowsInterrupted
    <2> HIDE DEF R
    <2>3. FirstRows(SubSeq(R, 1, n))
      BY <1>1, FirstRowsPrefix
    <2>4. FirstRows(Rows')
      BY <2>2, <2>3
    <2> QED  BY <2>1, <2>4 DEF FileInv, FirstRows
  <1>15. CASE UNCHANGED simVars
    <2>1. Rows' = R /\ step' = step
      BY <1>15 DEF simVars, out, Rows
    <2> QED  BY <1>3, <2>1
  <1> QED  BY <1>5, <1>6, <1>7, <1>8, <1>9, <1>10, <1>11, <1>12, <1>13, <1>14, <1>15 DEF SimNext

-----------------------------------------------------------------------------
(* Banknote mode.  How far the reader has come, and the rows that are due. *)
DueRows == {i \in DOMAIN file : Due(i)}
Reach(n) == IF n - 1 <= Len(file) THEN n - 1 ELSE Len(file)
OnFile == cut \in BOOLEAN /\ file \in Seq(RowType) /\ FirstRows(file)

(* A row is a separator or has one of the kinds that the readers tell      *)
(* apart.                                                                  *)
LEMMA RowKinds ==
    ASSUME NEW r \in RowType
    PROVE  (r = Sep <=> r.kind = "~") /\ (r # Sep => r.kind \in {"USDT", "BG", "BT", "BR", "BS"})
  <1>1. CASE r \in PlainRow
    BY <1>1 DEF PlainRow, Sep
  <1>2. CASE r \in HalvingRow
    BY <1>2 DEF HalvingRow, Sep
  <1>3. CASE r = Sep
    BY <1>3 DEF Sep
  <1> QED  BY <1>1, <1>2, <1>3 DEF RowType

(* The whole lines are the file, but for a last one that is cut off.       *)
LEMMA WholeLines ==
    ASSUME OnFile
    PROVE  /\ Complete \in Seq(RowType) /\ Len(Complete) \in 0..Len(file)
           /\ \A i \in 1..Len(Complete) : Complete[i] = file[i]
           /\ \A i \in DOMAIN file : Due(i) <=>
                 /\ i <= Len(Complete)
                 /\ \/ file[i].kind \in {"BG", "BT", "BS"}
                    \/ file[i].kind = "BR" /\ i > 1 /\ file[i - 1] # Sep
  <1>1. Len(file) \in Nat /\ DOMAIN file = 1..Len(file) /\ \A i \in 1..Len(file) : file[i] \in RowType
    BY DEF OnFile
  <1>2. CASE ~cut
    <2>1. Complete = file
      BY <1>2 DEF Complete
    <2> QED  BY <1>1, <1>2, <2>1 DEF OnFile, Due
  <1>3. CASE cut /\ Len(file) = 0
    <2> DEFINE f == Front(file)
    <2>1. f = SubSeq(file, 1, 0 - 1) /\ Complete = f
      BY <1>3 DEF Front, Complete
    <2>2. f \in Seq(RowType) /\ Len(f) = 0
      <3>1. \A i \in 1..0 - 1 : file[i] \in RowType
        OBVIOUS
      <3>2. /\ SubSeq(file, 1, 0 - 1) \in Seq(RowType)
            /\ Len(SubSeq(file, 1, 0 - 1)) = IF 1 <= 0 - 1 THEN (0 - 1) - 1 + 1 ELSE 0
        BY <3>1, SubSeqProperties
      <3> HIDE DEF f
      <3> QED  BY <2>1, <3>2
    <2> HIDE DEF f
    <2> QED  BY <1>1, <1>3, <2>1, <2>2
  <1>4. CASE cut /\ Len(file) > 0
    <2> DEFINE n == Len(file) - 1
               f == SubSeq(file, 1, n)
    <2>1. Complete = f
      BY <1>4 DEF Front, Complete
    <2>2. n \in Nat /\ n + 1 = Len(file) /\ n \in 0..Len(file)
      BY <1>1, <1>4
    <2>3. f \in Seq(RowType) /\ Len(f) = n /\ \A i \in 1..n : f[i] = file[i]
      <3>1. \A i \in 1..n : file[i] \in RowType
        BY <1>1, <2>2
      <3> HIDE DEF n
      <3> QED  BY <2>2, <3>1, SubSeqProperties
    <2> HIDE DEF f, n
    <2>4. \A i \in 1..Len(file) : i <= n <=> i < Len(file)
      BY <1>1, <2>2
    <2> QED  BY <1>1, <1>4, <2>1, <2>2, <2>3, <2>4 DEF Due
  <1> QED  BY <1>1, <1>2, <1>3, <1>4 DEF OnFile

(* Where the next group is.                                                *)
LEMMA GroupPlaces ==
    ASSUME OnFile, line \in Nat \ {0}, line <= Len(Complete) + 2
    PROVE  \/ /\ GroupStart = Len(Complete) + 1 /\ GroupEnd = Len(Complete) + 1
              /\ \A k \in line..Len(Complete) : Complete[k] = Sep
           \/ /\ GroupStart \in line..Len(Complete)
              /\ \A k \in line..GroupStart - 1 : Complete[k] = Sep
              /\ GroupEnd \in GroupStart + 1..Len(Complete) + 1
              /\ \A k \in GroupStart..GroupEnd - 1 : Complete[k] # Sep
              /\ GroupEnd <= Len(Complete) => Complete[GroupEnd] = Sep
  <1> DEFINE C == Complete
             c == Len(Complete)
             A == Lines(line, FALSE)
             s == GroupStart
             B == Lines(s, TRUE)
             e == GroupEnd
  <1>1. c \in Nat /\ line \in Nat
    BY WholeLines
  <1>2. \A n \in Nat : /\ Lines(n, FALSE) = {i \in n..c : C[i] # Sep}
                      /\ Lines(n, TRUE) = {i \in n..c : C[i] = Sep}
    BY DEF Lines
  <1>3. s = IF A = {} THEN c + 1 ELSE Min(A)
    BY DEF GroupStart
  <1>4. e = IF B = {} THEN c + 1 ELSE Min(B)
    BY DEF GroupEnd
  <1>5. A = {i \in line..c : C[i] # Sep} /\ (s \in Nat => B = {i \in s..c : C[i] = Sep})
    BY <1>1, <1>2
  <1>6. \A T \in SUBSET Nat : T # {} => Min(T) \in T /\ \A m \in T : Min(T) <= m
    BY LeastNat DEF Min
  <1> HIDE DEF C, c, s, e, A, B
  <1>9. \A k \in line..c : k \in Nat
    BY <1>1
  <1>10. A \in SUBSET Nat
    BY <1>5, <1>9
  <1>7. CASE A = {}
    <2>1. s = c + 1 /\ s \in Nat
      BY <1>1, <1>3, <1>7
    <2>2. B = {}
      BY <1>1, <1>5, <2>1
    <2>3. e = c + 1
      BY <1>4, <2>2
    <2>4. \A k \in line..c : C[k] = Sep
      BY <1>1, <1>5, <1>7
    <2> QED  BY <2>1, <2>3, <2>4 DEF C, c, s, e
  <1>8. CASE A # {}
    <2>1. s \in A /\ \A m \in A : s <= m
      BY <1>3, <1>6, <1>8, <1>10
    <2>2. s \in line..c /\ C[s] # Sep /\ s \in Nat
      BY <1>5, <1>9, <2>1
    <2>6. B = {i \in s..c : C[i] = Sep} /\ B \in SUBSET Nat
      <3>1. B = {i \in s..c : C[i] = Sep}
        BY <1>5, <2>2
      <3>2. \A k \in s..c : k \in Nat
        BY <1>1, <2>2
      <3> QED  BY <3>1, <3>2
    <2>3. \A k \in line..s - 1 : C[k] = Sep
      <3> TAKE k \in line..s - 1
      <3>1. k \in line..c /\ ~ (s <= k)
        BY <1>1, <2>2
      <3> QED  BY <1>5, <2>1, <3>1
    <2>4. CASE B = {}
      <3>1. e = c + 1 /\ e \in s + 1..c + 1 /\ ~ (e <= c)
        BY <1>1, <1>4, <2>2, <2>4
      <3>2. \A k \in s..e - 1 : C[k] # Sep
        BY <1>1, <2>2, <2>4, <2>6, <3>1
      <3> QED  BY <2>2, <2>3, <3>1, <3>2 DEF C, c, s, e
    <2>5. CASE B # {}
      <3>1. e \in B /\ \A m \in B : e <= m
        BY <1>4, <1>6, <2>5, <2>6
      <3>2. e \in s..c /\ C[e] = Sep
        BY <2>6, <3>1
      <3>3. e \in s + 1..c + 1
        BY <1>1, <2>2, <3>2
      <3>4. \A k \in s..e - 1 : C[k] # Sep
        <4> TAKE k \in s..e - 1
        <4>1. k \in s..c /\ ~ (e <= k)
          BY <1>1, <2>2, <3>2
        <4> QED  BY <2>6, <3>1, <4>1
      <3> QED  BY <2>2, <2>3, <3>2, <3>3, <3>4 DEF C, c, s, e
    <2> QED  BY <2>4, <2>5
  <1> QED  BY <1>7, <1>8

(* One item: the group that is read is what the file has up to there.      *)
LEMMA NextGroup ==
    ASSUME OnFile, line \in Nat \ {0}, line <= Len(Complete) + 2,
           line = 1 \/ line > Len(Complete) \/ Complete[line - 1] = Sep
    PROVE  /\ Banknotes(Group) \in Seq(RowType)
           /\ GroupEnd + 1 \in Nat \ {0} /\ GroupEnd + 1 <= Len(Complete) + 2
           /\ GroupEnd + 1 > Len(Complete) \/ Complete[(GroupEnd + 1) - 1] = Sep
           /\ KeptOf(file, DueRows)[Reach(GroupEnd + 1)] =
                 KeptOf(file, DueRows)[Reach(line)] \o Banknotes(Group)
  <1> DEFINE C == Complete
             c == Len(Complete)
             l == Len(file)
             s == GroupStart
             e == GroupEnd
             g == Group
             S == {i \in DOMAIN g : i > 1 /\ g[i].kind # "USDT"}
             T == DueRows
             K == KeptOf(file, T)
  <1>1. /\ C \in Seq(RowType) /\ c \in Nat /\ l \in Nat /\ c <= l /\ line \in Nat
        /\ file \in Seq(RowType) /\ DOMAIN file = 1..l
        /\ \A i \in 1..l : file[i] \in RowType
        /\ \A i \in 1..c : C[i] = file[i] /\ C[i] \in RowType
    BY WholeLines DEF OnFile
  <1>2. \A i \in 1..l : i \in T <=> /\ i <= c
                                   /\ \/ file[i].kind \in {"BG", "BT", "BS"}
                                      \/ file[i].kind = "BR" /\ i > 1 /\ file[i - 1] # Sep
    BY <1>1, WholeLines DEF DueRows
  <1>3. \A i \in 1..l : (i <= c => file[i] = Sep) => i \notin T
    BY <1>2 DEF Sep
  <1>4. g = SubSeq(C, s, e - 1) /\ Banknotes(Group) = Keep(g, S)
    BY DEF Group, Banknotes
  <1>5. \A n \in Nat \ {0} : Reach(n) = IF n - 1 <= l THEN n - 1 ELSE l
    BY DEF Reach
  <1>6. \A n \in 0..l : K[n] \in Seq(RowType)
    BY <1>1, KeptSteps
  <1>7. \A r \in RowType : r # Sep => r.kind \in {"USDT", "BG", "BT", "BR", "BS"}
    BY RowKinds
  <1>8. g \in Seq(RowType) => Keep(g, S) \in Seq(RowType)
    <2>1. SUFFICES ASSUME g \in Seq(RowType) PROVE Keep(g, S) \in Seq(RowType)
      OBVIOUS
    <2> HIDE DEF S, g
    <2>2. Len(g) \in 0..Len(g)
      BY <2>1
    <2> QED  BY <2>1, <2>2, KeptSteps
  <1>9. \A a, b \in Nat : a <= b /\ b <= l /\ (\A k \in a + 1..b : k \notin T) => K[b] = K[a]
    BY <1>1, KeptIdle
  <1>10. CASE s = c + 1 /\ e = c + 1 /\ \A k \in line..c : C[k] = Sep
    <2>1. g = <<>>
      <3>1. \A i \in s..e - 1 : C[i] \in RowType
        BY <1>1, <1>10
      <3>2. g \in Seq(RowType) /\ Len(g) = 0
        <4>1. s \in Nat /\ e - 1 \in Int /\ ~ (s <= e - 1)
          BY <1>1, <1>10
        <4> HIDE DEF C, s, e
        <4>2. SubSeq(C, s, e - 1) \in Seq(RowType) /\ Len(SubSeq(C, s, e - 1)) = 0
          <5>1. \A i \in s..e - 1 : C[i] \in RowType
            BY <4>1
          <5> QED  BY <4>1, <5>1, SubSeqProperties
        <4> QED  BY <1>4, <4>2
      <3> HIDE DEF g
      <3> QED  BY <3>2
    <2>2. Keep(g, S) = <<>>
      <3>1. <<>> \in Seq(RowType) /\ Len(<<>>) = 0
        OBVIOUS
      <3>2. Keep(<<>>, S) = <<>>
        BY <3>1, KeptSteps
      <3> HIDE DEF S, g
      <3> QED  BY <2>1, <3>2
    <2>3. Reach(line) \in Nat /\ Reach(e + 1) \in Nat /\ Reach(line) <= Reach(e + 1) /\ Reach(e + 1) <= l
      BY <1>1, <1>5, <1>10
    <2>4. \A k \in Reach(line) + 1..Reach(e + 1) : k \notin T
      <3> TAKE k \in Reach(line) + 1..Reach(e + 1)
      <3>1. k \in 1..l /\ k >= line
        BY <1>1, <1>5, <2>3
      <3>2. k <= c => file[k] = Sep
        BY <1>1, <1>10, <3>1
      <3> QED  BY <1>3, <3>1, <3>2
    <2>5. K[Reach(e + 1)] = K[Reach(line)]
      BY <1>9, <2>3, <2>4
    <2>6. K[Reach(line)] \in Seq(RowType)
      BY <1>6, <2>3
    <2>7. K[Reach(line)] \o Keep(g, S) = K[Reach(line)]
      <3> HIDE DEF K, S, g
      <3> QED  BY <2>2, <2>6, ConcatEmptySeq
    <2>8. Keep(g, S) \in Seq(RowType)
      <3>1. <<>> \in Seq(RowType)
        OBVIOUS
      <3> QED  BY <2>2, <3>1
    <2>9. e + 1 \in Nat \ {0} /\ e + 1 <= c + 2 /\ e + 1 > c
      BY <1>1, <1>10
    <2> QED  BY <1>4, <2>5, <2>7, <2>8, <2>9
  <1>11. CASE /\ s \in line..c
              /\ \A k \in line..s - 1 : C[k] = Sep
              /\ e \in s + 1..c + 1
              /\ \A k \in s..e - 1 : C[k] # Sep
              /\ e <= c => C[e] = Sep
    <2>1. /\ s \in Nat /\ e \in Nat /\ line >= 1 /\ 1 <= s /\ line <= s /\ s <= c /\ s < e /\ e <= c + 1
          /\ s - 1 \in Nat /\ e - 1 \in Nat /\ line - 1 \in Nat
      BY <1>1, <1>11
    <2>2. \A k \in s..e - 1 : /\ k \in 1..l /\ k <= c /\ C[k] = file[k] /\ file[k] # Sep
                             /\ file[k].kind \in {"USDT", "BG", "BT", "BR", "BS"}
      <3> TAKE k \in s..e - 1
      <3>1. k \in 1..l /\ k \in 1..c /\ k <= c
        BY <1>1, <2>1
      <3>2. C[k] = file[k] /\ file[k] # Sep /\ file[k] \in RowType
        BY <1>1, <1>11, <3>1
      <3> QED  BY <1>7, <3>1, <3>2
    <2>3. g \in Seq(RowType) /\ Len(g) = e - s /\ \A k \in 1..e - s : g[k] = file[(s - 1) + k]
      <3>1. \A i \in s..e - 1 : C[i] \in RowType
        BY <1>1, <2>1, <2>2
      <3> HIDE DEF C, s, e, g
      <3>2. /\ g \in Seq(RowType) /\ Len(g) = (IF s <= e - 1 THEN (e - 1) - s + 1 ELSE 0)
            /\ \A k \in 1..(e - 1) - s + 1 : g[k] = C[s + k - 1]
        BY <1>4, <2>1, <3>1, SubSeqProperties
      <3>3. Len(g) = e - s
        BY <2>1, <3>2
      <3>4. ASSUME NEW k \in 1..e - s PROVE g[k] = file[(s - 1) + k]
        <4>1. k \in 1..(e - 1) - s + 1 /\ s + k - 1 = (s - 1) + k /\ (s - 1) + k \in s..e - 1
          BY <2>1
        <4> QED  BY <2>2, <3>2, <4>1
      <3> QED  BY <3>2, <3>3, <3>4
    <2>4. s = 1 \/ file[s - 1] = Sep
      <3>1. CASE s = line
        BY <1>1, <2>1, <3>1
      <3>2. CASE s # line
        <4>1. s - 1 \in line..s - 1 /\ s - 1 \in 1..c
          BY <1>1, <2>1, <3>2
        <4> QED  BY <1>1, <1>11, <4>1
      <3> QED  BY <3>1, <3>2
    <2>5. s \in s..e - 1
      BY <2>1
    <2>6. s \notin T
      <3>1. file[s].kind \in {"USDT", "BR", "~"}
        BY <1>1, <2>2, <2>4, <2>5 DEF OnFile, FirstRows
      <3>2. s \in 1..l
        BY <2>2, <2>5
      <3> QED  BY <1>2, <2>4, <3>1, <3>2
    <2>7. ASSUME NEW k \in 1..e - s PROVE k \in S <=> (s - 1) + k \in T
      <3>1. (s - 1) + k \in s..e - 1 /\ k \in Nat /\ (k # 1 => k > 1)
        BY <2>1
      <3>2. k \in S <=> k > 1 /\ file[(s - 1) + k].kind # "USDT"
        <4>1. DOMAIN g = 1..e - s
          BY <2>3
        <4>2. g[k] = file[(s - 1) + k]
          BY <2>3
        <4> HIDE DEF g
        <4> QED  BY <4>1, <4>2
      <3>3. CASE k = 1
        <4>1. (s - 1) + k = s
          BY <2>1, <3>3
        <4> QED  BY <2>6, <3>2, <3>3, <4>1
      <3>4. CASE k # 1
        <4>1. (s - 1) + k - 1 \in s..e - 1 /\ (s - 1) + k > 1
          BY <2>1, <3>1, <3>4
        <4>2. file[(s - 1) + k - 1] # Sep
          BY <2>2, <4>1
        <4> DEFINE i == (s - 1) + k
        <4>3. /\ i \in 1..l /\ i <= c /\ i > 1 /\ file[i - 1] # Sep
              /\ file[i].kind \in {"USDT", "BG", "BT", "BR", "BS"}
          <5>1. i \in s..e - 1 /\ i - 1 = (s - 1) + k - 1 /\ i > 1
            <6>1. s \in Nat /\ k \in Nat
              BY <2>1, <3>1
            <6> HIDE DEF S, g, T, s
            <6>2. (s - 1) + k - 1 = ((s - 1) + k) - 1
              BY <6>1
            <6> QED  BY <3>1, <4>1, <6>1, <6>2
          <5>2. file[i - 1] # Sep
            BY <4>2, <5>1
          <5> HIDE DEF i
          <5> QED  BY <2>2, <5>1, <5>2
        <4>4. k \in S <=> file[i].kind # "USDT"
          BY <3>1, <3>2, <3>4
        <4> HIDE DEF i, S, T, s
        <4>5. i \in T <=> file[i].kind # "USDT"
          BY <1>2, <4>3
        <4>6. i \in T <=> k \in S
          BY <4>4, <4>5
        <4> QED  BY <4>6 DEF i
      <3> QED  BY <3>3, <3>4
    <2>8. Stretch(file, T, g, S, s - 1)
      <3>1. (s - 1) + (e - s) <= l
        BY <1>1, <2>1
      <3> HIDE DEF S, g, T, s, e
      <3> QED  BY <2>3, <2>7, <3>1 DEF Stretch
    <2>9. K[(s - 1) + (e - s)] = K[s - 1] \o Keep(g, S)
      <3>1. K[(s - 1) + Len(g)] = K[s - 1] \o Keep(g, S)
        <4> HIDE DEF S, g, T, s, e
        <4>1. file \in Seq(RowType) /\ g \in Seq(RowType) /\ s - 1 \in Nat /\ Stretch(file, T, g, S, s - 1)
          BY <1>1, <2>1, <2>3, <2>8
        <4>2. \A a \in Nat : Stretch(file, T, g, S, a) =>
                 KeptOf(file, T)[a + Len(g)] = KeptOf(file, T)[a] \o Keep(g, S)
          BY <4>1, KeptGrows
        <4> QED  BY ONLY <4>1, <4>2
      <3> QED  BY <2>3, <3>1
    <2>10. (s - 1) + (e - s) = e - 1
      BY <2>1
    <2>11. K[s - 1] = K[line - 1]
      <3>1. \A k \in (line - 1) + 1..s - 1 : k \notin T
        <4> TAKE k \in (line - 1) + 1..s - 1
        <4>1. k \in line..s - 1 /\ k \in 1..c /\ k \in 1..l
          BY <1>1, <2>1
        <4>2. file[k] = Sep
          BY <1>1, <1>11, <4>1
        <4> QED  BY <1>3, <4>1, <4>2
      <3>2. line - 1 <= s - 1 /\ s - 1 <= l
        BY <1>1, <2>1
      <3> QED  BY <1>9, <2>1, <3>1, <3>2
    <2>12. Reach(line) = line - 1 /\ Reach(e + 1) = IF e <= l THEN e ELSE e - 1
      <3>1. line \in Nat \ {0} /\ e + 1 \in Nat \ {0} /\ line - 1 <= l /\ (e + 1) - 1 = e
            /\ (~ (e <= l) => l = e - 1)
        BY <1>1, <2>1
      <3> QED  BY <1>5, <3>1
    <2>13. K[Reach(e + 1)] = K[e - 1]
      <3>1. CASE e <= l
        <4>1. \A k \in (e - 1) + 1..e : k = e
          BY <2>1
        <4>2. e \in 1..l
          BY <2>1, <3>1
        <4>3. e <= c => file[e] = Sep
          BY <1>1, <1>11, <2>1
        <4>4. e \notin T
          BY <1>3, <4>2, <4>3
        <4>5. K[e] = K[e - 1]
          BY <1>9, <2>1, <3>1, <4>1, <4>4
        <4> QED  BY <2>12, <3>1, <4>5
      <3>2. CASE ~ (e <= l)
        BY <2>12, <3>2
      <3> QED  BY <3>1, <3>2
    <2>14. e + 1 \in Nat \ {0} /\ e + 1 <= c + 2 /\ (e + 1 > c \/ C[(e + 1) - 1] = Sep)
      <3>1. (e + 1) - 1 = e /\ (e <= c \/ e + 1 > c) /\ e + 1 \in Nat \ {0} /\ e + 1 <= c + 2
        BY <1>1, <2>1
      <3> QED  BY <1>11, <3>1
    <2>15. K[Reach(e + 1)] = K[Reach(line)] \o Keep(g, S)
      <3> HIDE DEF S, g, K, s, e
      <3> QED  BY <2>9, <2>10, <2>11, <2>12, <2>13
    <2> QED  BY <1>4, <1>8, <2>3, <2>14, <2>15
  <1> HIDE DEF C, c, l, s, e, g, S, T, K
  <1> QED  BY <1>10, <1>11, GroupPlaces DEF C, c, s, e, g, S, T, K

(* Every item that the reader got is on the file up to its line, and what  *)
(* is due of it is on the way to the generator.                            *)
Read ==
    /\ used \in Seq(RowType) /\ batch \in Seq(RowType) /\ queue \in Seq(Seq(RowType)) /\ ~tested
    /\ cut \in BOOLEAN /\ line \in Nat \ {0} /\ (step # "over" => line = 1)
    /\ line = 1 \/ (line <= Len(Complete) + 2 /\ (line > Len(Complete) \/ Complete[line - 1] = Sep))
    /\ Flow = KeptOf(file, DueRows)[Reach(line)]
ReadInv == mode = "banknote" => Read

(* A prefix of the file is a file with an origin row first, too.           *)
LEMMA FileIsOn == SimTypes /\ FileInv /\ cut \in BOOLEAN => OnFile
  <1> SUFFICES ASSUME SimTypes, FileInv, cut \in BOOLEAN PROVE OnFile
    OBVIOUS
  <1>1. file \in Seq(RowType) /\ buffer \in Seq(RowType) /\ Rows = file \o buffer
    BY DEF SimTypes, Rows
  <1>2. /\ Len(file) \in Nat /\ Len(buffer) \in Nat /\ DOMAIN file = 1..Len(file)
        /\ Len(Rows) = Len(file) + Len(buffer) /\ Rows \in Seq(RowType)
        /\ \A i \in 1..Len(file) + Len(buffer) : Rows[i] = IF i <= Len(file) THEN file[i] ELSE buffer[i - Len(file)]
    BY <1>1, ConcatProperties
  <1>3. DOMAIN Rows = 1..Len(file) + Len(buffer)
    BY <1>2
  <1>4. ASSUME NEW i \in 1..Len(file), i = 1 \/ file[i - 1] = Sep
        PROVE  file[i].kind \in {"USDT", "BR", "~"}
    <2>1. i \in DOMAIN Rows /\ Rows[i] = file[i] /\ (i = 1 \/ Rows[i - 1] = file[i - 1])
      BY <1>2, <1>3
    <2> QED  BY <1>4, <2>1 DEF FileInv, FirstRows
  <1> QED  BY <1>1, <1>2, <1>4 DEF OnFile, FirstRows

(* Until the simulator is over the reader has not begun.                   *)
LEMMA ReadWaits ==
    ASSUME SimTypes, SimTypes', Read, SimNext, UNCHANGED reader
    PROVE  Read'
  <1>1. step # "over" /\ line = 1 /\ line' = 1
    BY DEF SimNext, NextTransfer, Exact, TransferOne, Gathering, Split, Paid, BanknoteNew, EndTransfer,
           EndOfInput, Finalize, EndBlock, LastFlush, Interrupt, Read, reader
  <1>2. cut' \in BOOLEAN
    <2>1. CASE Interrupt
      BY <2>1 DEF Interrupt
    <2>2. CASE ~ Interrupt
      <3>1. cut' = cut
        BY <2>2 DEF SimNext, NextTransfer, Exact, TransferOne, Split, Paid, BanknoteNew, EndTransfer,
                    EndOfInput, Finalize, EndBlock, LastFlush, out
      <3> QED  BY <3>1 DEF Read
    <2> QED  BY <2>1, <2>2
  <1>3. file' \in Seq(RowType) /\ file \in Seq(RowType)
    BY DEF SimTypes
  <1>4. KeptOf(file, DueRows)[0] = <<>> /\ KeptOf(file', DueRows')[0] = <<>>
    <2>1. \A q, T : q \in Seq(RowType) => KeptOf(q, T)[0] = <<>>
      BY KeptSteps
    <2> QED  BY <1>3, <2>1
  <1>5. Flow' = Flow /\ UNCHANGED <<used, batch, queue, tested>>
    BY DEF Flow, reader
  <1>6. Len(file) \in Nat /\ Len(file') \in Nat
    BY <1>3
  <1>7. Reach(line) = 0 /\ Reach(line)' = 0
    BY <1>1, <1>6 DEF Reach
  <1>8. Flow' = KeptOf(file', DueRows')[Reach(line)']
    BY <1>4, <1>5, <1>7 DEF Read
  <1> QED  BY <1>1, <1>2, <1>5, <1>8 DEF Read

(* A group that is read takes the line behind it, its banknotes the batch. *)
LEMMA ReadGroup ==
    ASSUME OnFile, Read, ReadItem
    PROVE  Read'
  <1>1. /\ line \in Nat \ {0} /\ line <= Len(Complete) + 2
        /\ line = 1 \/ line > Len(Complete) \/ Complete[line - 1] = Sep
    <2>1. Len(Complete) \in Nat
      BY WholeLines
    <2> QED  BY <2>1 DEF Read
  <1>2. /\ Banknotes(Group) \in Seq(RowType)
        /\ GroupEnd + 1 \in Nat \ {0} /\ GroupEnd + 1 <= Len(Complete) + 2
        /\ GroupEnd + 1 > Len(Complete) \/ Complete[(GroupEnd + 1) - 1] = Sep
        /\ KeptOf(file, DueRows)[Reach(GroupEnd + 1)] =
              KeptOf(file, DueRows)[Reach(line)] \o Banknotes(Group)
    BY <1>1, NextGroup
  <1>3. /\ file' = file /\ cut' = cut /\ step' = step /\ step = "over"
        /\ batch' = batch \o Banknotes(Group) /\ line' = GroupEnd + 1
        /\ UNCHANGED <<used, queue, tested>>
    BY DEF ReadItem, simVars, out
  <1>4. Flow' = Flow \o Banknotes(Group)
    BY <1>2, <1>3, FlowGoes DEF Read
  <1>5. Complete' = Complete /\ DueRows' = DueRows
    BY <1>3 DEF Complete, DueRows, Due
  <1>6. Reach(line)' = Reach(GroupEnd + 1)
    BY <1>3 DEF Reach
  <1>7. Flow' = KeptOf(file', DueRows')[Reach(line)']
    BY <1>2, <1>3, <1>4, <1>5, <1>6 DEF Read
  <1>8. batch' \in Seq(RowType)
    BY <1>2, <1>3, ConcatProperties DEF Read
  <1>9. line' <= Len(Complete') + 2 /\ (line' > Len(Complete') \/ Complete'[line' - 1] = Sep)
    BY <1>2, <1>3, <1>5
  <1> QED  BY <1>2, <1>3, <1>7, <1>8, <1>9 DEF Read

(* Every step keeps the reader where the file says it is.                  *)
LEMMA ReadKeeps ==
    ASSUME SimTypes, SimTypes', FileInv, ReadInv, [Next]_vars
    PROVE  ReadInv'
  <1>1. SUFFICES ASSUME mode = "banknote", Read PROVE Read'
    <2>1. mode' = mode
      BY DEF Next, Simulate, Leader, Parse, CloseCsv, Convert, CloseTx, TestTx, AddTx, ReadItem,
             ReadNothing, RandomTx, SendBatch, TakeBatch, vars
    <2> QED  BY <1>1, <2>1 DEF ReadInv
  <1>2. ASSUME UNCHANGED <<file, cut, step, line, tested>>, Flow' = Flow,
               used' \in Seq(RowType), batch' \in Seq(RowType), queue' \in Seq(Seq(RowType))
        PROVE  Read'
    <2>1. Complete' = Complete /\ DueRows' = DueRows
      BY <1>2 DEF Complete, DueRows, Due
    <2>2. Reach(line)' = Reach(line)
      BY <1>2 DEF Reach
    <2>3. Flow' = KeptOf(file', DueRows')[Reach(line)']
      BY <1>1, <1>2, <2>1, <2>2 DEF Read
    <2> QED  BY <1>1, <1>2, <2>1, <2>3 DEF Read
  <1>3. /\ used \in Seq(RowType) /\ batch \in Seq(RowType) /\ queue \in Seq(Seq(RowType)) /\ ~tested
    BY <1>1 DEF Read
  <1>4. CASE Parse \/ CloseCsv \/ Convert \/ CloseTx \/ UNCHANGED vars
    <2>1. UNCHANGED <<simVars, reader>>
      BY <1>4 DEF Parse, CloseCsv, Convert, CloseTx, vars
    <2>2. UNCHANGED <<file, cut, step, line, tested, used, batch, queue>>
      BY <2>1 DEF simVars, out, reader
    <2>3. Flow' = Flow
      BY <2>2 DEF Flow
    <2> QED  BY <1>2, <1>3, <2>2, <2>3
  <1>5. ~ TestTx /\ ~ AddTx /\ ~ RandomTx
    BY <1>1, <1>3 DEF TestTx, AddTx, RandomTx
  <1>6. CASE Simulate
    BY <1>1, <1>6, ReadWaits DEF Simulate
  <1>7. CASE ReadItem
    BY <1>1, <1>7, FileIsOn, ReadGroup DEF Read
  <1>8. CASE SendBatch \/ TakeBatch
    <2>1. UNCHANGED <<file, cut, step, line, tested>>
      BY <1>8 DEF SendBatch, TakeBatch, simVars, out
    <2>2. SendBatch => used' = used
      BY DEF SendBatch
    <2>3. TakeBatch => batch' = batch
      BY DEF TakeBatch
    <2>4. /\ Flow' = Flow /\ used' \in Seq(RowType) /\ batch' \in Seq(RowType)
          /\ queue' \in Seq(Seq(RowType))
      BY <1>3, <1>8, <2>2, <2>3, FlowGoes
    <2> QED  BY <1>2, <2>1, <2>4
  <1>9. CASE ReadNothing
    <2>1. UNCHANGED <<simVars, line, tested, used, batch, queue>>
      BY <1>9 DEF ReadNothing
    <2>2. UNCHANGED <<file, cut, step, line, tested, used, batch, queue>>
      BY <2>1 DEF simVars, out
    <2>3. Flow' = Flow
      BY <2>2 DEF Flow
    <2> QED  BY <1>2, <1>3, <2>2, <2>3
  <1> QED  BY <1>4, <1>5, <1>6, <1>7, <1>8, <1>9 DEF Next, Leader

(* Banknote mode: whatever the simulator wrote before it ended or was      *)
(* killed, and wherever the batches end, the generator receives the issues, *)
(* transfers and splits of the file once and in order, and of the recycled *)
(* banknotes all but the first of a block (ReadBatch and                   *)
(* ReadBanknoteDatasetItem of banknote_dataset_csv_reader.go).             *)
THEOREM GroupsArrive == Spec => []RowsArrive
  <1>1. Init => SimTypes /\ FileInv /\ ReadInv
    <2> SUFFICES ASSUME Init PROVE SimTypes /\ FileInv /\ ReadInv
      OBVIOUS
    <2>1. SimInit /\ SimTypes
      BY InitTypes DEF Init
    <2>2. Rows = <<>> /\ step = "next" /\ file = <<>> /\ cut = FALSE
      BY <2>1 DEF SimInit, Rows
    <2>3. FileInv
      BY <2>2 DEF FileInv, FirstRows
    <2>4. used = <<>> /\ batch = <<>> /\ queue = <<>> /\ line = 1 /\ tested = FALSE
      BY DEF Init
    <2>5. KeptOf(file, DueRows)[0] = <<>> /\ Reach(line) = 0
      <3>1. file \in Seq(RowType) /\ Len(file) \in Nat
        BY <2>1 DEF SimTypes
      <3> QED  BY <2>4, <3>1, KeptSteps DEF Reach
    <2>6. Flow = <<>>
      <3>1. FlattenSeq(queue) = <<>>
        BY <2>4 DEF FlattenSeq
      <3> QED  BY <2>4, <3>1 DEF Flow
    <2>7. <<>> \in Seq(RowType) /\ <<>> \in Seq(Seq(RowType))
      OBVIOUS
    <2>8. Flow = KeptOf(file, DueRows)[Reach(line)]
      BY <2>5, <2>6
    <2>9. Read
      <3>1. used \in Seq(RowType) /\ batch \in Seq(RowType) /\ queue \in Seq(Seq(RowType))
        BY <2>4, <2>7
      <3>2. ~tested /\ cut \in BOOLEAN
        BY <2>2, <2>4
      <3>3. line \in Nat \ {0} /\ line = 1
        BY <2>4
      <3> QED  BY <2>8, <3>1, <3>2, <3>3 DEF Read
    <2> QED  BY <2>1, <2>3, <2>9 DEF ReadInv
  <1>2. SimTypes /\ FileInv /\ ReadInv /\ [Next]_vars => (SimTypes /\ FileInv /\ ReadInv)'
    BY NextIsSim, TypesKeep, FileKeeps, ReadKeeps
  <1>3. SimTypes /\ ReadInv => RowsArrive
    <2> SUFFICES ASSUME SimTypes, Read PROVE IsPrefix(Flow, Keep(file, DueRows))
                                             /\ (line > Len(file) => Flow = Keep(file, DueRows))
      BY DEF ReadInv, RowsArrive, DueRows
    <2>1. file \in Seq(RowType) /\ Len(file) \in Nat /\ line \in Nat \ {0}
      BY DEF SimTypes, Read
    <2>2. Reach(line) \in 0..Len(file) /\ (line > Len(file) => Reach(line) = Len(file))
      BY <2>1 DEF Reach
    <2>3. Flow = KeptOf(file, DueRows)[Reach(line)]
      BY DEF Read
    <2>4. IsPrefix(KeptOf(file, DueRows)[Reach(line)], Keep(file, DueRows))
      BY <2>1, <2>2, KeptPrefix
    <2>5. Keep(file, DueRows) = KeptOf(file, DueRows)[Len(file)]
      BY <2>1, KeptSteps
    <2> QED  BY <2>2, <2>3, <2>4, <2>5
  <1> QED  BY <1>1, <1>2, <1>3, PTL DEF Spec
=============================================================================
