------------------------ MODULE BlockProcessingProofs ------------------------
(***************************************************************************)
(* Theorems about BlockProcessing: what a block contains when the wait     *)
(* group lets it be made, although its lists are sorted in place while     *)
(* another goroutine hashes them.                                          *)
(***************************************************************************)
EXTENDS BlockProcessing, ListsAndSums

-----------------------------------------------------------------------------
(* What the classification gives each ledger.                              *)
InPlaces(txs, kinds, l) == Keep(txs, PlacesOf(txs, kinds, l))
LEMMA BatchFacts ==
    ASSUME run \in Runs, NEW n \in DOMAIN run
    PROVE  /\ run[n] \in Seq(Tx)
           /\ \A i, j \in DOMAIN run[n] :
                 i # j /\ run[n][i].kind # NormalKind /\ run[n][j].kind # NormalKind
                    => run[n][i].hash # run[n][j].hash
  <1>1. run \in Seq(Seq(Tx))
    BY ProcessingAssumption
  <1> QED  BY <1>1, ProcessingAssumption

(* A list of a ledger holds transactions of the batch, no hash twice.      *)
LEMMA ListFacts ==
    ASSUME run \in Runs, NEW n \in DOMAIN run, NEW l \in Ledgers, NEW kinds, NormalKind \notin kinds
    PROVE  LET s == Keep(run[n], PlacesOf(run[n], kinds, l)) IN
           /\ s \in Seq(Tx)
           /\ \A i \in DOMAIN s : s[i].kind \in kinds /\ LedgerOf(s[i]) = l
           /\ \A i, j \in DOMAIN s : i # j => s[i].hash # s[j].hash
  <1> DEFINE T == PlacesOf(run[n], kinds, l)
             s == Keep(run[n], T)
  <1>1. T \in SUBSET (DOMAIN run[n]) /\ \A k \in T : run[n][k].kind \in kinds /\ LedgerOf(run[n][k]) = l
    BY DEF PlacesOf
  <1> HIDE DEF T
  <1>2. s \in Seq(Tx) /\ \E p : Enumerates(p, s, run[n], T)
    BY <1>1, BatchFacts, KeepPlaces
  <1>3. PICK p : Enumerates(p, s, run[n], T)
    BY <1>2
  <1>4. ASSUME NEW i \in DOMAIN s, NEW j \in DOMAIN s, i # j PROVE s[i].hash # s[j].hash
    <2> HIDE DEF s
    <2>1. p[i] \in T /\ p[j] \in T /\ s[i] = run[n][p[i]] /\ s[j] = run[n][p[j]] /\ p[i] # p[j]
      <3>1. i \in Int /\ j \in Int
        BY <1>2
      <3>2. p[i] \in T /\ p[j] \in T /\ s[i] = run[n][p[i]] /\ s[j] = run[n][p[j]]
        BY <1>3 DEF Enumerates
      <3>3. p[i] \in Int /\ p[j] \in Int
        <4>1. DOMAIN run[n] \subseteq Int
          BY BatchFacts
        <4>2. T \subseteq Int
          BY <1>1, <4>1
        <4> QED  BY <3>2, <4>2
      <3> QED  BY <1>3, <1>4, <3>1, <3>2, <3>3 DEF Enumerates
    <2> QED  BY <1>1, <2>1, BatchFacts
  <1>5. \A i \in DOMAIN s : s[i].kind \in kinds /\ LedgerOf(s[i]) = l
    <2> HIDE DEF s
    <2> QED  BY <1>1, <1>3 DEF Enumerates
  <1> HIDE DEF s
  <1> QED  BY <1>2, <1>4, <1>5 DEF s, T

-----------------------------------------------------------------------------
(* The inductive invariant.                                                *)

(* The list that a ledger's sort is about to make: with the second store   *)
(* of a swap, if there is one to come, already done.                       *)
Intended(l) ==
    IF store[l] = NoStore THEN lists[l] ELSE [lists[l] EXCEPT ![store[l].at] = store[l].tx]
(* Where in it the element is that the sort is moving.                     *)
Cursor(l) == IF store[l] = NoStore THEN sorting[l].j ELSE sorting[l].j - 1

Stores == [at : Nat \ {0}, tx : Tx]
TypeOK ==
    /\ run \in Runs
    /\ blocks \in Seq(ToSet(blocks)) /\ Len(blocks) <= Len(run)
    /\ pc \in {"idle", "working"}
    /\ lists \in [Ledgers -> Seq(Tx)]
    /\ sorting \in [Ledgers -> [i : Nat, j : Nat]]
    /\ store \in [Ledgers -> Stores \cup {NoStore}]
    /\ hashing \in [Ledgers -> Nat] /\ sum \in [Ledgers -> SUBSET Nat]
    /\ over \subseteq {"sort", "hash", "core"} /\ done \subseteq Ledgers
    /\ wg \in Int

(* v is some order of the list L, in which the elements up to place i are  *)
(* in order if one leaves the one at place c out.                          *)
Distinct(v) == \A a, b \in DOMAIN v : a # b => v[a].hash # v[b].hash
Reordered(v, L) == Len(v) = Len(L) /\ ToSet(v) = ToSet(L) /\ Distinct(v)
InOrderBut(v, i, c) == \A a, b \in DOMAIN v : a < b /\ b <= i /\ b # c => v[a].hash > v[b].hash

SortOf(l) ==
    /\ Reordered(Intended(l), Listed(batch, l))
    /\ InOrderBut(Intended(l), sorting[l].i, Cursor(l))
    /\ 1 <= Cursor(l) /\ Cursor(l) <= sorting[l].i
    /\ sorting[l].i > Len(lists[l]) => Cursor(l) = sorting[l].i
    /\ store[l] # NoStore => /\ sorting[l].j <= sorting[l].i /\ sorting[l].i <= Len(lists[l])
                             /\ store[l].at \in {sorting[l].j, sorting[l].j - 1}
    /\ ToSet(lists[l]) \subseteq ToSet(Listed(batch, l))

(* What the hash goroutine has read are hashes of the list; all up to its  *)
(* place if the sort has nothing to do.                                    *)
HashesUpto(L, n) == {L[i].hash : i \in 1..n}
HashOf(l) ==
    LET L == Listed(batch, l) IN
    /\ hashing[l] <= Len(lists[l])
    /\ sum[l] \subseteq HashesUpto(L, Len(L))
    /\ InOrder(L) => /\ store[l] = NoStore /\ lists[l] = L
                     /\ sum[l] = HashesUpto(L, hashing[l])

(* The wait group counts the goroutines that have not called Done, and who *)
(* has called it left finished work behind.                                *)
WorkInv ==
    /\ pc = "idle" => \A l \in Ledgers : store[l] = NoStore
    /\ pc = "working" =>
          /\ Len(blocks) < Len(run)
          /\ wg + Cardinality(over) + Cardinality(done) = P + 3
          /\ \A l \in Ledgers : SortOf(l) /\ HashOf(l)
          /\ "sort" \in over => \A l \in Ledgers : Sorted(l)
          /\ "hash" \in over => /\ \A l \in Ledgers : Hashed(l)
                                /\ allHash = UNION {sum[l] : l \in Ledgers}

(* The sets of goroutines are finite.                                      *)
LEMMA Counting ==
    ASSUME TypeOK
    PROVE  /\ IsFiniteSet(Ledgers) /\ Cardinality(Ledgers) = P
           /\ IsFiniteSet(over) /\ Cardinality(over) \in Nat /\ Cardinality(over) <= 3
           /\ Cardinality(over) = 3 => over = {"sort", "hash", "core"}
           /\ IsFiniteSet(done) /\ Cardinality(done) \in Nat /\ Cardinality(done) <= P
           /\ Cardinality(done) = P => done = Ledgers
  <1>1. IsFiniteSet(Ledgers) /\ Cardinality(Ledgers) = P
    <2>1. P \in Int /\ P > 0
      BY ProcessingAssumption
    <2>2. 0 \in Int /\ P - 1 \in Int /\ ~(0 > P - 1) /\ (P - 1) - 0 + 1 = P
      BY <2>1
    <2>3. IsFiniteSet(0..P - 1) /\ Cardinality(0..P - 1) = (P - 1) - 0 + 1
      BY <2>2, FS_Interval
    <2> QED  BY <2>2, <2>3 DEF Ledgers
  <1>2. /\ IsFiniteSet({"sort", "hash", "core"})
        /\ Cardinality({"sort", "hash", "core"}) = 3
    <2>1. IsFiniteSet({"core"}) /\ Cardinality({"core"}) = 1
      BY FS_Singleton
    <2>2. IsFiniteSet({"core"} \cup {"hash"}) /\ Cardinality({"core"} \cup {"hash"}) = 2
      BY <2>1, FS_AddElement
    <2>3. /\ IsFiniteSet(({"core"} \cup {"hash"}) \cup {"sort"})
          /\ Cardinality(({"core"} \cup {"hash"}) \cup {"sort"}) = 3
      BY <2>2, FS_AddElement
    <2>4. {"sort", "hash", "core"} = ({"core"} \cup {"hash"}) \cup {"sort"}
      OBVIOUS
    <2> QED  BY <2>3, <2>4
  <1>3. over \subseteq {"sort", "hash", "core"} /\ done \subseteq Ledgers
    BY DEF TypeOK
  <1>4. /\ IsFiniteSet(over) /\ Cardinality(over) \in Nat /\ Cardinality(over) <= 3
        /\ Cardinality(over) = 3 => over = {"sort", "hash", "core"}
    <2> DEFINE S == {"sort", "hash", "core"}
    <2>1. IsFiniteSet(S) /\ Cardinality(S) = 3 /\ over \subseteq S
      BY <1>2, <1>3
    <2> HIDE DEF S
    <2>2. /\ IsFiniteSet(over) /\ Cardinality(over) \in Nat /\ Cardinality(over) <= 3
          /\ Cardinality(over) = 3 => over = S
      BY <2>1, FS_Subset, FS_CardinalityType
    <2> QED  BY <2>2 DEF S
  <1>5. /\ IsFiniteSet(done) /\ Cardinality(done) \in Nat /\ Cardinality(done) <= P
        /\ Cardinality(done) = P => done = Ledgers
    BY <1>1, <1>3, FS_Subset, FS_CardinalityType
  <1> QED  BY <1>1, <1>4, <1>5

(* A list of the classification is in some order of itself.                *)
LEMMA ListedFacts ==
    ASSUME TypeOK, WorkInv, pc = "working" \/ Len(blocks) < Len(run), NEW l \in Ledgers
    PROVE  /\ Listed(batch, l) \in Seq(Tx) /\ Distinct(Listed(batch, l))
           /\ Len(blocks) + 1 \in DOMAIN run
  <1>1. Len(blocks) < Len(run) /\ Len(blocks) \in Nat /\ run \in Runs /\ run \in Seq(Seq(Tx))
    BY ProcessingAssumption DEF TypeOK, WorkInv
  <1>2. Len(blocks) + 1 \in DOMAIN run
    BY <1>1
  <1>3. NormalKind \notin {"BG", "BS", "BT"}
    BY DEF NormalKind
  <1> QED  BY <1>1, <1>2, <1>3, ListFacts DEF Listed, batch, Distinct

-----------------------------------------------------------------------------
(* The sort.                                                               *)

(* Every list is a sequence of transactions with hashes.                   *)
LEMMA HashTypes ==
    ASSUME NEW v \in Seq(Tx)
    PROVE  /\ DOMAIN v = 1..Len(v) /\ Len(v) \in Nat /\ DOMAIN v \subseteq Nat
           /\ \A k \in DOMAIN v : v[k] \in Tx /\ v[k].hash \in Nat
  <1>1. \A t \in Tx : t.hash \in Nat
    BY DEF Tx
  <1>2. \A k \in DOMAIN v : v[k] \in Tx
    OBVIOUS
  <1>3. DOMAIN v = 1..Len(v) /\ Len(v) \in Nat
    OBVIOUS
  <1>4. DOMAIN v \subseteq Nat
    BY <1>3
  <1> QED  BY <1>1, <1>2, <1>3, <1>4

(* A swap of neighbours in the wrong order moves the element on.           *)
LEMMA SwapMovesOn ==
    ASSUME NEW v \in Seq(Tx), NEW w \in Seq(Tx), NEW L, Reordered(v, L), NEW i \in Nat, NEW j \in Nat,
           j - 1 \in DOMAIN v, j \in DOMAIN v, j <= i, InOrderBut(v, i, j), v[j].hash > v[j - 1].hash,
           Len(w) = Len(v), w[j] = v[j - 1], w[j - 1] = v[j],
           \A k \in DOMAIN v : k # j /\ k # j - 1 => w[k] = v[k]
    PROVE  Reordered(w, L) /\ InOrderBut(w, i, j - 1)
  <1> DEFINE from(k) == IF k = j THEN j - 1 ELSE IF k = j - 1 THEN j ELSE k
  <1>1. /\ DOMAIN w = DOMAIN v /\ DOMAIN v \subseteq Nat
        /\ \A k \in DOMAIN v : v[k].hash \in Nat
    BY HashTypes
  <1>2. \A k \in DOMAIN v : from(k) \in DOMAIN v /\ w[k] = v[from(k)] /\ from(from(k)) = k
    BY <1>1
  <1>3. ToSet(w) = ToSet(v)
    <2>1. \A x : x \in ToSet(w) <=> \E k \in DOMAIN v : x = w[k]
      BY <1>1 DEF ToSet
    <2>2. \A x : x \in ToSet(v) <=> \E k \in DOMAIN v : x = v[k]
      BY <1>1 DEF ToSet
    <2> HIDE DEF from
    <2>3. \A x : x \in ToSet(w) => x \in ToSet(v)
      BY <1>2, <2>1, <2>2
    <2>4. \A x : x \in ToSet(v) => x \in ToSet(w)
      <3>1. \A k \in DOMAIN v : v[k] = w[from(k)]
        BY <1>2
      <3> QED  BY <1>2, <2>1, <2>2, <3>1
    <2> QED  BY <2>3, <2>4
  <1>4. Distinct(w)
    <2> HIDE DEF from
    <2> QED  BY <1>1, <1>2 DEF Distinct, Reordered
  <1>5. ASSUME NEW a \in DOMAIN v, NEW b \in DOMAIN v, a < b, b <= i, b # j - 1
        PROVE  w[a].hash > w[b].hash
    <2>1. \A c, d \in DOMAIN v : c < d /\ d <= i /\ d # j => v[c].hash > v[d].hash
      BY DEF InOrderBut
    <2>2. CASE b = j
      <3>1. w[b] = v[j - 1] /\ b \in Nat /\ a \in Nat /\ j - 1 <= i
        BY <1>1, <2>2
      <3>2. CASE a = j - 1
        BY <3>1, <3>2
      <3>3. CASE a # j - 1
        <4>1. a < j - 1 /\ w[a] = v[a]
          BY <1>1, <1>5, <2>2, <3>1, <3>3
        <4> QED  BY <2>1, <3>1, <4>1
      <3> QED  BY <3>2, <3>3
    <2>3. CASE b # j
      <3>1. w[b] = v[b] /\ b \in Nat /\ a \in Nat
        BY <1>1, <1>5, <2>3
      <3>2. from(a) < b /\ from(a) \in DOMAIN v
        BY <1>1, <1>2, <1>5, <2>3, <3>1
      <3> QED  BY <1>2, <1>5, <2>1, <2>3, <3>1, <3>2
    <2> QED  BY <2>2, <2>3
  <1>6. InOrderBut(w, i, j - 1)
    BY <1>1, <1>5 DEF InOrderBut
  <1> QED  BY <1>3, <1>4, <1>6 DEF Reordered

(* An element that is in its place ends a round.                           *)
LEMMA InPlaceEndsRound ==
    ASSUME NEW v \in Seq(Tx), Distinct(v), NEW i \in Nat, i \in DOMAIN v, NEW c \in 1..i,
           InOrderBut(v, i, c), ~(c > 1 /\ v[c].hash > v[c - 1].hash)
    PROVE  InOrderBut(v, i + 1, i + 1)
  <1>1. DOMAIN v \subseteq Nat /\ (\A k \in DOMAIN v : v[k].hash \in Nat) /\ DOMAIN v = 1..Len(v)
    BY HashTypes
  <1>2. ASSUME NEW a \in DOMAIN v, NEW b \in DOMAIN v, a < b, b <= i
        PROVE  v[a].hash > v[b].hash
    <2>1. CASE b # c
      BY <1>2, <2>1 DEF InOrderBut
    <2>2. CASE b = c
      <3>1. c > 1 /\ c - 1 \in DOMAIN v /\ c - 1 # c /\ c - 1 <= i /\ a \in Nat /\ c \in Nat
        BY <1>1, <1>2, <2>2
      <3>2. v[c - 1].hash > v[c].hash
        <4>1. v[c - 1].hash # v[c].hash
          BY <2>2, <3>1 DEF Distinct
        <4>2. v[c - 1].hash \in Nat /\ v[c].hash \in Nat
          BY <1>1, <2>2, <3>1
        <4> QED  BY <3>1, <4>1, <4>2
      <3>3. CASE a = c - 1
        BY <2>2, <3>2, <3>3
      <3>4. CASE a # c - 1
        <4>1. a < c - 1
          BY <1>2, <2>2, <3>1, <3>4
        <4>2. v[a].hash > v[c - 1].hash
          BY <3>1, <4>1 DEF InOrderBut
        <4>3. v[a].hash \in Nat /\ v[c - 1].hash \in Nat /\ v[b].hash \in Nat
          BY <1>1, <3>1
        <4> QED  BY <2>2, <3>2, <4>2, <4>3
      <3> QED  BY <3>3, <3>4
    <2> QED  BY <2>1, <2>2
  <1>3. ASSUME NEW a \in DOMAIN v, NEW b \in DOMAIN v, a < b, b <= i + 1, b # i + 1
        PROVE  b <= i
    BY <1>1, <1>3
  <1> QED  BY <1>2, <1>3 DEF InOrderBut

(* What a ledger's sort and hash depend on.                                *)
LEMMA ListFrame ==
    ASSUME NEW l \in Ledgers, run' = run, blocks' = blocks,
           lists'[l] = lists[l], store'[l] = store[l], sorting'[l] = sorting[l]
    PROVE  /\ Listed(batch, l)' = Listed(batch, l)
           /\ SortOf(l) => SortOf(l)'
           /\ hashing'[l] = hashing[l] /\ sum'[l] = sum[l] /\ HashOf(l) => HashOf(l)'
           /\ Sorted(l) => Sorted(l)'
           /\ hashing'[l] = hashing[l] /\ Hashed(l) => Hashed(l)'
  <1>1. Listed(batch, l)' = Listed(batch, l)
    BY DEF batch
  <1>2. Intended(l)' = Intended(l) /\ Cursor(l)' = Cursor(l)
    BY DEF Intended, Cursor
  <1> QED  BY <1>1, <1>2 DEF SortOf, HashOf, Sorted, Hashed

(* One ledger's sort takes a step.                                         *)
SortStep(l) == NextElement(l) \/ FirstStore(l) \/ SecondStore(l)
SortTypes(l) ==
    /\ lists' \in [Ledgers -> Seq(Tx)]
    /\ sorting' \in [Ledgers -> [i : Nat, j : Nat]]
    /\ store' \in [Ledgers -> Stores \cup {NoStore}]

(* The facts about a list that the three kinds of steps share.             *)
LEMMA SortFacts ==
    ASSUME TypeOK, NEW l \in Ledgers, SortOf(l)
    PROVE  /\ lists[l] \in Seq(Tx) /\ Intended(l) \in Seq(Tx) /\ Len(Intended(l)) = Len(lists[l])
           /\ sorting[l].i \in Nat /\ sorting[l].j \in Nat
           /\ store[l] # NoStore => store[l].at \in DOMAIN lists[l] /\ store[l].tx \in Tx
  <1>1. /\ lists[l] \in Seq(Tx) /\ store[l] \in Stores \cup {NoStore}
        /\ sorting[l] \in [i : Nat, j : Nat]
    BY DEF TypeOK
  <1>2. DOMAIN lists[l] = 1..Len(lists[l]) /\ Len(lists[l]) \in Nat
    BY <1>1
  <1>3. sorting[l].i \in Nat /\ sorting[l].j \in Nat
    BY <1>1
  <1>4. ASSUME store[l] # NoStore PROVE store[l].at \in DOMAIN lists[l] /\ store[l].tx \in Tx
    <2>1. store[l] \in Stores
      BY <1>1, <1>4
    <2>2. store[l].tx \in Tx
      BY <2>1 DEF Stores
    <2>3. 1 <= sorting[l].j - 1 /\ sorting[l].j - 1 <= sorting[l].i
      BY <1>4 DEF SortOf, Cursor
    <2>4. sorting[l].i <= Len(lists[l]) /\ store[l].at \in {sorting[l].j, sorting[l].j - 1}
          /\ store[l].at \in Nat
      BY <1>4, <2>1 DEF SortOf, Stores
    <2>5. sorting[l].j <= sorting[l].i
      BY <1>4 DEF SortOf
    <2> QED  BY <1>2, <1>3, <2>2, <2>3, <2>4, <2>5
  <1>5. Intended(l) \in Seq(Tx) /\ Len(Intended(l)) = Len(lists[l])
    <2>1. CASE store[l] = NoStore
      BY <1>1, <2>1 DEF Intended
    <2>2. CASE store[l] # NoStore
      BY <1>1, <1>4, <2>2, ExceptSeq DEF Intended
    <2> QED  BY <2>1, <2>2
  <1> QED  BY <1>1, <1>3, <1>4, <1>5

(* The insertion sort goes on to the next element: the list up to the      *)
(* cursor is in order.                                                     *)
LEMMA SortNext ==
    ASSUME TypeOK, WorkInv, NEW l \in Ledgers, NextElement(l)
    PROVE  SortTypes(l) /\ SortOf(l)' /\ HashOf(l)' /\ Len(lists'[l]) = Len(lists[l])
  <1>1. /\ SortOf(l) /\ HashOf(l) /\ store[l] = NoStore /\ store' = store /\ lists' = lists
        /\ sorting[l].i <= Len(lists[l]) /\ ~Misplaced(l)
        /\ run' = run /\ blocks' = blocks /\ hashing' = hashing /\ sum' = sum
    BY DEF NextElement, WorkInv, hashVars
  <1>2. /\ sorting'[l] = [i |-> sorting[l].i + 1, j |-> sorting[l].i + 1]
        /\ sorting' \in [Ledgers -> [i : Nat, j : Nat]]
    <2>1. sorting \in [Ledgers -> [i : Nat, j : Nat]]
      BY DEF TypeOK
    <2>2. sorting[l].i + 1 \in Nat
      BY <1>1, SortFacts
    <2> QED  BY <2>1, <2>2 DEF NextElement
  <1>3. /\ Listed(batch, l)' = Listed(batch, l) /\ Intended(l)' = Intended(l) /\ Intended(l) = lists[l]
        /\ Cursor(l)' = sorting[l].i + 1 /\ Cursor(l) = sorting[l].j
        /\ sorting'[l].i = sorting[l].i + 1
    BY <1>1, <1>2 DEF batch, Intended, Cursor
  <1>4. InOrderBut(Intended(l), sorting[l].i + 1, sorting[l].i + 1)
    <2> DEFINE v == Intended(l)
               i == sorting[l].i
               c == sorting[l].j
    <2>1. /\ v \in Seq(Tx) /\ Distinct(v) /\ i \in Nat /\ c \in Nat /\ InOrderBut(v, i, c)
          /\ Len(v) \in Nat /\ i <= Len(v) /\ DOMAIN v = 1..Len(v)
      BY <1>1, <1>3, SortFacts DEF SortOf, Reordered
    <2>2. i \in DOMAIN v /\ c \in 1..i /\ 1 <= c
      BY <1>1, <1>3, <2>1 DEF SortOf
    <2>3. ~(c > 1 /\ v[c].hash > v[c - 1].hash)
      BY <1>1, <1>3 DEF Misplaced, Less
    <2> HIDE DEF v, i, c
    <2> QED  BY <2>1, <2>2, <2>3, InPlaceEndsRound DEF v, i
  <1>5. sorting[l].i + 1 \in Nat /\ 1 <= sorting[l].i + 1
    BY <1>1, SortFacts
  <1>6. SortOf(l)'
    <2>1. Reordered(Intended(l), Listed(batch, l))'
      BY <1>1, <1>3 DEF SortOf
    <2>2. InOrderBut(Intended(l), sorting[l].i, Cursor(l))'
      BY <1>3, <1>4
    <2>3. store'[l] = NoStore /\ ToSet(lists[l])' \subseteq ToSet(Listed(batch, l))'
      BY <1>1, <1>3 DEF SortOf
    <2> QED  BY <1>3, <1>5, <2>1, <2>2, <2>3 DEF SortOf
  <1>7. HashOf(l)'
    BY <1>1, <1>3 DEF HashOf
  <1> QED  BY <1>1, <1>2, <1>6, <1>7 DEF SortTypes, TypeOK

(* The first store of a swap: the list holds one transaction twice.        *)
LEMMA SortSwap ==
    ASSUME TypeOK, WorkInv, NEW l \in Ledgers, FirstStore(l)
    PROVE  SortTypes(l) /\ SortOf(l)' /\ HashOf(l)' /\ Len(lists'[l]) = Len(lists[l])
  <1> DEFINE v == lists[l]
             j == sorting[l].j
             i == sorting[l].i
             L == Listed(batch, l)
  <1>1. PICK a \in {j, j - 1}, b \in {j, j - 1} :
           /\ a # b
           /\ lists' = [lists EXCEPT ![l][a] = lists[l][b]]
           /\ store' = [store EXCEPT ![l] = [at |-> b, tx |-> lists[l][a]]]
    BY DEF FirstStore
  <1>2. /\ SortOf(l) /\ HashOf(l) /\ store[l] = NoStore /\ Intended(l) = v /\ Cursor(l) = j
        /\ i <= Len(v) /\ Misplaced(l) /\ sorting' = sorting
        /\ run' = run /\ blocks' = blocks /\ hashing' = hashing /\ sum' = sum
    BY DEF FirstStore, WorkInv, hashVars, Intended, Cursor
  <1>3. /\ v \in Seq(Tx) /\ i \in Nat /\ j \in Nat /\ Len(v) \in Nat /\ DOMAIN v = 1..Len(v)
        /\ j > 1 /\ j <= i /\ v[j].hash > v[j - 1].hash
    BY <1>2, SortFacts DEF SortOf, Misplaced, Less
  <1>4. /\ j \in DOMAIN v /\ j - 1 \in DOMAIN v /\ j - 1 # j /\ a \in DOMAIN v /\ b \in DOMAIN v
        /\ b \in Nat \ {0} /\ v[a] \in Tx /\ v[b] \in Tx
    <2>1. j \in DOMAIN v /\ j - 1 \in DOMAIN v /\ j - 1 # j
      BY <1>2, <1>3
    <2>2. a \in DOMAIN v /\ b \in DOMAIN v
      BY <2>1
    <2> HIDE DEF v
    <2> QED  BY <1>3, <2>1, <2>2, HashTypes
  <1>5. /\ lists'[l] = [v EXCEPT ![a] = v[b]] /\ store'[l] = [at |-> b, tx |-> v[a]]
        /\ store'[l] \in Stores /\ store'[l] # NoStore
        /\ lists'[l] \in Seq(Tx) /\ Len(lists'[l]) = Len(v)
    <2>1. lists'[l] = [v EXCEPT ![a] = v[b]] /\ store'[l] = [at |-> b, tx |-> v[a]]
      BY <1>1 DEF TypeOK
    <2>2. store'[l] \in Stores
      BY <1>4, <2>1 DEF Stores
    <2>3. store'[l] # NoStore
      <3>1. store'[l].at # NoStore.at
        BY <1>4, <2>1 DEF NoStore
      <3> QED  BY <3>1
    <2> HIDE DEF v
    <2> QED  BY <1>3, <1>4, <2>1, <2>2, <2>3, ExceptSeq
  <1>6. SortTypes(l)
    <2>1. lists' = [lists EXCEPT ![l] = [lists[l] EXCEPT ![a] = lists[l][b]]]
      BY <1>1
    <2> QED  BY <1>1, <1>2, <1>5, <2>1 DEF SortTypes, TypeOK
  <1> DEFINE w == [lists'[l] EXCEPT ![b] = v[a]]
  <1>7. /\ L' = L /\ Intended(l)' = w /\ Cursor(l)' = j - 1
    <2>1. L' = L
      BY <1>2 DEF batch
    <2> HIDE DEF L
    <2>2. store'[l].at = b /\ store'[l].tx = v[a]
      BY <1>5
    <2> QED  BY <1>2, <1>5, <2>1, <2>2 DEF Intended, Cursor
  <1>8. /\ w \in Seq(Tx) /\ Len(w) = Len(v) /\ w[j] = v[j - 1] /\ w[j - 1] = v[j]
        /\ \A k \in DOMAIN v : k # j /\ k # j - 1 => w[k] = v[k]
        /\ \A k \in DOMAIN v : lists'[l][k] = v[k] \/ lists'[l][k] = v[b]
    <2> DEFINE u == lists'[l]
    <2>1. /\ u \in Seq(Tx) /\ Len(u) = Len(v)
          /\ \A k \in 1..Len(v) : u[k] = IF k = a THEN v[b] ELSE v[k]
      <3> HIDE DEF v
      <3> QED  BY <1>3, <1>4, <1>5, ExceptSeq
    <2>2. /\ w \in Seq(Tx) /\ Len(w) = Len(u)
          /\ \A k \in 1..Len(v) : w[k] = IF k = b THEN v[a] ELSE u[k]
      <3> HIDE DEF u
      <3>1. b \in 1..Len(u) /\ u \in Seq(Tx) /\ v[a] \in Tx /\ 1..Len(u) = 1..Len(v)
        BY <1>3, <1>4, <2>1
      <3> HIDE DEF v
      <3>2. [u EXCEPT ![b] = v[a]] \in Seq(Tx) /\ Len([u EXCEPT ![b] = v[a]]) = Len(u)
            /\ \A k \in 1..Len(u) : [u EXCEPT ![b] = v[a]][k] = IF k = b THEN v[a] ELSE u[k]
        BY <3>1, ExceptSeq
      <3> QED  BY <3>1, <3>2 DEF u
    <2> HIDE DEF u, w
    <2>3. \A k \in 1..Len(v) : w[k] = IF k = b THEN v[a] ELSE IF k = a THEN v[b] ELSE v[k]
      BY <2>1, <2>2
    <2>4. w[j] = v[j - 1] /\ w[j - 1] = v[j]
      BY <1>1, <1>3, <1>4, <2>3
    <2>5. \A k \in DOMAIN v : k # j /\ k # j - 1 => w[k] = v[k]
      BY <1>1, <1>3, <2>3
    <2>6. \A k \in DOMAIN v : lists'[l][k] = v[k] \/ lists'[l][k] = v[b]
      BY <1>3, <2>1 DEF u
    <2> QED  BY <2>1, <2>2, <2>4, <2>5, <2>6
  <1>9. Reordered(w, L) /\ InOrderBut(w, i, j - 1)
    <2>1. Reordered(v, L) /\ InOrderBut(v, i, j)
      BY <1>2 DEF SortOf
    <2> HIDE DEF w, v, L, i, j
    <2> QED  BY <1>3, <1>4, <1>8, <2>1, SwapMovesOn
  <1>10. ToSet(lists'[l]) \subseteq ToSet(L)
    <2>1. ToSet(v) \subseteq ToSet(L)
      BY <1>2 DEF SortOf
    <2>2. DOMAIN lists'[l] = DOMAIN v
      BY <1>3, <1>5
    <2> HIDE DEF v, L
    <2>3. \A k \in DOMAIN v : v[k] \in ToSet(v)
      BY DEF ToSet
    <2>4. \A k \in DOMAIN v : lists'[l][k] \in ToSet(v)
      BY <1>4, <1>8, <2>3
    <2>5. \A x \in ToSet(lists'[l]) : \E k \in DOMAIN v : x = lists'[l][k]
      BY <2>2 DEF ToSet
    <2> QED  BY <2>1, <2>4, <2>5
  <1>11. SortOf(l)'
    <2>1. /\ sorting'[l].i = i /\ sorting'[l].j = j /\ Len(lists'[l]) = Len(v)
          /\ store'[l].at \in {j, j - 1}
      BY <1>1, <1>2, <1>5
    <2>2. 1 <= j - 1 /\ j - 1 <= i /\ ~(i > Len(v))
      BY <1>2, <1>3
    <2> HIDE DEF v, w, i, j, L
    <2>3. Reordered(Intended(l), L)' /\ InOrderBut(Intended(l), sorting[l].i, Cursor(l))'
      BY <1>7, <1>9, <2>1
    <2> QED  BY <1>2, <1>3, <1>5, <1>7, <1>10, <2>1, <2>2, <2>3 DEF SortOf, L
  <1>12. ~InOrder(L)
    <2>1. SUFFICES ASSUME InOrder(L) PROVE FALSE
      OBVIOUS
    <2>2. v = L
      BY <1>2, <2>1 DEF HashOf
    <2>3. v[j - 1].hash > v[j].hash
      <3>1. j - 1 < j
        BY <1>3
      <3> HIDE DEF v, j, L
      <3> QED  BY <1>4, <2>1, <2>2, <3>1 DEF InOrder
    <2>4. v[j - 1].hash \in Nat /\ v[j].hash \in Nat
      <3> HIDE DEF v, j
      <3> QED  BY <1>3, <1>4, HashTypes
    <2> QED  BY <1>3, <2>3, <2>4
  <1>13. HashOf(l)'
    <2> HIDE DEF v
    <2>1. Len(lists'[l]) = Len(lists[l])
      BY <1>5 DEF v
    <2> QED  BY <1>2, <1>7, <1>12, <2>1 DEF HashOf
  <1> QED  BY <1>5, <1>6, <1>11, <1>13

(* The second store of a swap makes the list what was intended.            *)
LEMMA SortSecond ==
    ASSUME TypeOK, WorkInv, NEW l \in Ledgers, SecondStore(l)
    PROVE  /\ SortTypes(l) /\ SortOf(l)' /\ HashOf(l)'
           /\ Len(lists'[l]) = Len(lists[l]) /\ pc = "working"
  <1>1. /\ store[l] # NoStore /\ run' = run /\ blocks' = blocks /\ hashing' = hashing /\ sum' = sum
        /\ lists' = [lists EXCEPT ![l] = [lists[l] EXCEPT ![store[l].at] = store[l].tx]]
        /\ store' = [store EXCEPT ![l] = NoStore]
        /\ sorting' = [sorting EXCEPT ![l] = [sorting[l] EXCEPT !.j = sorting[l].j - 1]]
    BY DEF SecondStore, hashVars
  <1>2. pc = "working" /\ SortOf(l) /\ HashOf(l)
    BY <1>1 DEF WorkInv, TypeOK
  <1>3. /\ Intended(l) = [lists[l] EXCEPT ![store[l].at] = store[l].tx]
        /\ Cursor(l) = sorting[l].j - 1 /\ 1 <= Cursor(l)
        /\ Intended(l) \in Seq(Tx) /\ Len(Intended(l)) = Len(lists[l])
        /\ sorting[l].i \in Nat /\ sorting[l].j \in Nat
    BY <1>1, <1>2, SortFacts DEF Intended, Cursor, SortOf
  <1>4. /\ lists'[l] = Intended(l) /\ store'[l] = NoStore
        /\ sorting'[l].i = sorting[l].i /\ sorting'[l].j = sorting[l].j - 1
    <2>1. sorting[l] \in [i : Nat, j : Nat]
      BY DEF TypeOK
    <2> QED  BY <1>1, <1>3, <2>1 DEF TypeOK
  <1>5. SortTypes(l)
    <2>1. sorting'[l] \in [i : Nat, j : Nat]
      <3>1. sorting[l].j - 1 \in Nat /\ sorting[l] \in [i : Nat, j : Nat]
        BY <1>3 DEF TypeOK
      <3>2. sorting'[l] = [sorting[l] EXCEPT !.j = sorting[l].j - 1]
        BY <1>1 DEF TypeOK
      <3> QED  BY <3>1, <3>2
    <2> QED  BY <1>1, <1>3, <1>4, <2>1 DEF SortTypes, TypeOK
  <1>6. /\ Listed(batch, l)' = Listed(batch, l) /\ Intended(l)' = Intended(l)
        /\ Cursor(l)' = Cursor(l)
    BY <1>1, <1>3, <1>4 DEF batch, Intended, Cursor
  <1>7. SortOf(l)'
    <2>1. /\ Reordered(Intended(l), Listed(batch, l))'
          /\ InOrderBut(Intended(l), sorting[l].i, Cursor(l))'
          /\ ToSet(lists'[l]) \subseteq ToSet(Listed(batch, l))'
          /\ (1 <= Cursor(l) /\ Cursor(l) <= sorting[l].i)'
      BY <1>2, <1>4, <1>6 DEF SortOf, Reordered
    <2>2. ~(sorting'[l].i > Len(lists'[l]))
      <3>1. sorting[l].i <= Len(lists[l]) /\ Len(lists[l]) \in Nat
        BY <1>1, <1>2, SortFacts DEF SortOf
      <3> QED  BY <1>3, <1>4, <3>1
    <2> QED  BY <1>4, <2>1, <2>2 DEF SortOf
  <1>8. ~InOrder(Listed(batch, l))
    BY <1>1, <1>2 DEF HashOf
  <1>9. HashOf(l)'
    BY <1>1, <1>2, <1>3, <1>4, <1>6, <1>8 DEF HashOf
  <1> QED  BY <1>2, <1>3, <1>4, <1>5, <1>7, <1>9

(* The three together, with what they leave alone.                         *)
LEMMA SortSteps ==
    ASSUME TypeOK, WorkInv, NEW l \in Ledgers, SortStep(l)
    PROVE  /\ SortTypes(l) /\ SortOf(l)' /\ HashOf(l)'
           /\ pc = "working" /\ ~Sorted(l) /\ Len(lists'[l]) = Len(lists[l])
           /\ UNCHANGED <<run, blocks, pc, wg, hashVars, coreVars, over, ledgerVars, peer>>
           /\ \A m \in Ledgers : m # l => /\ lists'[m] = lists[m] /\ store'[m] = store[m]
                                          /\ sorting'[m] = sorting[m]
  <1>1. /\ lists \in [Ledgers -> Seq(Tx)] /\ store \in [Ledgers -> Stores \cup {NoStore}]
        /\ sorting \in [Ledgers -> [i : Nat, j : Nat]]
    BY DEF TypeOK
  <1>2. /\ SortTypes(l) /\ SortOf(l)' /\ HashOf(l)' /\ pc = "working" /\ SortOf(l)
        /\ Len(lists'[l]) = Len(lists[l])
    <2>1. /\ SortTypes(l) /\ SortOf(l)' /\ HashOf(l)' /\ pc = "working"
          /\ Len(lists'[l]) = Len(lists[l])
      BY SortNext, SortSwap, SortSecond DEF SortStep, NextElement, FirstStore
    <2> QED  BY <2>1 DEF WorkInv
  <1>3. ~Sorted(l)
    <2>1. sorting[l].i \in Nat /\ Len(lists[l]) \in Nat
      BY <1>1, <1>2, SortFacts
    <2> QED  BY <2>1 DEF SortStep, NextElement, FirstStore, SecondStore, Sorted
  <1>4. /\ UNCHANGED <<run, blocks, pc, wg, hashVars, coreVars, over, ledgerVars, peer>>
        /\ \A m \in Ledgers : m # l => /\ lists'[m] = lists[m] /\ store'[m] = store[m]
                                       /\ sorting'[m] = sorting[m]
    BY <1>1 DEF SortStep, NextElement, FirstStore, SecondStore
  <1> QED  BY <1>2, <1>3, <1>4

-----------------------------------------------------------------------------
(* The hash goroutine reads one more place.                                *)
LEMMA HashStep ==
    ASSUME TypeOK, WorkInv, NEW l \in Ledgers, HashNext(l)
    PROVE  HashOf(l)' /\ hashing' \in [Ledgers -> Nat] /\ sum' \in [Ledgers -> SUBSET Nat]
  <1> DEFINE L == Listed(batch, l)
             n == hashing[l]
             h == lists[l][n + 1].hash
  <1>1. /\ SortOf(l) /\ HashOf(l) /\ n < Len(lists[l])
        /\ run' = run /\ blocks' = blocks /\ lists' = lists /\ store' = store
        /\ hashing' = [hashing EXCEPT ![l] = n + 1]
        /\ sum' = [sum EXCEPT ![l] = Xor(sum[l], h)]
    BY DEF HashNext, WorkInv, sortVars
  <1>2. /\ hashing \in [Ledgers -> Nat] /\ sum \in [Ledgers -> SUBSET Nat]
        /\ lists[l] \in Seq(Tx) /\ n \in Nat
    BY DEF TypeOK
  <1>3. L \in Seq(Tx) /\ Distinct(L) /\ L' = L
    <2>1. L \in Seq(Tx) /\ Distinct(L)
      BY ListedFacts DEF HashNext
    <2> QED  BY <1>1, <2>1 DEF batch
  <1>4. n + 1 \in DOMAIN lists[l] /\ n + 1 <= Len(lists[l]) /\ h \in Nat
    <2>1. n + 1 \in DOMAIN lists[l] /\ n + 1 <= Len(lists[l])
      BY <1>1, <1>2
    <2> QED  BY <1>2, <2>1, HashTypes
  <1> HIDE DEF h, L
  <1>5. h \in HashesUpto(L, Len(L))
    <2>1. lists[l][n + 1] \in ToSet(L)
      BY <1>1, <1>4 DEF SortOf, ToSet, L
    <2>2. PICK k \in DOMAIN L : lists[l][n + 1] = L[k]
      BY <2>1 DEF ToSet
    <2> QED  BY <1>3, <2>2, HashTypes DEF HashesUpto, h
  <1>6. hashing'[l] = n + 1 /\ sum'[l] = Xor(sum[l], h)
    BY <1>1, <1>2
  <1>7. Xor(sum[l], h) \subseteq HashesUpto(L, Len(L)) /\ Xor(sum[l], h) \subseteq Nat
    BY <1>1, <1>2, <1>4, <1>5 DEF Xor, HashOf, L
  <1>8. ASSUME InOrder(L)
        PROVE  store[l] = NoStore /\ lists[l] = L /\ Xor(sum[l], h) = HashesUpto(L, n + 1)
    <2>1. store[l] = NoStore /\ lists[l] = L /\ sum[l] = HashesUpto(L, n)
      BY <1>1, <1>8 DEF HashOf, L
    <2>2. h = L[n + 1].hash /\ n + 1 \in DOMAIN L
      BY <1>4, <2>1 DEF h
    <2>3. \A k \in 1..n : k \in DOMAIN L /\ k # n + 1
      BY <1>2, <1>3, <2>2, HashTypes
    <2>4. h \notin HashesUpto(L, n)
      BY <1>3, <2>2, <2>3 DEF Distinct, HashesUpto
    <2>5. 1..n + 1 = 1..n \cup {n + 1}
      BY <1>2
    <2>6. HashesUpto(L, n) \cup {h} = HashesUpto(L, n + 1)
      BY <2>2, <2>5 DEF HashesUpto
    <2> QED  BY <2>1, <2>4, <2>6 DEF Xor
  <1>9. HashOf(l)'
    BY <1>1, <1>3, <1>4, <1>6, <1>7, <1>8 DEF HashOf, L
  <1> QED  BY <1>1, <1>2, <1>7, <1>9

-----------------------------------------------------------------------------
(* A step that changes neither lists nor goroutines of the leader.         *)
listVars == <<run, blocks, pc, wg, sortVars, hashVars, over, done>>
LEMMA WorkFrame ==
    ASSUME TypeOK, WorkInv, UNCHANGED listVars
    PROVE  TypeOK' /\ WorkInv'
  <1>1. \A l \in Ledgers : /\ Listed(batch, l)' = Listed(batch, l)
                           /\ SortOf(l) => SortOf(l)'
                           /\ HashOf(l) => HashOf(l)'
                           /\ Sorted(l) => Sorted(l)'
                           /\ Hashed(l) => Hashed(l)'
    BY ListFrame DEF listVars, sortVars, hashVars
  <1>2. TypeOK'
    BY DEF TypeOK, listVars, sortVars, hashVars
  <1>3. WorkInv'
    BY <1>1 DEF WorkInv, listVars, sortVars, hashVars
  <1> QED  BY <1>2, <1>3

(* One of the other goroutines calls Done.                                 *)
LEMMA OverCounts ==
    ASSUME TypeOK, WorkInv, NEW g \in {"sort", "hash", "core"}, Over(g),
           UNCHANGED <<run, blocks, pc, sortVars, hashing, sum, done>>,
           g = "sort" => \A l \in Ledgers : Sorted(l),
           IF g = "hash" THEN (\A l \in Ledgers : Hashed(l)) /\ allHash' = UNION {sum[l] : l \in Ledgers}
           ELSE allHash' = allHash
    PROVE  TypeOK' /\ WorkInv'
  <1>1. \A l \in Ledgers : /\ SortOf(l) => SortOf(l)'
                           /\ HashOf(l) => HashOf(l)'
                           /\ Sorted(l) => Sorted(l)'
                           /\ Hashed(l) => Hashed(l)'
    BY ListFrame DEF sortVars
  <1>2. pc = "working" /\ g \notin over /\ over' = over \cup {g} /\ wg' = wg - 1
    BY DEF Over
  <1>3. TypeOK'
    BY <1>2 DEF TypeOK, sortVars
  <1>4. Cardinality(over') = Cardinality(over) + 1
    BY <1>2, Counting, FS_AddElement
  <1>5. wg' + Cardinality(over') + Cardinality(done') = P + 3
    <2>1. wg \in Int /\ Cardinality(over) \in Nat /\ Cardinality(done) \in Nat
      BY Counting DEF TypeOK
    <2>2. wg + Cardinality(over) + Cardinality(done) = P + 3
      BY <1>2 DEF WorkInv
    <2>3. Cardinality(done') = Cardinality(done)
      OBVIOUS
    <2> QED  BY <1>2, <1>4, <2>1, <2>2, <2>3
  <1>6. "sort" \in over' => \A l \in Ledgers : Sorted(l)'
    BY <1>1, <1>2 DEF WorkInv
  <1>7. "hash" \in over' => /\ \A l \in Ledgers : Hashed(l)'
                            /\ allHash' = UNION {sum'[l] : l \in Ledgers}
    <2>1. CASE g = "hash"
      BY <1>1, <2>1
    <2>2. CASE g # "hash"
      BY <1>1, <1>2, <2>2 DEF WorkInv
    <2> QED  BY <2>1, <2>2
  <1>8. (\A l \in Ledgers : SortOf(l)' /\ HashOf(l)') /\ Len(blocks') < Len(run') /\ pc' = "working"
    BY <1>1, <1>2 DEF WorkInv
  <1>9. WorkInv'
    BY <1>5, <1>6, <1>7, <1>8 DEF WorkInv
  <1> QED  BY <1>3, <1>9

(* A peripheral ledger is done.                                            *)
LEMMA LedgerCounts ==
    ASSUME TypeOK, WorkInv, NEW l \in Ledgers, LedgerNext(l)
    PROVE  TypeOK' /\ WorkInv'
  <1>1. /\ pc = "working" /\ l \notin done /\ done' = done \cup {l} /\ wg' = wg - 1
        /\ UNCHANGED <<run, blocks, pc, sortVars, hashVars, coreVars, over, peer>>
    BY DEF LedgerNext, Ledger!Process
  <1>2. \A m \in Ledgers : /\ SortOf(m) => SortOf(m)'
                           /\ HashOf(m) => HashOf(m)'
                           /\ Sorted(m) => Sorted(m)'
                           /\ Hashed(m) => Hashed(m)'
    BY <1>1, ListFrame DEF sortVars, hashVars
  <1>3. TypeOK'
    BY <1>1 DEF TypeOK, sortVars, hashVars
  <1>4. wg' + Cardinality(over') + Cardinality(done') = P + 3
    <2>1. Cardinality(done') = Cardinality(done) + 1
      BY <1>1, Counting, FS_AddElement
    <2>2. wg \in Int /\ Cardinality(over) \in Nat /\ Cardinality(done) \in Nat
      BY Counting DEF TypeOK
    <2>3. wg + Cardinality(over) + Cardinality(done) = P + 3 /\ over' = over
      BY <1>1 DEF WorkInv
    <2> QED  BY <1>1, <2>1, <2>2, <2>3
  <1>5. WorkInv'
    BY <1>1, <1>2, <1>4 DEF WorkInv, hashVars, sortVars
  <1> QED  BY <1>3, <1>5

(* The classification gives every goroutine a fresh start.                 *)
LEMMA BeginWork ==
    ASSUME TypeOK, WorkInv, Begin
    PROVE  TypeOK' /\ WorkInv'
  <1>1. /\ pc = "idle" /\ Len(blocks) < Len(run) /\ pc' = "working" /\ wg' = P + 3
        /\ lists' = [l \in Ledgers |-> Listed(batch, l)]
        /\ sorting' = [l \in Ledgers |-> [i |-> 2, j |-> 2]]
        /\ hashing' = [l \in Ledgers |-> 0]
        /\ sum' = [l \in Ledgers |-> {}]
        /\ over' = {} /\ done' = {} /\ run' = run /\ blocks' = blocks /\ store' = store
    BY DEF Begin, Goroutines
  <1>2. \A l \in Ledgers : /\ Listed(batch, l) \in Seq(Tx) /\ Distinct(Listed(batch, l))
                           /\ Listed(batch, l)' = Listed(batch, l)
    BY <1>1, ListedFacts DEF batch
  <1>3. TypeOK'
    BY <1>1, <1>2, ProcessingAssumption DEF TypeOK
  <1>4. ASSUME NEW l \in Ledgers PROVE SortOf(l)' /\ HashOf(l)'
    <2> DEFINE L == Listed(batch, l)
    <2>1. /\ store'[l] = NoStore /\ lists'[l] = L /\ Intended(l)' = L /\ Cursor(l)' = 2
          /\ sorting'[l].i = 2 /\ hashing'[l] = 0 /\ sum'[l] = {} /\ Len(L) \in Nat /\ L' = L
          /\ DOMAIN L = 1..Len(L)
      <3>1. store'[l] = NoStore /\ lists'[l] = L /\ sorting'[l] = [i |-> 2, j |-> 2]
        BY <1>1 DEF WorkInv
      <3>2. Len(L) \in Nat /\ DOMAIN L = 1..Len(L)
        BY <1>2
      <3> QED  BY <1>1, <1>2, <3>1, <3>2 DEF Intended, Cursor
    <2> HIDE DEF L
    <2>2. Reordered(L, L) /\ InOrderBut(L, 2, 2)
      <3>1. ASSUME NEW a \in DOMAIN L, NEW b \in DOMAIN L, a < b, b <= 2, b # 2 PROVE FALSE
        BY <2>1, <3>1
      <3> QED  BY <1>2, <3>1 DEF Reordered, InOrderBut, L
    <2>3. SortOf(l)'
      BY <2>1, <2>2 DEF SortOf, L
    <2>4. HashesUpto(L, 0) = {}
      BY DEF HashesUpto
    <2>5. HashOf(l)'
      BY <2>1, <2>4 DEF HashOf, L
    <2> QED  BY <2>3, <2>5
  <1>5. wg' + Cardinality(over') + Cardinality(done') = P + 3
    BY <1>1, FS_EmptySet, ProcessingAssumption
  <1>6. WorkInv'
    BY <1>1, <1>4, <1>5 DEF WorkInv
  <1> QED  BY <1>3, <1>6

(* When the wait group lets ProcessBanknoteTxs go on, all is done.         *)
LEMMA AllOver ==
    ASSUME TypeOK, WorkInv, Return
    PROVE  /\ over = {"sort", "hash", "core"} /\ done = Ledgers /\ pc = "working"
           /\ Len(blocks) < Len(run)
           /\ \A l \in Ledgers : Sorted(l) /\ Hashed(l) /\ SortOf(l) /\ HashOf(l)
           /\ allHash = UNION {sum[l] : l \in Ledgers}
  <1>1. pc = "working" /\ wg = 0
    BY DEF Return
  <1>2. 0 + Cardinality(over) + Cardinality(done) = P + 3
    BY <1>1 DEF WorkInv
  <1>3. over = {"sort", "hash", "core"} /\ done = Ledgers
    <2>1. P \in Nat
      BY ProcessingAssumption
    <2>2. Cardinality(over) = 3 /\ Cardinality(done) = P
      BY <1>2, <2>1, Counting
    <2> QED  BY <2>2, Counting
  <1> QED  BY <1>1, <1>3 DEF WorkInv

(* A sequence is one of its own elements.                                  *)
LEMMA OwnElements ==
    ASSUME NEW S, NEW s \in Seq(S)
    PROVE  s \in Seq(ToSet(s))
  <1>1. s \in [1..Len(s) -> S] /\ Len(s) \in Nat
    BY SeqDef
  <1>2. \A n \in 1..Len(s) : s[n] \in ToSet(s)
    BY <1>1 DEF ToSet
  <1>3. s \in [1..Len(s) -> ToSet(s)]
    BY <1>1, <1>2
  <1>4. s \in UNION {[1..n -> ToSet(s)] : n \in Nat}
    <2> DEFINE m == Len(s)
               E == ToSet(s)
    <2>1. m \in Nat /\ s \in [1..m -> E]
      BY <1>1, <1>3
    <2> HIDE DEF m, E
    <2>2. s \in UNION {[1..n -> E] : n \in Nat}
      BY ONLY <2>1
    <2> QED  BY <2>2 DEF E
  <1> QED  BY <1>4, SeqDef

(* The blocks so far, and one more.                                        *)
LEMMA BlocksGrow ==
    ASSUME TypeOK, NEW b, blocks' = Append(blocks, b)
    PROVE  /\ blocks' \in Seq(ToSet(blocks')) /\ Len(blocks') = Len(blocks) + 1
           /\ DOMAIN blocks' = 1..Len(blocks) + 1 /\ DOMAIN blocks = 1..Len(blocks)
           /\ \A n \in DOMAIN blocks : blocks'[n] = blocks[n]
           /\ blocks'[Len(blocks) + 1] = b /\ Len(blocks) \in Nat
  <1> DEFINE S == ToSet(blocks) \cup {b}
  <1>1. blocks \in Seq(S)
    <2>1. blocks \in Seq(ToSet(blocks))
      BY DEF TypeOK
    <2> QED  BY <2>1
  <1>2. b \in S
    OBVIOUS
  <1> HIDE DEF S
  <1>3. /\ blocks' \in Seq(S) /\ Len(blocks') = Len(blocks) + 1 /\ Len(blocks) \in Nat
        /\ \A n \in 1..Len(blocks) : blocks'[n] = blocks[n]
        /\ blocks'[Len(blocks) + 1] = b
    BY <1>1, <1>2, AppendProperties
  <1>4. blocks' \in Seq(ToSet(blocks'))
    BY <1>3, OwnElements
  <1>5. DOMAIN blocks = 1..Len(blocks) /\ DOMAIN blocks' = 1..Len(blocks')
    BY <1>1, <1>3
  <1> QED  BY <1>3, <1>4, <1>5

(* A block is made only when every list is sorted and hashed.              *)
LEMMA ReturnWork ==
    ASSUME TypeOK, WorkInv, Return
    PROVE  TypeOK' /\ WorkInv'
  <1>1. /\ Len(blocks') = Len(blocks) + 1 /\ blocks' \in Seq(ToSet(blocks')) /\ Len(blocks) \in Nat
        /\ pc' = "idle" /\ UNCHANGED <<run, wg, sortVars, hashVars, coreVars, over, ledgerVars, peer>>
    BY BlocksGrow DEF Return
  <1>2. \A l \in Ledgers : store'[l] = NoStore
    BY <1>1, AllOver DEF Sorted, sortVars
  <1>3. Len(blocks') <= Len(run')
    <2>1. Len(blocks) < Len(run) /\ Len(run) \in Nat /\ run' = run
      <3>1. run \in Seq(Seq(Tx))
        BY ProcessingAssumption DEF TypeOK
      <3> QED  BY <1>1, <3>1, AllOver
    <2> QED  BY <1>1, <2>1
  <1>4. TypeOK'
    BY <1>1, <1>3 DEF TypeOK, sortVars, hashVars, ledgerVars
  <1>5. WorkInv'
    BY <1>1, <1>2 DEF WorkInv
  <1> QED  BY <1>4, <1>5

(* The leader begins without work.                                         *)
LEMMA InitWork == Init => TypeOK /\ WorkInv
  <1> SUFFICES ASSUME Init PROVE TypeOK /\ WorkInv
    OBVIOUS
  <1>1. blocks = <<>> /\ run \in Seq(Seq(Tx)) /\ ToSet(<<>>) = {}
    BY ProcessingAssumption DEF Init, ToSet
  <1>2. blocks \in Seq(ToSet(blocks)) /\ Len(blocks) <= Len(run)
    BY <1>1
  <1>3. TypeOK
    BY <1>2 DEF Init, TypeOK
  <1> QED  BY <1>3 DEF Init, WorkInv

(* The invariant, one step for each kind of action.                        *)
LEMMA NextWork == TypeOK /\ WorkInv /\ [Next]_vars => TypeOK' /\ WorkInv'
  <1> SUFFICES ASSUME TypeOK, WorkInv, [Next]_vars PROVE TypeOK' /\ WorkInv'
    OBVIOUS
  <1>1. CASE Begin
    BY <1>1, BeginWork
  <1>2. CASE SortOver
    BY <1>2, OverCounts DEF SortOver, hashVars, ledgerVars
  <1>3. CASE HashOver
    BY <1>3, OverCounts DEF HashOver, ledgerVars
  <1>4. CASE CoreOver
    BY <1>4, OverCounts DEF CoreOver, hashVars, ledgerVars
  <1>5. CASE CoreNext \/ PeerAdds \/ UNCHANGED vars
    <2>1. UNCHANGED listVars
      BY <1>5 DEF CoreNext, PeerAdds, vars, listVars, ledgerVars
    <2> QED  BY <2>1, WorkFrame
  <1>6. ASSUME NEW l \in Ledgers, SortStep(l) PROVE TypeOK' /\ WorkInv'
    <2>1. /\ SortTypes(l) /\ SortOf(l)' /\ HashOf(l)' /\ pc = "working" /\ ~Sorted(l)
          /\ Len(lists'[l]) = Len(lists[l])
          /\ UNCHANGED <<run, blocks, pc, wg, hashVars, coreVars, over, ledgerVars, peer>>
          /\ \A m \in Ledgers : m # l => /\ lists'[m] = lists[m] /\ store'[m] = store[m]
                                         /\ sorting'[m] = sorting[m]
      BY <1>6, SortSteps
    <2>2. TypeOK'
      BY <2>1 DEF TypeOK, SortTypes, hashVars, ledgerVars
    <2>3. \A m \in Ledgers : SortOf(m)' /\ HashOf(m)'
      <3>1. ASSUME NEW m \in Ledgers, m # l PROVE SortOf(m)' /\ HashOf(m)'
        BY <2>1, <3>1, ListFrame DEF WorkInv, hashVars
      <3> QED  BY <2>1, <3>1
    <2>4. \A m \in Ledgers : Hashed(m) => Hashed(m)'
      BY <2>1 DEF Hashed, hashVars
    <2>5. "sort" \notin over'
      BY <2>1 DEF WorkInv
    <2> QED  BY <2>1, <2>2, <2>3, <2>4, <2>5 DEF WorkInv, hashVars, ledgerVars
  <1>7. ASSUME NEW l \in Ledgers, HashNext(l) PROVE TypeOK' /\ WorkInv'
    <2>1. /\ HashOf(l)' /\ hashing' \in [Ledgers -> Nat] /\ sum' \in [Ledgers -> SUBSET Nat]
          /\ pc = "working" /\ ~Hashed(l)
          /\ UNCHANGED <<run, blocks, pc, wg, sortVars, allHash, coreVars, over, ledgerVars, peer>>
          /\ \A m \in Ledgers : m # l => hashing'[m] = hashing[m] /\ sum'[m] = sum[m]
      <3>1. hashing \in [Ledgers -> Nat] /\ Len(lists[l]) \in Nat
        BY DEF TypeOK
      <3>2. /\ pc = "working" /\ ~Hashed(l)
            /\ UNCHANGED <<run, blocks, pc, wg, sortVars, allHash, coreVars, over, ledgerVars, peer>>
            /\ hashing' = [hashing EXCEPT ![l] = @ + 1]
            /\ sum' = [sum EXCEPT ![l] = Xor(@, lists[l][hashing[l] + 1].hash)]
        BY <1>7, <3>1 DEF HashNext, Hashed
      <3>3. \A m \in Ledgers : m # l => hashing'[m] = hashing[m] /\ sum'[m] = sum[m]
        BY <3>2 DEF TypeOK
      <3> QED  BY <1>7, <3>2, <3>3, HashStep
    <2>2. TypeOK'
      BY <2>1 DEF TypeOK, sortVars, ledgerVars
    <2>3. \A m \in Ledgers : SortOf(m)' /\ (Sorted(m) => Sorted(m)') /\ (m # l => HashOf(m)')
      BY <2>1, ListFrame DEF WorkInv, sortVars
    <2>4. \A m \in Ledgers : HashOf(m)'
      BY <2>1, <2>3
    <2>5. "hash" \notin over'
      BY <2>1 DEF WorkInv
    <2> QED  BY <2>1, <2>2, <2>3, <2>4, <2>5 DEF WorkInv, sortVars, ledgerVars
  <1>8. ASSUME NEW l \in Ledgers, LedgerNext(l) PROVE TypeOK' /\ WorkInv'
    BY <1>8, LedgerCounts
  <1>9. CASE Return
    BY <1>9, ReturnWork
  <1> QED  BY <1>1, <1>2, <1>3, <1>4, <1>5, <1>6, <1>7, <1>8, <1>9
           DEF Next, Working, Finished, SortStep

-----------------------------------------------------------------------------
(* The block.                                                              *)

(* Each list of the block that is made is the ledger's, biggest hash first.*)
LEMMA ReturnLists ==
    ASSUME TypeOK, WorkInv, Return, NEW l \in Ledgers
    PROVE  /\ ToSet(lists[l]) = ToSet(Listed(batch, l)) /\ Len(lists[l]) = Len(Listed(batch, l))
           /\ \A i, j \in DOMAIN lists[l] : i < j => lists[l][i].hash > lists[l][j].hash
  <1>1. Sorted(l) /\ SortOf(l) /\ Intended(l) = lists[l]
    BY AllOver DEF Sorted, Intended
  <1>2. \A i \in DOMAIN lists[l] : i < sorting[l].i
    <2>1. DOMAIN lists[l] = 1..Len(lists[l]) /\ Len(lists[l]) \in Nat /\ sorting[l].i \in Nat
      BY <1>1, SortFacts
    <2> QED  BY <1>1, <2>1 DEF Sorted
  <1>3. Cursor(l) = sorting[l].i
    BY <1>1 DEF SortOf, Sorted
  <1>4. ASSUME NEW i \in DOMAIN lists[l], NEW j \in DOMAIN lists[l], i < j
        PROVE  lists[l][i].hash > lists[l][j].hash
    <2>1. j < sorting[l].i /\ j \in Nat /\ sorting[l].i \in Nat
      BY <1>1, <1>2, SortFacts
    <2>2. j <= sorting[l].i /\ j # Cursor(l)
      BY <1>3, <2>1
    <2> QED  BY <1>1, <1>4, <2>2 DEF SortOf, InOrderBut
  <1> QED  BY <1>1, <1>4 DEF SortOf, Reordered

(* A block is made from finished work only: when the wait group is back    *)
(* at zero, each list is the ledger's own, complete and in order, and the  *)
(* tries are those after the batch, whatever the goroutines did meanwhile  *)
(* (waitGroupAllLedgers, lines 51 to 107).                                 *)
THEOREM FinishedWork == Spec => [](TypeOK /\ WorkInv /\ BlockComplete)
  <1>1. Init => BlockComplete
    BY DEF Init, BlockComplete
  <1>2. TypeOK /\ WorkInv /\ BlockComplete /\ [Next]_vars => BlockComplete'
    <2> SUFFICES ASSUME TypeOK, WorkInv, BlockComplete, [Next]_vars PROVE BlockComplete'
      OBVIOUS
    <2>1. CASE Return
      <3> DEFINE b == [c_ledger |-> Normal(batch), p_ledgers |-> lists,
                       hash |-> allHash, core |-> core, roots |-> trie]
      <3>1. blocks' = Append(blocks, b) /\ UNCHANGED <<run, core, done>>
        BY <2>1 DEF Return, coreVars, ledgerVars
      <3>2. /\ b.p_ledgers = lists /\ b.core = core
        OBVIOUS
      <3> HIDE DEF b
      <3>3. /\ Len(blocks') = Len(blocks) + 1 /\ Len(blocks) \in Nat
            /\ DOMAIN blocks' = 1..Len(blocks) + 1 /\ DOMAIN blocks = 1..Len(blocks)
            /\ \A n \in DOMAIN blocks : blocks'[n] = blocks[n]
            /\ blocks'[Len(blocks) + 1] = b
        BY <3>1, BlocksGrow
      <3>4. ASSUME NEW n \in DOMAIN blocks', NEW l \in Ledgers
            PROVE  LET s == blocks'[n].p_ledgers[l] IN
                   /\ ToSet(s) = ToSet(Listed(run[n], l)) /\ Len(s) = Len(Listed(run[n], l))
                   /\ \A i, j \in DOMAIN s : i < j => s[i].hash > s[j].hash
        <4>1. CASE n = Len(blocks) + 1
          <5>1. blocks'[n].p_ledgers[l] = lists[l] /\ run[n] = batch
            BY <3>2, <3>3, <4>1 DEF batch
          <5> QED  BY <2>1, <5>1, ReturnLists
        <4>2. CASE n # Len(blocks) + 1
          <5>1. n \in DOMAIN blocks /\ blocks'[n] = blocks[n]
            BY <3>3, <4>2
          <5> QED  BY <5>1 DEF BlockComplete
        <4> QED  BY <4>1, <4>2
      <3>5. blocks'[Len(blocks')].core = core' /\ done' = Ledgers
        BY <2>1, <3>1, <3>2, <3>3, AllOver
      <3> QED  BY <3>1, <3>4, <3>5 DEF BlockComplete
    <2>2. CASE ~Return
      <3>1. run' = run /\ blocks' = blocks
        BY <2>2 DEF Next, vars, Begin, Working, SortOver, HashOver, CoreNext, CoreOver, NextElement,
                    FirstStore, SecondStore, HashNext, LedgerNext, PeerAdds, Finished
      <3>2. pc' = "idle" => pc = "idle" /\ core' = core /\ done' = done
        <4>1. \A l \in Ledgers : SecondStore(l) => pc = "working"
          BY SortSecond
        <4> QED
          BY <2>2, <4>1 DEF Next, vars, Begin, Working, SortOver, HashOver, CoreNext, CoreOver, NextElement,
                    FirstStore, SecondStore, HashNext, LedgerNext, PeerAdds, Finished, Over,
                    coreVars, ledgerVars
      <3> QED  BY <3>1, <3>2 DEF BlockComplete
    <2> QED  BY <2>1, <2>2
  <1> QED  BY <1>1, <1>2, InitWork, NextWork, PTL DEF Spec

(* The set that HashOfBlock speaks of.                                     *)
LEMMA ListedHashesAre ==
    ASSUME NEW n \in DOMAIN run, NEW l \in Ledgers, Listed(run[n], l) \in Seq(Tx)
    PROVE  ListedHashes(run[n], l) = HashesUpto(Listed(run[n], l), Len(Listed(run[n], l)))
  <1> DEFINE L == Listed(run[n], l)
  <1>1. DOMAIN L = 1..Len(L)
    OBVIOUS
  <1> HIDE DEF L
  <1>2. ToSet(Hashes(L)) = {L[i].hash : i \in DOMAIN L}
    BY DEF ToSet, Hashes
  <1> QED  BY <1>1, <1>2 DEF ListedHashes, HashesUpto, L

(* The hash of a block covers nothing but its own listed transactions, and *)
(* all of them if the sort had nothing to do; otherwise what it covers is  *)
(* up to the schedule (the goroutines of lines 56 to 88 share one slice).  *)
THEOREM HashCovers == Spec => []HashOfBlock
  <1>1. Init => HashOfBlock
    BY DEF Init, HashOfBlock
  <1>2. TypeOK /\ WorkInv /\ HashOfBlock /\ [Next]_vars => HashOfBlock'
    <2> SUFFICES ASSUME TypeOK, WorkInv, HashOfBlock, [Next]_vars PROVE HashOfBlock'
      OBVIOUS
    <2>1. CASE Return
      <3> DEFINE b == [c_ledger |-> Normal(batch), p_ledgers |-> lists,
                       hash |-> allHash, core |-> core, roots |-> trie]
      <3>1. blocks' = Append(blocks, b) /\ run' = run /\ b.hash = allHash
        BY <2>1 DEF Return
      <3> HIDE DEF b
      <3>2. /\ Len(blocks) \in Nat
            /\ DOMAIN blocks' = 1..Len(blocks) + 1 /\ DOMAIN blocks = 1..Len(blocks)
            /\ \A n \in DOMAIN blocks : blocks'[n] = blocks[n]
            /\ blocks'[Len(blocks) + 1].hash = allHash
        BY <3>1, BlocksGrow
      <3>3. ASSUME NEW l \in Ledgers
            PROVE  /\ sum[l] \subseteq ListedHashes(batch, l)
                   /\ InOrder(Listed(batch, l)) => sum[l] = ListedHashes(batch, l)
        <4>1. /\ Listed(batch, l) \in Seq(Tx) /\ Len(blocks) + 1 \in DOMAIN run
              /\ HashOf(l) /\ Hashed(l)
          BY <2>1, AllOver, ListedFacts
        <4>2. ListedHashes(batch, l) = HashesUpto(Listed(batch, l), Len(Listed(batch, l)))
          BY <4>1, ListedHashesAre DEF batch
        <4> QED  BY <4>1, <4>2 DEF HashOf, Hashed
      <3>4. allHash = UNION {sum[l] : l \in Ledgers}
        BY <2>1, AllOver
      <3>5. ASSUME NEW n \in DOMAIN blocks'
            PROVE  LET all == UNION {ListedHashes(run[n], l) : l \in Ledgers} IN
                   /\ blocks'[n].hash \subseteq all
                   /\ (\A l \in Ledgers : InOrder(Listed(run[n], l))) => blocks'[n].hash = all
        <4>1. CASE n = Len(blocks) + 1
          <5>1. blocks'[n].hash = allHash /\ run[n] = batch
            BY <3>2, <4>1 DEF batch
          <5> QED  BY <3>3, <3>4, <5>1
        <4>2. CASE n # Len(blocks) + 1
          <5>1. n \in DOMAIN blocks /\ blocks'[n] = blocks[n]
            BY <3>2, <4>2
          <5> QED  BY <5>1 DEF HashOfBlock
        <4> QED  BY <4>1, <4>2
      <3> QED  BY <3>1, <3>5 DEF HashOfBlock
    <2>2. CASE ~Return
      <3>1. run' = run /\ blocks' = blocks
        BY <2>2 DEF Next, vars, Begin, Working, SortOver, HashOver, CoreNext, CoreOver, NextElement,
                    FirstStore, SecondStore, HashNext, LedgerNext, PeerAdds, Finished
      <3> QED  BY <3>1 DEF HashOfBlock
    <2> QED  BY <2>1, <2>2
  <1> QED  BY <1>1, <1>2, FinishedWork, PTL DEF Spec

-----------------------------------------------------------------------------
(* Folds over a sequence, as functions of how far they have come.          *)

(* The two folds of the model: what comes next is appended to the list, or *)
(* is a transaction to apply to the trie.                                  *)
FoldStep(concat, x, y) == IF concat THEN x \o y ELSE ApplyNormalTx(x, y)
IsFold(concat, base, q, g) ==
    g = [s \in SUBSET DOMAIN q |->
            IF s = {} THEN base ELSE FoldStep(concat, g[s \ {Max(s)}], q[Max(s)])]

(* A fold goes through a sequence of any length.                           *)
LEMMA FoldExists ==
    ASSUME NEW concat, NEW base, NEW q, Len(q) \in Nat, DOMAIN q = 1..Len(q)
    PROVE  \E g : IsFold(concat, base, q, g)
  <1> DEFINE St(g, s) == IF s = {} THEN base ELSE FoldStep(concat, g[s \ {Max(s)}], q[Max(s)])
             Upto(n, g) == \A s \in SUBSET (1..n) : g[s] = St(g, s)
             Good == {n \in Nat : \E g : Upto(n, g)}
  <1>0. ASSUME NEW n \in Nat, NEW s \in SUBSET (1..n + 1), s # {}
        PROVE  s \ {Max(s)} \in SUBSET (1..n)
    <2> DEFINE k == n + 1
    <2>1. k \in Nat /\ s \in SUBSET (1..k)
      BY <1>0
    <2>2. Max(s) \in s /\ \A m \in s : m <= Max(s)
      <3> HIDE DEF k
      <3> QED  BY <1>0, <2>1, MaxIn
    <2>3. \A m \in s : m \in 1..n + 1
      BY <1>0
    <2>4. ASSUME NEW m \in s, NEW x \in s, m # x, m <= x PROVE m \in 1..n
      <3>1. m \in 1..n + 1 /\ x \in 1..n + 1
        BY <2>3
      <3> QED  BY <2>4, <3>1
    <2> QED  BY <2>2, <2>4
  <1>1. 0 \in Good
    <2>1. Upto(0, [s \in SUBSET (1..0) |-> base])
      OBVIOUS
    <2> HIDE DEF Upto
    <2> QED  BY <2>1
  <1>2. ASSUME NEW n \in Good PROVE n + 1 \in Good
    <2>1. n \in Nat /\ \E g : Upto(n, g)
      OBVIOUS
    <2>2. PICK g : Upto(n, g)
      BY <2>1
    <2> DEFINE h == [s \in SUBSET (1..n + 1) |-> IF s \in SUBSET (1..n) THEN g[s] ELSE St(g, s)]
    <2>3. ASSUME NEW s \in SUBSET (1..n + 1) PROVE h[s] = St(h, s)
      <3>1. h[s] = St(g, s)
        BY <2>2
      <3>2. CASE s = {}
        BY <3>1, <3>2
      <3>3. CASE s # {}
        <4>1. s \ {Max(s)} \in SUBSET (1..n) /\ s \ {Max(s)} \in SUBSET (1..n + 1)
          BY <1>0, <2>1, <3>3
        <4>2. h[s \ {Max(s)}] = g[s \ {Max(s)}]
          BY <4>1
        <4> HIDE DEF h
        <4> QED  BY <3>1, <3>3, <4>2
      <3> QED  BY <3>2, <3>3
    <2>4. n + 1 \in Nat /\ Upto(n + 1, h)
      <3> HIDE DEF h, St
      <3> QED  BY <2>1, <2>3
    <2> HIDE DEF h, Upto
    <2> QED  BY <2>4
  <1>3. PICK g : Upto(Len(q), g)
    <2> HIDE DEF Upto
    <2>1. Good \in SUBSET Nat
      OBVIOUS
    <2>2. Good = Nat
      <3> HIDE DEF Good
      <3> QED  BY <1>1, <1>2, <2>1, Upwards
    <2> QED  BY <2>2
  <1> DEFINE h == [s \in SUBSET DOMAIN q |-> g[s]]
  <1>4. ASSUME NEW s \in SUBSET DOMAIN q PROVE h[s] = St(h, s)
    <2>1. g[s] = St(g, s)
      BY <1>3
    <2>2. s \ {Max(s)} \in SUBSET DOMAIN q
      OBVIOUS
    <2>3. h[s] = g[s] /\ h[s \ {Max(s)}] = g[s \ {Max(s)}]
      BY <2>2
    <2> HIDE DEF h
    <2> QED  BY <2>1, <2>3
  <1>5. h = [s \in SUBSET DOMAIN q |-> h[s]]
    OBVIOUS
  <1>6. IsFold(concat, base, q, h)
    <2> HIDE DEF h
    <2> QED  BY <1>4, <1>5 DEF IsFold
  <1> HIDE DEF h
  <1> QED  BY <1>6

(* The trie after n transactions, and the list after n sequences.          *)
IsCore(t, q, g) ==
    g = [s \in SUBSET DOMAIN q |-> IF s = {} THEN t ELSE ApplyNormalTx(g[s \ {Max(s)}], q[Max(s)])]
CoreAfter(t, q, n) == (CHOOSE g : IsCore(t, q, g))[1..n]
IsConcat(c, q, g) ==
    g = [s \in SUBSET DOMAIN q |-> IF s = {} THEN c ELSE g[s \ {Max(s)}] \o q[Max(s)]]
Concat(c, q, n) == (CHOOSE g : IsConcat(c, q, g))[1..n]

(* A trie after the transactions of a list, one after the other.           *)
Applied(t, q) == FoldLeft(ApplyNormalTx, t, q)
LEMMA CoreFolds ==
    ASSUME NEW t, NEW q, Len(q) \in Nat, DOMAIN q = 1..Len(q)
    PROVE  /\ Applied(t, q) = CoreAfter(t, q, Len(q))
           /\ CoreAfter(t, q, 0) = t
           /\ \A n \in 0..Len(q) - 1 :
                 CoreAfter(t, q, n + 1) = ApplyNormalTx(CoreAfter(t, q, n), q[n + 1])
  <1> DEFINE G == CHOOSE g : IsCore(t, q, g)
  <1>1. Applied(t, q) = G[DOMAIN q]
    BY DEF Applied, FoldLeft, MapThenFoldSet, IsCore
  <1>2. IsCore(t, q, G)
    <2>1. \A g : IsFold(FALSE, t, q, g) => IsCore(t, q, g)
      BY DEF IsFold, IsCore, FoldStep
    <2>2. \E g : IsCore(t, q, g)
      BY <2>1, FoldExists
    <2> QED  BY <2>2
  <1>3. \A n : CoreAfter(t, q, n) = G[1..n]
    BY DEF CoreAfter
  <1> HIDE DEF G
  <1>4. G[1..0] = t
    BY <1>2 DEF IsCore
  <1>5. ASSUME NEW n \in 0..Len(q) - 1 PROVE G[1..n + 1] = ApplyNormalTx(G[1..n], q[n + 1])
    <2>1. n \in Nat /\ 1..n + 1 \in SUBSET DOMAIN q
      OBVIOUS
    <2>2. Max(1..n + 1) = n + 1 /\ (1..n + 1) \ {n + 1} = 1..n /\ 1..n + 1 # {}
      BY <2>1, LastPlace
    <2>3. G[1..n + 1] = ApplyNormalTx(G[(1..n + 1) \ {Max(1..n + 1)}], q[Max(1..n + 1)])
      BY <1>2, <2>1, <2>2 DEF IsCore
    <2> QED  BY <2>2, <2>3
  <1> QED  BY <1>1, <1>3, <1>4, <1>5

(* The joined lists of a block, one list after the other.                  *)
Concatenates(c, q) ==
    /\ Concat(c, q, 0) = c
    /\ \A n \in 0..Len(q) - 1 : Concat(c, q, n + 1) = Concat(c, q, n) \o q[n + 1]
LEMMA ConcatFolds ==
    ASSUME NEW c, NEW q, Len(q) \in Nat, DOMAIN q = 1..Len(q)
    PROVE  Concatenates(c, q)
  <1> DEFINE G == CHOOSE g : IsConcat(c, q, g)
  <1>2. IsConcat(c, q, G)
    <2>1. \A g : IsFold(TRUE, c, q, g) => IsConcat(c, q, g)
      BY DEF IsFold, IsConcat, FoldStep
    <2>2. \E g : IsConcat(c, q, g)
      BY <2>1, FoldExists
    <2> QED  BY <2>2
  <1>3. \A n : Concat(c, q, n) = G[1..n]
    BY DEF Concat
  <1> HIDE DEF G
  <1>4. G[1..0] = c
    BY <1>2 DEF IsConcat
  <1>5. ASSUME NEW n \in 0..Len(q) - 1 PROVE G[1..n + 1] = G[1..n] \o q[n + 1]
    <2>1. n \in Nat /\ 1..n + 1 \in SUBSET DOMAIN q
      OBVIOUS
    <2>2. Max(1..n + 1) = n + 1 /\ (1..n + 1) \ {n + 1} = 1..n /\ 1..n + 1 # {}
      BY <2>1, LastPlace
    <2>3. G[1..n + 1] = G[(1..n + 1) \ {Max(1..n + 1)}] \o q[Max(1..n + 1)]
      BY <1>2, <2>1, <2>2 DEF IsConcat
    <2> QED  BY <2>2, <2>3
  <1> QED  BY <1>3, <1>4, <1>5 DEF Concatenates

-----------------------------------------------------------------------------
(* The money of the core ledger.                                           *)

(* The total is a sum over the accounts.                                   *)
Balances(t) == [a \in Accounts |-> [amount |-> t[a].balance]]
IsTotal(t, g) ==
    g = [s \in SUBSET Accounts |->
            IF s = {} THEN 0 ELSE t[FirstOf(s)].balance + g[s \ {FirstOf(s)}]]
LEMMA TotalIsSum ==
    ASSUME NEW t
    PROVE  Total(t) = Amounts(Balances(t), Accounts)
  <1> DEFINE G == CHOOSE g : IsTotal(t, g)
             H == CHOOSE g : IsSum(Balances(t), Accounts, g)
  <1>1. Total(t) = G[Accounts]
    BY DEF Total, FoldSet, MapThenFoldSet, IsTotal, FirstOf
  <1>2. Amounts(Balances(t), Accounts) = H[Accounts]
    BY FoldIsSum
  <1>3. \A s \in SUBSET Accounts : s # {} => Balances(t)[FirstOf(s)].amount = t[FirstOf(s)].balance
    BY FirstOfIn DEF Balances
  <1>4. \A g : IsSum(Balances(t), Accounts, g) <=> IsTotal(t, g)
    BY <1>3 DEF IsSum, SumStep, IsTotal
  <1>5. IsFiniteSet(Accounts) /\ \E g : IsSum(Balances(t), Accounts, g)
    BY ProcessingAssumption, SumExists
  <1>6. IsSum(Balances(t), Accounts, H)
    BY <1>5
  <1>7. IsSum(Balances(t), Accounts, G)
    <2>1. IsTotal(t, G)
      BY <1>4, <1>5
    <2> HIDE DEF G
    <2> QED  BY <1>4, <2>1
  <1> HIDE DEF G, H
  <1>8. G[Accounts] = H[Accounts]
    BY <1>5, <1>6, <1>7, SumUnique
  <1> QED  BY <1>1, <1>2, <1>8

(* A write to one account moves the total by what the balance moved.       *)
LEMMA TotalMoves ==
    ASSUME NEW t \in Tries, NEW u \in Tries, NEW a \in Accounts,
           \A b \in Accounts : b # a => u[b].balance = t[b].balance
    PROVE  /\ Total(t) \in Int /\ Total(u) \in Int
           /\ Total(u) = Total(t) + u[a].balance - t[a].balance
  <1> DEFINE Rest == Accounts \ {a}
  <1>1. IsFiniteSet(Accounts) /\ IsFiniteSet(Rest)
    BY ProcessingAssumption, FS_Subset
  <1>2. \A b \in Accounts : /\ Balances(t)[b].amount = t[b].balance /\ t[b].balance \in Int
                            /\ Balances(u)[b].amount = u[b].balance /\ u[b].balance \in Int
    <2>1. \A b \in Accounts : t[b] \in Account /\ u[b] \in Account
      BY DEF Tries
    <2>2. \A x \in Account : x.balance \in Int
      BY DEF Account
    <2> QED  BY <2>1, <2>2 DEF Balances
  <1>3. /\ Amounts(Balances(t), Accounts) = Balances(t)[a].amount + Amounts(Balances(t), Rest)
        /\ Amounts(Balances(u), Accounts) = Balances(u)[a].amount + Amounts(Balances(u), Rest)
    BY <1>1, <1>2, AmountsRemove
  <1>4. Amounts(Balances(t), Rest) \in Int
    <2>1. 0 \in Int /\ \A v, w \in Int : v + w \in Int
      OBVIOUS
    <2>2. \A b \in Rest : Balances(t)[b].amount \in Int
      BY <1>2
    <2> HIDE DEF Rest
    <2> QED  BY <1>1, <2>1, <2>2, AmountsIn
  <1>5. Amounts(Balances(u), Rest) = Amounts(Balances(t), Rest)
    <2> DEFINE p == [b \in Rest |-> b]
    <2>1. \A b \in Rest : Balances(t)[b].amount \in Int /\ Balances(u)[p[b]].amount = Balances(t)[b].amount
      BY <1>2
    <2>2. \A b, c \in Rest : p[b] = p[c] => b = c
      OBVIOUS
    <2>3. {p[b] : b \in Rest} = Rest
      OBVIOUS
    <2> HIDE DEF p, Rest
    <2> QED  BY <1>1, <2>1, <2>2, <2>3, AmountsMoved
  <1> QED  BY <1>2, <1>3, <1>4, <1>5, TotalIsSum

(* One NT transaction keeps the total, or adds the amount that the payer   *)
(* could not pay.                                                          *)
LEMMA NormalTxPays ==
    ASSUME NEW t \in Tries, NEW tx \in Tx, tx.from \in Accounts, tx.to \in Accounts
    PROVE  /\ ApplyNormalTx(t, tx) \in Tries
           /\ Total(t) \in Int
           /\ Total(ApplyNormalTx(t, tx))
                 = Total(t) + (IF Affords(t[tx.from], tx.amount) THEN 0 ELSE tx.amount)
  <1> DEFINE u == Debited(t, tx)
             v == ApplyNormalTx(t, tx)
             paid == IF Affords(t[tx.from], tx.amount) THEN tx.amount ELSE 0
  <1>1. tx.amount \in Nat
    BY DEF Tx
  <1>2. \A b \in Accounts : t[b] \in Account
    BY DEF Tries
  <1>3. ASSUME NEW x \in Account
        PROVE  /\ BumpNonce(Deduct(x, tx.amount)) \in Account
               /\ BumpNonce(Deduct(x, tx.amount)).balance
                     = x.balance - (IF Affords(x, tx.amount) THEN tx.amount ELSE 0)
               /\ BumpNonce(Deposit(x, tx.amount)) \in Account
               /\ BumpNonce(Deposit(x, tx.amount)).balance = x.balance + tx.amount
    <2>1. x.balance \in Nat /\ x.nonce \in Nat
      BY DEF Account
    <2> DEFINE y == IF Affords(x, tx.amount) THEN [x EXCEPT !.balance = @ - tx.amount] ELSE x
               z == [x EXCEPT !.balance = @ + tx.amount]
    <2>2. y \in Account /\ y.balance = x.balance - (IF Affords(x, tx.amount) THEN tx.amount ELSE 0)
      BY <1>1, <2>1 DEF Account, Affords
    <2>3. z \in Account /\ z.balance = x.balance + tx.amount
      BY <1>1, <2>1 DEF Account
    <2>4. y = Deduct(x, tx.amount) /\ z = Deposit(x, tx.amount)
      BY DEF Deduct, Deposit
    <2>5. \A w \in Account : BumpNonce(w) \in Account /\ BumpNonce(w).balance = w.balance
      BY DEF Account, BumpNonce
    <2> HIDE DEF y, z
    <2> QED  BY <2>2, <2>3, <2>4, <2>5
  <1>4. /\ u \in Tries /\ u[tx.from].balance = t[tx.from].balance - paid
        /\ \A b \in Accounts : b # tx.from => u[b].balance = t[b].balance
    BY <1>2, <1>3 DEF Debited, Tries
  <1>5. v = [u EXCEPT ![tx.to] = BumpNonce(Deposit(@, tx.amount))]
    BY DEF ApplyNormalTx
  <1> HIDE DEF u, v
  <1>6. /\ v \in Tries /\ v[tx.to].balance = u[tx.to].balance + tx.amount
        /\ \A b \in Accounts : b # tx.to => v[b].balance = u[b].balance
    BY <1>3, <1>4, <1>5 DEF Tries
  <1>7. Total(t) \in Int /\ Total(u) = Total(t) + u[tx.from].balance - t[tx.from].balance
    BY <1>4, TotalMoves
  <1>8. Total(u) \in Int /\ Total(v) = Total(u) + v[tx.to].balance - u[tx.to].balance
    BY <1>4, <1>6, TotalMoves
  <1>9. t[tx.from].balance \in Int /\ u[tx.to].balance \in Int /\ u[tx.from].balance \in Int
    BY <1>2, <1>4 DEF Account, Tries
  <1>10. Total(v) = Total(t) - paid + tx.amount
    BY <1>1, <1>4, <1>6, <1>7, <1>8, <1>9
  <1> QED  BY <1>1, <1>6, <1>7, <1>10 DEF v

(* The transactions of the core ledger have both their accounts.           *)
LEMMA NormalFacts ==
    ASSUME run \in Runs, NEW n \in DOMAIN run
    PROVE  /\ Normal(run[n]) \in Seq(Tx)
           /\ \A k \in DOMAIN Normal(run[n]) :
                 /\ Normal(run[n])[k].kind = NormalKind
                 /\ Normal(run[n])[k].from \in Accounts /\ Normal(run[n])[k].to \in Accounts
  <1> DEFINE T == {i \in DOMAIN run[n] : run[n][i].kind = NormalKind}
             s == Keep(run[n], T)
  <1>1. T \in SUBSET (DOMAIN run[n])
    OBVIOUS
  <1>2. \A i \in T : /\ run[n][i].kind = NormalKind
                     /\ run[n][i].from \in Accounts /\ run[n][i].to \in Accounts
    BY ProcessingAssumption
  <1> HIDE DEF T
  <1>3. s \in Seq(Tx) /\ \E p : Enumerates(p, s, run[n], T)
    BY <1>1, BatchFacts, KeepPlaces
  <1> HIDE DEF s
  <1>4. \A k \in DOMAIN s : \E i \in T : s[k] = run[n][i]
    BY <1>3 DEF Enumerates
  <1>5. \A k \in DOMAIN s : s[k].kind = NormalKind /\ s[k].from \in Accounts /\ s[k].to \in Accounts
    BY <1>2, <1>4
  <1> QED  BY <1>3, <1>5 DEF Normal, s, T

(* What the core ledger has is a trie.                                     *)
CoreTypes == core \in Tries /\ coreAt \in Nat
LEMMA CoreStep ==
    ASSUME TypeOK, WorkInv, CoreTypes, CoreNext
    PROVE  LET tx == Normal(batch)[coreAt'] IN
           /\ coreAt' = coreAt + 1 /\ coreAt < Len(Normal(batch))
           /\ core' = ApplyNormalTx(core, tx)
           /\ tx \in Tx /\ tx.from \in Accounts /\ tx.to \in Accounts
  <1>1. Len(blocks) + 1 \in DOMAIN run
    <2>1. Len(blocks) \in Nat /\ Len(run) \in Nat /\ DOMAIN run = 1..Len(run)
      BY ProcessingAssumption DEF TypeOK
    <2>2. Len(blocks) < Len(run)
      BY DEF CoreNext, WorkInv
    <2> QED  BY <2>1, <2>2
  <1>2. /\ Normal(batch) \in Seq(Tx)
        /\ \A k \in DOMAIN Normal(batch) : Normal(batch)[k].from \in Accounts /\ Normal(batch)[k].to \in Accounts
    BY <1>1, NormalFacts DEF TypeOK, batch
  <1>3. /\ coreAt' = coreAt + 1 /\ coreAt < Len(Normal(batch))
        /\ core' = ApplyNormalTx(core, Normal(batch)[coreAt + 1])
    BY DEF CoreNext
  <1>4. coreAt + 1 \in DOMAIN Normal(batch)
    <2>1. DOMAIN Normal(batch) = 1..Len(Normal(batch)) /\ Len(Normal(batch)) \in Nat /\ coreAt \in Nat
      BY <1>2 DEF CoreTypes
    <2> QED  BY <1>3, <2>1
  <1> QED  BY <1>2, <1>3, <1>4

(* Nothing else writes the core ledger's trie.                             *)
LEMMA CoreFrame ==
    ASSUME [Next]_vars, ~CoreNext
    PROVE  core' = core /\ coreAt' \in {coreAt, 0}
  BY DEF Next, vars, Begin, Working, SortOver, HashOver, CoreOver, NextElement, FirstStore, SecondStore,
         HashNext, LedgerNext, Return, PeerAdds, Finished, coreVars

(* Money moves in a CoreNext step only.                                    *)
Pays == /\ Total(core') >= Total(core)
        /\ Total(core') > Total(core) =>
              ~Affords(core[Normal(batch)[coreAt'].from], Normal(batch)[coreAt'].amount)
LEMMA CorePays ==
    ASSUME TypeOK, WorkInv, CoreTypes, [Next]_vars
    PROVE  CoreTypes' /\ [Pays]_core
  <1>1. CASE CoreNext
    <2> DEFINE tx == Normal(batch)[coreAt']
    <2>1. /\ coreAt' = coreAt + 1 /\ core' = ApplyNormalTx(core, tx)
          /\ tx \in Tx /\ tx.from \in Accounts /\ tx.to \in Accounts
      BY <1>1, CoreStep
    <2>2. tx.amount \in Nat
      BY <2>1 DEF Tx
    <2> HIDE DEF tx
    <2>3. /\ core' \in Tries /\ Total(core) \in Int
          /\ Total(core') = Total(core) + (IF Affords(core[tx.from], tx.amount) THEN 0 ELSE tx.amount)
      BY <2>1, NormalTxPays DEF CoreTypes
    <2>4. Total(core') >= Total(core) /\ (Total(core') > Total(core) => ~Affords(core[tx.from], tx.amount))
      BY <2>2, <2>3
    <2>5. Pays
      BY <2>4 DEF Pays, tx
    <2> QED  BY <2>1, <2>3, <2>5 DEF CoreTypes
  <1>2. CASE ~CoreNext
    BY <1>2, CoreFrame DEF CoreTypes
  <1> QED  BY <1>1, <1>2

(* The core ledger's trie is one at the start.                             *)
LEMMA InitCore == Init => CoreTypes
  BY AccountAssumption DEF Init, CoreTypes, EmptyTrie, FreshAccount, Tries, Account

(* The accounts of the core ledger never hold less together, and more only *)
(* by a payment that Deduct refused and the payee was credited with        *)
(* (banknote_processor.go drops Deduct's answer, line 147).                *)
THEOREM CoreOnlyEverGrows == Spec => CoreOnlyGrows
  <1>1. TypeOK /\ WorkInv /\ CoreTypes /\ [Next]_vars => CoreTypes' /\ [Pays]_core
    BY CorePays
  <1>2. Spec => [](TypeOK /\ WorkInv)
    BY FinishedWork, PTL
  <1> QED  BY <1>1, <1>2, InitCore, PTL DEF Spec, CoreOnlyGrows, Pays

-----------------------------------------------------------------------------
(* The lists a peer makes of a block are the block's own.                  *)

(* The transactions of a list that are in Q, in their order.               *)
Places(txs, Q) == {i \in DOMAIN txs : txs[i] \in Q}
Picked(txs, Q) == Keep(txs, Places(txs, Q))

(* The appending loop, step by step.                                       *)
LEMMA KeptSteps ==
    ASSUME NEW X, NEW txs \in Seq(X), NEW Q
    PROVE  LET f == KeptOf(txs, Places(txs, Q)) IN
           /\ Picked(txs, Q) = f[Len(txs)]
           /\ f[0] = <<>>
           /\ \A n \in 0..Len(txs) - 1 :
                 f[n + 1] = IF txs[n + 1] \in Q THEN Append(f[n], txs[n + 1]) ELSE f[n]
           /\ \A n \in 0..Len(txs) : f[n] \in Seq(X)
  <1> DEFINE f == KeptOf(txs, Places(txs, Q))
             Good == {n \in Nat : n <= Len(txs) => f[n] \in Seq(X)}
  <1>1. /\ Len(txs) \in Nat /\ DOMAIN txs = 1..Len(txs)
        /\ \A n \in 1..Len(txs) : txs[n] \in X
    OBVIOUS
  <1>2. IsKept(txs, Places(txs, Q), f)
    BY <1>1, KeptExists
  <1>3. Picked(txs, Q) = f[Len(txs)]
    BY KeepIsKept DEF Picked
  <1> HIDE DEF f
  <1>4. \A n \in 0..Len(txs) : f[n] = KeptStep(txs, Places(txs, Q), f, n)
    BY <1>2 DEF IsKept
  <1>5. f[0] = <<>>
    BY <1>1, <1>4 DEF KeptStep
  <1>6. ASSUME NEW n \in 0..Len(txs) - 1
        PROVE  f[n + 1] = IF txs[n + 1] \in Q THEN Append(f[n], txs[n + 1]) ELSE f[n]
    <2>1. n + 1 \in 0..Len(txs) /\ n + 1 # 0 /\ (n + 1) - 1 = n /\ n + 1 \in DOMAIN txs
      BY <1>1
    <2>2. n + 1 \in Places(txs, Q) <=> txs[n + 1] \in Q
      BY <2>1 DEF Places
    <2> QED  BY <1>4, <2>1, <2>2 DEF KeptStep
  <1>7. Good = Nat
    <2>0. <<>> \in Seq(X)
      OBVIOUS
    <2>1. 0 \in Good
      BY <1>5, <2>0
    <2>2. ASSUME NEW n \in Good PROVE n + 1 \in Good
      <3>1. SUFFICES ASSUME n + 1 <= Len(txs) PROVE f[n + 1] \in Seq(X)
        OBVIOUS
      <3>2. n \in 0..Len(txs) - 1 /\ f[n] \in Seq(X) /\ txs[n + 1] \in X
        BY <1>1, <3>1
      <3>3. Append(f[n], txs[n + 1]) \in Seq(X)
        BY <3>2
      <3> QED  BY <1>6, <3>2, <3>3
    <2>3. Good \in SUBSET Nat
      OBVIOUS
    <2> HIDE DEF Good
    <2> QED  BY <2>1, <2>2, <2>3, Upwards
  <1>8. \A n \in 0..Len(txs) : f[n] \in Seq(X)
    <2>1. \A n \in 0..Len(txs) : n \in Good /\ n <= Len(txs)
      BY <1>1, <1>7
    <2> QED  BY <2>1
  <1> QED  BY <1>3, <1>5, <1>6, <1>8 DEF f

(* If no transaction is in Q, none is picked; if every one is, the list    *)
(* stays as it is.                                                         *)
LEMMA PickNone ==
    ASSUME NEW X, NEW txs \in Seq(X), NEW Q, \A i \in DOMAIN txs : txs[i] \notin Q
    PROVE  Picked(txs, Q) = <<>>
  <1> DEFINE T == Places(txs, Q)
  <1>1. T = {} /\ T \in SUBSET (DOMAIN txs)
    BY DEF Places
  <1>2. PICK p : Enumerates(p, Keep(txs, T), txs, T)
    BY <1>1, KeepPlaces
  <1>3. Keep(txs, T) \in Seq(X)
    BY <1>1, KeepPlaces
  <1>4. DOMAIN Keep(txs, T) = {}
    <2>1. p \in [DOMAIN Keep(txs, T) -> {}]
      BY <1>1, <1>2 DEF Enumerates
    <2> QED  BY <2>1
  <1> HIDE DEF T
  <1>5. Keep(txs, T) = <<>>
    BY <1>3, <1>4
  <1> QED  BY <1>5 DEF Picked, T

(* Picking every element changes nothing.                                  *)
LEMMA PickAll ==
    ASSUME NEW X, NEW txs \in Seq(X), NEW Q, \A i \in DOMAIN txs : txs[i] \in Q
    PROVE  Picked(txs, Q) = txs
  <1> DEFINE f == KeptOf(txs, Places(txs, Q))
             Same(n) == Len(f[n]) = n /\ \A i \in 1..n : f[n][i] = txs[i]
             Good == {n \in Nat : n <= Len(txs) => Same(n)}
  <1>1. /\ Len(txs) \in Nat /\ DOMAIN txs = 1..Len(txs)
    OBVIOUS
  <1>2. /\ Picked(txs, Q) = f[Len(txs)]
        /\ f[0] = <<>>
        /\ \A n \in 0..Len(txs) - 1 :
              f[n + 1] = IF txs[n + 1] \in Q THEN Append(f[n], txs[n + 1]) ELSE f[n]
        /\ \A n \in 0..Len(txs) : f[n] \in Seq(X)
    BY KeptSteps
  <1> HIDE DEF f
  <1>3. Good = Nat
    <2>1. 0 \in Good
      BY <1>2
    <2>2. ASSUME NEW n \in Good PROVE n + 1 \in Good
      <3>1. SUFFICES ASSUME n + 1 <= Len(txs) PROVE Same(n + 1)
        <4> HIDE DEF Same
        <4> QED  OBVIOUS
      <3>2. n \in 0..Len(txs) - 1 /\ n \in 0..Len(txs) /\ n + 1 \in DOMAIN txs /\ n \in Nat
        BY <1>1, <3>1
      <3>0. txs[n + 1] \in X
        BY <3>2
      <3>3. Same(n) /\ f[n] \in Seq(X) /\ f[n + 1] = Append(f[n], txs[n + 1]) /\ txs[n + 1] \in X
        <4>1. Same(n)
          <5> HIDE DEF Same
          <5> QED  BY <1>1, <3>1, <3>2
        <4>2. f[n] \in Seq(X) /\ f[n + 1] = Append(f[n], txs[n + 1])
          BY <1>2, <3>2
        <4> QED  BY <3>0, <4>1, <4>2
      <3>4. Len(f[n + 1]) = n + 1
        BY <3>2, <3>3, AppendProperties
      <3>5. ASSUME NEW i \in 1..n + 1 PROVE f[n + 1][i] = txs[i]
        BY <3>2, <3>3, AppendProperties
      <3> QED  BY <3>4, <3>5
    <2>3. Good \in SUBSET Nat
      OBVIOUS
    <2> HIDE DEF Good
    <2> QED  BY <2>1, <2>2, <2>3, Upwards
  <1>4. Same(Len(txs)) /\ f[Len(txs)] \in Seq(X)
    <2>1. Len(txs) \in Good /\ Len(txs) <= Len(txs) /\ Len(txs) \in 0..Len(txs)
      BY <1>1, <1>3
    <2>2. Same(Len(txs))
      <3> HIDE DEF Same
      <3> QED  BY <2>1
    <2> QED  BY <1>2, <2>1, <2>2
  <1>5. f[Len(txs)] = txs
    BY <1>1, <1>4, SeqEqual
  <1> QED  BY <1>2, <1>5

(* What is picked from two lists in a row is what is picked from each.     *)
LEMMA PickConcat ==
    ASSUME NEW X, NEW s \in Seq(X), NEW t \in Seq(X), NEW Q
    PROVE  Picked(s \o t, Q) = Picked(s, Q) \o Picked(t, Q)
  <1> DEFINE st == s \o t
             f == KeptOf(s, Places(s, Q))
             g == KeptOf(t, Places(t, Q))
             h == KeptOf(st, Places(st, Q))
             a == Len(s)
             b == Len(t)
  <1>1. /\ a \in Nat /\ b \in Nat /\ st \in Seq(X) /\ Len(st) = a + b
        /\ \A i \in 1..a : st[i] = s[i]
        /\ \A i \in 1..b : st[a + i] = t[i]
    <2>1. /\ st \in Seq(X) /\ Len(st) = a + b
          /\ \A i \in 1..a + b : st[i] = IF i <= a THEN s[i] ELSE t[i - a]
      BY ConcatProperties
    <2>2. a \in Nat /\ b \in Nat
      OBVIOUS
    <2> HIDE DEF st, a, b
    <2>3. \A i \in 1..a : i \in 1..a + b /\ i <= a
      BY <2>2
    <2>4. \A i \in 1..b : a + i \in 1..a + b /\ ~(a + i <= a) /\ (a + i) - a = i
      BY <2>2
    <2> QED  BY <2>1, <2>2, <2>3, <2>4
  <1> HIDE DEF st
  <1>2. /\ Picked(s, Q) = f[a] /\ f[0] = <<>>
        /\ \A n \in 0..a - 1 : f[n + 1] = IF s[n + 1] \in Q THEN Append(f[n], s[n + 1]) ELSE f[n]
        /\ \A n \in 0..a : f[n] \in Seq(X)
    BY KeptSteps
  <1>3. /\ Picked(t, Q) = g[b] /\ g[0] = <<>>
        /\ \A n \in 0..b - 1 : g[n + 1] = IF t[n + 1] \in Q THEN Append(g[n], t[n + 1]) ELSE g[n]
        /\ \A n \in 0..b : g[n] \in Seq(X)
    BY KeptSteps
  <1>4. /\ Picked(st, Q) = h[a + b] /\ h[0] = <<>>
        /\ \A n \in 0..a + b - 1 :
              h[n + 1] = IF st[n + 1] \in Q THEN Append(h[n], st[n + 1]) ELSE h[n]
    <2>1. /\ Picked(st, Q) = h[Len(st)] /\ h[0] = <<>>
          /\ \A n \in 0..Len(st) - 1 :
                h[n + 1] = IF st[n + 1] \in Q THEN Append(h[n], st[n + 1]) ELSE h[n]
      <3>1. st \in Seq(X)
        BY <1>1
      <3> QED  BY <3>1, KeptSteps
    <2> HIDE DEF h, a, b
    <2> QED  BY <1>1, <2>1
  <1> HIDE DEF f, g, h, a, b
  <1> DEFINE First == {n \in Nat : n <= a => h[n] = f[n]}
             Joined(n) == h[a + n] = f[a] \o g[n]
             Second == {n \in Nat : n <= b => Joined(n)}
  <1>5. First = Nat
    <2>1. 0 \in First
      BY <1>2, <1>4
    <2>2. ASSUME NEW n \in First PROVE n + 1 \in First
      <3>1. SUFFICES ASSUME n + 1 <= a PROVE h[n + 1] = f[n + 1]
        OBVIOUS
      <3>2. n \in 0..a - 1 /\ n \in 0..a + b - 1 /\ n + 1 \in 1..a /\ h[n] = f[n]
        BY <1>1, <3>1
      <3> QED  BY <1>1, <1>2, <1>4, <3>2
    <2>3. First \in SUBSET Nat
      OBVIOUS
    <2> HIDE DEF First
    <2> QED  BY <2>1, <2>2, <2>3, Upwards
  <1>6. h[a] = f[a] /\ f[a] \in Seq(X)
    BY <1>1, <1>2, <1>5
  <1>7. Second = Nat
    <2>1. 0 \in Second
      <3>1. a + 0 = a /\ f[a] \o <<>> = f[a]
        BY <1>1, <1>6, ConcatEmptySeq
      <3>2. Joined(0)
        BY <1>3, <1>6, <3>1
      <3> HIDE DEF Joined
      <3> QED  BY <3>2
    <2>2. ASSUME NEW n \in Second PROVE n + 1 \in Second
      <3>0. n \in Nat /\ n + 1 \in Nat /\ (n <= b => Joined(n))
        <4> HIDE DEF Joined
        <4> QED  BY <2>2
      <3>1. SUFFICES ASSUME n + 1 <= b PROVE Joined(n + 1)
        <4> HIDE DEF Joined
        <4> QED  BY <3>0
      <3>2. /\ n \in 0..b - 1 /\ n \in 0..b /\ a + n \in 0..a + b - 1 /\ n + 1 \in 1..b
            /\ (a + n) + 1 = a + (n + 1) /\ Joined(n)
        <4> HIDE DEF Joined
        <4> QED  BY <1>1, <3>0, <3>1
      <3>3. st[a + (n + 1)] = t[n + 1]
        BY <1>1, <3>2
      <3>4. h[a + (n + 1)] = IF t[n + 1] \in Q THEN Append(f[a] \o g[n], t[n + 1]) ELSE f[a] \o g[n]
        BY <1>4, <3>2, <3>3
      <3>5. g[n] \in Seq(X) /\ t[n + 1] \in X
        <4>1. \A i \in 1..b : t[i] \in X
          BY DEF b
        <4> QED  BY <1>3, <3>2, <4>1
      <3>6. Append(f[a] \o g[n], t[n + 1]) = f[a] \o Append(g[n], t[n + 1])
        <4>1. <<t[n + 1]>> \in Seq(X) /\ f[a] \o g[n] \in Seq(X)
          BY <1>6, <3>5
        <4>2. Append(f[a] \o g[n], t[n + 1]) = (f[a] \o g[n]) \o <<t[n + 1]>>
          BY <3>5, <4>1, AppendIsConcat
        <4>3. Append(g[n], t[n + 1]) = g[n] \o <<t[n + 1]>>
          BY <3>5, AppendIsConcat
        <4>4. (f[a] \o g[n]) \o <<t[n + 1]>> = f[a] \o (g[n] \o <<t[n + 1]>>)
          <5> DEFINE x == f[a]
                     y == g[n]
                     z == <<t[n + 1]>>
          <5>1. x \in Seq(X) /\ y \in Seq(X) /\ z \in Seq(X)
            BY <1>6, <3>5, <4>1
          <5> HIDE DEF x, y, z
          <5>2. (x \o y) \o z = x \o (y \o z)
            <6>1. Regroups(X)
              BY Regroup
            <6> QED  BY ONLY <5>1, <6>1 DEF Regroups
          <5> QED  BY <5>2 DEF x, y, z
        <4> QED  BY <4>2, <4>3, <4>4
      <3> QED  BY <1>3, <3>2, <3>4, <3>6
    <2>3. Second \in SUBSET Nat
      OBVIOUS
    <2> HIDE DEF Second
    <2> QED  BY <2>1, <2>2, <2>3, Upwards
  <1>8. h[a + b] = f[a] \o g[b]
    <2>1. Joined(b)
      <3> HIDE DEF Joined
      <3> QED  BY <1>1, <1>7
    <2> QED  BY <2>1
  <1> QED  BY <1>2, <1>3, <1>4, <1>8 DEF st

(* What goes to the core ledger, and what to a peripheral one.             *)
NormalTx == {tx \in Tx : tx.kind = NormalKind}
ActionTx(l) == {tx \in Tx : tx.kind \in {"BG", "BS", "BT", "BR"} /\ LedgerOf(tx) = l}

(* The classification of ProcessBanknoteTxs is picking by a property of    *)
(* the transaction, not by its place.                                      *)
LEMMA ClassesArePicked ==
    ASSUME NEW txs \in Seq(Tx)
    PROVE  /\ Normal(txs) = Picked(txs, NormalTx)
           /\ \A l : Actions(txs, l) = Picked(txs, ActionTx(l))
  <1>1. \A i \in DOMAIN txs : txs[i] \in Tx
    OBVIOUS
  <1>2. {i \in DOMAIN txs : txs[i].kind = NormalKind} = Places(txs, NormalTx)
    BY <1>1 DEF Places, NormalTx
  <1>3. ASSUME NEW l PROVE PlacesOf(txs, {"BG", "BS", "BT", "BR"}, l) = Places(txs, ActionTx(l))
    BY <1>1 DEF Places, PlacesOf, ActionTx
  <1>4. Normal(txs) = Picked(txs, NormalTx)
    BY <1>2 DEF Normal, Picked
  <1>5. ASSUME NEW l PROVE Actions(txs, l) = Picked(txs, ActionTx(l))
    BY <1>3 DEF Actions, Picked
  <1> QED  BY <1>4, <1>5

(* A block whose lists are sorted into the right places: no BR, every      *)
(* transaction with the ledger that its hash names.                        *)
WellListed(b) ==
    /\ b.c_ledger \in Seq(Tx) /\ \A i \in DOMAIN b.c_ledger : b.c_ledger[i].kind = NormalKind
    /\ b.p_ledgers \in [Ledgers -> Seq(Tx)]
    /\ \A l \in Ledgers : \A i \in DOMAIN b.p_ledgers[l] :
          /\ b.p_ledgers[l][i].kind \in {"BG", "BS", "BT"}
          /\ LedgerOf(b.p_ledgers[l][i]) = l

(* The peer's classification of the block's transactions gives back the    *)
(* lists of the block (AddBlock joins them, ProcessBanknoteTxs shares them *)
(* out again).                                                             *)
LEMMA InBlockLists ==
    ASSUME NEW b, WellListed(b)
    PROVE  /\ Normal(InBlock(b)) = b.c_ledger
           /\ \A l \in Ledgers : Actions(InBlock(b), l) = b.p_ledgers[l]
  <1> DEFINE c == b.c_ledger
             p == b.p_ledgers
             q == [i \in 1..P |-> p[i - 1]]
             X(n) == Concat(c, q, n)
             Holds(n) == /\ X(n) \in Seq(Tx)
                         /\ Picked(X(n), NormalTx) = c
                         /\ \A l \in Ledgers :
                               Picked(X(n), ActionTx(l)) = IF l < n THEN p[l] ELSE <<>>
             Good == {n \in Nat : n <= P => Holds(n)}
  <1>0. \A s, t \in Seq(Tx) : \A Q : Picked(s \o t, Q) = Picked(s, Q) \o Picked(t, Q)
    BY PickConcat
  <1>1. P \in Nat /\ P # 0
    BY ProcessingAssumption
  <1>2. /\ c \in Seq(Tx) /\ \A i \in DOMAIN c : c[i].kind = NormalKind
        /\ p \in [Ledgers -> Seq(Tx)]
        /\ \A l \in Ledgers : \A i \in DOMAIN p[l] :
              p[l][i].kind \in {"BG", "BS", "BT"} /\ LedgerOf(p[l][i]) = l
    BY DEF WellListed
  <1>3. InBlock(b) = Concat(c, q, P)
    BY DEF InBlock, FoldLeft, MapThenFoldSet, IsConcat, Concat
  <1> HIDE DEF c, p
  <1>4. Len(q) = P /\ DOMAIN q = 1..P /\ \A n \in 0..P - 1 : n \in Ledgers /\ q[n + 1] = p[n]
    <2>1. \A n \in 0..P - 1 : n \in Ledgers /\ q[n + 1] = p[n]
      BY <1>1 DEF Ledgers
    <2>2. Len(q) = P
      BY <1>1
    <2> QED  BY <2>1, <2>2
  <1> HIDE DEF q
  <1>5. /\ X(0) = c
        /\ \A n \in 0..P - 1 : X(n + 1) = X(n) \o p[n]
    <2>1. /\ Concat(c, q, 0) = c
          /\ \A n \in 0..Len(q) - 1 : Concat(c, q, n + 1) = Concat(c, q, n) \o q[n + 1]
      <3>1. Len(q) \in Nat /\ DOMAIN q = 1..Len(q)
        BY <1>1, <1>4
      <3>2. Concatenates(c, q)
        BY <3>1, ConcatFolds
      <3> QED  BY <3>2 DEF Concatenates
    <2>2. \A n \in 0..P - 1 : X(n + 1) = X(n) \o q[n + 1]
      BY <1>4, <2>1
    <2> QED  BY <1>4, <2>1, <2>2
  <1>12. InBlock(b) = X(P)
    BY <1>3
  <1> HIDE DEF X
  <1>6. Holds(0)
    <2>1. \A i \in DOMAIN c : c[i] \in NormalTx /\ \A l : c[i] \notin ActionTx(l)
      BY <1>2 DEF NormalTx, ActionTx, NormalKind
    <2>2. Picked(c, NormalTx) = c
      BY <1>2, <2>1, PickAll
    <2>3. \A l \in Ledgers : Picked(c, ActionTx(l)) = <<>>
      BY <1>2, <2>1, PickNone
    <2>4. \A l \in Ledgers : ~(l < 0)
      BY <1>1 DEF Ledgers
    <2> QED  BY <1>2, <1>5, <2>2, <2>3, <2>4
  <1>7. ASSUME NEW n \in Nat, n + 1 <= P, Holds(n) PROVE Holds(n + 1)
    <2>1. n \in 0..P - 1 /\ n \in Ledgers /\ X(n + 1) = X(n) \o p[n]
      <3> HIDE DEF Holds
      <3>1. n \in 0..P - 1
        BY <1>1, <1>7
      <3> QED  BY <1>4, <1>5, <3>1
    <2>2. X(n) \in Seq(Tx) /\ p[n] \in Seq(Tx)
      BY <1>2, <1>7, <2>1
    <2>3. X(n + 1) \in Seq(Tx)
      BY <2>1, <2>2, ConcatProperties
    <2>4. \A i \in DOMAIN p[n] : /\ p[n][i] \notin NormalTx
                                 /\ p[n][i] \in ActionTx(n)
                                 /\ \A l : l # n => p[n][i] \notin ActionTx(l)
      <3>1. \A i \in DOMAIN p[n] : p[n][i] \in Tx
        BY <2>2
      <3> QED  BY <1>2, <2>1, <3>1 DEF NormalTx, ActionTx, NormalKind
    <2>5. Picked(X(n + 1), NormalTx) = c
      <3>1. Picked(p[n], NormalTx) = <<>>
        BY <2>2, <2>4, PickNone
      <3>2. Picked(X(n + 1), NormalTx) = Picked(X(n), NormalTx) \o Picked(p[n], NormalTx)
        <4>1. Picked(X(n) \o p[n], NormalTx) = Picked(X(n), NormalTx) \o Picked(p[n], NormalTx)
          BY <2>2, <1>0
        <4> QED  BY <2>1, <4>1
      <3>3. c \o <<>> = c
        BY <1>2, ConcatEmptySeq
      <3> QED  BY <1>7, <3>1, <3>2, <3>3
    <2>6. ASSUME NEW l \in Ledgers
          PROVE  Picked(X(n + 1), ActionTx(l)) = IF l < n + 1 THEN p[l] ELSE <<>>
      <3>1. /\ Picked(X(n + 1), ActionTx(l)) = Picked(X(n), ActionTx(l)) \o Picked(p[n], ActionTx(l))
            /\ Picked(X(n), ActionTx(l)) = IF l < n THEN p[l] ELSE <<>>
        <4>1. Picked(X(n) \o p[n], ActionTx(l)) = Picked(X(n), ActionTx(l)) \o Picked(p[n], ActionTx(l))
          BY <2>2, <1>0
        <4> QED  BY <1>7, <2>1, <4>1
      <3>2. p[l] \in Seq(Tx) /\ l \in Int
        BY <1>2, <1>1 DEF Ledgers
      <3>3. p[l] \o <<>> = p[l] /\ <<>> \o p[l] = p[l] /\ <<>> \in Seq(Tx) /\ <<>> \o <<>> = <<>>
        <4>1. <<>> \in Seq(Tx)
          OBVIOUS
        <4> QED  BY <3>2, <4>1, ConcatEmptySeq
      <3>4. CASE l = n
        <4>1. Picked(p[n], ActionTx(n)) = p[n]
          BY <2>2, <2>4, PickAll
        <4>2. ~(l < n) /\ l < n + 1
          BY <3>2, <3>4
        <4> QED  BY <3>1, <3>3, <3>4, <4>1, <4>2
      <3>5. CASE l # n
        <4>1. Picked(p[n], ActionTx(l)) = <<>>
          BY <2>2, <2>4, <3>5, PickNone
        <4>2. l < n <=> l < n + 1
          BY <3>2, <3>5
        <4> QED  BY <3>1, <3>3, <4>1, <4>2
      <3> QED  BY <3>4, <3>5
    <2> QED  BY <2>3, <2>5, <2>6
  <1> HIDE DEF Holds
  <1>8. Good = Nat
    <2>1. 0 \in Good
      BY <1>6
    <2>2. ASSUME NEW n \in Good PROVE n + 1 \in Good
      <3>1. n \in Nat /\ n + 1 \in Nat /\ (n + 1 <= P => n <= P)
        BY <1>1
      <3> QED  BY <1>7, <3>1
    <2>3. Good \in SUBSET Nat
      OBVIOUS
    <2> HIDE DEF Good
    <2> QED  BY <2>1, <2>2, <2>3, Upwards
  <1>9. Holds(P)
    <2>1. P \in Good /\ P <= P
      BY <1>1, <1>8
    <2> QED  BY <2>1
  <1>10. \A l \in Ledgers : l < P
    BY <1>1 DEF Ledgers
  <1>11. /\ X(P) = InBlock(b) /\ InBlock(b) \in Seq(Tx)
         /\ Picked(InBlock(b), NormalTx) = c
         /\ \A l \in Ledgers : Picked(InBlock(b), ActionTx(l)) = p[l]
    BY <1>12, <1>9, <1>10 DEF Holds
  <1> QED  BY <1>11, ClassesArePicked DEF c, p

-----------------------------------------------------------------------------
(* A peripheral ledger's trie depends on which transactions the block has, *)
(* not on their order.                                                     *)

ChargedIn(txs, a) == {i \in DOMAIN txs : txs[i].kind = "BG" /\ txs[i].from = a}
CreditedIn(txs, a) == {i \in DOMAIN txs : txs[i].kind = "BR" /\ txs[i].to = a}
TrieAfter(t, txs) ==
    [a \in Accounts |->
        IF ChargedIn(txs, a) \cup CreditedIn(txs, a) = {} THEN t[a]
        ELSE Settle(t[a], Amounts(txs, CreditedIn(txs, a)) - Amounts(txs, ChargedIn(txs, a)))]

(* It is the trie that LedgerPromise promises.                             *)
LEMMA PromisedTrie ==
    ASSUME NEW blk, NEW t, NEW txs
    PROVE  Ledger(blk)!BlockTrie(t, txs) = TrieAfter(t, txs)
  <1>1. ASSUME NEW a
        PROVE  /\ Ledger(blk)!Charged(txs, a) = ChargedIn(txs, a)
               /\ Ledger(blk)!Credited(txs, a) = CreditedIn(txs, a)
    BY DEF Ledger!Charged, Ledger!Credited, ChargedIn, CreditedIn
  <1>2. \A S : Ledger(blk)!Amounts(txs, S) = Amounts(txs, S)
    BY DEF Ledger!Amounts, Ledger!MapThenSumSet, Ledger!MapThenFoldSet,
           Amounts, MapThenSumSet, MapThenFoldSet
  <1>3. \A acc, net : Ledger(blk)!Settle(acc, net) = Settle(acc, net)
    BY DEF Ledger!Settle, Ledger!BumpNonce, Ledger!Deduct, Ledger!Affords, Ledger!Deposit,
           Settle, BumpNonce, Deduct, Affords, Deposit
  <1> QED  BY <1>1, <1>2, <1>3 DEF Ledger!BlockTrie, TrieAfter

(* Two orders of the same transactions are worth the same to an account.   *)
LEMMA OrderIgnored ==
    ASSUME NEW s \in Seq(Tx), NEW q \in Seq(Tx), ToSet(s) = ToSet(q), Distinct(s), Distinct(q),
           NEW t
    PROVE  TrieAfter(t, s) = TrieAfter(t, q)
  <1>1. /\ \A i \in DOMAIN s : s[i] \in Tx /\ \E j \in DOMAIN q : q[j] = s[i]
        /\ \A j \in DOMAIN q : q[j] \in Tx /\ \E i \in DOMAIN s : s[i] = q[j]
    <2>1. (\A i \in DOMAIN s : s[i] \in Tx) /\ (\A j \in DOMAIN q : q[j] \in Tx)
      OBVIOUS
    <2>2. {s[i] : i \in DOMAIN s} = {q[j] : j \in DOMAIN q}
      BY DEF ToSet
    <2>3. ASSUME NEW i \in DOMAIN s PROVE \E j \in DOMAIN q : q[j] = s[i]
      <3>1. s[i] \in {s[k] : k \in DOMAIN s}
        OBVIOUS
      <3> QED  BY <2>2, <3>1
    <2>4. ASSUME NEW j \in DOMAIN q PROVE \E i \in DOMAIN s : s[i] = q[j]
      <3>1. q[j] \in {q[k] : k \in DOMAIN q}
        OBVIOUS
      <3> QED  BY <2>2, <3>1
    <2> QED  BY <2>1, <2>3, <2>4
  <1> DEFINE p == [i \in DOMAIN s |-> CHOOSE j \in DOMAIN q : q[j] = s[i]]
  <1>2. \A i \in DOMAIN s : p[i] \in DOMAIN q /\ q[p[i]] = s[i]
    BY <1>1
  <1> HIDE DEF p
  <1>3. \A i, j \in DOMAIN s : p[i] = p[j] => i = j
    BY <1>2 DEF Distinct
  <1>4. \A i \in DOMAIN s, j \in DOMAIN q : q[j] = s[i] => p[i] = j
    BY <1>2 DEF Distinct
  <1>5. IsFiniteSet(DOMAIN s)
    BY FS_Interval
  <1>6. ASSUME NEW S \in SUBSET (DOMAIN s)
        PROVE  Amounts(q, {p[i] : i \in S}) = Amounts(s, S)
    <2>1. IsFiniteSet(S) /\ \A i, j \in S : p[i] = p[j] => i = j
      BY <1>3, <1>5, FS_Subset
    <2>2. \A i \in S : s[i].amount \in Int /\ q[p[i]].amount = s[i].amount
      <3>1. \A tx \in Tx : tx.amount \in Int
        BY DEF Tx
      <3> QED  BY <1>1, <1>2, <3>1
    <2> QED  BY <2>1, <2>2, AmountsMoved
  <1>7. ASSUME NEW a \in Accounts
        PROVE  /\ {p[i] : i \in ChargedIn(s, a)} = ChargedIn(q, a)
               /\ {p[i] : i \in CreditedIn(s, a)} = CreditedIn(q, a)
               /\ ChargedIn(s, a) \in SUBSET (DOMAIN s) /\ CreditedIn(s, a) \in SUBSET (DOMAIN s)
               /\ ChargedIn(s, a) \cup CreditedIn(s, a) = {}
                     <=> ChargedIn(q, a) \cup CreditedIn(q, a) = {}
    <2>1. {p[i] : i \in ChargedIn(s, a)} = ChargedIn(q, a)
      <3>1. ASSUME NEW i \in ChargedIn(s, a) PROVE p[i] \in ChargedIn(q, a)
        BY <1>2 DEF ChargedIn
      <3>2. ASSUME NEW j \in ChargedIn(q, a) PROVE \E i \in ChargedIn(s, a) : j = p[i]
        <4>1. j \in DOMAIN q
          BY DEF ChargedIn
        <4>2. PICK i \in DOMAIN s : s[i] = q[j]
          BY <1>1, <4>1
        <4>3. p[i] = j /\ i \in ChargedIn(s, a)
          BY <1>4, <4>1, <4>2 DEF ChargedIn
        <4> QED  BY <4>3
      <3> QED  BY <3>1, <3>2
    <2>2. {p[i] : i \in CreditedIn(s, a)} = CreditedIn(q, a)
      <3>1. ASSUME NEW i \in CreditedIn(s, a) PROVE p[i] \in CreditedIn(q, a)
        BY <1>2 DEF CreditedIn
      <3>2. ASSUME NEW j \in CreditedIn(q, a) PROVE \E i \in CreditedIn(s, a) : j = p[i]
        <4>1. j \in DOMAIN q
          BY DEF CreditedIn
        <4>2. PICK i \in DOMAIN s : s[i] = q[j]
          BY <1>1, <4>1
        <4>3. p[i] = j /\ i \in CreditedIn(s, a)
          BY <1>4, <4>1, <4>2 DEF CreditedIn
        <4> QED  BY <4>3
      <3> QED  BY <3>1, <3>2
    <2>3. ChargedIn(s, a) \in SUBSET (DOMAIN s) /\ CreditedIn(s, a) \in SUBSET (DOMAIN s)
      BY DEF ChargedIn, CreditedIn
    <2>4. \A S : S = {} <=> {p[i] : i \in S} = {}
      OBVIOUS
    <2> QED  BY <2>1, <2>2, <2>3, <2>4
  <1>8. \A a \in Accounts : /\ Amounts(q, ChargedIn(q, a)) = Amounts(s, ChargedIn(s, a))
                            /\ Amounts(q, CreditedIn(q, a)) = Amounts(s, CreditedIn(s, a))
    BY <1>6, <1>7
  <1> QED  BY <1>7, <1>8 DEF TrieAfter

-----------------------------------------------------------------------------
(* The chain of tries, and the peer that follows it.                       *)

(* The tries after block n; block 0 is the empty state.                    *)
CoreAt(n) == IF n = 0 THEN EmptyTrie ELSE blocks[n].core
RootsAt(n) == IF n = 0 THEN [l \in Ledgers |-> EmptyTrie] ELSE blocks[n].roots

(* Every block leads from the tries of the block before to its own, but    *)
(* for a ledger that missed a record.                                      *)
ChainOf(n) ==
    LET b == blocks[n] IN
    /\ b.c_ledger = Normal(run[n]) /\ b.p_ledgers \in [Ledgers -> Seq(Tx)]
    /\ b.core = CoreAfter(CoreAt(n - 1), b.c_ledger, Len(b.c_ledger))
    /\ \A l \in Ledgers : <<l, n>> \notin astray =>
          b.roots[l] = TrieAfter(RootsAt(n - 1)[l], Actions(run[n], l))

(* The tries being worked on start from the last block's.                  *)
TriesInv ==
    LET n == Len(blocks) IN
    /\ trie = [l \in Ledgers |-> trie[l]]
    /\ pc = "idle" => core = CoreAt(n) /\ \A l \in Ledgers : trie[l] = RootsAt(n)[l]
    /\ pc = "working" =>
          /\ coreAt <= Len(Normal(batch))
          /\ core = CoreAfter(CoreAt(n), Normal(batch), coreAt)
          /\ "core" \in over => coreAt = Len(Normal(batch))
          /\ \A l \in Ledgers : <<l, n + 1>> \notin astray \/ l \notin done =>
                trie[l] = IF l \in done THEN TrieAfter(RootsAt(n)[l], Actions(batch, l))
                          ELSE RootsAt(n)[l]

(* A peer that has got every block so far is at some block of the chain.   *)
AtBlock(n) ==
    /\ peer.core = CoreAt(n)
    /\ \A l \in Ledgers : NoBR(l, n) /\ Faithful(l, n) => peer.trie[l] = RootsAt(n)[l]
PeerInv ==
    /\ peer.added \in Seq(Nat) /\ \A i \in DOMAIN peer.added : peer.added[i] \in 1..Len(blocks)
    /\ InSequence => AtBlock(Len(peer.added))

(* A single ledger misses nothing.                                         *)
AloneInv == P = 1 => astray = {}

ChainInv == (\A n \in DOMAIN blocks : ChainOf(n)) /\ TriesInv /\ PeerInv /\ AloneInv

Sound == TypeOK /\ WorkInv /\ BlockComplete /\ CoreTypes

(* Lengths and places.                                                     *)
LEMMA BlockPlaces ==
    ASSUME TypeOK
    PROVE  /\ Len(blocks) \in Nat /\ DOMAIN blocks = 1..Len(blocks)
           /\ \A n \in DOMAIN blocks : n \in DOMAIN run
           /\ Len(blocks) < Len(run) => Len(blocks) + 1 \in DOMAIN run
  <1>1. run \in Seq(Seq(Tx)) /\ Len(blocks) <= Len(run)
    BY ProcessingAssumption DEF TypeOK
  <1>2. Len(run) \in Nat /\ DOMAIN run = 1..Len(run)
    BY <1>1
  <1>3. Len(blocks) \in Nat /\ DOMAIN blocks = 1..Len(blocks)
    BY DEF TypeOK
  <1> QED  BY <1>1, <1>2, <1>3

(* The applied transactions, one by one.                                   *)
LEMMA CoreOfBatch ==
    ASSUME run \in Runs, NEW n \in DOMAIN run, NEW t
    PROVE  LET q == Normal(run[n]) IN
           /\ Len(q) \in Nat
           /\ Applied(t, q) = CoreAfter(t, q, Len(q))
           /\ CoreAfter(t, q, 0) = t
           /\ \A k \in 0..Len(q) - 1 : CoreAfter(t, q, k + 1) = ApplyNormalTx(CoreAfter(t, q, k), q[k + 1])
  <1>1. ASSUME NEW q \in Seq(Tx)
        PROVE  /\ Len(q) \in Nat
               /\ Applied(t, q) = CoreAfter(t, q, Len(q))
               /\ CoreAfter(t, q, 0) = t
               /\ \A k \in 0..Len(q) - 1 :
                     CoreAfter(t, q, k + 1) = ApplyNormalTx(CoreAfter(t, q, k), q[k + 1])
    <2>1. Len(q) \in Nat /\ DOMAIN q = 1..Len(q)
      OBVIOUS
    <2> QED  BY <2>1, CoreFolds
  <1>2. Normal(run[n]) \in Seq(Tx)
    BY NormalFacts
  <1> QED  BY <1>1, <1>2

(* As long as the blocks and the batches stay, so does the chain.          *)
LEMMA ChainFrame ==
    ASSUME UNCHANGED <<run, blocks>>, astray \subseteq astray'
    PROVE  /\ batch' = batch
           /\ \A n : /\ CoreAt(n)' = CoreAt(n) /\ RootsAt(n)' = RootsAt(n)
                     /\ ChainOf(n) => ChainOf(n)'
                     /\ \A l : /\ NoBR(l, n)' <=> NoBR(l, n)
                               /\ Faithful(l, n)' => Faithful(l, n)
  <1>1. \A n : CoreAt(n)' = CoreAt(n) /\ RootsAt(n)' = RootsAt(n)
    BY DEF CoreAt, RootsAt
  <1>2. \A n : ChainOf(n) => ChainOf(n)'
    BY <1>1 DEF ChainOf
  <1> QED  BY <1>1, <1>2 DEF batch, NoBR, Faithful

(* No step forgets who went astray, and a single ledger never does.        *)
LEMMA NextAstray ==
    ASSUME [Next]_vars
    PROVE  astray \subseteq astray' /\ (AloneInv => AloneInv')
  <1>1. ASSUME NEW l \in Ledgers, LedgerNext(l)
        PROVE  astray \subseteq astray' /\ (AloneInv => AloneInv')
    <2>1. PICK missed \in Missed(Actions(batch, l)) :
              astray' = IF missed = {} THEN astray ELSE astray \cup {<<l, Len(blocks) + 1>>}
      BY <1>1 DEF LedgerNext
    <2>2. P = 1 => missed = {}
      BY <2>1 DEF Missed
    <2> QED  BY <2>1, <2>2 DEF AloneInv
  <1>2. ASSUME PeerAdds
        PROVE  astray \subseteq astray' /\ (AloneInv => AloneInv')
    <2>1. PICK n \in DOMAIN blocks : \E missed :
              /\ \A l \in Ledgers : missed[l] \in Missed(Executed(blocks[n])[l])
              /\ astray' = astray \cup {<<l, n>> : l \in {m \in Ledgers : missed[m] # {}}}
      BY <1>2 DEF PeerAdds
    <2>2. PICK missed :
              /\ \A l \in Ledgers : missed[l] \in Missed(Executed(blocks[n])[l])
              /\ astray' = astray \cup {<<l, n>> : l \in {m \in Ledgers : missed[m] # {}}}
      BY <2>1
    <2>3. P = 1 => \A l \in Ledgers : missed[l] = {}
      BY <2>2 DEF Missed
    <2> QED  BY <2>2, <2>3 DEF AloneInv
  <1>3. CASE UNCHANGED astray
    BY <1>3 DEF AloneInv
  <1> QED
    BY <1>1, <1>2, <1>3 DEF Next, vars, Begin, Working, SortOver, HashOver, CoreNext, CoreOver,
           NextElement, FirstStore, SecondStore, HashNext, Return, Finished, ledgerVars

(* Missing nothing leaves a list as it is.                                 *)
LEMMA WithoutNothing ==
    ASSUME NEW X, NEW txs \in Seq(X)
    PROVE  Without(txs, {}) = txs
  <1> DEFINE Q == {txs[i] : i \in DOMAIN txs}
  <1>1. Places(txs, Q) = DOMAIN txs
    BY DEF Places
  <1>2. Picked(txs, Q) = txs
    <2>1. \A i \in DOMAIN txs : txs[i] \in Q
      OBVIOUS
    <2> HIDE DEF Q
    <2> QED  BY <2>1, PickAll
  <1>3. DOMAIN txs \ {} = DOMAIN txs
    OBVIOUS
  <1> QED  BY <1>1, <1>2, <1>3 DEF Picked, Without

(* What has no BR on ledger l up to a block has none before it, and its    *)
(* list in that block is everything the ledger executed.                   *)
LEMMA WithoutBR ==
    ASSUME run \in Runs, NEW n \in Nat, n + 1 \in DOMAIN run, NEW l \in Ledgers, NoBR(l, n + 1)
    PROVE  NoBR(l, n) /\ Listed(run[n + 1], l) = Actions(run[n + 1], l)
  <1>1. \A m \in 1..n : m \in 1..n + 1
    OBVIOUS
  <1>2. NoBR(l, n)
    BY <1>1 DEF NoBR
  <1>3. \A i \in DOMAIN run[n + 1] : run[n + 1][i].kind = "BR" => LedgerOf(run[n + 1][i]) # l
    <2>1. n + 1 \in 1..n + 1
      OBVIOUS
    <2> QED  BY <2>1 DEF NoBR
  <1>4. PlacesOf(run[n + 1], {"BG", "BS", "BT"}, l) = PlacesOf(run[n + 1], {"BG", "BS", "BT", "BR"}, l)
    BY <1>3 DEF PlacesOf
  <1> QED  BY <1>2, <1>4 DEF Listed, Actions

(* A block of the chain is well listed, and a ledger's list in it is some  *)
(* order of what the batch lists.                                          *)
LEMMA BlockIsWellListed ==
    ASSUME Sound, ChainInv, NEW n \in DOMAIN blocks
    PROVE  /\ WellListed(blocks[n]) /\ n \in DOMAIN run
           /\ \A l \in Ledgers :
                 /\ blocks[n].p_ledgers[l] \in Seq(Tx) /\ Listed(run[n], l) \in Seq(Tx)
                 /\ ToSet(blocks[n].p_ledgers[l]) = ToSet(Listed(run[n], l))
                 /\ Distinct(blocks[n].p_ledgers[l]) /\ Distinct(Listed(run[n], l))
  <1> DEFINE b == blocks[n]
  <1>1. /\ n \in DOMAIN run /\ run \in Runs
        /\ b.c_ledger = Normal(run[n]) /\ b.p_ledgers \in [Ledgers -> Seq(Tx)]
    BY BlockPlaces DEF Sound, TypeOK, ChainInv, ChainOf
  <1>2. b.c_ledger \in Seq(Tx) /\ \A i \in DOMAIN b.c_ledger : b.c_ledger[i].kind = NormalKind
    BY <1>1, NormalFacts
  <1>3. ASSUME NEW l \in Ledgers
        PROVE  /\ b.p_ledgers[l] \in Seq(Tx) /\ Listed(run[n], l) \in Seq(Tx)
               /\ ToSet(b.p_ledgers[l]) = ToSet(Listed(run[n], l))
               /\ Distinct(b.p_ledgers[l]) /\ Distinct(Listed(run[n], l))
               /\ \A i \in DOMAIN b.p_ledgers[l] :
                     /\ b.p_ledgers[l][i].kind \in {"BG", "BS", "BT"}
                     /\ LedgerOf(b.p_ledgers[l][i]) = l
    <2> DEFINE s == b.p_ledgers[l]
               L == Listed(run[n], l)
    <2>1. /\ ToSet(s) = ToSet(L)
          /\ \A i, j \in DOMAIN s : i < j => s[i].hash > s[j].hash
      BY DEF Sound, BlockComplete
    <2>2. NormalKind \notin {"BG", "BS", "BT"}
      BY DEF NormalKind
    <2>3. /\ L \in Seq(Tx)
          /\ \A i \in DOMAIN L : L[i].kind \in {"BG", "BS", "BT"} /\ LedgerOf(L[i]) = l
          /\ Distinct(L)
      BY <1>1, <2>2, ListFacts DEF Listed, Distinct
    <2>4. s \in Seq(Tx)
      BY <1>1
    <2> HIDE DEF s, L
    <2>5. ASSUME NEW i \in DOMAIN s PROVE \E j \in DOMAIN L : s[i] = L[j]
      <3>1. s[i] \in ToSet(s)
        BY DEF ToSet
      <3> QED  BY <2>1, <3>1 DEF ToSet
    <2>6. Distinct(s)
      <3>1. \A i \in DOMAIN s : i \in Int /\ s[i] \in Tx
        BY <2>4
      <3>2. \A tx \in Tx : tx.hash \in Int
        BY DEF Tx
      <3>3. ASSUME NEW i \in DOMAIN s, NEW j \in DOMAIN s, i # j PROVE s[i].hash # s[j].hash
        <4>1. i < j \/ j < i
          BY <3>1, <3>3
        <4>2. s[i].hash \in Int /\ s[j].hash \in Int
          BY <3>1, <3>2
        <4> QED  BY <2>1, <4>1, <4>2
      <3> QED  BY <3>3 DEF Distinct
    <2>7. \A i \in DOMAIN s : s[i].kind \in {"BG", "BS", "BT"} /\ LedgerOf(s[i]) = l
      BY <2>3, <2>5
    <2> QED  BY <2>1, <2>3, <2>4, <2>6, <2>7 DEF s, L
  <1>4. WellListed(b)
    BY <1>1, <1>2, <1>3 DEF WellListed
  <1> QED  BY <1>1, <1>3, <1>4

(* What a peer adds comes behind what it has.                              *)
LEMMA PeerAppends ==
    ASSUME Sound, ChainInv, NEW n \in DOMAIN blocks, peer'.added = Append(peer.added, n)
    PROVE  /\ peer'.added \in Seq(Nat) /\ Len(peer.added) \in Nat
           /\ Len(peer'.added) = Len(peer.added) + 1
           /\ \A i \in DOMAIN peer'.added : peer'.added[i] \in 1..Len(blocks)
           /\ InSequence' => InSequence /\ n = Len(peer.added) + 1
  <1> DEFINE q == peer.added
             r == peer'.added
  <1>1. q \in Seq(Nat) /\ (\A i \in DOMAIN q : q[i] \in 1..Len(blocks)) /\ r = Append(q, n)
    BY DEF ChainInv, PeerInv
  <1>2. n \in Nat /\ n \in 1..Len(blocks)
    BY BlockPlaces DEF Sound
  <1>3. (InSequence <=> \A i \in DOMAIN q : q[i] = i) /\ (InSequence' <=> \A i \in DOMAIN r : r[i] = i)
    BY DEF InSequence
  <1> HIDE DEF q, r
  <1>4. /\ r \in Seq(Nat) /\ Len(r) = Len(q) + 1 /\ Len(q) \in Nat /\ r[Len(q) + 1] = n
        /\ \A i \in 1..Len(q) : r[i] = q[i]
        /\ DOMAIN q = 1..Len(q) /\ DOMAIN r = 1..Len(q) + 1
    BY <1>1, <1>2, AppendProperties
  <1>5. ASSUME NEW i \in DOMAIN r PROVE r[i] \in 1..Len(blocks)
    <2>1. i \in DOMAIN q \/ i = Len(q) + 1
      BY <1>4
    <2> QED  BY <1>1, <1>2, <1>4, <2>1
  <1>6. ASSUME \A i \in DOMAIN r : r[i] = i
        PROVE  (\A i \in DOMAIN q : q[i] = i) /\ n = Len(q) + 1
    <2>1. \A i \in DOMAIN q : i \in DOMAIN r
      BY <1>4
    <2>2. Len(q) + 1 \in DOMAIN r
      BY <1>4
    <2> QED  BY <1>4, <1>6, <2>1, <2>2
  <1> QED  BY <1>3, <1>4, <1>5, <1>6 DEF q, r

(* A peer that adds the next block gets the tries that block left behind,  *)
(* of the ledgers that missed no record of it on either side.              *)
LEMMA PeerStep ==
    ASSUME Sound, ChainInv, PeerAdds, astray \subseteq astray'
    PROVE  PeerInv'
  <1> DEFINE Adds(n, missed) ==
           /\ astray' = astray \cup {<<l, n>> : l \in {m \in Ledgers : missed[m] # {}}}
           /\ peer' = [added |-> Append(peer.added, n),
                       core |-> FoldLeft(ApplyNormalTx, peer.core, Normal(InBlock(blocks[n]))),
                       trie |-> [l \in Ledgers |-> PeerTrie(blocks[n], missed, l)]]
  <1>0. PICK n \in DOMAIN blocks : \E missed : Adds(n, missed)
    BY DEF PeerAdds
  <1>1. PICK missed : Adds(n, missed)
    BY <1>0
  <1> DEFINE k == Len(peer.added)
             b == blocks[n]
  <1>2. /\ peer'.added \in Seq(Nat) /\ k \in Nat /\ Len(peer'.added) = k + 1
        /\ \A i \in DOMAIN peer'.added : peer'.added[i] \in 1..Len(blocks)
        /\ InSequence' => InSequence /\ n = k + 1
    <2>1. peer'.added = Append(peer.added, n)
      BY <1>1
    <2> QED  BY <2>1, PeerAppends
  <1>3. UNCHANGED <<run, blocks>>
    BY DEF PeerAdds
  <1>4. /\ peer'.core = Applied(peer.core, Normal(InBlock(b)))
        /\ \A l \in Ledgers : peer'.trie[l] = PeerTrie(b, missed, l)
    BY <1>1 DEF Applied
  <1>5. ASSUME NEW l \in Ledgers, <<l, n>> \notin astray' PROVE missed[l] = {} /\ <<l, n>> \notin astray
    BY <1>1, <1>5
  <1>6. /\ WellListed(b) /\ n \in DOMAIN run /\ run \in Runs /\ ChainOf(n)
        /\ \A l \in Ledgers :
              /\ b.p_ledgers[l] \in Seq(Tx) /\ Listed(run[n], l) \in Seq(Tx)
              /\ ToSet(b.p_ledgers[l]) = ToSet(Listed(run[n], l))
              /\ Distinct(b.p_ledgers[l]) /\ Distinct(Listed(run[n], l))
    BY BlockIsWellListed DEF Sound, TypeOK, ChainInv
  <1>7. /\ Normal(InBlock(b)) = b.c_ledger
        /\ \A l \in Ledgers : Actions(InBlock(b), l) = b.p_ledgers[l]
    BY <1>6, InBlockLists
  <1>8. /\ \A m : CoreAt(m)' = CoreAt(m) /\ RootsAt(m)' = RootsAt(m)
        /\ \A m, l : (NoBR(l, m)' <=> NoBR(l, m)) /\ (Faithful(l, m)' => Faithful(l, m))
    BY <1>3, ChainFrame
  <1>9. ASSUME InSequence' PROVE AtBlock(Len(peer.added))'
    <2>1. /\ n = k + 1 /\ n # 0 /\ n - 1 = k /\ peer.core = CoreAt(k)
          /\ \A l \in Ledgers : NoBR(l, k) /\ Faithful(l, k) => peer.trie[l] = RootsAt(k)[l]
      <3>1. InSequence /\ n = k + 1 /\ k \in Nat
        BY <1>2, <1>9
      <3>2. AtBlock(k)
        BY <3>1 DEF ChainInv, PeerInv
      <3> HIDE DEF k
      <3>3. n # 0 /\ n - 1 = k
        BY <3>1
      <3> QED  BY <3>1, <3>2, <3>3 DEF AtBlock
    <2>2. CoreAt(n) = b.core /\ RootsAt(n) = b.roots
      BY <2>1 DEF CoreAt, RootsAt
    <2>3. /\ b.c_ledger = Normal(run[n])
          /\ b.core = CoreAfter(CoreAt(k), b.c_ledger, Len(b.c_ledger))
          /\ \A l \in Ledgers : <<l, n>> \notin astray =>
                b.roots[l] = TrieAfter(RootsAt(k)[l], Actions(run[n], l))
      BY <1>6, <2>1 DEF ChainOf
    <2>4. k \in Nat
      BY <1>2
    <2> HIDE DEF k, b
    <2>5. peer'.core = CoreAt(n)
      <3>1. \A t : Applied(t, Normal(run[n])) = CoreAfter(t, Normal(run[n]), Len(Normal(run[n])))
        BY <1>6, CoreOfBatch
      <3> QED  BY <1>4, <1>7, <2>1, <2>2, <2>3, <3>1
    <2>6. ASSUME NEW l \in Ledgers, NoBR(l, n), Faithful(l, n)' PROVE peer'.trie[l] = RootsAt(n)[l]
      <3>1. NoBR(l, k) /\ Listed(run[n], l) = Actions(run[n], l)
        BY <1>6, <2>1, <2>4, <2>6, WithoutBR
      <3>2. <<l, n>> \notin astray' /\ Faithful(l, k)
        <4>1. n \in 1..n /\ 1..k \subseteq 1..n
          BY <2>1, <2>4
        <4>2. Faithful(l, n)
          BY <1>8, <2>6
        <4> QED  BY <2>6, <4>1, <4>2 DEF Faithful
      <3>3. Without(Executed(b)[l], missed[l]) = b.p_ledgers[l]
        <4>1. Executed(b)[l] = b.p_ledgers[l] /\ b.p_ledgers[l] \in Seq(Tx)
          BY <1>6, <1>7 DEF Executed
        <4>2. missed[l] = {}
          BY <1>5, <3>2
        <4> QED  BY <4>1, <4>2, WithoutNothing
      <3>4. peer'.trie[l] = TrieAfter(peer.trie[l], b.p_ledgers[l])
        <4>1. \A blk, t, txs : Ledger(blk)!BlockTrie(t, txs) = TrieAfter(t, txs)
          BY PromisedTrie
        <4> QED  BY <1>4, <3>3, <4>1 DEF PeerTrie
      <3>5. \A t : TrieAfter(t, b.p_ledgers[l]) = TrieAfter(t, Listed(run[n], l))
        BY <1>6, OrderIgnored
      <3>6. peer.trie[l] = RootsAt(k)[l]
        BY <2>1, <3>1, <3>2
      <3>7. <<l, n>> \notin astray
        BY <1>5, <3>2
      <3> QED  BY <2>2, <2>3, <3>1, <3>4, <3>5, <3>6, <3>7
    <2>7. Len(peer'.added) = n
      BY <1>2, <2>1 DEF k
    <2> QED  BY <1>8, <2>5, <2>6, <2>7 DEF AtBlock
  <1> QED  BY <1>2, <1>3, <1>9 DEF PeerInv

(* The chain stays as it is while its blocks do.                           *)
LEMMA ChainStays ==
    ASSUME ChainInv, UNCHANGED <<run, blocks>>, astray \subseteq astray'
    PROVE  /\ \A n \in DOMAIN blocks' : ChainOf(n)'
           /\ UNCHANGED peer => PeerInv'
  <1>1. \A n : /\ CoreAt(n)' = CoreAt(n) /\ RootsAt(n)' = RootsAt(n)
               /\ ChainOf(n) => ChainOf(n)'
               /\ \A l : (NoBR(l, n)' <=> NoBR(l, n)) /\ (Faithful(l, n)' => Faithful(l, n))
    BY ChainFrame
  <1>2. ASSUME UNCHANGED peer PROVE PeerInv'
    <2>1. InSequence' <=> InSequence
      BY <1>2 DEF InSequence
    <2>2. \A n : AtBlock(n) => AtBlock(n)'
      BY <1>1, <1>2 DEF AtBlock
    <2> QED  BY <1>2, <2>1, <2>2 DEF ChainInv, PeerInv
  <1> QED  BY <1>1, <1>2 DEF ChainInv

(* Each step of the leader on a batch takes the tries where TriesInv says. *)
LEMMA BeginTries ==
    ASSUME Sound, ChainInv, Begin
    PROVE  TriesInv'
  <1>1. /\ pc = "idle" /\ pc' = "working" /\ Len(blocks) < Len(run)
        /\ coreAt' = 0 /\ over' = {} /\ done' = {}
        /\ UNCHANGED <<run, blocks, core, trie, astray>>
    BY DEF Begin
  <1>2. /\ batch' = batch /\ \A n : CoreAt(n)' = CoreAt(n) /\ RootsAt(n)' = RootsAt(n)
    BY <1>1, ChainFrame
  <1>3. Len(Normal(batch)) \in Nat /\ \A t : CoreAfter(t, Normal(batch), 0) = t
    <2>1. run \in Runs /\ Len(blocks) + 1 \in DOMAIN run
      BY <1>1, BlockPlaces DEF Sound, TypeOK
    <2> QED  BY <2>1, CoreOfBatch DEF batch
  <1>4. /\ trie = [l \in Ledgers |-> trie[l]] /\ core = CoreAt(Len(blocks))
        /\ \A l \in Ledgers : trie[l] = RootsAt(Len(blocks))[l]
    BY <1>1 DEF ChainInv, TriesInv
  <1>5. CoreAfter(CoreAt(Len(blocks)), Normal(batch), 0) = CoreAt(Len(blocks)) /\ 0 <= Len(Normal(batch))
    BY <1>3
  <1> QED  BY <1>1, <1>2, <1>4, <1>5 DEF TriesInv

(* A transaction of the core ledger: its trie is that of the block before  *)
(* and the transactions so far.                                            *)
LEMMA CoreTriesStep ==
    ASSUME Sound, ChainInv, CoreNext
    PROVE  TriesInv'
  <1>1. /\ pc = "working" /\ UNCHANGED <<run, blocks, pc, over, trie, done, astray>>
        /\ coreAt' = coreAt + 1 /\ core' = ApplyNormalTx(core, Normal(batch)[coreAt + 1])
        /\ coreAt < Len(Normal(batch))
    BY DEF CoreNext, ledgerVars
  <1>2. /\ batch' = batch /\ \A n : CoreAt(n)' = CoreAt(n) /\ RootsAt(n)' = RootsAt(n)
    BY <1>1, ChainFrame
  <1>3. /\ Len(Normal(batch)) \in Nat
        /\ \A t : \A k \in 0..Len(Normal(batch)) - 1 :
              CoreAfter(t, Normal(batch), k + 1)
                 = ApplyNormalTx(CoreAfter(t, Normal(batch), k), Normal(batch)[k + 1])
    <2>1. run \in Runs /\ Len(blocks) + 1 \in DOMAIN run
      BY <1>1, BlockPlaces DEF Sound, TypeOK, WorkInv
    <2> QED  BY <2>1, CoreOfBatch DEF batch
  <1>4. /\ trie = [l \in Ledgers |-> trie[l]]
        /\ core = CoreAfter(CoreAt(Len(blocks)), Normal(batch), coreAt)
        /\ "core" \in over => coreAt = Len(Normal(batch))
        /\ \A l \in Ledgers : <<l, Len(blocks) + 1>> \notin astray \/ l \notin done =>
              trie[l] = IF l \in done THEN TrieAfter(RootsAt(Len(blocks))[l], Actions(batch, l))
                        ELSE RootsAt(Len(blocks))[l]
    BY <1>1 DEF ChainInv, TriesInv
  <1>5. coreAt \in 0..Len(Normal(batch)) - 1 /\ coreAt + 1 <= Len(Normal(batch))
    BY <1>1, <1>3 DEF Sound, CoreTypes
  <1>6. core' = CoreAfter(CoreAt(Len(blocks)), Normal(batch), coreAt + 1)
    BY <1>1, <1>3, <1>4, <1>5
  <1>7. "core" \notin over
    BY <1>1, <1>4, <1>5
  <1> QED  BY <1>1, <1>2, <1>4, <1>5, <1>6, <1>7 DEF TriesInv

(* A peripheral ledger is through: its trie is that of the block before    *)
(* and its actions, if it missed none.                                     *)
LEMMA LedgerTriesStep ==
    ASSUME Sound, ChainInv, NEW l \in Ledgers, LedgerNext(l)
    PROVE  TriesInv'
  <1> DEFINE n == Len(blocks)
  <1>1. /\ pc = "working" /\ UNCHANGED <<run, blocks, pc, over, core, coreAt>>
        /\ l \notin done /\ done' = done \cup {l}
    BY DEF LedgerNext, Ledger!Process, coreVars
  <1>2. PICK missed \in Missed(Actions(batch, l)) :
           /\ Ledger([m \in {l} |-> Without(Actions(batch, l), missed)])!Process(l)
           /\ astray' = IF missed = {} THEN astray ELSE astray \cup {<<l, n + 1>>}
    BY DEF LedgerNext
  <1>3. trie' = [trie EXCEPT ![l] = TrieAfter(trie[l], Without(Actions(batch, l), missed))]
    <2> DEFINE blk == [m \in {l} |-> Without(Actions(batch, l), missed)]
    <2>1. \A t, txs : Ledger(blk)!BlockTrie(t, txs) = TrieAfter(t, txs)
      BY PromisedTrie
    <2>2. trie' = [trie EXCEPT ![l] = Ledger(blk)!BlockTrie(trie[l], blk[l])]
      BY <1>2 DEF Ledger!Process
    <2>3. blk[l] = Without(Actions(batch, l), missed)
      OBVIOUS
    <2> HIDE DEF blk
    <2> QED  BY <2>1, <2>2, <2>3
  <1>4. /\ batch' = batch /\ \A m : CoreAt(m)' = CoreAt(m) /\ RootsAt(m)' = RootsAt(m)
    BY <1>1, <1>2, ChainFrame
  <1>5. /\ trie = [m \in Ledgers |-> trie[m]]
        /\ coreAt <= Len(Normal(batch))
        /\ core = CoreAfter(CoreAt(n), Normal(batch), coreAt)
        /\ "core" \in over => coreAt = Len(Normal(batch))
        /\ \A m \in Ledgers : <<m, n + 1>> \notin astray \/ m \notin done =>
              trie[m] = IF m \in done THEN TrieAfter(RootsAt(n)[m], Actions(batch, m))
                        ELSE RootsAt(n)[m]
    BY <1>1 DEF ChainInv, TriesInv
  <1>6. DOMAIN trie = Ledgers
    BY <1>5
  <1>7. /\ trie' = [m \in Ledgers |-> trie'[m]]
        /\ trie'[l] = TrieAfter(trie[l], Without(Actions(batch, l), missed))
        /\ \A m \in Ledgers : m # l => trie'[m] = trie[m]
    BY <1>3, <1>6
  <1>8. Actions(batch, l) \in Seq(Tx)
    <2>1. run \in Runs /\ n + 1 \in DOMAIN run
      BY <1>1, BlockPlaces DEF Sound, TypeOK, WorkInv
    <2>2. run[n + 1] \in Seq(Tx)
      BY <2>1, BatchFacts
    <2>3. NormalKind \notin {"BG", "BS", "BT", "BR"}
      BY DEF NormalKind
    <2> QED  BY <2>1, <2>3, ListFacts DEF Actions, batch
  <1>9. <<l, n + 1>> \notin astray' => trie'[l] = TrieAfter(RootsAt(n)[l], Actions(batch, l))
    <2>1. ASSUME <<l, n + 1>> \notin astray'
          PROVE  missed = {}
      BY <1>2, <2>1
    <2>2. Without(Actions(batch, l), {}) = Actions(batch, l)
      BY <1>8, WithoutNothing
    <2> QED  BY <1>1, <1>5, <1>7, <2>1, <2>2
  <1> HIDE DEF n
  <1>10. \A m \in Ledgers : <<m, n + 1>> \notin astray' \/ m \notin done' =>
           trie'[m] = IF m \in done' THEN TrieAfter(RootsAt(n)[m], Actions(batch, m))
                      ELSE RootsAt(n)[m]
    <2>1. astray \subseteq astray'
      BY <1>2
    <2> QED  BY <1>1, <1>5, <1>7, <1>9, <2>1
  <1> QED  BY <1>1, <1>4, <1>5, <1>7, <1>10 DEF TriesInv, n

(* The block that is made has the tries of its own transactions.           *)
LEMMA ReturnChain ==
    ASSUME Sound, ChainInv, Return
    PROVE  ChainInv'
  <1> DEFINE n == Len(blocks) + 1
             b == [c_ledger |-> Normal(batch), p_ledgers |-> lists,
                   hash |-> allHash, core |-> core, roots |-> trie]
  <1>1. /\ blocks' = Append(blocks, b) /\ pc' = "idle"
        /\ UNCHANGED <<run, core, trie, astray, peer>>
    BY DEF Return, coreVars, ledgerVars
  <1>2. /\ b.c_ledger = Normal(batch) /\ b.p_ledgers = lists /\ b.core = core /\ b.roots = trie
    OBVIOUS
  <1> HIDE DEF b
  <1>3. /\ Len(blocks') = n /\ DOMAIN blocks' = 1..n /\ DOMAIN blocks = 1..Len(blocks)
        /\ \A m \in DOMAIN blocks : blocks'[m] = blocks[m]
        /\ blocks'[n] = b /\ Len(blocks) \in Nat
    BY <1>1, BlocksGrow DEF Sound
  <1>4. /\ over = {"sort", "hash", "core"} /\ done = Ledgers /\ pc = "working"
    BY AllOver DEF Sound
  <1>5. /\ trie = [l \in Ledgers |-> trie[l]]
        /\ core = CoreAfter(CoreAt(Len(blocks)), Normal(batch), Len(Normal(batch)))
        /\ \A l \in Ledgers : <<l, n>> \notin astray =>
              trie[l] = TrieAfter(RootsAt(Len(blocks))[l], Actions(batch, l))
    BY <1>4 DEF ChainInv, TriesInv
  <1>6. \A m \in 0..Len(blocks) : CoreAt(m)' = CoreAt(m) /\ RootsAt(m)' = RootsAt(m)
    <2>1. \A m \in 0..Len(blocks) : m # 0 => m \in DOMAIN blocks
      BY <1>3
    <2> QED  BY <1>3, <2>1 DEF CoreAt, RootsAt
  <1>7. \A m : m = n => CoreAt(m)' = core /\ RootsAt(m)' = trie
    <2>1. n # 0
      BY <1>3
    <2> HIDE DEF n
    <2> QED  BY <1>2, <1>3, <2>1 DEF CoreAt, RootsAt
  <1>8. ASSUME NEW m \in DOMAIN blocks' PROVE ChainOf(m)'
    <2>1. CASE m = n
      <3>1. m - 1 = Len(blocks) /\ m - 1 \in 0..Len(blocks) /\ run[m] = batch
        BY <1>3, <2>1 DEF batch
      <3>2. CoreAt(m - 1)' = CoreAt(Len(blocks)) /\ RootsAt(m - 1)' = RootsAt(Len(blocks))
        BY <1>6, <3>1
      <3>3. /\ blocks'[m].c_ledger = Normal(run[m]) /\ blocks'[m].p_ledgers = lists
            /\ blocks'[m].core = core /\ blocks'[m].roots = trie /\ run' = run /\ astray' = astray
        BY <1>1, <1>2, <1>3, <2>1, <3>1
      <3>4. lists \in [Ledgers -> Seq(Tx)]
        BY DEF Sound, TypeOK
      <3> HIDE DEF n
      <3> QED  BY <1>5, <2>1, <3>1, <3>2, <3>3, <3>4 DEF ChainOf
    <2>2. CASE m # n
      <3>1. m \in DOMAIN blocks /\ m - 1 \in 0..Len(blocks)
        BY <1>3, <2>2
      <3>2. blocks'[m] = blocks[m] /\ CoreAt(m - 1)' = CoreAt(m - 1) /\ RootsAt(m - 1)' = RootsAt(m - 1)
        BY <1>3, <1>6, <3>1
      <3>3. ChainOf(m) /\ run' = run /\ astray' = astray
        BY <1>1, <3>1 DEF ChainInv
      <3> QED  BY <3>2, <3>3 DEF ChainOf
    <2> QED  BY <2>1, <2>2
  <1>9. TriesInv'
    <2>1. Len(blocks') = n /\ CoreAt(Len(blocks))' = core /\ RootsAt(Len(blocks))' = trie
      BY <1>3, <1>7
    <2> QED  BY <1>1, <1>5, <2>1 DEF TriesInv
  <1>10. PeerInv'
    <2>1. /\ peer.added \in Seq(Nat) /\ \A i \in DOMAIN peer.added : peer.added[i] \in 1..Len(blocks)
          /\ InSequence => AtBlock(Len(peer.added))
      BY DEF ChainInv, PeerInv
    <2>2. \A i \in DOMAIN peer.added : peer.added[i] \in 1..Len(blocks')
      BY <1>3, <2>1
    <2>3. InSequence' <=> InSequence
      BY <1>1 DEF InSequence
    <2>4. ASSUME InSequence PROVE AtBlock(Len(peer.added))'
      <3> DEFINE k == Len(peer.added)
      <3>1. k \in 0..Len(blocks)
        <4>1. k \in Nat /\ (k # 0 => k \in DOMAIN peer.added)
          BY <2>1
        <4>2. k # 0 => k \in 1..Len(blocks)
          BY <2>1, <2>4, <4>1 DEF InSequence
        <4> QED  BY <1>3, <4>1, <4>2
      <3>2. CoreAt(k)' = CoreAt(k) /\ RootsAt(k)' = RootsAt(k) /\ AtBlock(k)
        BY <1>1, <1>6, <2>1, <2>4, <3>1
      <3>3. \A l : (NoBR(l, k)' <=> NoBR(l, k)) /\ (Faithful(l, k)' <=> Faithful(l, k))
        BY <1>1 DEF NoBR, Faithful
      <3> QED  BY <1>1, <3>2, <3>3 DEF AtBlock
    <2> QED  BY <1>1, <2>1, <2>2, <2>3, <2>4 DEF PeerInv
  <1>11. AloneInv'
    BY <1>1 DEF ChainInv, AloneInv
  <1> QED  BY <1>8, <1>9, <1>10, <1>11 DEF ChainInv

(* The other steps write no trie.                                          *)
LEMMA OtherTries ==
    ASSUME Sound, ChainInv,
           UNCHANGED <<run, blocks, pc, coreAt, core, trie, done>>, astray \subseteq astray',
           "core" \in over' => "core" \in over \/ coreAt = Len(Normal(batch))
    PROVE  TriesInv'
  <1>1. /\ batch' = batch /\ \A n : CoreAt(n)' = CoreAt(n) /\ RootsAt(n)' = RootsAt(n)
    BY ChainFrame
  <1> QED  BY <1>1 DEF ChainInv, TriesInv

(* So the chain of tries is kept by every step of the leader and of the    *)
(* peer ...                                                                *)
LEMMA NextChain == Sound /\ ChainInv /\ [Next]_vars => ChainInv'
  <1> SUFFICES ASSUME Sound, ChainInv, [Next]_vars PROVE ChainInv'
    OBVIOUS
  <1>0. astray \subseteq astray' /\ AloneInv'
    BY NextAstray DEF ChainInv
  <1>1. CASE Return
    BY <1>1, ReturnChain
  <1>2. CASE ~Return
    <2>1. UNCHANGED <<run, blocks>> /\ (PeerAdds \/ UNCHANGED peer)
      BY <1>2 DEF Next, vars, Begin, Working, SortOver, HashOver, CoreNext, CoreOver, NextElement,
                  FirstStore, SecondStore, HashNext, LedgerNext, PeerAdds, Finished
    <2>2. (\A n \in DOMAIN blocks' : ChainOf(n)') /\ PeerInv'
      BY <1>0, <2>1, ChainStays, PeerStep
    <2>3. TriesInv'
      <3>1. CASE Begin
        BY <3>1, BeginTries
      <3>2. CASE CoreNext
        BY <3>2, CoreTriesStep
      <3>3. ASSUME NEW l \in Ledgers, LedgerNext(l) PROVE TriesInv'
        BY <3>3, LedgerTriesStep
      <3>4. CASE ~Begin /\ ~CoreNext /\ ~\E l \in Ledgers : LedgerNext(l)
        <4>1. UNCHANGED <<run, blocks, pc, coreAt, core, trie, done>>
          BY <1>2, <3>4 DEF Next, vars, Working, SortOver, HashOver, CoreOver, NextElement,
                  FirstStore, SecondStore, HashNext, PeerAdds, Finished, coreVars, ledgerVars
        <4>2. "core" \in over' => "core" \in over \/ coreAt = Len(Normal(batch))
          BY <1>2, <3>4 DEF Next, vars, Working, SortOver, HashOver, CoreOver, NextElement,
                  FirstStore, SecondStore, HashNext, PeerAdds, Finished, Over
        <4> QED  BY <1>0, <4>1, <4>2, OtherTries
      <3> QED  BY <3>1, <3>2, <3>3, <3>4
    <2> QED  BY <1>0, <2>2, <2>3 DEF ChainInv
  <1> QED  BY <1>1, <1>2

(* ... and starts with the empty chain.                                    *)
LEMMA InitChain == Init => ChainInv
  <1> SUFFICES ASSUME Init PROVE ChainInv
    OBVIOUS
  <1>1. /\ blocks = <<>> /\ pc = "idle" /\ core = EmptyTrie
        /\ trie = [l \in Ledgers |-> EmptyTrie]
        /\ peer = [added |-> <<>>, core |-> EmptyTrie, trie |-> [l \in Ledgers |-> EmptyTrie]]
        /\ astray = {}
    BY DEF Init
  <1>2. Len(blocks) = 0 /\ DOMAIN blocks = {}
    BY <1>1
  <1>3. CoreAt(0) = EmptyTrie /\ \A l \in Ledgers : RootsAt(0)[l] = EmptyTrie
    BY DEF CoreAt, RootsAt
  <1>4. TriesInv
    BY <1>1, <1>2, <1>3 DEF TriesInv
  <1>5. PeerInv
    <2>1. peer.added = <<>> /\ <<>> \in Seq(Nat) /\ DOMAIN <<>> = {} /\ Len(<<>>) = 0
      BY <1>1
    <2> QED  BY <1>1, <1>3, <2>1 DEF PeerInv, AtBlock
  <1> QED  BY <1>1, <1>2, <1>4, <1>5 DEF ChainInv, AloneInv

(* A peer that has added the blocks up to one, in their order, has the     *)
(* leader's core trie of that block, and the leader's trie of every ledger *)
(* that has executed no BR and missed no record of another transaction, on *)
(* either side, so far; with a single ledger, none can be missed.          *)
(* AddBlock gives ProcessBanknoteTxs back the lists of the block, in       *)
(* another order, and those lists are all but the BR.                      *)
THEOREM PeersAgree == Spec => []PeerAgrees
  <1>1. Spec => []Sound
    <2>1. TypeOK /\ WorkInv /\ CoreTypes /\ [Next]_vars => CoreTypes'
      BY CorePays
    <2> QED  BY <2>1, InitCore, FinishedWork, PTL DEF Spec, Sound
  <1>2. ChainInv => PeerAgrees
    <2> SUFFICES ASSUME ChainInv, Len(peer.added) > 0, InSequence
                 PROVE  LET n == Len(peer.added) IN
                        /\ peer.core = blocks[n].core
                        /\ \A l \in Ledgers :
                              NoBR(l, n) /\ (P = 1 \/ Faithful(l, n)) => peer.trie[l] = blocks[n].roots[l]
      BY DEF PeerAgrees
    <2> DEFINE n == Len(peer.added)
    <2>1. n # 0
      OBVIOUS
    <2>2. AtBlock(n)
      BY DEF ChainInv, PeerInv
    <2>3. P = 1 => \A l : Faithful(l, n)
      BY DEF ChainInv, AloneInv, Faithful
    <2> HIDE DEF n
    <2>4. peer.core = blocks[n].core
      BY <2>1, <2>2 DEF AtBlock, CoreAt
    <2>5. ASSUME NEW l \in Ledgers, NoBR(l, n), P = 1 \/ Faithful(l, n)
          PROVE  peer.trie[l] = blocks[n].roots[l]
      BY <2>1, <2>2, <2>3, <2>5 DEF AtBlock, RootsAt
    <2> QED  BY <2>4, <2>5 DEF n
  <1> QED  BY <1>1, <1>2, InitChain, NextChain, PTL DEF Spec
=============================================================================
