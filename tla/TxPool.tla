------------------------------- MODULE TxPool -------------------------------
(***************************************************************************)
(* The bounded transaction pool of txPool/txpool.go: one mutex, one        *)
(* condition variable.  Producers add at the tail or at the head and wait  *)
(* while the pool is full; packers take from the head and wake everybody.  *)
(* A wait in the middle of a batch gives the mutex up, so other calls run  *)
(* between two additions of one call.                                      *)
(***************************************************************************)
EXTENDS Integers, Sequences, SequencesExt

CONSTANTS Producers,  \* goroutines that add transactions
          Holders,    \* goroutines that call GetLocked and GetUnlocked
          Nobody,     \* the mutex is free
          Txs,        \* transactions
          Scripts,    \* the sequences of calls a producer may make
          Capacity,   \* capacity
          MaxPack     \* largest number of transactions a packer asks for

Ops == {"tail", "head"}   \* AddTx2Pool and AddTxs2Pool; AddTxs2Pool_Head

ASSUME TxPoolAssumption ==
    /\ Capacity \in Nat \ {0}         \* NewTxPool panics otherwise
    /\ MaxPack \in Nat
    /\ Nobody \notin Producers \cup Holders
    /\ Producers \cap Holders = {}    \* who holds the mutex calls nothing that locks it
    /\ Scripts \subseteq [Producers -> Seq([op: Ops, txs: Seq(Txs)])]

(* A transaction is known by its pointer, and nobody adds the same one     *)
(* twice; without that, which of two equal ones was lost cannot be told.   *)
ASSUME DistinctTransactions ==
    \A s \in Scripts : \A p, q \in Producers : \A c \in DOMAIN s[p], d \in DOMAIN s[q] :
        \A i \in DOMAIN s[p][c].txs, j \in DOMAIN s[q][d].txs :
            s[p][c].txs[i] = s[q][d].txs[j] => p = q /\ c = d /\ i = j

VARIABLES script,   \* the calls of this run; never changes
          queue,    \* TxQueue
          lock,     \* who holds the mutex
          pc,       \* per producer: outside, inside, asleep in Wait, or awake
          call,     \* per producer: the number of the call it makes or made last
          todo,     \* per producer: the transactions this call has still to add
          packed    \* everything packed so far, in order
vars == <<script, queue, lock, pc, call, todo, packed>>

Init ==
    /\ script \in Scripts
    /\ queue = <<>> /\ packed = <<>>
    /\ lock = Nobody
    /\ pc = [p \in Producers |-> "outside"]
    /\ call = [p \in Producers |-> 0]
    /\ todo = [p \in Producers |-> <<>>]

Full == Len(queue) >= Capacity

BatchBackwards(p) == Reverse(script[p][call[p] + 1].txs)         \* variant
Batch(p) == script[p][call[p] + 1].txs

(* lock.Lock() at the start of a call.                                     *)
Enter(p) ==
    /\ pc[p] = "outside" /\ call[p] < Len(script[p])
    /\ lock = Nobody
    /\ lock' = p
    /\ pc' = [pc EXCEPT ![p] = "inside"]
    /\ call' = [call EXCEPT ![p] = @ + 1]
    /\ todo' = [todo EXCEPT ![p] = Batch(p)]
    /\ UNCHANGED <<script, queue, packed>>

(* One iteration: tail additions go through the batch forwards, head       *)
(* additions backwards.                                                    *)
Put(p) ==
    /\ pc[p] = "inside" /\ todo[p] # <<>>
    /\ ~Full
    /\ IF script[p][call[p]].op = "tail"
       THEN /\ queue' = Append(queue, Head(todo[p]))
            /\ todo' = [todo EXCEPT ![p] = Tail(@)]
       ELSE /\ queue' = <<Last(todo[p])>> \o queue
            /\ todo' = [todo EXCEPT ![p] = Front(@)]
    /\ UNCHANGED <<script, lock, pc, call, packed>>

(* cond.Wait(): releases the mutex and sleeps.                             *)
Wait(p) ==
    /\ pc[p] = "inside" /\ todo[p] # <<>>
    /\ Full
    /\ lock' = Nobody
    /\ pc' = [pc EXCEPT ![p] = "asleep"]
    /\ UNCHANGED <<script, queue, call, todo, packed>>

(* Back from cond.Wait(): the loop tests the condition again.              *)
Relock(p) ==
    /\ pc[p] = "awake"
    /\ lock = Nobody
    /\ lock' = p
    /\ pc' = [pc EXCEPT ![p] = "inside"]
    /\ UNCHANGED <<script, queue, call, todo, packed>>

Leave(p) ==
    /\ pc[p] = "inside" /\ todo[p] = <<>>
    /\ lock' = Nobody
    /\ pc' = [pc EXCEPT ![p] = "outside"]
    /\ UNCHANGED <<script, queue, call, todo, packed>>

(* cond.Broadcast(), and the variants Signal and nothing at all.           *)
Signal == LET s == {p \in Producers : pc[p] = "asleep"}
          IN IF s = {} THEN pc ELSE [pc EXCEPT ![CHOOSE p \in s : TRUE] = "awake"]
NoWakeup == pc
Broadcast == [p \in Producers |-> IF pc[p] = "asleep" THEN "awake" ELSE pc[p]]

LeftTooMuch(n) == SubSeq(queue, n, Len(queue))                   \* variant: off by one
Left(n) == SubSeq(queue, n + 1, Len(queue))

(* PackTxs(max).  PackTxsWithBytes(max) is the same action: every          *)
(* transaction counts the size of the struct, a constant: a limit in bytes *)
(* is a limit in number.  A call that finds nothing to pack returns nil    *)
(* and wakes nobody: it changes nothing.                                   *)
Pack(max) ==
    LET n == IF Len(queue) < max THEN Len(queue) ELSE max IN
    /\ lock = Nobody
    /\ n > 0
    /\ packed' = packed \o SubSeq(queue, 1, n)
    /\ queue' = Left(n)
    /\ pc' = Broadcast
    /\ UNCHANGED <<script, lock, call, todo>>

(* GetLocked() and GetUnlocked().                                          *)
Hold(h) == lock = Nobody /\ lock' = h /\ UNCHANGED <<script, queue, pc, call, todo, packed>>
Release(h) == lock = h /\ lock' = Nobody /\ UNCHANGED <<script, queue, pc, call, todo, packed>>

Step(p) == Enter(p) \/ Put(p) \/ Wait(p) \/ Relock(p) \/ Leave(p)

Next == \/ \E p \in Producers : Step(p)
        \/ \E max \in 0..MaxPack : Pack(max)
        \/ \E h \in Holders : Hold(h) \/ Release(h)

Spec == Init /\ [][Next]_vars

(* A packer keeps calling, a holder unlocks, and sync.Mutex hands itself   *)
(* to a waiter after 1 ms (starvation mode): nobody waits for it forever.  *)
FairSpec ==
    /\ Spec
    /\ \A p \in Producers : SF_vars(Enter(p) \/ Relock(p)) /\ WF_vars(Put(p) \/ Wait(p) \/ Leave(p))
    /\ \A h \in Holders : WF_vars(Release(h))
    /\ SF_vars(\E max \in 1..MaxPack : Pack(max))

-----------------------------------------------------------------------------
(* No wakeup is lost: a producer sleeps only while the pool is full, so    *)
(* whoever makes room finds it asleep and wakes it.                        *)
SleepersMeanFull == \A p \in Producers : pc[p] = "asleep" => Len(queue) = Capacity

Flow == packed \o queue           \* in the order they leave the pool
Given(p) == UNION {ToSet(script[p][c].txs) : c \in 1..call[p]}

(* With distinct transactions: what was given to the pool is packed, in    *)
(* the queue or still to be added, once.                                   *)
NothingLostOrDoubled ==
    /\ IsInjective(Flow)
    /\ ToSet(Flow) = UNION {Given(p) \ ToSet(todo[p]) : p \in Producers}

(* x comes before y in sequence s.                                         *)
Before(s, x, y) == \E i, j \in DOMAIN s : i < j /\ s[i] = x /\ s[j] = y

(* p adds x before y at the tail: in an earlier call, or earlier in one.   *)
GivenBefore(p, x, y) ==
    \E c, d \in DOMAIN script[p] :
        /\ script[p][c].op = "tail" /\ script[p][d].op = "tail"
        /\ \/ c < d /\ x \in ToSet(script[p][c].txs) /\ y \in ToSet(script[p][d].txs)
           \/ c = d /\ Before(script[p][c].txs, x, y)

(* At the tail, a producer's transactions leave the pool in the order of   *)
(* its calls and, within a call, of the batch (AddTxs2Pool, lines 60-68).  *)
TailOrder ==
    \A p \in Producers : \A x \in Txs, y \in ToSet(Flow) :
        GivenBefore(p, x, y) => Before(Flow, x, y)

(* At the head, what the pool holds of a batch stands in its order (line   *)
(* 77), even if other calls added and packed while it waited.              *)
HeadOrder ==
    \A p \in Producers : \A c \in 1..call[p] : script[p][c].op = "head" =>
        \A x, y \in ToSet(queue) :
            Before(script[p][c].txs, x, y) => Before(queue, x, y)

(* The order of a batch survives the waits inside a call.                  *)
BatchOrder == TailOrder /\ HeadOrder

(* Every transaction given to the pool is packed.                          *)
AllPacked == \A p \in Producers : \A c \in DOMAIN script[p] :
                 ToSet(script[p][c].txs) \subseteq ToSet(packed)
EventuallyPacked == <>AllPacked
=============================================================================
