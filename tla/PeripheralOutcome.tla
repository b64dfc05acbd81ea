-------------------------- MODULE PeripheralOutcome --------------------------
(***************************************************************************)
(* What a processed block leaves behind, stated from the transactions      *)
(* alone: which banknotes are active, whose they are, and the balances and *)
(* nonces of the ledger's state trie.                                      *)
(***************************************************************************)
EXTENDS PeripheralLedger, FiniteSetsExt

AllTasks == UNION {{l} \X DOMAIN Txs(l) : l \in Ledgers}
Tx(t) == Txs(t[1])[t[2]]

Mints(b) == {t \in AllTasks : \/ Tx(t).kind = "BG" /\ Tx(t).note = b
                              \/ Tx(t).kind = "BS" /\ b \in {Tx(t).note1, Tx(t).note2}}
Uses(k, b) == {t \in AllTasks : Tx(t).kind = k /\ Tx(t).note = b}
Materialises(b) == {t \in Uses("BT", b) : Tx(t).amount = InitAmount}

(* Every transaction on the banknote is in one ledger, which has processed *)
(* it with a steady number of workers.                                     *)
Settled(b) ==
    \E l \in Ledgers :
        /\ pc[l] = "finished" /\ WellCounted(l, 4)
        /\ \A t \in Mints(b) \cup UNION {Uses(k, b) : k \in Kinds} : t[1] = l

(* Banknote hashes are unique: a hash is made at most once, and the two    *)
(* shares of a split have different ones.                                  *)
MadeOnce(b) == /\ \A s, t \in Mints(b) : s = t
               /\ b \in workload.pool => Mints(b) = {}
               /\ \A t \in Mints(b) : Tx(t).kind = "BS" => Tx(t).note1 # Tx(t).note2
Made(b) == Mints(b) # {} \/ b \in workload.pool

(* Whether a banknote is active after the block does not depend on the     *)
(* interleaving: it is if it was made and not spent, even when the split   *)
(* that spends it ran before the split that made it (the recycle channel)  *)
(* or a transfer of it ran in between.                                     *)
PoolOutcome ==
    \A b \in Banknotes :
        Settled(b) /\ MadeOnce(b) /\ Materialises(b) = {} =>
            (pool[b] # NoBanknote <=> Made(b) /\ Uses("BS", b) \cup Uses("BR", b) = {})

(* A banknote that a BT worth InitAmount names and one BS spends.  If it   *)
(* was not active before, BT creates it and the recycled hash removes it   *)
(* (lines 320-326, 359-361).  If it was, BS removes it first, and BT then  *)
(* takes the missing banknote for an initial one: spent, it is active      *)
(* again after the block.                                                  *)
SpentInitialBanknote ==
    \A b \in Banknotes :
        /\ Settled(b) /\ MadeOnce(b)
        /\ Materialises(b) # {} /\ (\E t \in AllTasks : Uses("BS", b) = {t}) /\ Uses("BR", b) = {}
        /\ \A t \in Mints(b) : Tx(t).kind = "BG"
        => (pool[b] # NoBanknote <=> Made(b))

(* An active banknote belongs to a payee of a transfer of it, if there is  *)
(* one.  With several transfers the 20 bytes may come from two of them     *)
(* (WriteOwner), never from anyone else.                                   *)
OwnerOutcome ==
    \A b \in Banknotes :
        Settled(b) /\ MadeOnce(b) /\ pool[b] # NoBanknote /\ Uses("BT", b) # {} =>
            \A half \in {1, 2} : owner[pool[b]][half] \in {Tx(t).to : t \in Uses("BT", b)}

Due(l, a) ==
    MapThenSumSet(LAMBDA i : Txs(l)[i].amount, {i \in Tasks(l, 4) : Txs(l)[i].to = a})
      - MapThenSumSet(LAMBDA i : Txs(l)[i].amount, {i \in Tasks(l, 1) : Txs(l)[i].from = a})

(* The state trie committed for the block counts every BG and BR exactly   *)
(* once: the balance moves by the difference, or not at all if that would  *)
(* leave nothing, and the nonce of every account named moves by one.       *)
AccountsOutcome ==
    \A l \in Ledgers : pc[l] = "finished" /\ WellCounted(l, 4) =>
        \A a \in Accounts :
            LET named == \/ \E i \in Tasks(l, 1) : Txs(l)[i].from = a
                         \/ \E i \in Tasks(l, 4) : Txs(l)[i].to = a
                due == Due(l, a)
            IN trie[l][a] = [nonce |-> IF named THEN 1 ELSE 0,
                             balance |-> IF InitBalance + due > 0 THEN InitBalance + due
                                         ELSE InitBalance]

Promise == INSTANCE LedgerPromise
           WITH block <- workload.txs, done <- {l \in Ledgers : committed[l]}

(* One ledger, with all its goroutines, does what a single step of         *)
(* LedgerPromise does: the trie moves when it is committed, at once and    *)
(* with every transaction counted.                                         *)
PromiseKept == Promise!Spec
=============================================================================
