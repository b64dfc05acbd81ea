---------------------------- MODULE LedgerPromise ----------------------------
(***************************************************************************)
(* What the peripheral ledgers promise about accounts: however many        *)
(* goroutines a ledger uses, its state trie moves once per block, from the *)
(* state before to the one that counts every BG and BR of the block.       *)
(***************************************************************************)
EXTENDS AccountLedger, Sequences, FiniteSetsExt

CONSTANT Ledgers    \* the peripheral ledgers

VARIABLES block,    \* per ledger: the transactions it processes
          trie,     \* per ledger: its state trie
          done      \* the ledgers that have committed

Amounts(txs, which) == MapThenSumSet(LAMBDA i : txs[i].amount, which)
Charged(txs, a) == {i \in DOMAIN txs : txs[i].kind = "BG" /\ txs[i].from = a}
Credited(txs, a) == {i \in DOMAIN txs : txs[i].kind = "BR" /\ txs[i].to = a}

(* ProcessPeripheralLedgerTxStateTrie, seen from outside.                  *)
BlockTrie(t, txs) ==
    [a \in Accounts |->
        IF Charged(txs, a) \cup Credited(txs, a) = {} THEN t[a]
        ELSE Settle(t[a], Amounts(txs, Credited(txs, a)) - Amounts(txs, Charged(txs, a)))]

Init == /\ trie = [l \in Ledgers |-> EmptyTrie]
        /\ done = {}

Process(l) ==
    /\ l \notin done
    /\ done' = done \cup {l}
    /\ trie' = [trie EXCEPT ![l] = BlockTrie(@, block[l])]

Next == (\E l \in Ledgers : Process(l)) /\ UNCHANGED block

Spec == Init /\ [][Next]_<<block, trie, done>>
=============================================================================
