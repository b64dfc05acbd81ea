------------------------- MODULE MCPeripheralLedger -------------------------
(***************************************************************************)
(* Instances of PeripheralLedger for TLC: small blocks over five banknotes *)
(* and three accounts.                                                     *)
(***************************************************************************)
EXTENDS PeripheralOutcome

CONSTANTS b1, b2, b3, b4, b5,   \* banknotes
          alice, bob, carol,    \* accounts
          l1, l2                \* ledgers

MCBanknotes == {b1, b2, b3, b4, b5}
MCInitAmount == 9

Bare(kind, b, v, from, to) ==
    [kind |-> kind, note |-> b, amount |-> v, from |-> from, to |-> to,
     note1 |-> b, amount1 |-> 0, note2 |-> b, amount2 |-> 0]
BG(b, v, from) == Bare("BG", b, v, from, from)
BT(b, v, to) == Bare("BT", b, v, alice, to)
BR(b, v, to) == Bare("BR", b, v, to, to)
BS(b, c, d, from, to) ==
    [kind |-> "BS", note |-> b, amount |-> 2, from |-> from, to |-> to,
     note1 |-> c, amount1 |-> 1, note2 |-> d, amount2 |-> 1]

Block(txs, notes) == [txs |-> txs, pool |-> notes,
                      value |-> [b \in Banknotes |-> 2], owner |-> [b \in Banknotes |-> alice]]
One(seq, notes) == Block([l \in {l1} |-> seq], notes)
Two(seq1, seq2, notes) == Block([l \in {l1, l2} |-> IF l = l1 THEN seq1 ELSE seq2], notes)

(* A split of what a later split makes, and a transfer of it on the way.   *)
ChainedSplits == One(<<BS(b2, b3, b4, bob, alice), BS(b1, b2, b5, alice, bob), BT(b2, 1, alice)>>, {b1})
(* Two transfers of one banknote, generated by the same block.             *)
GenerateAndMove == One(<<BG(b1, 2, alice), BT(b1, 2, bob), BT(b1, 2, carol), BR(b3, 1, alice)>>, {b3})
(* An initial banknote transferred and split, unknown or active before.    *)
InitialUnknown == One(<<BT(b1, 9, bob), BS(b1, b2, b3, bob, alice), BG(b4, 1, bob)>>, {})
InitialActive == One(<<BT(b1, 9, bob), BS(b1, b2, b3, bob, alice), BR(b4, 1, bob)>>, {b1, b4})
(* Overdrafts, addresses and banknotes that are not there.                 *)
Refusals == One(<<BG(b1, 2, alice), BG(b2, 1, alice), BG(b3, 1, ZeroAddress), BR(b4, 1, bob), BT(b5, 1, bob)>>, {})
(* Generated, split and recycled in one block.                             *)
FullCycle == One(<<BR(b3, 1, bob), BS(b1, b2, b3, alice, bob), BG(b1, 2, alice)>>, {})

(* More than PLedgerInnerChanSize = 2 transactions of one kind.            *)
Overflowing ==
    {One(<<BG(b1, 1, alice), BT(b2, 1, bob), BT(b3, 1, bob), BT(b1, 1, bob)>>, {b2, b3}),
     One(<<BR(b2, 1, alice), BR(b3, 1, bob), BR(b1, 1, bob), BG(b4, 1, bob)>>, {b1, b2, b3}),
     One(<<BG(b1, 1, alice), BG(b4, 1, bob), BG(b5, 1, bob), BT(b4, 1, alice)>>, {})}

OneLedgerBlocks ==
    {ChainedSplits, GenerateAndMove, InitialUnknown, InitialActive, Refusals, FullCycle}
        \cup Overflowing

(* Banknotes that stay within one ledger, and one that does not.           *)
TwoLedgerBlocks ==
    {Two(<<BG(b1, 1, alice), BT(b1, 1, bob)>>, <<>>, {}),
     Two(<<BS(b1, b2, b3, bob, alice)>>, <<BG(b4, 1, bob), BR(b5, 1, alice)>>, {b5})}
CrossLedgerBlocks == {Two(<<BG(b1, 1, alice)>>, <<BT(b1, 1, bob)>>, {})}

(* Bound: one ledger at a time is past the steps that write the shared     *)
(* worker count.  The ledgers share nothing else here, and the one behind  *)
(* can still write at any moment of the other's run.                       *)
Behind(l) == /\ sent[l] = 0
             /\ phase[l] = 1 /\ pc[l] \in {"reset", "floor", "one", "load", "double", "add"}
OneLedgerAhead == \A l, m \in Ledgers : l = m \/ Behind(l) \/ Behind(m)
=============================================================================
