------------------------- MODULE MCBlockProcessing -------------------------
(* Instances of BlockProcessing for TLC: two ledgers (even and odd hashes),*)
(* batches that arrive in order, out of order and with recycling.          *)
EXTENDS BlockProcessing

CONSTANTS alice, bob

NT(from, to, v) == [kind |-> "NT", hash |-> 0, amount |-> v, from |-> from, to |-> to]
BnTx(kind, h, v, from, to) == [kind |-> kind, hash |-> h, amount |-> v, from |-> from, to |-> to]

(* Three transactions of ledger 0 the wrong way round; a payment that just *)
(* fails, one that just succeeds, and one to oneself.                      *)
Unsorted == <<BnTx("BG", 2, 1, alice, alice), BnTx("BT", 4, 1, alice, bob), NT(alice, bob, 3),
              BnTx("BG", 6, 1, bob, bob), NT(bob, alice, 2), NT(bob, bob, 1)>>
(* Lists in order, with a recycled banknote on ledger 1.                   *)
InOrderBatch == <<BnTx("BS", 5, 2, alice, bob), BnTx("BR", 7, 1, alice, alice),
                  BnTx("BG", 3, 1, bob, bob), BnTx("BT", 2, 1, alice, bob)>>
Recycling == <<BnTx("BG", 8, 3, alice, alice), BnTx("BR", 1, 2, bob, bob), NT(alice, alice, 1)>>

MCRuns == {<<Unsorted, InOrderBatch>>, <<Recycling, Unsorted>>}
=============================================================================
