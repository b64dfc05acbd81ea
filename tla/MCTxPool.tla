------------------------------ MODULE MCTxPool ------------------------------
(* Instances of TxPool for TLC: two producers, batches longer than the     *)
(* room the pool has.                                                      *)
EXTENDS TxPool

CONSTANTS p1, p2, h1, t1, t2, t3, t4, t5

TailCall(txs) == [op |-> "tail", txs |-> txs]
HeadCall(txs) == [op |-> "head", txs |-> txs]
By(s1, s2) == [p \in {p1, p2} |-> IF p = p1 THEN s1 ELSE s2]

MixedScripts ==
    {By(<<TailCall(<<t1, t2, t3>>)>>, <<TailCall(<<t4>>), TailCall(<<t5>>)>>),
     By(<<TailCall(<<t1>>), TailCall(<<t2, t3>>)>>, <<HeadCall(<<t4, t5>>)>>),
     By(<<HeadCall(<<t1, t2>>), TailCall(<<t3>>)>>, <<HeadCall(<<t4>>), HeadCall(<<>>)>>)}
=============================================================================
