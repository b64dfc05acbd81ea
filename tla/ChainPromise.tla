---------------------------- MODULE ChainPromise ----------------------------
(***************************************************************************)
(* What the production and the distribution of blocks promise, seen from   *)
(* outside: the leader's chain grows by one block at a time, and a block   *)
(* is published once, in its turn, before the next one is added.  A peer's *)
(* chain takes published blocks in any order and with gaps, each at most   *)
(* once, and gives none back.                                              *)
(***************************************************************************)
EXTENDS Naturals, Sequences, SequencesExt

CONSTANTS Blocks,     \* the numbers of the blocks
          Messages,   \* what the message with a block may say
          Blank,      \* no message yet
          Peers

VARIABLES height,     \* the number of the last block of the leader's chain
          published,  \* the number of the last block that was published
          message,    \* per block: the message with it
          chain       \* per peer: the blocks of its chain, in its order

Init == /\ height = 0 /\ published = 0
        /\ message = [n \in Blocks |-> Blank]
        /\ chain = [p \in Peers |-> <<>>]

Add == /\ published = height /\ height + 1 \in Blocks
       /\ height' = height + 1
       /\ UNCHANGED <<published, message, chain>>

Publish == /\ published < height
           /\ published' = published + 1
           /\ \E m \in Messages : message' = [message EXCEPT ![published + 1] = m]
           /\ UNCHANGED <<height, chain>>

Take(p) == /\ \E n \in 1..published \ ToSet(chain[p]) :
                chain' = [chain EXCEPT ![p] = Append(@, n)]
           /\ UNCHANGED <<height, published, message>>

Next == Add \/ Publish \/ \E p \in Peers : Take(p)

Spec == Init /\ [][Next]_<<height, published, message, chain>>
=============================================================================
