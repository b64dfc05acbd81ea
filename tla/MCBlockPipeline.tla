-------------------------- MODULE MCBlockPipeline --------------------------
(* Instances of BlockPipeline for TLC.  With a copied key file: a leader   *)
(* that waits for its peer, one that does not and is joined later, one     *)
(* that exits on a network that loses messages, one whose peer stops.      *)
(* Alone, the peer's key file is another one; it has one block more than   *)
(* fit between the generator and the current block.  With one block: a     *)
(* shared key file nobody has made yet, a file per server, an address that *)
(* is taken, a peer too few, a key file that cannot be written, and a      *)
(* block that cannot be processed.                                         *)
EXTENDS BlockPipeline
CONSTANTS l1, p1, leader

Waiting == [last |-> 3, exits |-> FALSE, loses |-> FALSE,
            keys |-> "copied", need |-> 1, refused |-> FALSE, stops |-> FALSE,
            unwritable |-> FALSE, unsound |-> FALSE]
JoinedLate == [Waiting EXCEPT !.need = 0]
Harsh == [Waiting EXCEPT !.exits = TRUE, !.loses = TRUE]
Stopped == [Harsh EXCEPT !.last = 2, !.stops = TRUE]
Alone == [Waiting EXCEPT !.last = 4, !.need = 0, !.keys = "apart"]
OneBlock == [Waiting EXCEPT !.last = 1]
EverySetting == {Waiting, JoinedLate, Harsh, Stopped, Alone,
                 [OneBlock EXCEPT !.keys = "shared"], [OneBlock EXCEPT !.keys = "apart"],
                 [OneBlock EXCEPT !.keys = "shared", !.stops = TRUE],
                 [OneBlock EXCEPT !.refused = TRUE], [OneBlock EXCEPT !.need = 2],
                 [OneBlock EXCEPT !.keys = "apart", !.unwritable = TRUE],
                 [Waiting EXCEPT !.last = 2, !.unsound = TRUE]}
=============================================================================
