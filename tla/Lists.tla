------------------------------- MODULE Lists -------------------------------
(***************************************************************************)
(* A list that a loop builds by appending, as many functions of the        *)
(* program do: Keep(list, T) are the elements of list at the places T.     *)
(* (SelectSeq, with a function of a place in place of a test.)             *)
(***************************************************************************)
EXTENDS Integers, Sequences

Keep(list, T) ==
    LET kept[n \in 0..Len(list)] ==
            IF n = 0 THEN <<>>
            ELSE IF n \in T THEN Append(kept[n - 1], list[n]) ELSE kept[n - 1]
    IN  kept[Len(list)]
=============================================================================
