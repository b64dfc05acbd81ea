--------------------------- MODULE KeyValueStore ---------------------------
(***************************************************************************)
(* The wrapper around pebble (database/db.go) and its one lock: Has, Get,  *)
(* Put, Delete and the Write of a batch work under the read lock of        *)
(* quitLock, after a test of closed; Close takes the write lock.  What     *)
(* they do to keys and values is pebble's affair and left out; so are the  *)
(* operations that take no lock (Put, Delete and Reset of a batch, Stat,   *)
(* Compact, Path).                                                         *)
(***************************************************************************)
CONSTANTS Callers     \* goroutines that use one Database

VARIABLES at,         \* per caller: where it is
          closed
lockVars == <<at, closed>>

Holding == {"inside", "served", "refused"}     \* between RLock and RUnlock
Closing == {"drain", "sending"}                \* from the announcement in Lock on

LockInit == /\ at = [c \in Callers |-> "outside"]
            /\ closed = FALSE

Goto(c, step) == at' = [at EXCEPT ![c] = step]
Somebody(places) == \E c \in Callers : at[c] \in places

-----------------------------------------------------------------------------
(* A caller that is outside begins an operation or a Close.                *)
Call(c) ==
    /\ at[c] = "outside"
    /\ \E wanted \in {"rlock", "lock"} : Goto(c, wanted)
    /\ UNCHANGED closed

(* RLock: a writer that waits for the readers keeps new ones out.          *)
RLock(c) ==
    /\ at[c] = "rlock" /\ ~Somebody(Closing)
    /\ Goto(c, "inside")
    /\ UNCHANGED closed

(* The test of closed, and the operation of pebble or ErrClosed.           *)
AskTwice(c) ==                 \* variant: the operation takes the lock once more
    /\ at[c] = "inside"
    /\ Goto(c, IF closed THEN "refused" ELSE "rlock")
    /\ UNCHANGED closed
Serve(c) ==
    /\ at[c] = "inside"
    /\ Goto(c, IF closed THEN "refused" ELSE "served")
    /\ UNCHANGED closed

(* The deferred RUnlock, and the return.                                   *)
RUnlock(c) ==
    /\ at[c] \in {"served", "refused"}
    /\ Goto(c, "outside")
    /\ UNCHANGED closed

(* Lock: one writer at a time announces itself ...                         *)
Announce(c) ==
    /\ at[c] = "lock" /\ ~Somebody(Closing)
    /\ Goto(c, "drain")
    /\ UNCHANGED closed

(* ... and goes on when the readers it found have left.  Close sets closed *)
(* (a second one would return here) and sends on quitChan, which has no    *)
(* buffer and, in this package, no receiver.                               *)
MarkEarly(c) ==                \* variant: does not wait for the readers
    /\ at[c] = "drain"
    /\ closed' = TRUE
    /\ Goto(c, IF closed THEN "outside" ELSE "sending")
Close(c) ==
    /\ at[c] = "drain" /\ ~Somebody(Holding)
    /\ closed' = TRUE
    /\ Goto(c, IF closed THEN "outside" ELSE "sending")

Operate(c) == RLock(c) \/ Serve(c) \/ RUnlock(c) \/ Announce(c) \/ Close(c)
LockNext == \E c \in Callers : Call(c) \/ Operate(c)

LockSpec == LockInit /\ [][LockNext]_lockVars

(* Goroutines are scheduled; nobody has to call.                           *)
FairLockSpec == LockSpec /\ \A c \in Callers : WF_lockVars(Operate(c))

-----------------------------------------------------------------------------
(* Once closed is set nothing returns any more: no operation is served on  *)
(* or after it, none is ever told ErrClosed, and no Close comes back, the  *)
(* first or a second one ("Allow double closing", db.go, line 221): the    *)
(* writer waits for a receiver with the lock in its hand.                  *)
NothingReturnsAfterClose ==
    [][closed => \A c \in Callers : at'[c] = "outside" => at[c] = "outside"]_lockVars

(* An operation that has the lock returns whatever a Close does meanwhile; *)
(* one that wants it returns unless a Close keeps it out; and a Close that *)
(* waits is not kept out by operations, however many go on.                *)
CallsReturn ==
    \A c \in Callers :
        /\ at[c] \in Holding ~> at[c] = "outside"
        /\ at[c] = "rlock" ~> at[c] = "outside" \/ Somebody(Closing)
        /\ at[c] = "drain" ~> closed
=============================================================================
