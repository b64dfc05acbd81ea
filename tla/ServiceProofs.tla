--------------------------- MODULE ServiceProofs ---------------------------
(***************************************************************************)
(* The two small services, which have nothing to do with each other but    *)
(* their size.                                                             *)
(*                                                                         *)
(* What the channel, the buffer and the token of                           *)
(* resultWriter/result_wirter.go guarantee for any number of rows and any  *)
(* capacity: whoever gets the token finds every row written, or the buffer *)
(* has failed, and at most one of the two goroutines that wait for it gets *)
(* it; rows are missing only where a flush without lock or a failed file   *)
(* explains it.                                                            *)
(*                                                                         *)
(* What the quitLock of database/db.go guarantees, for any number of       *)
(* goroutines: the read-write lock and the flag closed are related by an   *)
(* inductive invariant, from which NothingReturnsAfterClose follows.       *)
(***************************************************************************)
EXTENDS ResultWriter, KeyValueStore, TLAPS

TypeOK ==
    /\ kind \in Clients /\ file \in Files
    /\ client \in {"sending", "waiting", "through"}
    /\ writer \in {"writing", "completing", "gone"}
    /\ flusher \in {"waiting", "locked", "unlocked", "out", "gone"}
    /\ sent \in 0..Rows /\ chan \in Nat /\ overlaps \in Nat
    /\ buffer \in Nat /\ disk \in Nat /\ lost \in Nat
    /\ broken \in BOOLEAN /\ token \in BOOLEAN /\ last \in BOOLEAN /\ alive \in BOOLEAN

(* Every row sent is in one place or counted as lost; it is lost beside    *)
(* the flush without lock, or by a buffer that has failed, and that takes  *)
(* such a flush as well, or a file that is missing or refuses.             *)
Conserved == sent = chan + (buffer + disk) + lost
LossExplained == ~broken => lost <= overlaps
BreakExplained == broken => file # "good" \/ overlaps > 0

(* Only the test closes, after its rows; only a closed and empty channel   *)
(* or an error ends the writer, and only the writer's end makes the token. *)
ClosedWhenSent == Closed => kind = "test" /\ sent = Rows
WriterEnds == writer # "writing" => Drained \/ broken
TokenFromWriter == HasToken => writer = "gone"

(* The token is in one place: in the channel, with the test, or with the   *)
(* flusher.                                                                *)
TestHasToken == client = "through"
OneToken == /\ ~(token /\ TestHasToken) /\ ~(token /\ last) /\ ~(TestHasToken /\ last)
            /\ writer = "gone" => HasToken

(* Behind the flush under the lock nothing comes into the buffer once the  *)
(* flusher has the token.                                                  *)
LastFlush == /\ last /\ flusher \in {"unlocked", "out", "gone"} => ~Pending
             /\ flusher = "gone" => last

WriterInv == /\ TypeOK /\ Conserved /\ LossExplained /\ BreakExplained /\ ClosedWhenSent
             /\ WriterEnds /\ TokenFromWriter /\ OneToken /\ LastFlush

(* Nothing is sent and nobody has a token when the goroutines start.       *)
LEMMA InitWriterInv == Init => WriterInv
<1> SUFFICES ASSUME Init
             PROVE  WriterInv
    OBVIOUS
<1>1. ~token /\ ~last /\ ~broken
    BY DEF Init
<1>2. token \in BOOLEAN /\ last \in BOOLEAN /\ broken \in BOOLEAN /\ alive \in BOOLEAN
    BY DEF Init
<1>3. /\ kind \in Clients /\ file \in Files
      /\ sent = 0 /\ client = "sending" /\ chan = 0
      /\ writer = "writing" /\ buffer = 0 /\ disk = 0
      /\ lost = 0 /\ overlaps = 0 /\ flusher = "waiting"
    BY DEF Init
<1> QED
    BY <1>1, <1>2, <1>3, WriterAssumption
       DEF WriterInv, TypeOK, Conserved, LossExplained, BreakExplained, ClosedWhenSent,
           WriterEnds, TokenFromWriter, OneToken, LastFlush, TestHasToken, HasToken, Closed,
           Drained, Pending

(* What a flush does to the rows: none is lost, and an error needs a file  *)
(* that refuses.                                                           *)
WrittenOut == /\ buffer' \in Nat /\ disk' \in Nat /\ broken' \in BOOLEAN
              /\ buffer' + disk' = buffer + disk
              /\ broken => broken'
              /\ broken' => broken \/ file # "good"
              /\ ~(buffer' > 0 /\ ~broken')
LEMMA WriteOutEffect == TypeOK /\ WriteOut => WrittenOut
<1> SUFFICES ASSUME TypeOK, WriteOut
             PROVE  WrittenOut
    OBVIOUS
<1>1. CASE Written
    BY <1>1 DEF Written, Pending, WrittenOut, TypeOK
<1>2. CASE Refused
  <2>1. PICK whole \in 0..(IF file = "none" THEN 0 ELSE buffer - 1) :
            disk' = disk + whole /\ buffer' = buffer - whole
      BY <1>2 DEF Refused
  <2>2. whole \in 0..buffer
      BY <1>2, <2>1 DEF Refused, Pending, TypeOK
  <2>3. broken' = TRUE /\ file # "good"
      BY <1>2 DEF Refused
  <2> QED BY <2>1, <2>2, <2>3 DEF WrittenOut, TypeOK
<1>3. CASE ~Pending /\ UNCHANGED <<buffer, disk, broken>>
    BY <1>3 DEF Pending, WrittenOut, TypeOK
<1> QED BY <1>1, <1>2, <1>3 DEF WriteOut

(* Every step of the sender, the writer and the flusher keeps the          *)
(* invariant.                                                              *)
LEMMA NextWriterInv == WriterInv /\ [Next]_vars => WriterInv'
<1> SUFFICES ASSUME WriterInv, [Next]_vars
             PROVE  WriterInv'
    OBVIOUS
<1>0. TypeOK
    BY DEF WriterInv
<1> USE WriterAssumption
    DEF WriterInv, TypeOK, Conserved, LossExplained, BreakExplained, ClosedWhenSent, WriterEnds,
        TokenFromWriter, OneToken, LastFlush, TestHasToken, HasToken, Closed, Drained, Pending,
        clientVars, rowVars, flushVars
<1>1. CASE Send
    BY <1>1 DEF Send
<1>2. CASE CloseChan
    BY <1>2 DEF CloseChan
<1>3. CASE ReceiveToken
    BY <1>3 DEF ReceiveToken
<1>4. CASE Write
    BY <1>4 DEF Write, Take, Alone
<1>5. CASE Spill
    BY <1>5 DEF Spill, Take, Alone
<1>6. CASE WriteFails
  <2>1. WrittenOut /\ broken'
      BY <1>0, <1>6, WriteOutEffect DEF WriteFails, WriteOut, Refused
  <2>2. UNCHANGED <<clientVars, overlaps, token, flushVars, alive>>
      BY <1>6 DEF WriteFails
  <2>3. /\ writer = "writing" /\ writer' = "completing"
        /\ chan > 0 /\ chan' = chan - 1 /\ lost' = lost + 1
      BY <1>6 DEF WriteFails, Take
  <2>4. TypeOK'
      BY <2>1, <2>2, <2>3 DEF WrittenOut
  <2>5. Conserved'
    <3> DEFINE b == buffer + disk
    <3>0. /\ buffer \in Nat /\ disk \in Nat
          /\ buffer' + disk' = buffer + disk
        BY <2>1 DEF WrittenOut
    <3>1. b \in Nat /\ b' = b
        BY ONLY <3>0
    <3> HIDE DEF b
    <3>2. chan \in Nat /\ lost \in Nat /\ chan' = chan - 1 /\ lost' = lost + 1
        BY <2>3
    <3>3. chan' + b' + lost' = chan + b + lost
        BY ONLY <3>1, <3>2
    <3> QED BY <2>2, <3>3 DEF b
  <2>6. LossExplained' /\ BreakExplained'
      BY <2>1, <2>2 DEF WrittenOut
  <2>7. (ClosedWhenSent /\ WriterEnds /\ TokenFromWriter /\ OneToken)'
      BY <2>1, <2>2, <2>3
  <2>8. LastFlush'
      BY <2>1, <2>2, <2>3
  <2> QED BY <2>4, <2>5, <2>6, <2>7, <2>8
<1>7. CASE OverlappedWrite
  <2>1. PICK spilled \in {0, buffer}, stays \in {0, 1} :
            /\ disk' = disk + spilled
            /\ buffer' = buffer - spilled + stays
            /\ lost' = lost + 1 - stays
            /\ broken' \in {FALSE, stays = 1}
      BY <1>7 DEF OverlappedWrite
  <2>2. writer = "writing" /\ chan > 0 /\ chan' = chan - 1 /\ overlaps' = overlaps + 1
      BY <1>7 DEF OverlappedWrite, Take
  <2>3. ~broken /\ UNCHANGED <<clientVars, writer, token, flushVars, alive>>
      BY <1>7 DEF OverlappedWrite
  <2>4. broken' \in BOOLEAN
      BY <2>1
  <2> QED BY <2>1, <2>2, <2>3, <2>4
<1>8. CASE EndWriting
  <2> DEFINE Kept == /\ buffer' \in Nat /\ disk' \in Nat /\ broken' \in BOOLEAN
                     /\ buffer' + disk' = buffer + disk
                     /\ broken => broken'
                     /\ broken' => broken \/ file # "good"
                     /\ ~Pending => ~Pending'
  <2>1. Kept
    <3>1. CASE WriteOut
        BY <1>0, <3>1, WriteOutEffect DEF WrittenOut
    <3>2. CASE UNCHANGED <<buffer, disk, broken>>
        BY <3>2
    <3> QED BY <1>8, <3>1, <3>2 DEF EndWriting
  <2>2. UNCHANGED <<clientVars, chan, lost, overlaps, token, alive>>
      BY <1>8 DEF EndWriting
  <2>3. /\ writer = "writing" /\ writer' = "completing" /\ Drained
        /\ UNCHANGED flushVars
      BY <1>8 DEF EndWriting
  <2>4. TypeOK'
      BY <2>1, <2>2, <2>3
  <2>5. Conserved'
      BY <2>1, <2>2
  <2>6. LossExplained' /\ BreakExplained'
      BY <2>1, <2>2
  <2>7. (ClosedWhenSent /\ WriterEnds /\ TokenFromWriter /\ OneToken)'
      BY <2>1, <2>2, <2>3
  <2>8. LastFlush'
      BY <2>1, <2>2, <2>3
  <2> QED BY <2>4, <2>5, <2>6, <2>7, <2>8
<1>9. CASE Complete
    BY <1>9 DEF Complete
<1>10. CASE Tick
    BY <1>10 DEF Tick
<1>11. CASE TakeToken
    BY <1>11 DEF TakeToken
<1>12. CASE SafeFlush
  <2>1. WrittenOut
      BY <1>0, <1>12, WriteOutEffect DEF SafeFlush
  <2>2. UNCHANGED <<clientVars, chan, lost, overlaps, token, alive>>
      BY <1>12 DEF SafeFlush
  <2>3. flusher = "locked" /\ flusher' = "unlocked" /\ UNCHANGED <<writer, last>>
      BY <1>12 DEF SafeFlush
  <2>4. TypeOK'
      BY <2>1, <2>2, <2>3 DEF WrittenOut
  <2>5. Conserved'
      BY <2>1, <2>2 DEF WrittenOut
  <2>6. LossExplained' /\ BreakExplained'
      BY <2>1, <2>2 DEF WrittenOut
  <2>7. (ClosedWhenSent /\ WriterEnds /\ TokenFromWriter /\ OneToken)'
      BY <2>1, <2>2, <2>3 DEF WrittenOut
  <2>8. LastFlush'
      BY <2>1, <2>2, <2>3 DEF WrittenOut
  <2> QED BY <2>4, <2>5, <2>6, <2>7, <2>8
<1>13. CASE Flush
  <2>1. WrittenOut
      BY <1>0, <1>13, WriteOutEffect DEF Flush, WriteOut
  <2>2. UNCHANGED <<clientVars, chan, lost, overlaps, token, alive>>
      BY <1>13 DEF Flush
  <2>3. flusher = "unlocked" /\ flusher' = "out" /\ UNCHANGED <<writer, last>>
      BY <1>13 DEF Flush
  <2>4. TypeOK'
      BY <2>1, <2>2, <2>3 DEF WrittenOut
  <2>5. Conserved'
      BY <2>1, <2>2 DEF WrittenOut
  <2>6. LossExplained' /\ BreakExplained'
      BY <2>1, <2>2 DEF WrittenOut
  <2>7. (ClosedWhenSent /\ WriterEnds /\ TokenFromWriter /\ OneToken)'
      BY <2>1, <2>2, <2>3 DEF WrittenOut
  <2>8. LastFlush'
      BY <2>1, <2>2, <2>3 DEF WrittenOut
  <2> QED BY <2>4, <2>5, <2>6, <2>7, <2>8
<1>14. CASE FlushOver
    BY <1>14 DEF FlushOver
<1>15. CASE Exit
    BY <1>15 DEF Exit
<1>16. CASE UNCHANGED vars
    BY <1>16 DEF vars
<1> QED
    BY <1>1, <1>2, <1>3, <1>4, <1>5, <1>6, <1>7, <1>8, <1>9, <1>10, <1>11, <1>12, <1>13, <1>14,
       <1>15, <1>16
       DEF Next, Client, Writer, Flusher

(* Rows are conserved on their way to the disk, the lost ones are counted  *)
(* and explained, and the token is in one place (the channels              *)
(* CsvEntityChan and isComplete, and the two flushes).                     *)
THEOREM RowsConserved == Spec => []WriterInv
<1>1. QED BY InitWriterInv, NextWriterInv, PTL DEF Spec

(* Whoever has the token, the test or the flusher, finds no row left to    *)
(* write, or the buffer has failed; that needs a bad file or a row written *)
(* beside the flush without lock (isComplete <- true after MarshalChan,    *)
(* lines 36 to 41).                                                        *)
THEOREM TokenSound == Spec => []TokenMeansWritten
<1>1. WriterInv => TokenMeansWritten
    BY WriterAssumption
       DEF WriterInv, TypeOK, LossExplained, BreakExplained, ClosedWhenSent, WriterEnds,
           TokenFromWriter, Drained, TokenMeansWritten
<1> QED BY <1>1, RowsConserved, PTL

(* If the flusher took the token, it leaves nothing in the buffer and the  *)
(* test gets no token.  Unless the buffer has failed, every row is then on *)
(* disk, but for as many as were written beside a flush without lock at    *)
(* most.                                                                   *)
THEOREM FlusherLeavesNothing ==
    Spec => [](flusher = "gone" =>
                 /\ ~token /\ client # "through"
                 /\ ~broken => client = "waiting" /\ disk + overlaps >= Rows)
<1>1. WriterInv => (flusher = "gone" =>
                 /\ ~token /\ client # "through"
                 /\ ~broken => client = "waiting" /\ disk + overlaps >= Rows)
    BY WriterAssumption
       DEF WriterInv, TypeOK, Conserved, LossExplained, ClosedWhenSent, WriterEnds, HasToken,
           TokenFromWriter, OneToken, LastFlush, TestHasToken, Closed, Drained, Pending
<1> QED BY <1>1, RowsConserved, PTL

-----------------------------------------------------------------------------
(* The lock of the key-value store.                                        *)
Steps == {"outside", "rlock", "lock"} \cup Holding \cup Closing

LockTypes == /\ at \in [Callers -> Steps]
             /\ closed \in BOOLEAN

(* One goroutine at a time is in or past Lock; once closed is set, the one *)
(* that set it waits at quitChan for good, and no reader is left.          *)
OneWriter == \A c, d \in Callers : at[c] \in Closing /\ at[d] \in Closing => c = d
ClosedIsHeld ==
    closed => /\ Somebody({"sending"})
              /\ ~Somebody(Holding)

LockInv == LockTypes /\ OneWriter /\ ClosedIsHeld

(* The lock is free and the database open when NewDB returns.              *)
LEMMA InitLockInv == LockInit => LockInv
BY DEF LockInit, LockInv, LockTypes, OneWriter, ClosedIsHeld, Steps, Holding, Closing, Somebody

(* Every step of a goroutine keeps the lock's invariant: RLock and Lock    *)
(* admit nobody while a writer waits, and Close waits for the readers.     *)
LEMMA NextLockInv == LockInv /\ [LockNext]_lockVars => LockInv'
<1> SUFFICES ASSUME LockInv, [LockNext]_lockVars
             PROVE  LockInv'
    OBVIOUS
<1> USE DEF LockInv, LockTypes, OneWriter, ClosedIsHeld, Steps, Holding, Closing, Somebody, Goto
<1>1. ASSUME NEW c \in Callers, Call(c)
      PROVE  LockInv'
    BY <1>1 DEF Call
<1>2. ASSUME NEW c \in Callers, RLock(c)
      PROVE  LockInv'
    BY <1>2 DEF RLock
<1>3. ASSUME NEW c \in Callers, Serve(c)
      PROVE  LockInv'
    BY <1>3 DEF Serve
<1>4. ASSUME NEW c \in Callers, RUnlock(c)
      PROVE  LockInv'
    BY <1>4 DEF RUnlock
<1>5. ASSUME NEW c \in Callers, Announce(c)
      PROVE  LockInv'
    BY <1>5 DEF Announce
<1>6. ASSUME NEW c \in Callers, Close(c)
      PROVE  LockInv'
    BY <1>6 DEF Close
<1>7. CASE UNCHANGED lockVars
    BY <1>7 DEF lockVars
<1> QED BY <1>1, <1>2, <1>3, <1>4, <1>5, <1>6, <1>7 DEF LockNext, Operate

(* A writer of quitLock is alone, and after Close nobody is inside an      *)
(* operation (the RWMutex of db.go, line 58).                              *)
THEOREM LockHolds == LockSpec => []LockInv
<1>1. QED BY InitLockInv, NextLockInv, PTL DEF LockSpec

(* Once closed is set no call returns any more, whatever the goroutines    *)
(* do: the writer keeps quitLock while it sends on quitChan, which nobody  *)
(* receives from (Close, lines 218 to 234).                                *)
THEOREM NoReturn == LockSpec => NothingReturnsAfterClose
<1> DEFINE Stays == closed => \A c \in Callers : at'[c] = "outside" => at[c] = "outside"
<1>1. LockInv /\ [LockNext]_lockVars => [Stays]_lockVars
  <2> SUFFICES ASSUME LockInv, LockNext, closed,
                      NEW c \in Callers, at'[c] = "outside", at[c] # "outside"
               PROVE  FALSE
      BY DEF lockVars
  <2> USE DEF LockInv, LockTypes, OneWriter, ClosedIsHeld, Steps, Holding, Closing, Somebody, Goto
  <2>1. ASSUME NEW d \in Callers, Call(d) \/ RLock(d) \/ Serve(d) \/ Announce(d)
        PROVE  FALSE
      BY <2>1 DEF Call, RLock, Serve, Announce
  <2>2. ASSUME NEW d \in Callers, RUnlock(d)
        PROVE  FALSE
      BY <2>2 DEF RUnlock
  <2>3. ASSUME NEW d \in Callers, Close(d)
        PROVE  FALSE
      BY <2>3 DEF Close
  <2> QED BY <2>1, <2>2, <2>3 DEF LockNext, Operate
<1> QED BY <1>1, LockHolds, PTL DEF LockSpec, NothingReturnsAfterClose
=============================================================================
