---------------------------- MODULE ResultWriter ----------------------------
(***************************************************************************)
(* The measurements of a node on their way to a CSV file:                  *)
(* resultWriter/result_wirter.go.  Whoever measures sends rows on a        *)
(* channel; one goroutine writes them into a buffer until the channel is   *)
(* closed or a write fails; another one flushes the buffer at every tick,  *)
(* twice: under the lock of safeWriter, and again without.  Both that      *)
(* goroutine and the test of the package wait for the one token that says  *)
(* that the writing is over.                                               *)
(***************************************************************************)
EXTENDS Integers

CONSTANTS Rows,      \* number of rows that are sent
          ChanCap,   \* capacity of CsvEntityChan (100000)
          Clients,   \* "test" closes the channel and waits; "node" does neither
          Files      \* "good"; "full": the disk may refuse a write; "none": os.Create failed

ASSUME WriterAssumption == /\ Rows \in Nat /\ ChanCap \in Nat \ {0}
                           /\ Clients \subseteq {"test", "node"}
                           /\ Files \subseteq {"good", "full", "none"}

VARIABLES kind, file, \* who sends, to what file; never change
          sent,       \* rows sent
          client,     \* "sending", "waiting" for isComplete, "through"
          chan,       \* rows in the channel
          writer,     \* "writing", "completing" or "gone"
          buffer,     \* rows of which the buffer of csvWriter holds the only copy
          disk,       \* rows that are in the file
          lost,       \* rows that are nowhere any more
          broken,     \* the error of the buffer, which sticks
          overlaps,   \* rows written beside the flush that takes no lock
          token,      \* isComplete holds its value
          flusher,    \* "waiting", "locked", "unlocked", "out" or "gone"
          last,       \* the flusher has taken the token
          alive       \* the process runs
clientVars == <<kind, file, sent, client>>
rowVars == <<buffer, disk, lost, broken, overlaps>>
flushVars == <<flusher, last>>
vars == <<clientVars, chan, writer, rowVars, token, flushVars, alive>>

(* NewResultWriter: the error of os.Create is dropped (lines 20 to 23).    *)
Init ==
    /\ kind \in Clients /\ file \in Files
    /\ sent = 0 /\ client = "sending" /\ chan = 0
    /\ writer = "writing" /\ buffer = 0 /\ disk = 0
    /\ lost = 0 /\ broken = FALSE /\ overlaps = 0
    /\ token = FALSE /\ flusher = "waiting" /\ last = FALSE /\ alive = TRUE

(* rw.CsvEntityChan <- row                                                 *)
Send ==
    /\ client = "sending" /\ sent < Rows /\ chan < ChanCap
    /\ sent' = sent + 1 /\ chan' = chan + 1
    /\ UNCHANGED <<kind, file, client, writer, rowVars, token, flushVars, alive>>

(* The test closes the channel after its rows; a node never does.          *)
Closed == client # "sending"
CloseChan ==
    /\ kind = "test" /\ client = "sending" /\ sent = Rows
    /\ client' = "waiting"
    /\ UNCHANGED <<kind, file, sent, chan, writer, rowVars, token, flushVars, alive>>

(* <-rw.isComplete, the end of the test.                                   *)
ReceiveToken ==
    /\ client = "waiting" /\ token
    /\ token' = FALSE /\ client' = "through"
    /\ UNCHANGED <<kind, file, sent, chan, writer, rowVars, flushVars, alive>>

(* The buffer is written to the file, or the file refuses and the error    *)
(* sticks; what the buffer held then never gets out.  Nothing happens to   *)
(* an empty buffer, nor after an error.                                    *)
Pending == buffer > 0 /\ ~broken
Written == /\ Pending /\ file # "none"
           /\ disk' = disk + buffer /\ buffer' = 0
           /\ UNCHANGED broken
Refused == /\ Pending /\ file # "good"
           /\ broken' = TRUE
           /\ \E whole \in 0..(IF file = "none" THEN 0 ELSE buffer - 1) :
                 disk' = disk + whole /\ buffer' = buffer - whole
WriteOut == Written \/ Refused \/ (~Pending /\ UNCHANGED <<buffer, disk, broken>>)

(* gocsv.MarshalChan takes a row and writes it into the buffer ...         *)
Take == writer = "writing" /\ chan > 0 /\ chan' = chan - 1
Alone == flusher # "out"

Write ==
    /\ Take /\ Alone /\ ~broken
    /\ buffer' = buffer + 1
    /\ UNCHANGED <<clientVars, writer, disk, lost, broken, overlaps, token, flushVars, alive>>

(* ... which is full before the row is in it and writes itself out, ...    *)
Spill ==
    /\ Take /\ Alone /\ Pending /\ file # "none"
    /\ disk' = disk + buffer /\ buffer' = 1
    /\ UNCHANGED <<clientVars, writer, lost, broken, overlaps, token, flushVars, alive>>

(* ... or which fails, now or before: MarshalChan returns (lines 36 to     *)
(* 39), and the channel keeps what else it holds.                          *)
WriteFails ==
    /\ Take /\ lost' = lost + 1
    /\ Refused \/ (broken /\ UNCHANGED <<buffer, disk, broken>>)
    /\ writer' = "completing"
    /\ UNCHANGED <<clientVars, overlaps, token, flushVars, alive>>

(* A row that comes while csvWriter.Flush() is writing the same buffer out *)
(* (lines 52 and 55), into a buffer that is full or not: the row stays, or *)
(* it goes, whole or in part, when the flush sets the length back to 0, or *)
(* the flush finds that it wrote less than the buffer holds by then, and   *)
(* calls that an error.                                                    *)
OverlappedWrite ==
    /\ Take /\ ~Alone /\ ~broken
    /\ overlaps' = overlaps + 1
    /\ \E spilled \in {0, buffer}, stays \in {0, 1} :
          /\ spilled > 0 => file # "none"
          /\ disk' = disk + spilled
          /\ buffer' = buffer - spilled + stays
          /\ lost' = lost + 1 - stays
          /\ broken' \in {FALSE, stays = 1}
    /\ UNCHANGED <<clientVars, writer, token, flushVars, alive>>

ClosedAtOnce == Closed                  \* variant: leaves what the channel holds
Drained == Closed /\ chan = 0

EndWriting ==
    /\ writer = "writing" /\ Drained
    /\ writer' = "completing"
    /\ \/ WriteOut                        \* the library may flush at the end
       \/ UNCHANGED <<buffer, disk, broken>>
    /\ UNCHANGED <<clientVars, chan, lost, overlaps, token, flushVars, alive>>

(* isComplete <- true                                                      *)
GoneSilently ==                         \* variant: without the token
    /\ writer = "completing"
    /\ writer' = "gone"
    /\ UNCHANGED <<clientVars, chan, rowVars, token, flushVars, alive>>
Complete ==
    /\ writer = "completing"
    /\ token' = TRUE /\ writer' = "gone"
    /\ UNCHANGED <<clientVars, chan, rowVars, flushVars, alive>>

(* The select of the flushing goroutine: a tick ...                        *)
TickAtEnd ==                            \* variant: flushes only at the end
    /\ flusher = "waiting" /\ Pending /\ token
    /\ flusher' = "locked"
    /\ UNCHANGED <<clientVars, chan, writer, rowVars, token, last, alive>>
Tick ==
    /\ flusher = "waiting"
    /\ Pending                           \* bound: other ticks change nothing
    /\ flusher' = "locked"
    /\ UNCHANGED <<clientVars, chan, writer, rowVars, token, last, alive>>

(* ... or the token.                                                       *)
TakeToken ==
    /\ flusher = "waiting" /\ token
    /\ token' = FALSE /\ flusher' = "locked" /\ last' = TRUE
    /\ UNCHANGED <<clientVars, chan, writer, rowVars, alive>>

(* safeWriter.Flush(): the writer's Write takes the same lock.             *)
SafeFlush ==
    /\ flusher = "locked"
    /\ WriteOut
    /\ flusher' = "unlocked"
    /\ UNCHANGED <<clientVars, chan, writer, lost, overlaps, token, last, alive>>

(* csvWriter.Flush(): without it.  The rows of the moment are written; the *)
(* length of the buffer is compared and set back only afterwards.          *)
Flush ==
    /\ flusher = "unlocked"
    /\ Written \/ Refused
    /\ flusher' = "out"
    /\ UNCHANGED <<clientVars, chan, writer, lost, overlaps, token, last, alive>>
FlushOver ==
    /\ flusher = "out" \/ (flusher = "unlocked" /\ ~Pending)
    /\ flusher' = IF last THEN "gone" ELSE "waiting"
    /\ UNCHANGED <<clientVars, chan, writer, rowVars, token, last, alive>>

(* The process ends: os.Exit, a signal; that of a test after the test.     *)
Exit ==
    /\ kind = "test" => client = "through"
    /\ alive' = FALSE
    /\ UNCHANGED <<clientVars, chan, writer, rowVars, token, flushVars>>

Client == Send \/ CloseChan \/ ReceiveToken
Writer == Write \/ Spill \/ WriteFails \/ OverlappedWrite \/ EndWriting \/ Complete
Flusher == Tick \/ TakeToken \/ SafeFlush \/ Flush \/ FlushOver

Next == alive /\ (Client \/ Writer \/ Flusher \/ Exit)

Spec == Init /\ [][Next]_vars

(* The goroutines of a process that runs are scheduled, and the ticker     *)
(* ticks; nothing forces the process to end.                               *)
FairSpec ==
    /\ Spec
    /\ WF_vars(alive /\ Client)
    /\ WF_vars(alive /\ Writer)
    /\ WF_vars(alive /\ Flusher)

-----------------------------------------------------------------------------
(* What the token says (line 41): every row has been taken from the        *)
(* channel, or the buffer has failed; that takes a file that is missing or *)
(* refuses, or a row written beside the flush without lock.  As long as it *)
(* has not, only such rows can be missing.                                 *)
HasToken == token \/ client = "through" \/ last
TokenMeansWritten ==
    /\ HasToken => broken \/ (sent = Rows /\ chan = 0)
    /\ broken => file # "good" \/ overlaps > 0
    /\ ~broken => lost <= overlaps

(* A measurement reaches the disk while the process runs, whoever gets the *)
(* token, and without the channel ever being closed, unless the buffer     *)
(* fails or the row is lost beside a flush without lock; how either can    *)
(* come about is part of TokenMeansWritten.                                *)
ReachesDisk == <>(disk + lost = Rows \/ broken \/ ~alive)

(* The test of the package comes to an end only if it gets the one token;  *)
(* otherwise the flusher has it, after its last flush, and the test waits  *)
(* for good (result_wirter_test.go, line 23), or still sends to a writer   *)
(* that has failed.  It is never both or neither.                          *)
OneTakesToken ==
    <>[](kind = "test" /\ alive => (client = "through") # (flusher = "gone"))

=============================================================================
