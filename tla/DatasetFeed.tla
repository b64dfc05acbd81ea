---------------------------- MODULE DatasetFeed ----------------------------
(***************************************************************************)
(* The way of a data set to the block generator: the reader goroutine of   *)
(* StartBlockGenerator (chain/block_generator.go, lines 23 to 68), which   *)
(* puts TxCountPerBlock items at a time into a batch, in its three modes.  *)
(*   origin:       the USDT data set, which two goroutines parse           *)
(*                 (txGenerator/USDT_dataset_csv_reader.go); an item is    *)
(*                 the number of its row.                                  *)
(*   banknote:     the file of TxSimulator, which ran before; an item is a *)
(*                 group of rows (banknote_dataset_csv_reader.go).         *)
(*   scalability:  transfers of banknotes made at the start                *)
(*                 (banknote_dataset_random_reader.go).                    *)
(***************************************************************************)
EXTENDS TxSimulator

CONSTANTS Modes,           \* the values of exp_mode
          RowCounts,       \* the lengths a USDT data set may have
          CsvCap, TxCap,   \* capacities of csvEntityChan and txsChan (10000)
          BatchCap,        \* capacity of TobeProcessedTxsChan (2)
          TxCountPerBlock,
          MaxBatches,      \* bound: the batches the generator asks for
          Nil              \* what GetTx returns from a closed, empty channel

ASSUME FeedAssumption == /\ Modes \subseteq {"origin", "banknote", "scalability"}
                         /\ RowCounts \subseteq Nat
                         /\ CsvCap \in Nat /\ TxCap \in Nat /\ BatchCap \in Nat
                         /\ TxCountPerBlock \in Nat \ {0} /\ MaxBatches \in Nat
                         /\ Nil \notin Nat

VARIABLES mode,       \* exp_mode; never changes
          rows,       \* rows in the USDT file; never changes
          parsed,     \* rows put into csvEntityChan
          csvClosed,  \* the parser is through: gocsv closes the channel
          csv,        \* csvEntityChan
          tx,         \* txsChan
          txClosed,
          line,       \* the line of the banknote file that is read next
          tested,     \* the reader holds a transaction it only tests for nil
          filled,     \* iterations of the reader's inner loop
          batch,      \* banknote_txs
          queue,      \* TobeProcessedTxsChan
          used,       \* all transactions the generator received, in order
          received,   \* batches the generator received
          died        \* the leader has died of a nil pointer
channels == <<parsed, csvClosed, csv, tx, txClosed>>
reader == <<line, tested, filled, batch, queue, used, received, died>>
vars == <<simVars, mode, rows, channels, reader>>

Init ==
    /\ SimInit /\ mode \in Modes
    /\ rows \in IF mode = "origin" THEN RowCounts ELSE {0}
    /\ parsed = 0 /\ csvClosed = FALSE /\ csv = <<>>
    /\ tx = <<>> /\ txClosed = FALSE
    /\ line = 1 /\ tested = FALSE /\ filled = 0 /\ batch = <<>> /\ queue = <<>>
    /\ used = <<>> /\ received = 0 /\ died = FALSE

-----------------------------------------------------------------------------
(* gocsv.UnmarshalToChan                                                   *)
Parse ==
    /\ parsed < rows /\ Len(csv) < CsvCap
    /\ parsed' = parsed + 1
    /\ csv' = Append(csv, parsed + 1)
    /\ UNCHANGED <<simVars, mode, rows, csvClosed, tx, txClosed, reader>>

CloseCsv ==
    /\ mode = "origin" /\ parsed = rows /\ ~csvClosed
    /\ csvClosed' = TRUE
    /\ UNCHANGED <<simVars, mode, rows, parsed, csv, tx, txClosed, reader>>

(* for csvEntity := range csvEntityChan, and the deferred close.           *)
Convert ==
    /\ csv # <<>> /\ Len(tx) < TxCap
    /\ tx' = Append(tx, Head(csv))
    /\ csv' = Tail(csv)
    /\ UNCHANGED <<simVars, mode, rows, parsed, csvClosed, txClosed, reader>>

ClosedAtOnce == csvClosed               \* variant: does not empty the channel first
NeverClosed == FALSE                    \* variant: without the deferred close
Converted == csvClosed /\ csv = <<>>

CloseTx ==
    /\ Converted /\ ~txClosed
    /\ txClosed' = TRUE
    /\ UNCHANGED <<simVars, mode, rows, parsed, csvClosed, csv, tx, reader>>

-----------------------------------------------------------------------------
(* GetTx: the next transaction, or Nil once the channel is closed and      *)
(* empty; until then it blocks.                                            *)
Got(t) == IF tx # <<>> THEN t = Head(tx) /\ tx' = Tail(tx)
          ELSE txClosed /\ t = Nil /\ tx' = tx

(* tx := GetTx(), tested for nil, and not used otherwise.                  *)
TestTx ==
    /\ mode = "origin" /\ ~tested /\ filled < TxCountPerBlock
    /\ \E t \in 1..rows \cup {Nil} :
          /\ Got(t)
          /\ tested' = (t # Nil)
          /\ filled' = IF t # Nil THEN filled ELSE filled + 1
    /\ UNCHANGED <<simVars, mode, rows, parsed, csvClosed, csv, txClosed, line, batch, queue, used, received, died>>

(* append(banknote_txs, GetTx()): another transaction.                     *)
AddTx ==
    /\ tested
    /\ \E t \in 1..rows \cup {Nil} : Got(t) /\ batch' = Append(batch, t)
    /\ tested' = FALSE
    /\ filled' = filled + 1
    /\ UNCHANGED <<simVars, mode, rows, parsed, csvClosed, csv, txClosed, line, queue, used, received, died>>

(* ReadBatch: the lines up to the next separator, without leading ones, or *)
(* to the end of the file; a last line without a newline is dropped.  The  *)
(* end of the file is found once, and then for good.                       *)
WithLast == file                        \* variant: keeps an unterminated line
Complete == IF cut THEN Front(file) ELSE file
Lines(from, sep) == {i \in from..Len(Complete) : (Complete[i] = Sep) = sep}
GroupStart == IF Lines(line, FALSE) = {} THEN Len(Complete) + 1 ELSE Min(Lines(line, FALSE))
GroupEnd == IF Lines(GroupStart, TRUE) = {} THEN Len(Complete) + 1 ELSE Min(Lines(GroupStart, TRUE))
Group == SubSeq(Complete, GroupStart, GroupEnd - 1)

(* ReadBanknoteDatasetItem: the first row of a group is passed over, and   *)
(* so is every origin row.                                                 *)
Banknotes(group) ==
    Keep(group, {i \in DOMAIN group : i > 1 /\ group[i].kind # "USDT"})

(* The simulator removes an old file at its start, and the first flush of  *)
(* any row makes a new one (tx_simulator.py, lines 482 to 502, 568).       *)
NoFile == step = "over" /\ file = <<>>

ReadItem ==
    /\ mode = "banknote" /\ step = "over" /\ ~NoFile /\ filled < TxCountPerBlock
    /\ batch' = batch \o Banknotes(Group)
    /\ line' = GroupEnd + 1
    /\ filled' = filled + 1
    /\ UNCHANGED <<simVars, mode, rows, channels, tested, queue, used, received, died>>

(* The error of opening a file that is not there is dropped (line 27 of    *)
(* block_generator.go), and ReadBatch looks into a nil reader.             *)
ReadNothing ==
    /\ mode = "banknote" /\ NoFile /\ filled < TxCountPerBlock
    /\ died' = TRUE
    /\ UNCHANGED <<simVars, mode, rows, channels, line, tested, filled, batch, queue, used, received>>

(* BanknoteRandomReader.GetTx: any of the TxCountPerBlock banknotes.       *)
RandomTx ==
    /\ mode = "scalability" /\ filled < TxCountPerBlock
    /\ \E n \in 1..TxCountPerBlock : batch' = Append(batch, n)
    /\ filled' = filled + 1
    /\ UNCHANGED <<simVars, mode, rows, channels, line, tested, queue, used, received, died>>

(* TobeProcessedTxsChan <- banknote_txs                                    *)
SendBatch ==
    /\ filled = TxCountPerBlock /\ Len(queue) < BatchCap
    /\ queue' = Append(queue, batch)
    /\ batch' = <<>> /\ filled' = 0
    /\ UNCHANGED <<simVars, mode, rows, channels, line, tested, used, received, died>>

(* The generator receives a batch, and makes a block of it: a nil          *)
(* transaction is the end of the leader (banknote_processor.go, line 32).  *)
TakeBatch ==
    /\ received < MaxBatches /\ queue # <<>>
    /\ received' = received + 1
    /\ used' = used \o Head(queue)
    /\ queue' = Tail(queue)
    /\ died' = (Nil \in ToSet(Head(queue)))
    /\ UNCHANGED <<simVars, mode, rows, channels, line, tested, filled, batch>>

Simulate == mode = "banknote" /\ SimNext /\ UNCHANGED <<mode, rows, channels, reader>>
Leader == \/ Parse \/ CloseCsv \/ Convert \/ CloseTx \/ TestTx \/ AddTx
          \/ ReadItem \/ ReadNothing \/ RandomTx \/ SendBatch \/ TakeBatch

Next == Simulate \/ (~died /\ Leader)

Spec == Init /\ [][Next]_vars
FairSpec == Spec /\ WF_vars(Next)    \* the scheduler; no step can be repeated

-----------------------------------------------------------------------------
Flow == used \o FlattenSeq(queue) \o batch      \* in the order of the batches

(* Origin mode: every other row reaches a block, in the order of the file, *)
(* whatever the three goroutines and their channels do; the rest only pass *)
(* the test for nil.  A file with an odd number of rows ends in a nil      *)
(* transaction.                                                            *)
EverySecondRow ==
    mode = "origin" =>
        /\ \A i \in DOMAIN Flow : Flow[i] = IF 2 * i <= rows THEN 2 * i ELSE Nil
        /\ Len(Flow) <= (rows + 1) \div 2

(* Banknote mode: every issue, transfer and split that the simulator got   *)
(* into the file as a whole line reaches a block, once and in order, over  *)
(* all batches; of the recycled banknotes, all but the first of a block.   *)
Due(i) ==
    /\ i < Len(file) \/ ~cut
    /\ \/ file[i].kind \in {"BG", "BT", "BS"}
       \/ file[i].kind = "BR" /\ i > 1 /\ file[i - 1] # Sep
RowsArrive ==
    LET due == Keep(file, {i \in DOMAIN file : Due(i)})
    IN mode = "banknote" => IsPrefix(Flow, due) /\ (line > Len(file) => Flow = due)

(* The generator gets as many batches as it asks for, at the end of a data *)
(* set empty ones, and never waits for good; but for two kinds of data     *)
(* set, of which the leader always dies: the file of a simulator that was  *)
(* interrupted before it wrote a row, and a USDT file of odd length that   *)
(* the generator reads to the end.                                         *)
Doomed ==
    \/ mode = "banknote" /\ NoFile
    \/ mode = "origin" /\ rows % 2 = 1 /\ (rows + 1) \div 2 <= MaxBatches * TxCountPerBlock
AllReceived == <>(IF Doomed THEN died ELSE received = MaxBatches /\ ~died)

-----------------------------------------------------------------------------
(* The comment of ReadBanknoteDatasetItem (banknote_dataset_csv_reader.go, *)
(* line 138): the first row of a group is the original USDT transfer, not  *)
(* a banknote.                                                             *)
FirstRowIsOrigin ==
    filled > 0 \/ received > 0 =>
        \A i \in DOMAIN file : (i = 1 \/ file[i - 1] = Sep) /\ file[i] # Sep => file[i].kind = "USDT"
=============================================================================
