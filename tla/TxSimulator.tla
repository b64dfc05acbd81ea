---------------------------- MODULE TxSimulator ----------------------------
(***************************************************************************)
(* The circulation experiment that writes the banknote data set:           *)
(* tx_simulator.py.  Each account has a wallet, a list of banknotes that   *)
(* the program changes while a loop iterates over it; each transfer of the *)
(* USDT data set becomes a group of rows, which a separator ends.  Rows    *)
(* wait in a buffer until a block in FlushBlockInterval is finished; an    *)
(* interrupt leaves what is in the file then.                              *)
(*                                                                         *)
(* A banknote hash is a number, counted in the order in which they are     *)
(* drawn.  Shards and turnover counts are left out: no reader looks at     *)
(* them.                                                                   *)
(***************************************************************************)
EXTENDS Lists, SequencesExt

CONSTANTS Accounts,
          Values,              \* the values a transfer may have
          MaxTransfers,        \* bound on the length of the USDT data set
          ShardNumber, BlockSize, DefaultBalance,
          RecycleInterval, RecycleLength, FlushBlockInterval

ASSUME SimulatorAssumption ==
    /\ Values \subseteq Nat /\ MaxTransfers \in Nat
    /\ {ShardNumber, BlockSize, DefaultBalance} \subseteq Nat \ {0}
    /\ {RecycleInterval, FlushBlockInterval} \subseteq Nat \ {0} /\ RecycleLength \in Nat

VARIABLES
    wallet,     \* ActiveBanknotes
    owners,     \* its keys, in the order in which Python iterates over them
    drawn,      \* hashes drawn so far
    step,       \* where the program is
    pay,        \* the transfer in hand: [from, to, value]
    pos,        \* where the loop over a wallet is
    accum,      \* what the transfer has moved so far
    count,      \* current_block_tx_counter
    done,       \* global_processed_txs
    block,      \* global_block_count
    ended,      \* the input has no more rows
    buffer,     \* transactions_output_buffer
    file,       \* the rows in the output file, without its header
    cut         \* the last of them is cut off in the middle
bank == <<wallet, owners, drawn>>
loop == <<pay, pos, accum>>
job == <<count, done, block, ended>>
out == <<buffer, file, cut>>
simVars == <<bank, step, loop, job, out>>

(* Rows.  A split names its source and two shares, the others one banknote. *)
Row(kind, note, value, owner) == [kind |-> kind, note |-> note, value |-> value, owner |-> owner]
InHand == wallet[pay.from][pos]
SplitRow(toA, toB) ==
    [kind |-> "BS", from |-> InHand.note, owner |-> pay.from,
     note |-> drawn + 1, value |-> toA, note2 |-> drawn + 2, value2 |-> toB]
Sep == [kind |-> "~"]
Note(n, value) == [note |-> n, value |-> value, seen |-> block]

SimInit ==
    /\ wallet = [a \in Accounts |-> <<>>] /\ owners = <<>> /\ drawn = 0
    /\ step = "next" /\ pay = [value |-> 0] /\ pos = 1 /\ accum = 0
    /\ count = 0 /\ done = 0 /\ block = 0 /\ ended = FALSE
    /\ buffer = <<>> /\ file = <<>> /\ cut = FALSE

-----------------------------------------------------------------------------
(* A row of the input: the origin row, and initialize_address_if_needed    *)
(* for the payer and the payee.                                            *)
NewOwners(a, b) ==
    LET both == IF a = b THEN <<a>> ELSE <<a, b>>
    IN Keep(both, {i \in DOMAIN both : both[i] \notin ToSet(owners)})
InitialNotes(first) == [i \in 1..ShardNumber |-> Note(first + i, DefaultBalance)]

NextTransfer ==
    /\ step = "next" /\ done < MaxTransfers
    /\ \E a, b \in Accounts, x \in Values :
         LET new == NewOwners(a, b) IN
         /\ pay' = [from |-> a, to |-> b, value |-> x]
         /\ owners' = owners \o new
         /\ wallet' = [c \in Accounts |->
                         IF c \in ToSet(new)
                         THEN InitialNotes(drawn + (IF c = new[1] THEN 0 ELSE ShardNumber))
                         ELSE wallet[c]]
         /\ drawn' = drawn + ShardNumber * Len(new)
         /\ buffer' = Append(buffer, Row("USDT", 0, x, a))
    /\ step' = "exact"
    /\ UNCHANGED <<pos, accum, job, file, cut>>

(* remove_banknote_from_owner and add_banknote_to_owner: the banknote goes *)
(* to the end of the wallet of its owner, the payer's own one included.    *)
KeptToo(i) ==                   \* variant: without the removal
    [wallet EXCEPT ![pay.to] = Append(@, Note(wallet[pay.from][i].note, wallet[pay.from][i].value))]
Moved(i) ==
    LET n == wallet[pay.from][i]
        left == [wallet EXCEPT ![pay.from] = RemoveAt(@, i)]
    IN [left EXCEPT ![pay.to] = Append(@, Note(n.note, n.value))]

BanknoteTransfer(i) ==
    /\ wallet' = Moved(i)
    /\ buffer' = Append(buffer, Row("BT", wallet[pay.from][i].note, wallet[pay.from][i].value, pay.to))
    /\ UNCHANGED drawn

(* The first loop: a banknote of exactly the value ends the transfer.      *)
Exact ==
    /\ step = "exact"
    /\ LET fits == {i \in DOMAIN wallet[pay.from] : wallet[pay.from][i].value = pay.value} IN
       \/ /\ fits # {}
          /\ BanknoteTransfer(CHOOSE i \in fits : \A j \in fits : i <= j)
          /\ step' = "end"
       \/ /\ fits = {}
          /\ step' = "gather"
          /\ UNCHANGED <<wallet, buffer, drawn>>
    /\ pos' = 1 /\ accum' = 0
    /\ UNCHANGED <<owners, pay, job, file, cut>>

(* The second loop, for bn in A_banknotes: the list loses the banknote at  *)
(* pos, and the next iteration looks at pos + 1.                           *)
CopiedStep == pos               \* variant: as if over a copy of the list
LiveStep == pos + 1

Gathering == step = "gather" /\ accum < pay.value /\ pos <= Len(wallet[pay.from])

TransferOne ==
    /\ Gathering
    /\ accum + InHand.value <= pay.value
    /\ BanknoteTransfer(pos)
    /\ accum' = accum + InHand.value
    /\ pos' = LiveStep
    /\ UNCHANGED <<owners, step, pay, job, file, cut>>

(* banknote_split: the payer keeps what is over.  The row names the payer  *)
(* as sender and as recipient.                                             *)
Split ==
    /\ Gathering
    /\ accum + InHand.value > pay.value
    /\ LET toB == pay.value - accum
           toA == InHand.value - toB
           rest == [wallet EXCEPT ![pay.from] = Append(RemoveAt(@, pos), Note(drawn + 1, toA))]
       IN /\ wallet' = [rest EXCEPT ![pay.to] = Append(@, Note(drawn + 2, toB))]
          /\ buffer' = Append(buffer, SplitRow(toA, toB))
    /\ drawn' = drawn + 2
    /\ accum' = pay.value
    /\ UNCHANGED <<owners, step, pay, pos, job, file, cut>>

(* banknote_new, for what the banknotes of the loop did not cover.         *)
Paid ==
    /\ step = "gather" /\ accum >= pay.value
    /\ step' = "end"
    /\ UNCHANGED <<bank, loop, job, out>>

WholeValue == pay.value         \* variant: as if nothing was covered
Missing == pay.value - accum

BanknoteNew ==
    /\ step = "gather" /\ accum < pay.value /\ pos > Len(wallet[pay.from])
    /\ wallet' = [wallet EXCEPT ![pay.to] = Append(@, Note(drawn + 1, Missing))]
    /\ buffer' = Append(buffer, Row("BG", drawn + 1, Missing, pay.to))
    /\ drawn' = drawn + 1
    /\ step' = "end"
    /\ UNCHANGED <<owners, loop, job, file, cut>>

-----------------------------------------------------------------------------
(* The separator, and the counters of the transfer.                        *)
EndTransfer ==
    /\ step = "end"
    /\ buffer' = Append(buffer, Sep)
    /\ count' = count + 1 /\ done' = done + 1
    /\ step' = IF count' >= BlockSize THEN "finalize" ELSE "next"
    /\ UNCHANGED <<bank, loop, block, ended, file, cut>>

(* After the last row the block that was begun is finished too.            *)
EndOfInput ==
    /\ step = "next"
    /\ ended' = TRUE
    /\ step' = IF count > 0 THEN "finalize" ELSE "flush"
    /\ UNCHANGED <<bank, loop, count, done, block, out>>

(* finalize_block: one block in RecycleInterval recycles the banknotes     *)
(* that have not moved for long, owner by owner, again out of the very     *)
(* list that the loop is over: the one after a removed one is passed over. *)
Old(n) == block - n.seen > RecycleLength
FirstOnly(list) ==              \* variant: leaves the loop after a removal
    [i \in DOMAIN list |-> Old(list[i]) /\ \A j \in 1..(i - 1) : ~Old(list[j])]
Removed(list) ==
    LET hit[i \in 0..Len(list)] == i > 0 /\ Old(list[i]) /\ ~hit[i - 1]
    IN [i \in DOMAIN list |-> hit[i]]

Recycled(a) ==
    LET list == wallet[a]
    IN Keep([i \in DOMAIN list |-> Row("BR", list[i].note, list[i].value, a)],
            {i \in DOMAIN list : Removed(list)[i]})
Kept(a) == Keep(wallet[a], {i \in DOMAIN wallet[a] : ~Removed(wallet[a])[i]})

Finalize ==
    /\ step = "finalize"
    /\ \/ /\ block % RecycleInterval = 0
          /\ wallet' = [a \in Accounts |-> Kept(a)]
          /\ buffer' = buffer \o FlattenSeq([i \in DOMAIN owners |-> Recycled(owners[i])])
       \/ /\ block % RecycleInterval # 0
          /\ UNCHANGED <<wallet, buffer>>
    /\ step' = "block"
    /\ UNCHANGED <<owners, drawn, loop, job, file, cut>>

FlushDue == block % FlushBlockInterval = 0

EndBlock ==
    /\ step = "block"
    /\ file' = IF FlushDue THEN file \o buffer ELSE file
    /\ buffer' = IF FlushDue THEN <<>> ELSE buffer
    /\ count' = 0 /\ block' = block + 1
    /\ step' = IF ended THEN "flush" ELSE "next"
    /\ UNCHANGED <<bank, loop, done, ended, cut>>

(* The process ends, and with it everything but the file.                  *)
Over ==
    /\ step' = "over"
    /\ wallet' = [a \in Accounts |-> <<>>] /\ owners' = <<>> /\ drawn' = 0
    /\ pay' = [value |-> 0] /\ pos' = 1 /\ accum' = 0
    /\ count' = 0 /\ done' = 0 /\ block' = 0 /\ ended' = TRUE
    /\ buffer' = <<>>

LastFlush ==
    /\ step = "flush"
    /\ file' = file \o buffer
    /\ Over
    /\ UNCHANGED cut

(* A keyboard interrupt or a kill, anywhere: what was being written may be *)
(* there in part, the last row of it in half.  (To every reader whole rows *)
(* without half a one are the same, and a header without rows is the same  *)
(* as one with half a row.)                                                *)
Interrupt ==
    /\ step # "over"
    /\ \E k \in 0..(IF step = "flush" \/ (step = "block" /\ FlushDue) THEN Len(buffer) ELSE 0) :
         /\ file' = file \o SubSeq(buffer, 1, k)
         /\ cut' = (k > 0)
    /\ Over

SimNext == \/ NextTransfer \/ Exact \/ TransferOne \/ Split \/ Paid \/ BanknoteNew
           \/ EndTransfer \/ EndOfInput \/ Finalize \/ EndBlock \/ LastFlush \/ Interrupt

-----------------------------------------------------------------------------
Rows == file \o buffer      \* everything the running program has recorded

(* What a node knows after the rows: the active banknotes and their owners *)
(* (PeripheralLedger).                                                     *)
Known(n, v, a) == [note |-> n, value |-> v, owner |-> a]
After(known, r) ==
    LET others(n) == {k \in known : k.note # n}
    IN CASE r.kind = "BG" -> known \cup {Known(r.note, r.value, r.owner)}
         [] r.kind = "BT" -> others(r.note) \cup {Known(r.note, r.value, r.owner)}
         [] r.kind = "BS" -> others(r.from) \cup {Known(r.note, r.value, r.owner),
                                                 Known(r.note2, r.value2, r.owner)}
         [] r.kind = "BR" -> others(r.note)
         [] OTHER -> known
LedgerAfter(list) == FoldLeft(After, {}, list)
Ledger == LedgerAfter(Rows)

Held == UNION {{Known(wallet[a][i].note, wallet[a][i].value, a) : i \in DOMAIN wallet[a]} :
               a \in Accounts}
Names(r) == {r.note} \cup (IF r.kind = "BS" THEN {r.from, r.note2} ELSE {})

(* The rows tell what the wallets hold: every banknote of the ledger is in *)
(* one wallet, with its value, and what else the wallets hold are initial  *)
(* banknotes that no row names.  The owner is the wallet's, but for the    *)
(* payee's share of a split that has not moved since: the row of the split *)
(* names the payer twice (tx_simulator.py, line 327).                      *)
ShareOfPayee(k) ==
    /\ \E r \in ToSet(Rows) : r.kind = "BS" /\ r.note2 = k.note /\ r.owner = k.owner
    /\ \A r \in ToSet(Rows) : r.kind = "BT" => r.note # k.note
WalletsAreReplay ==
    step # "over" =>
        /\ \A k, l \in Held : k.note = l.note => k = l
        /\ \A k \in Ledger : \E h \in Held :
              h.note = k.note /\ h.value = k.value /\ (h.owner = k.owner \/ ShareOfPayee(k))
        /\ \A h \in Held : (\A k \in Ledger : k.note # h.note) =>
              /\ h.value = DefaultBalance
              /\ \A r \in ToSet(Rows) : r # Sep => h.note \notin Names(r)

(* The rows of a transfer move exactly its value, whatever the loops over  *)
(* the wallet found and passed over.                                       *)
Moves(r) == CASE r.kind \in {"BT", "BG"} -> r.value [] r.kind = "BS" -> r.value2 [] OTHER -> 0
MovedBy(group) == FoldLeft(LAMBDA sum, r : sum + Moves(r), 0, group)
GroupPaysExactly ==
    \A i, j \in DOMAIN Rows :
        /\ i < j /\ Rows[i].kind = "USDT" /\ Rows[j] = Sep
        /\ \A k \in (i + 1)..(j - 1) : Rows[k] # Sep
        => Rows[i].value = MovedBy(SubSeq(Rows, i + 1, j - 1))

(* A transfer that issues a new banknote leaves the payer every second one *)
(* of its own, although they would have covered it (at least in part): the *)
(* loop passes over the successor of each one it takes out of the list.    *)
SinceLast(Test(_)) == SubSeq(Rows, SelectLastInSeq(Rows, Test) + 1, Len(Rows))
NewNoteDespiteNotes ==
    LET given == SinceLast(LAMBDA r : r.kind = "USDT") IN
    /\ step = "gather" /\ accum < pay.value /\ pos > Len(wallet[pay.from])
    /\ pay.from # pay.to
    => Len(given) - Len(wallet[pay.from]) \in {0, 1}

(* Recycling takes at least every second old banknote of a wallet, and in  *)
(* the worst case no more: successors of removed ones stay for another     *)
(* RecycleInterval blocks.                                                 *)
RecycleMissesNeighbours ==
    step = "block" /\ block % RecycleInterval = 0 =>
        \A a \in Accounts :
            LET since == SinceLast(LAMBDA r : r = Sep)
                left == {i \in DOMAIN wallet[a] : Old(wallet[a][i])}
                taken == {i \in DOMAIN since : since[i].owner = a}
            IN Cardinality(left) <= Cardinality(taken)
=============================================================================
