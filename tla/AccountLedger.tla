--------------------------- MODULE AccountLedger ---------------------------
(***************************************************************************)
(* Account states and the operations every ledger's state trie is built    *)
(* from: core/account.go, and the reading, charging and crediting of       *)
(* accounts in chain/banknote_processor.go.                                *)
(*                                                                         *)
(* A trie maps every account to its state.  An account that was never      *)
(* written is read as FreshAccount (nil from the trie); since every write  *)
(* raises the nonce, a written account is never equal to FreshAccount, so  *)
(* the total function loses nothing and stands for the trie's root hash.   *)
(***************************************************************************)
EXTENDS Integers

CONSTANTS Accounts,     \* addresses that can hold a balance
          ZeroAddress,  \* *new(common.Address): "no address in this field"
          InitBalance   \* cc.InitBalance

ASSUME AccountAssumption == /\ ZeroAddress \notin Accounts
                            /\ InitBalance \in Nat \ {0}

Addresses == Accounts \cup {ZeroAddress}

Account == [nonce: Nat, balance: Nat]
Tries == [Accounts -> Account]

FreshAccount == [nonce |-> 0, balance |-> InitBalance]
EmptyTrie == [a \in Accounts |-> FreshAccount]

(* (as *AccountState) Deduct: refused, without an effect, unless the       *)
(* balance strictly exceeds the value.                                     *)
AffordsExactly(acc, v) == acc.balance >= v            \* variant: off by one
Affords(acc, v) == acc.balance > v
Deduct(acc, v) == IF Affords(acc, v) THEN [acc EXCEPT !.balance = @ - v] ELSE acc
Deposit(acc, v) == [acc EXCEPT !.balance = @ + v]
BumpNonce(acc) == [acc EXCEPT !.nonce = @ + 1]

-----------------------------------------------------------------------------
(* The accountModifySet of one peripheral ledger: which accounts the block *)
(* touches and by how much, in total, each is charged or credited.         *)
ModifySets == [touched: SUBSET Accounts, net: [Accounts -> Int]]
NoModification == [touched |-> {}, net |-> [a \in Accounts |-> 0]]

ChargeAnyone(m, a, v) ==                              \* variant: no test of the address
    [touched |-> m.touched \cup {a}, net |-> [m.net EXCEPT ![a] = @ - v]]
Charge(m, a, v) ==
    IF a = ZeroAddress THEN m
    ELSE [touched |-> m.touched \cup {a}, net |-> [m.net EXCEPT ![a] = @ - v]]

Credit(m, a, v) ==
    IF a = ZeroAddress THEN m
    ELSE [touched |-> m.touched \cup {a}, net |-> [m.net EXCEPT ![a] = @ + v]]

(* The loop over accountModifySet.  A refused Deduct still raises the      *)
(* nonce; an untouched account keeps its state (cnt == 0 keeps the root).  *)
Settle(acc, net) == BumpNonce(IF net < 0 THEN Deduct(acc, -net) ELSE Deposit(acc, net))

ApplyModifySet(trie, m) ==
    [a \in Accounts |-> IF a \in m.touched THEN Settle(trie[a], m.net[a]) ELSE trie[a]]

-----------------------------------------------------------------------------
(* One NT transaction on the core ledger: both sides are read, changed and *)
(* written back one after the other, so a transfer to oneself sees its own *)
(* debit; the result of Deduct is ignored.                                 *)
Debited(trie, tx) ==
    [trie EXCEPT ![tx.from] = BumpNonce(Deduct(@, tx.amount))]
PaidFromStale(trie, tx) ==                            \* variant: both sides read first
    [Debited(trie, tx) EXCEPT ![tx.to] = BumpNonce(Deposit(trie[tx.to], tx.amount))]
ApplyNormalTx(trie, tx) ==
    [Debited(trie, tx) EXCEPT ![tx.to] = BumpNonce(Deposit(@, tx.amount))]
=============================================================================
