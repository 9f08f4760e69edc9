------------------------------- MODULE Chain --------------------------------
(***************************************************************************)
(* The chain behind the RPC endpoints, as the broadcast and the validator  *)
(* engines see it through send_raw_transaction, get_transaction_count      *)
(* (pending) and get_transaction_receipt.  It is not code of this          *)
(* repository.                                                             *)
(*                                                                         *)
(* A transaction is a pair <<e, n>>: the payload of execution e signed     *)
(* with nonce n.  mined[a] lists the transactions of account a in nonce    *)
(* order, those another wallet of the account sent among them; one         *)
(* transaction makes one block.  There are no reorganisations.             *)
(***************************************************************************)
EXTENDS Executions, Integers, Sequences

CONSTANTS
    Other,     (* stands for another wallet of the account *)
    MaxOther   (* bound: transactions it sends             *)

ASSUME ChainAssumption == Other \notin Exec /\ MaxOther \in Nat

VARIABLES
    mined,   (* mined[a][n + 1] is the transaction with nonce n *)
    pool     (* pool[a]: pending transactions                   *)

chainVars == <<mined, pool>>

ChainNonce(a) == Len(mined[a])

PendingNonces(a) == {t[2] : t \in pool[a]}

\* What eth_getTransactionCount answers for the pending block.
IsPendingCount(a, n) ==
    /\ n >= ChainNonce(a)
    /\ n \notin PendingNonces(a)
    /\ ChainNonce(a)..(n - 1) \subseteq PendingNonces(a)

\* The receipt of <<e, n>> exists, with that status.
HasReceipt(e, n, ok) ==
    /\ n < ChainNonce(AccountOf[e])
    /\ mined[AccountOf[e]][n + 1] = [exec |-> e, ok |-> ok]

\* The endpoint refuses, and its words name the nonce: "nonce too low", or "known transaction".
IsNonceError(e, n) == n < ChainNonce(AccountOf[e]) \/ <<e, n>> \in pool[AccountOf[e]]

\* The endpoint refuses in other words: "already known", or "underpriced" next to a competitor.
IsRefused(e, n) == n >= ChainNonce(AccountOf[e]) /\ n \in PendingNonces(AccountOf[e])

Competitors(e, n) == {t \in pool[AccountOf[e]] : t[2] = n /\ t[1] # e}

\* The endpoint takes the transaction, in place of a competitor it outbids.
Admit(e, n) ==
    /\ ~IsNonceError(e, n)
    /\ pool' = [pool EXCEPT ![AccountOf[e]] = (@ \ Competitors(e, n)) \cup {<<e, n>>}]
    /\ UNCHANGED mined

\* The next nonce of the account is used, by one of its pending transactions ...
Use(a, by, ok) ==
    /\ mined' = [mined EXCEPT ![a] = Append(@, [exec |-> by, ok |-> ok])]
    /\ pool' = [pool EXCEPT ![a] = {t \in @ : t[2] # ChainNonce(a)}]

Mine(a) ==
    \E t \in pool[a], ok \in BOOLEAN : t[2] = ChainNonce(a) /\ Use(a, t[1], ok)

\* ... or by another wallet.
OtherWallet(a) ==
    /\ Len(SelectSeq(mined[a], LAMBDA t : t.exec = Other)) < MaxOther
    /\ Use(a, Other, TRUE)

Evict(a) ==
    \E t \in pool[a] : /\ pool' = [pool EXCEPT ![a] = @ \ {t}]
                       /\ UNCHANGED mined

ChainInit ==
    /\ mined = [a \in Account |-> <<>>]
    /\ pool = [a \in Account |-> {}]

=============================================================================
