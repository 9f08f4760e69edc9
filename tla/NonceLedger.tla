----------------------------- MODULE NonceLedger ----------------------------
(***************************************************************************)
(* What the nonce table promises, without revisions, statements, leases or *)
(* a sweeper: a ledger of claims.  A claim <<e, n>> says that execution e  *)
(* has nonce n of its account.  Module NonceAssignments implements it.     *)
(*                                                                         *)
(* A claim that nobody has settled may come under suspicion, and only such *)
(* a claim may be taken away from its execution; it may have been settled  *)
(* in the meantime, and is then lost all the same.                         *)
(***************************************************************************)
EXTENDS Executions

VARIABLES
    held,      (* the claims                                  *)
    settled,   (* those of them that were made final          *)
    suspect    (* those that may be taken away                *)

ledgerVars == <<held, settled, suspect>>

\* The nonce of claim c goes to an execution that has settled none, if no execution of
\* the account has it.
Grant(c) ==
    /\ held' = held \cup {c}
    /\ \A d \in held : d[2] = c[2] => AccountOf[d[1]] # AccountOf[c[1]]
    /\ \A d \in settled : d[1] # c[1]
    /\ UNCHANGED <<settled, suspect>>

Settle(c) ==
    /\ settled' = settled \cup {c}
    /\ c \in held
    /\ UNCHANGED <<held, suspect>>

GiveUp(c) ==
    /\ held' = held \ {c}
    /\ c \notin settled
    /\ UNCHANGED <<settled, suspect>>

Suspect ==
    /\ suspect = {}
    /\ suspect' \subseteq held \ settled
    /\ UNCHANGED <<held, settled>>

\* The suspicion ends, with the loss of some of the claims or of none.
Reclaim ==
    /\ suspect' = {}
    /\ held' \subseteq held
    /\ held \ held' \subseteq suspect
    /\ settled' = settled \cap held'

LedgerInit == held = {} /\ settled = {} /\ suspect = {}

LedgerNext ==
    \/ Reclaim
    \/ Suspect
    \/ \E c \in held' \ held : Grant(c)
    \/ \E c \in settled' \ settled : Settle(c)
    \/ \E c \in held \ held' : GiveUp(c)

LedgerSpec == LedgerInit /\ [][LedgerNext]_ledgerVars

=============================================================================
