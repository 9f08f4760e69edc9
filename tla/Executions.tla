----------------------------- MODULE Executions -----------------------------
(***************************************************************************)
(* The identities every component works with.  The HTTP handler draws a    *)
(* fresh execution id for each request (lobby/src/server/handler.rs), so   *)
(* an execution is run by one pipeline, once.                              *)
(***************************************************************************)

CONSTANTS
    Exec,       (* execution ids                           *)
    Account,    (* (chain_id, from_address) pairs          *)
    AccountOf   (* the account each execution spends from  *)

ASSUME AccountsAssumption == AccountOf \in [Exec -> Account]

=============================================================================
