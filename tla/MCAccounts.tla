----------------------------- MODULE MCAccounts -----------------------------
(* Accounts on a small instance: one user and two handlers.                *)
EXTENDS Accounts
=============================================================================
