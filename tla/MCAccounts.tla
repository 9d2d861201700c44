----------------------------- MODULE MCAccounts -----------------------------
(* Clients that register and sign in with a few emails.                    *)
EXTENDS Accounts
=============================================================================
