----------------------------- MODULE MCBilling -----------------------------
(* An instance of Billing for TLC. *)
EXTENDS Billing

CONSTANTS q1, q2, c1, c2, h1

=============================================================================
