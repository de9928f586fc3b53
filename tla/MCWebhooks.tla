------------------------------ MODULE MCWebhooks ------------------------------
(***************************************************************************)
(* Webhooks on small instances.                                            *)
(***************************************************************************)
EXTENDS Webhooks, TLC
=============================================================================
