----------------------------- MODULE MCDevMngr -----------------------------
(* A small instance of DevMngr. *)
EXTENDS DevMngr
============================================================================
