----------------------------- MODULE MCWorkQueue -----------------------------
(* Instance of WorkQueue for TLC. *)
EXTENDS WorkQueue
=============================================================================
