----------------------------- MODULE MCSnmpPool -----------------------------
(***************************************************************************)
(* A small instance of SnmpPool: one goroutine more than tokens, and as    *)
(* many tokens as connections or one more, when the second connection      *)
(* cannot be opened.  Goroutines queue for the semaphore, and one inside   *)
(* it may still wait for a connection, which is the shape of the defaults  *)
(* (5 tokens, 4 connections).                                              *)
(***************************************************************************)
EXTENDS SnmpPool

=============================================================================
