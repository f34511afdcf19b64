------------------------------ MODULE MCRowMvcc ------------------------------
(* RowMvcc for TLC: the threads are interchangeable. *)
EXTENDS RowMvcc, TLC

Threads == Permutations(Sessions)
==============================================================================
