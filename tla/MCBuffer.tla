------------------------------ MODULE MCBuffer ------------------------------
(* Instances of the buffer, in units of 32 KB.                              *)
EXTENDS Buffer
=============================================================================
