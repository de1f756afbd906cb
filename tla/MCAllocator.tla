----------------------------- MODULE MCAllocator -----------------------------
(* A buffer of two lines and an empty one, two contents.                     *)
EXTENDS Allocator
=============================================================================
