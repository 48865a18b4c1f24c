---------------------------- MODULE MCAllocator ----------------------------
(* An area has two or four of the smallest blocks; three areas fill a list. *)
EXTENDS Allocator

RequestsMC == {0, 1, 3, 5}
=============================================================================
