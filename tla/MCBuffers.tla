----------------------------- MODULE MCBuffers -----------------------------
(***************************************************************************)
(* Buffers on a small instance.                                            *)
(***************************************************************************)
EXTENDS Buffers

\* One message with two-line actions only, and one that ends in one-line actions.
SmallTopic == {<<"index", "create">>, <<"update", "delete1", "delete2">>}
SmallActions == {"index", "create", "update", "delete1", "delete2"}
Deletes == {"delete1", "delete2"}

Symmetry == Permutations(Buffer) \cup Permutations(Indexers)
=============================================================================
