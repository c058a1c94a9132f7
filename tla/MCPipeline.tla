---------------------------- MODULE MCPipeline ----------------------------
(***************************************************************************)
(* Pipeline on small instances.                                            *)
(***************************************************************************)
EXTENDS Pipeline, TLC

CONSTANTS s1, s2, s3

\* A message with several SPIs and one with a single SPI; or single ones only.
TwoMessages == {{s1, s2}, {s3}}
SingleSpis == {{s1}, {s2}}

\* The instances run the same code, and s1 and s2 travel in the same message.
Symmetry == Permutations(Indexers) \cup Permutations({s1, s2})
=============================================================================
