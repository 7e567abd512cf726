--------------------------- MODULE MCTableCommit ---------------------------
(* TLC instance of TableCommit: workers, requests and payloads are         *)
(* interchangeable.                                                        *)
EXTENDS TableCommit, TLC

Symmetry == Permutations(Workers) \cup Permutations(Ids)
              \cup Permutations(Payloads)
=============================================================================
