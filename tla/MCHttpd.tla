------------------------------ MODULE MCHttpd ------------------------------
(***************************************************************************)
(* The instances of Httpd that TLC checks.  Blocks and clients are only    *)
(* compared for equality, so they are interchangeable in the safety runs.  *)
(***************************************************************************)
EXTENDS Httpd, TLC

Symmetry == Permutations(Blocks) \cup Permutations(Clients)
=============================================================================
