----------------------------- MODULE MCBlueGreen ------------------------------
(* Model-checking instances of BlueGreen; the values are in the cfg files. *)
EXTENDS BlueGreen, TLC

\* Releases, deployers and clients are interchangeable.
Symmetry == Permutations(Releases) \cup Permutations(Deployers)
=============================================================================
