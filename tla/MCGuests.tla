------------------------------ MODULE MCGuests ------------------------------
(* MockGuests for TLC: nodes, VMIDs and clients are interchangeable.       *)
EXTENDS MockGuests, TLC

Symmetry == Permutations(Nodes) \union Permutations(VMIDs) \union Permutations(Clients)
=============================================================================
