---------------------------- MODULE MCTransport ----------------------------
(***************************************************************************)
(* Instances of Transport for TLC.                                         *)
(***************************************************************************)
EXTENDS Transport, TLC

CONSTANTS c1, c2, none

OneCall  == {c1}
TwoCalls == {c1, c2}

Symmetry == Permutations(TwoCalls)

NoneDown    == {}
PrimaryDown == {0}

Writes   == {"write"}
Requests == {"read", "write"}
Sockets  == {"websocket"}
AllOps   == Looped \cup OneShot
=============================================================================
