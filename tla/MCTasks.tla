------------------------------ MODULE MCTasks ------------------------------
(***************************************************************************)
(* Instances of Tasks for TLC.                                             *)
(***************************************************************************)
EXTENDS Tasks

CONSTANTS w1, w2, u1, u2

TwoWaiters == {w1, w2}
TwoTasks   == {u1, u2}
=============================================================================
