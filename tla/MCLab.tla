------------------------------- MODULE MCLab -------------------------------
(***************************************************************************)
(* Instances of Lab for TLC.                                               *)
(***************************************************************************)
EXTENDS Lab

NoFlags   == {{}}
Stateless == {{"noState"}}
EachFlag  == {{}, {"force"}, {"noState"}, {"force", "purge"}}
=============================================================================
