----------------------------- MODULE Connection -----------------------------
(***************************************************************************)
(* The endpoint set of a transport (proxmox/api/connection.go): how the    *)
(* addresses a caller gives become the ordered, duplicate-free ring, and   *)
(* the ring's one mutable field, the index of the active endpoint.  Every  *)
(* method takes the connection's mutex, so each one is a single step.      *)
(***************************************************************************)
EXTENDS Integers, Sequences, FiniteSets

CONSTANT EndpointCount      \* len(ordered), fixed by newConnection

ASSUME EndpointCountAssumption == EndpointCount \in Nat \ {0}

VARIABLE current            \* index into ordered

-----------------------------------------------------------------------------
(***************************************************************************)
(* Construction.  An address is a record of the parts url.Parse finds in   *)
(* it, NoPart standing for a part that is absent: the path, query and      *)
(* fragment are one part, "rest".                                          *)
(***************************************************************************)
NoPart == ""
DefaultPort == "8006"

NormaliseAddress(addr) ==
    [scheme |-> IF addr.scheme = NoPart THEN "https" ELSE addr.scheme,
     host   |-> addr.host,
     port   |-> IF addr.port = NoPart THEN DefaultPort ELSE addr.port,
     rest   |-> NoPart]

(***************************************************************************)
(* normaliseAddress fails on an address without a host (the empty address  *)
(* included), and newConnection fails with it.                             *)
(***************************************************************************)
AddressOK(addr) == addr.host # NoPart

AllEndpoints(primary, extras) ==
    <<[addr |-> primary, priority |-> 0]>> \o extras


(***************************************************************************)
(* The positions that survive the "seen" map: the first of each base URL.  *)
(***************************************************************************)
Kept(all) ==
    {i \in DOMAIN all :
        \A j \in 1..(i - 1) :
            NormaliseAddress(all[j].addr) # NormaliseAddress(all[i].addr)}

BeforeUnstable(all, i, j) ==        \* mutant: ties reversed
    \/ all[i].priority < all[j].priority
    \/ all[i].priority = all[j].priority /\ i > j

(***************************************************************************)
(* sort.SliceStable by priority: i goes before j when it has the smaller   *)
(* priority, or the same one and was declared first.                       *)
(***************************************************************************)
Before(all, i, j) ==
    \/ all[i].priority < all[j].priority
    \/ all[i].priority = all[j].priority /\ i < j

Rank(all, i) == Cardinality({j \in Kept(all) : Before(all, j, i)})

NewConnectionOK(all) == \A i \in DOMAIN all : AddressOK(all[i].addr)

NewConnection(all) ==
    [k \in 1..Cardinality(Kept(all)) |->
        LET i == CHOOSE i \in Kept(all) : Rank(all, i) = k - 1
        IN  [base     |-> NormaliseAddress(all[i].addr),
             priority |-> all[i].priority,
             declared |-> i]]

-----------------------------------------------------------------------------
(***************************************************************************)
(* The ring.                                                               *)
(***************************************************************************)
Endpoints == 0..(EndpointCount - 1)

ConnectionInit == current = 0

(***************************************************************************)
(* failover reports false, and changes nothing, on a single endpoint.      *)
(***************************************************************************)
CanFailover == EndpointCount > 1

AdvanceNoWrap(i) == i + 1           \* mutant: no modulus

AdvanceToPrimary(i) == 0            \* mutant: not sticky

Advance(i) == (i + 1) % EndpointCount

Failover == current' = IF CanFailover THEN Advance(current) ELSE current
=============================================================================
