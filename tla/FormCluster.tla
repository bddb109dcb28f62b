---------------------------- MODULE FormCluster ----------------------------
(***************************************************************************)
(* Cluster formation in pvelab (cmd/pvelab/lab/cluster.go): formCluster    *)
(* creates the cluster on the first node and joins the others one by one.  *)
(* What it can see of a join is the corosync nodelist and the quorum, so   *)
(* the model also has the cluster itself, as an environment: a join is     *)
(* accepted by the joining node, enters corosync.conf while pmxcfs is      *)
(* writable, that is while the cluster is quorate, and only later does the *)
(* node's corosync come online.                                            *)
(***************************************************************************)
EXTENDS Integers, FiniteSets

CONSTANTS N,            \* cfg.Nested.Nodes; node 1 is the first
          FirstOnline,  \* the first node is in conf and online at once
          MaxFlaps      \* bound: times a member drops off

ASSUME NAssumption == N \in Nat \ {0}
ASSUME FirstOnlineAssumption == FirstOnline \in BOOLEAN
ASSUME MaxFlapsAssumption == MaxFlaps \in Nat

Nodes == 1..N

VARIABLES pc,           \* where formCluster is
          at,           \* the node it creates, joins or waits for
          conf,         \* nodes in corosync.conf
          online,       \* nodes whose corosync is up
          joining,      \* creates and joins accepted, not in conf yet
          lost,         \* joins that failed on the server
          flaps

client  == <<pc, at>>
cluster == <<conf, online, joining, lost, flaps>>
vars    == <<client, cluster>>

Points == {"create", "member", "info", "join", "quorum", "formed", "failed"}

(***************************************************************************)
(* Corosync's rule, over the nodes that corosync.conf expects.             *)
(***************************************************************************)
IsQuorate == 2 * Cardinality(online) > Cardinality(conf)

Init ==
    /\ pc = "create"
    /\ at = 1
    /\ conf = {}
    /\ online = {}
    /\ joining = {}
    /\ lost = {}
    /\ flaps = 0

(***************************************************************************)
(* Every session is dialled afresh; a step that cannot dial, or whose      *)
(* request fails, ends the formation, except a join.                       *)
(***************************************************************************)
Fail ==
    /\ pc \in {"create", "info", "join"}
    /\ pc' = "failed"
    /\ UNCHANGED <<at, cluster>>

Create ==
    /\ pc = "create"
    /\ pc' \in {"member", "failed"}     \* carried out, its reply lost
    /\ joining' = {1}
    /\ UNCHANGED <<at, conf, online, lost, flaps>>

MemberUngated ==                        \* mutant: the quorum is not awaited
    /\ pc = "member"
    /\ at \in conf
    /\ IF at = 1 THEN pc' = "info" /\ UNCHANGED at
       ELSE IF at = N THEN pc' = "formed" /\ UNCHANGED at
       ELSE pc' = "join" /\ at' = at + 1
    /\ UNCHANGED cluster

(***************************************************************************)
(* waitForMember sees the node in the nodelist of the first node.  Of the  *)
(* first node itself nothing more is asked.                                *)
(***************************************************************************)
Member ==
    /\ pc = "member"
    /\ at \in conf
    /\ pc' = IF at = 1 THEN "info" ELSE "quorum"
    /\ UNCHANGED <<at, cluster>>

TimeoutStartsOver ==                    \* mutant: the polls have no ceiling
    /\ pc \in {"member", "quorum"}
    /\ pc' = IF pc = "quorum" THEN "member" ELSE "failed"
    /\ UNCHANGED <<at, cluster>>

(***************************************************************************)
(* The ceiling of waitForMember or waitForQuorum.  A poll that fails or    *)
(* says "not yet" changes nothing.                                         *)
(***************************************************************************)
Timeout ==
    /\ pc \in {"member", "quorum"}
    /\ pc' = "failed"
    /\ UNCHANGED <<at, cluster>>

(***************************************************************************)
(* A fresh session, the join information and its fingerprint.              *)
(***************************************************************************)
JoinInfo ==
    /\ pc = "info"
    /\ IF N = 1 THEN pc' = "formed" /\ UNCHANGED at
                ELSE pc' = "join" /\ at' = 2
    /\ UNCHANGED cluster

(***************************************************************************)
(* joinNode: accepted or not, its error is dropped and the nodelist is     *)
(* the judge.                                                              *)
(***************************************************************************)
Join ==
    /\ pc = "join"
    /\ joining' \in {joining, joining \cup {at}}
    /\ pc' = "member"
    /\ UNCHANGED <<at, conf, online, lost, flaps>>

(***************************************************************************)
(* quorate, from one answer of /cluster/status at the first node.          *)
(***************************************************************************)
Quorate(want) ==
    /\ IsQuorate
    /\ Cardinality(conf) >= want
    /\ Cardinality(online) >= want

GateOneFewer ==                         \* mutant: the last node is left out
    /\ pc = "quorum"
    /\ Quorate(at)
    /\ IF at >= N - 1 THEN pc' = "formed" /\ UNCHANGED at
                      ELSE pc' = "join" /\ at' = at + 1
    /\ UNCHANGED cluster

(***************************************************************************)
(* waitForQuorum asks for the members joined so far, then the next joins.  *)
(***************************************************************************)
Gate ==
    /\ pc = "quorum"
    /\ Quorate(at)
    /\ IF at = N THEN pc' = "formed" /\ UNCHANGED at
                 ELSE pc' = "join" /\ at' = at + 1
    /\ UNCHANGED cluster

-----------------------------------------------------------------------------
(***************************************************************************)
(* External: the cluster.                                                  *)
(***************************************************************************)
Land(n) ==
    /\ n \in joining
    /\ n = 1 \/ IsQuorate
    /\ conf' = conf \cup {n}
    /\ online' = IF n = 1 /\ FirstOnline THEN {1} ELSE online
    /\ joining' = joining \ {n}
    /\ UNCHANGED <<client, lost, flaps>>

Lose(n) ==
    /\ n \in joining \ {1}
    /\ ~ IsQuorate
    /\ lost' = lost \cup {n}
    /\ joining' = joining \ {n}
    /\ UNCHANGED <<client, conf, online, flaps>>

ComeOnline(n) ==
    /\ n \in conf \ online
    /\ online' = online \cup {n}
    /\ UNCHANGED <<client, conf, joining, lost, flaps>>

Flap(n) ==
    /\ n \in online
    /\ flaps < MaxFlaps
    /\ online' = online \ {n}
    /\ flaps' = flaps + 1
    /\ UNCHANGED <<client, conf, joining, lost>>

Client  == \/ Fail \/ Create \/ Member \/ Timeout \/ JoinInfo \/ Join \/ Gate
Cluster == \E n \in Nodes : Land(n) \/ Lose(n) \/ ComeOnline(n) \/ Flap(n)
Ended   == pc \in {"formed", "failed"} /\ UNCHANGED vars

Next == Client \/ Cluster \/ Ended

Spec == Init /\ [][Next]_vars

(***************************************************************************)
(* Requests return and the polls' timers run out; of the cluster nothing   *)
(* is assumed.                                                             *)
(***************************************************************************)
FairSpec == Spec /\ WF_vars(Client)

-----------------------------------------------------------------------------
TypeOK ==
    /\ pc \in Points
    /\ at \in Nodes
    /\ conf \subseteq Nodes
    /\ online \subseteq conf
    /\ joining \subseteq Nodes
    /\ lost \subseteq Nodes
    /\ flaps \in 0..MaxFlaps

(***************************************************************************)
(* No join is fired into a cluster that cannot record it.  This is the     *)
(* failure formCluster's gate was added for: a node enters corosync.conf,  *)
(* which raises the expected votes, before its corosync is up, and a join  *)
(* sent in that window is accepted and then fails on the server.           *)
(***************************************************************************)
NoJoinLost == flaps = 0 => lost = {}

(***************************************************************************)
(* FormCluster returns nil only for the whole cluster, although the error  *)
(* of every join is dropped and members may come and go.                   *)
(***************************************************************************)
FormedIsComplete ==
    pc = "formed" => conf = Nodes /\ (N > 1 /\ flaps = 0 => online = Nodes)

(***************************************************************************)
(* Formation ends: a join that is rejected, dropped or lost shows as the   *)
(* timeout of a poll, never as a wait without end.                         *)
(***************************************************************************)
FormationEnds == <>(pc \in {"formed", "failed"})
=============================================================================
