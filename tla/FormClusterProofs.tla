------------------------- MODULE FormClusterProofs -------------------------
(***************************************************************************)
(* What formCluster guarantees for every number of nodes and every number  *)
(* of drops.                                                               *)
(***************************************************************************)
EXTENDS FormCluster, FiniteSetTheorems, TLAPS

(***************************************************************************)
(* The nodelist grows in order, one join at a time: it holds the nodes     *)
(* before the one formCluster is at, and perhaps that one, and no other    *)
(* join can still be under way.  Past waitForMember the node at hand is in *)
(* it.                                                                     *)
(***************************************************************************)
Before == 1..(at - 1)

InOrder ==
    /\ conf \in {Before, 1..at}
    /\ joining \subseteq {at} \ conf
    /\ pc \in {"create", "join"} => conf = Before /\ joining = {}
    /\ pc \in {"info", "quorum", "formed"} => conf = 1..at
    /\ pc \in {"create", "info"} => at = 1
    /\ pc \in {"join", "quorum"} => at > 1
    /\ pc = "formed" => at = N

(***************************************************************************)
(* What the quorum gate adds as long as no member has dropped off: every   *)
(* node before the one at hand is online, at a successful end every node,  *)
(* and no join has been lost.                                              *)
(***************************************************************************)
Gated ==
    flaps = 0 =>
        /\ FirstOnline => /\ Before \subseteq online
                          /\ at = 1 => online = conf
                          /\ pc = "join" => online = conf
                          /\ lost = {}
        /\ pc = "formed" /\ N > 1 => online = Nodes

FormInv == TypeOK /\ InOrder /\ Gated

-----------------------------------------------------------------------------
\* The nodelist and the set of nodes online are finite, so that the two counts
\* quorate compares are natural numbers, and the second is no larger.
LEMMA CountFacts ==
    ASSUME TypeOK
    PROVE  /\ IsFiniteSet(conf) /\ IsFiniteSet(online)
           /\ Cardinality(conf) \in Nat /\ Cardinality(online) \in Nat
           /\ Cardinality(online) <= Cardinality(conf)
<1>1. IsFiniteSet(Nodes)
  BY FS_Interval, NAssumption DEF Nodes
<1>2. IsFiniteSet(conf)
  BY <1>1, FS_Subset DEF TypeOK
<1> QED
  BY <1>2, FS_Subset, FS_CardinalityType DEF TypeOK

\* The first k nodes are k nodes.
LEMMA FirstNodes ==
    ASSUME NEW k \in Nat
    PROVE  IsFiniteSet(1..k) /\ Cardinality(1..k) = k
BY FS_Interval

\* The answer of /cluster/status that opens the gate, once the nodelist holds
\* the first at nodes, says that every one of them is online.
LEMMA GateMeansAllOnline ==
    ASSUME TypeOK, conf = 1..at, Quorate(at)
    PROVE  online = conf
<1>1. Cardinality(conf) = at
  BY FirstNodes DEF TypeOK, Nodes
<1>2. Cardinality(online) = Cardinality(conf)
  BY <1>1, CountFacts DEF Quorate, TypeOK, Nodes
<1> QED
  BY <1>2, CountFacts, FS_Subset DEF TypeOK

\* A nodelist whose members are all online, and not empty, is quorate.
LEMMA AllOnlineIsQuorate ==
    ASSUME TypeOK, online = conf, conf # {}
    PROVE  IsQuorate
<1>1. Cardinality(conf) # 0
  BY CountFacts, FS_EmptySet
<1> QED
  BY <1>1, CountFacts DEF IsQuorate

-----------------------------------------------------------------------------
\* Before the cluster is created nothing is in the nodelist.
LEMMA FormInit == Init => FormInv
<1> SUFFICES ASSUME Init PROVE FormInv
  OBVIOUS
<1>1. Before = {}
  BY DEF Init, Before
<1> QED
  BY <1>1, NAssumption, MaxFlapsAssumption
  DEF FormInv, Init, TypeOK, Points, Nodes, InOrder, Gated

\* Every step of formCluster itself keeps the invariant.
LEMMA ClientStep ==
    ASSUME FormInv, Client
    PROVE  FormInv'
<1> USE NAssumption DEF FormInv, TypeOK, Points, Nodes
<1>0. at \in 1..N /\ N \in Nat
  OBVIOUS
<1>1. CASE Fail
  BY <1>1 DEF Fail, cluster, InOrder, Gated, Before
<1>2. CASE Create
  BY <1>2 DEF Create, InOrder, Gated, Before
<1>3. CASE Member
  <2>1. conf = 1..at
    BY <1>3, <1>0 DEF Member, InOrder, Before
  <2> QED
    BY <1>3, <2>1, <1>0 DEF Member, cluster, InOrder, Gated, Before
<1>4. CASE Timeout
  BY <1>4 DEF Timeout, cluster, InOrder, Gated, Before
<1>5. CASE JoinInfo
  <2>1. at = 1 /\ conf = 1..1
    BY <1>5 DEF JoinInfo, InOrder
  <2>2. CASE N = 1
    BY <1>5, <2>1, <2>2 DEF JoinInfo, cluster, InOrder, Gated, Before
  <2>3. CASE N # 1
    <3>1. pc' = "join" /\ at' = 2 /\ UNCHANGED cluster /\ Before' = 1..1
      BY <1>5, <2>3 DEF JoinInfo, Before
    <3>2. joining = {}
      BY <2>1 DEF InOrder
    <3>3. TypeOK'
      BY <3>1, <2>3 DEF cluster
    <3>4. InOrder'
      BY <3>1, <3>2, <2>1 DEF InOrder, cluster
    <3>5. Gated'
      BY <3>1, <2>1 DEF Gated, cluster
    <3> QED
      BY <3>3, <3>4, <3>5
  <2> QED
    BY <2>2, <2>3
<1>6. CASE Join
  BY <1>6, <1>0 DEF Join, InOrder, Gated, Before
<1>7. CASE Gate
  <2>1. conf = 1..at /\ at > 1 /\ joining = {}
    BY <1>7, <1>0 DEF Gate, InOrder
  <2>2. online = conf
    BY <1>7, <2>1, GateMeansAllOnline DEF Gate
  <2>3. CASE at = N
    BY <1>7, <2>1, <2>2, <2>3 DEF Gate, cluster, InOrder, Gated, Before
  <2>4. CASE at # N
    <3>1. pc' = "join" /\ at' = at + 1 /\ UNCHANGED cluster
      BY <1>7, <2>4 DEF Gate
    <3>2. Before' = 1..at
      BY <3>1, <1>0 DEF Before
    <3>3. TypeOK'
      BY <3>1, <2>4, <1>0 DEF cluster
    <3>4. InOrder'
      BY <3>1, <3>2, <2>1, <1>0 DEF InOrder, cluster
    <3>5. Gated'
      BY <3>1, <3>2, <2>1, <2>2, <1>0 DEF Gated, cluster
    <3> QED
      BY <3>3, <3>4, <3>5
  <2> QED
    BY <2>3, <2>4
<1> QED
  BY <1>1, <1>2, <1>3, <1>4, <1>5, <1>6, <1>7 DEF Client

\* So does every step of the cluster: a join landing, failing, a member coming
\* online or dropping off.
LEMMA ClusterStep ==
    ASSUME FormInv, NEW n \in Nodes,
           Land(n) \/ Lose(n) \/ ComeOnline(n) \/ Flap(n)
    PROVE  FormInv'
<1> USE NAssumption, MaxFlapsAssumption DEF FormInv, TypeOK, Points, Nodes
<1>0. at \in 1..N /\ N \in Nat
  OBVIOUS
<1>1. CASE Land(n)
  <2>1. n = at /\ conf = Before /\ at \notin conf
    BY <1>1, <1>0 DEF Land, InOrder, Before
  <2>2. conf' = 1..at /\ joining' = {} /\ UNCHANGED <<client, lost, flaps>>
    BY <1>1, <2>1, <1>0 DEF Land, InOrder, Before
  <2>3. n = 1 => conf = {} /\ online = {} /\ conf' = {1}
    BY <2>1, <2>2 DEF Before
  <2>4. online' = IF n = 1 /\ FirstOnline THEN {1} ELSE online
    BY <1>1 DEF Land
  <2>5. TypeOK'
    BY <2>1, <2>2, <2>3, <2>4, <1>0 DEF client, Before
  <2>6. InOrder'
    BY <2>1, <2>2, <1>1, <1>0 DEF Land, InOrder, client, Before
  <2>7. Gated'
    <3>0. pc \notin {"join", "formed"}
      BY <2>1, <1>1, <1>0 DEF Land, InOrder
    <3>1. CASE n = 1
      BY <3>0, <3>1, <2>1, <2>2, <2>3, <2>4, FirstOnlineAssumption
      DEF Gated, client, Before
    <3>2. CASE n # 1
      BY <3>0, <3>2, <2>1, <2>2, <2>4 DEF Gated, client, Before
    <3> QED
      BY <3>1, <3>2
  <2> QED
    BY <2>5, <2>6, <2>7
<1>2. CASE Lose(n)
  <2>1. n = at /\ at > 1 /\ conf = Before
    BY <1>2, <1>0 DEF Lose, InOrder, Before
  <2>2. ~ (FirstOnline /\ flaps = 0)
    <3> SUFFICES ASSUME FirstOnline, flaps = 0 PROVE FALSE
      OBVIOUS
    <3>1. online = conf
      BY <2>1 DEF Gated
    <3>2. 1 \in conf
      BY <2>1, <1>0 DEF Before
    <3> QED
      BY <3>1, <3>2, <1>2, AllOnlineIsQuorate DEF Lose
  <2>3. UNCHANGED <<client, conf, online, flaps>> /\ joining' \subseteq joining
    BY <1>2 DEF Lose
  <2>4. TypeOK' /\ InOrder'
    BY <1>2, <2>3, <1>0 DEF Lose, client, InOrder, Before
  <2> QED
    BY <2>2, <2>3, <2>4, FirstOnlineAssumption DEF Gated, client, Before
<1>3. CASE ComeOnline(n)
  BY <1>3, <1>0 DEF ComeOnline, client, InOrder, Gated, Before
<1>4. CASE Flap(n)
  <2>1. flaps' # 0
    BY <1>4 DEF Flap
  <2> QED
    BY <1>4, <2>1 DEF Flap, client, InOrder, Gated, Before
<1> QED
  BY <1>1, <1>2, <1>3, <1>4

\* The invariant is inductive.
LEMMA FormNext == FormInv /\ [Next]_vars => FormInv'
<1> SUFFICES ASSUME FormInv, [Next]_vars PROVE FormInv'
  OBVIOUS
<1>1. CASE UNCHANGED vars
  BY <1>1 DEF vars, client, cluster, FormInv, TypeOK, InOrder, Gated, Before
<1>2. CASE Ended
  BY <1>1, <1>2 DEF Ended
<1> QED
  BY <1>1, <1>2, ClientStep, ClusterStep DEF Next, Cluster

(***************************************************************************)
(* The nodelist grows in order, one join at a time, however the polls and  *)
(* the cluster interleave.                                                 *)
(***************************************************************************)
THEOREM FormInvariant == Spec => []FormInv
BY FormInit, FormNext, PTL DEF Spec

(***************************************************************************)
(* No join is lost for want of a quorum, for every number of nodes: the    *)
(* gate of waitForQuorum suffices when the node that creates the cluster   *)
(* is online in it at once and no member drops off meanwhile.              *)
(***************************************************************************)
THEOREM NoJoinLostCorrect ==
    ASSUME FirstOnline
    PROVE  Spec => []NoJoinLost
<1>1. FormInv => NoJoinLost
  BY DEF FormInv, Gated, NoJoinLost
<1> QED
  BY <1>1, FormInvariant, PTL

(***************************************************************************)
(* FormCluster's success means the whole cluster, whether or not the first *)
(* node was online at once and however often members drop off.             *)
(***************************************************************************)
THEOREM FormedCorrect == Spec => []FormedIsComplete
<1>1. FormInv => FormedIsComplete
  BY DEF FormInv, InOrder, Gated, FormedIsComplete, Nodes
<1> QED
  BY <1>1, FormInvariant, PTL
=============================================================================
