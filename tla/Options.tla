------------------------------ MODULE Options ------------------------------
(***************************************************************************)
(* How a transport is put together (api.New and its options): a caller     *)
(* names the primary address, appends cluster endpoints and may replace    *)
(* the retry policy, and the ring and the delays that come of it are       *)
(* compared with what their documentation promises.                        *)
(***************************************************************************)
EXTENDS Connection, Retry

CONSTANTS MaxExtras,        \* bound: endpoints appended to the primary
          MaxDuration,      \* bound on the policy's durations
          MaxFactor,        \* bound on num and den
          MaxAttempts       \* bound on the attempts looked at

ASSUME OptionsAssumption ==
    {MaxExtras, MaxDuration, MaxFactor, MaxAttempts} \subseteq Nat

VARIABLES primary, extras, policy

optionVars == <<primary, extras, policy, current>>

Addr(s, h, p, r) == [scheme |-> s, host |-> h, port |-> p, rest |-> r]

(***************************************************************************)
(* Spellings of two hosts, the first in four ways that mean one endpoint   *)
(* and two that mean others, and an address without a host.                *)
(***************************************************************************)
Addresses == {Addr(NoPart, "a", NoPart, NoPart), Addr("https", "a", NoPart, "/x"),
              Addr(NoPart, "a", "8006", NoPart), Addr("https", "a", "8006", NoPart),
              Addr("http", "a", NoPart, NoPart), Addr(NoPart, "a", "443", NoPart),
              Addr(NoPart, "b", NoPart, NoPart), Addr("https", NoPart, "8006", NoPart)}

Priorities == {-1, 0, 1}

Policies == [InitialDelay : 0..MaxDuration, MaxDelay : 0..MaxDuration,
             num : 1..MaxFactor, den : 1..MaxFactor, Jitter : BOOLEAN]

(***************************************************************************)
(* In units of 200 ms.                                                     *)
(***************************************************************************)
DefaultRetryPolicy == [InitialDelay |-> 1, MaxDelay |-> 50, num |-> 2,
                       den |-> 1, Jitter |-> TRUE]

OptionsInit ==
    /\ primary \in Addresses
    /\ extras = <<>>
    /\ policy = DefaultRetryPolicy
    /\ ConnectionInit

WithClusterEndpoint(ep) ==
    /\ Len(extras) < MaxExtras
    /\ extras' = Append(extras, ep)
    /\ UNCHANGED <<primary, policy, current>>

WithRetryPolicy(p) ==
    /\ policy' = p
    /\ UNCHANGED <<primary, extras, current>>

(***************************************************************************)
(* The policy and the endpoints have nothing to do with each other, so the *)
(* policies are tried with the primary alone.                              *)
(***************************************************************************)
OptionsNext ==
    /\ policy = DefaultRetryPolicy
    /\ \/ \E a \in Addresses, p \in Priorities :
             WithClusterEndpoint([addr |-> a, priority |-> p])
       \/ extras = <<>> /\ \E p \in Policies : WithRetryPolicy(p)

all == AllEndpoints(primary, extras)
ring == NewConnection(all)

-----------------------------------------------------------------------------
(***************************************************************************)
(* The ring reaches every distinct base URL exactly once, however its      *)
(* address was spelt, through the endpoint that was declared first, and in *)
(* order of priority, ties in order of declaration; so the primary is      *)
(* tried first unless some endpoint has a negative priority (Endpoint:     *)
(* "Lower Priority is tried first; ties preserve declaration order").      *)
(***************************************************************************)
RingRight ==
    NewConnectionOK(all) =>
        /\ {ring[k].base : k \in DOMAIN ring} =
              {NormaliseAddress(all[i].addr) : i \in DOMAIN all}
        /\ \A k, l \in DOMAIN ring : ring[k].base = ring[l].base => k = l
        /\ \A k \in DOMAIN ring, i \in DOMAIN all :
              NormaliseAddress(all[i].addr) = ring[k].base
              => ring[k].declared <= i
        /\ \A k, l \in DOMAIN ring : k < l =>
              \/ ring[k].priority < ring[l].priority
              \/ /\ ring[k].priority = ring[l].priority
                 /\ ring[k].declared < ring[l].declared
        /\ (\A i \in DOMAIN all : all[i].priority >= 0)
              => ring[1].base = NormaliseAddress(primary)

(***************************************************************************)
(* The same delay without the early exit: grow first, cap afterwards.      *)
(***************************************************************************)
CappedGrowth(p, n) ==
    LET d[i \in 1..n] == IF i = 1 THEN p.InitialDelay ELSE Scale(p, d[i - 1])
    IN  IF n > 1 /\ d[n] >= p.MaxDelay THEN p.MaxDelay ELSE d[n]

(***************************************************************************)
(* Breaking out of delay's loop at the cap loses nothing: under a policy   *)
(* that does not shrink, the wait before every retry is the exponential    *)
(* growth cut off at MaxDelay, and the jitter adds less than half of it.   *)
(***************************************************************************)
DelayIsCappedGrowth ==
    policy.num >= policy.den =>
        \A n \in 1..MaxAttempts : \A d \in Delays(policy, n) :
            LET g == CappedGrowth(policy, n)
            IN  g <= d /\ 2 * (d - g) <= g
=============================================================================
