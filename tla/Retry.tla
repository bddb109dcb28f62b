------------------------------- MODULE Retry -------------------------------
(***************************************************************************)
(* RetryPolicy.delay (proxmox/api/retry.go).  Durations are whole numbers; *)
(* the factor is the fraction num/den, and every product is truncated.     *)
(***************************************************************************)
EXTENDS Integers

Scale(p, d) == (d * p.num) \div p.den

GrownUncapped(p, n) ==      \* mutant: the cap is forgotten
    LET d[i \in 1..n] == IF i = 1 THEN p.InitialDelay ELSE Scale(p, d[i - 1])
    IN  d[n]

(***************************************************************************)
(* The loop: it scales the delay once per attempt after the first, and     *)
(* breaks out at the first value that reaches the cap.                     *)
(***************************************************************************)
Grown(p, n) ==
    LET d[i \in 1..n] ==
            IF i = 1 THEN [v |-> p.InitialDelay, stop |-> FALSE]
            ELSE IF d[i - 1].stop THEN d[i - 1]
            ELSE LET g == Scale(p, d[i - 1].v)
                 IN  IF g >= p.MaxDelay THEN [v |-> p.MaxDelay, stop |-> TRUE]
                                        ELSE [v |-> g, stop |-> FALSE]
    IN  d[n].v

(***************************************************************************)
(* The values the jitter can make of d: up to half of it is added, and     *)
(* none where half of it is nothing.                                       *)
(***************************************************************************)
Jittered(p, d) == IF p.Jitter /\ d \div 2 > 0
                  THEN d..(d + d \div 2 - 1)
                  ELSE {d}

Delays(p, attempt) == Jittered(p, Grown(p, attempt))
=============================================================================
