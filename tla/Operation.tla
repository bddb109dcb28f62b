----------------------------- MODULE Operation -----------------------------
(***************************************************************************)
(* What a caller of api.Client can rely on, whatever the transport does    *)
(* inside: an operation begins, PVE carries it out any number of times     *)
(* while it is in progress (one that is not replayed, at most once), and   *)
(* it returns once.  Success is only reported for an operation PVE carried *)
(* out, and nothing is carried out after the operation returned.           *)
(***************************************************************************)
EXTENDS Naturals

CONSTANTS Callers,      \* the operations
          Kinds,        \* their kinds
          Single,       \* the kinds that are sent only once
          Results,      \* what an operation can return
          Successes     \* the results that report success

VARIABLES phase,        \* "idle", "active" or "done"
          kind,         \* the kind of an operation that has begun
          applied,      \* times PVE has carried it out
          result        \* what it returned

opVars == <<phase, kind, applied, result>>

NotReturned == "pending"

OpInit ==
    /\ phase = [c \in Callers |-> "idle"]
    /\ kind \in [Callers -> Kinds]
    /\ applied = [c \in Callers |-> 0]
    /\ result = [c \in Callers |-> NotReturned]

Begin(c) ==
    /\ phase[c] = "idle"
    /\ phase' = [phase EXCEPT ![c] = "active"]
    /\ \E k \in Kinds : kind' = [kind EXCEPT ![c] = k]
    /\ UNCHANGED <<applied, result>>

Apply(c) ==
    /\ phase[c] = "active"
    /\ kind[c] \in Single => applied[c] = 0
    /\ applied' = [applied EXCEPT ![c] = @ + 1]
    /\ UNCHANGED <<phase, kind, result>>

End(c) ==
    /\ phase[c] = "active"
    /\ phase' = [phase EXCEPT ![c] = "done"]
    /\ \E r \in Results :
          /\ r \in Successes => applied[c] >= 1
          /\ result' = [result EXCEPT ![c] = r]
    /\ UNCHANGED <<kind, applied>>

OpNext == \E c \in Callers : Begin(c) \/ Apply(c) \/ End(c)

OpSpec == OpInit /\ [][OpNext]_opVars
=============================================================================
