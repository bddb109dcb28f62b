---------------------------- MODULE Credentials ----------------------------
(***************************************************************************)
(* The authentication strategies (proxmox/api/credentials.go) and the part *)
(* of PVE they depend on: which tickets it has issued and still accepts.   *)
(*                                                                         *)
(* A ticket, and the CSRF token issued with it, is its serial number in    *)
(* the order PVE issued them; 0 is the empty string.  Time is a counter,   *)
(* and 0 is the zero time.Time.  inner.mu guards single reads and writes,  *)
(* so it is the atomicity of the steps below; mintMu is held across a      *)
(* request and is therefore a variable.                                    *)
(***************************************************************************)
EXTENDS Integers, Sequences, FiniteSets

CONSTANTS Calls,        \* the concurrent operations of one transport
          NoCall,       \* the owner of an unlocked mintMu
          CredKind,     \* tokenCreds, ticketCreds or userCreds
          Skew,         \* ticketSkew
          Lifetime,     \* ticketLifetime
          MaxTime,      \* bound: the clock stops here
          MaxRevoked    \* bound: tickets PVE revokes early

ASSUME CallsAssumption == NoCall \notin Calls
ASSUME CredKindAssumption == CredKind \in {"token", "ticket", "user"}
ASSUME TicketAssumption == /\ Skew \in Nat
                           /\ Lifetime \in Nat \ {0}
                           /\ Skew <= Lifetime
                           /\ MaxTime \in Nat
                           /\ MaxRevoked \in Nat

VARIABLES now,          \* time.Now(), and PVE's clock
          ticket,       \* ticketCreds.ticket
          csrf,         \* ticketCreds.csrf
          expiry,       \* ticketCreds.expiry
          mintMu,       \* the call that holds userCreds.mintMu, or NoCall
          issued,       \* PVE: when each ticket was issued
          revoked,      \* PVE: tickets it no longer accepts
          checked,      \* history: when each call last knew its ticket fresh
          arrived       \* history: when the client stored each ticket

credVars == <<ticket, csrf, expiry, mintMu, checked, arrived>>
pveVars  == <<now, issued, revoked>>

(***************************************************************************)
(* A caller-supplied ticket was issued before the client exists, and has   *)
(* the zero expiry for ever.                                               *)
(***************************************************************************)
CredentialsInit ==
    /\ now = 1
    /\ issued = IF CredKind = "ticket" THEN <<1>> ELSE <<>>
    /\ ticket = Len(issued)
    /\ csrf = Len(issued)
    /\ expiry = 0
    /\ mintMu = NoCall
    /\ revoked = {}
    /\ checked = [c \in Calls |-> 0]
    /\ arrived = <<>>

NeedsRefresh ==
    IF expiry = 0
    THEN CredKind = "user"
    ELSE now + Skew > expiry

(***************************************************************************)
(* refresh, for the credentials that can mint: the steps under mintMu.     *)
(* The need is checked again once the lock is held, unless forced.         *)
(***************************************************************************)
MustMintAlways(force) == TRUE           \* mutant: no second look

MustMintUnforced(force) == NeedsRefresh \* mutant: force ignored

MustMint(force) == force \/ NeedsRefresh

AcquireMintAnyway(c) == mintMu' = c     \* mutant: no mutual exclusion

AcquireMint(c) == mintMu = NoCall /\ mintMu' = c

ReleaseMintNever == UNCHANGED mintMu    \* mutant: unlock forgotten

ReleaseMint == mintMu' = NoCall

SetTicketLate(t) ==                     \* mutant: the skew added, not kept back
    /\ ticket' = t
    /\ csrf' = t
    /\ expiry' = now + Lifetime + Skew

SetTicket(t) ==
    /\ ticket' = t
    /\ csrf' = t
    /\ expiry' = now + Lifetime

(***************************************************************************)
(* For the properties: call c found its ticket fresh, or stored a new one; *)
(* and the ticket t was stored.                                            *)
(***************************************************************************)
NoteChecked(c) == checked' = [checked EXCEPT ![c] = now]

NoteArrived(t) ==
    arrived' = [u \in DOMAIN arrived \cup {t} |-> IF u = t THEN now ELSE arrived[u]]

(***************************************************************************)
(* PVE.  It reports no expiry to the client: a ticket is good for Lifetime *)
(* from when PVE issued it, which is before the client learns of it.       *)
(***************************************************************************)
Accepts(t) ==
    \/ CredKind = "token"
    \/ /\ t \in 1..Len(issued)
       /\ t \notin revoked
       /\ now <= issued[t] + Lifetime

Issue == issued' = Append(issued, now)

Tick ==
    /\ now < MaxTime
    /\ now' = now + 1
    /\ UNCHANGED <<issued, revoked>>

Revoke ==
    /\ Cardinality(revoked) < MaxRevoked
    /\ \E t \in 1..Len(issued) \ revoked : revoked' = revoked \cup {t}
    /\ UNCHANGED <<now, issued>>
=============================================================================
