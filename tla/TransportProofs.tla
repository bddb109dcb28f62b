-------------------------- MODULE TransportProofs --------------------------
(***************************************************************************)
(* What holds of the transport for every number of calls, endpoints and    *)
(* attempts, and every kind of credentials.                                *)
(***************************************************************************)
EXTENDS Transport, FiniteSetTheorems, TLAPS

(***************************************************************************)
(* The continuations of a call keep its locals well typed.                 *)
(***************************************************************************)
LEMMA ReturnType ==
    ASSUME NEW r \in CallRecord, NEW e \in Outcomes
    PROVE  Return(r, e) \in CallRecord
BY DEF Return, CallRecord, Points

\* DoRequest's continuation after execute is a well-typed call.
LEMMA AfterExecuteType ==
    ASSUME NEW r \in CallRecord, NEW e \in Outcomes
    PROVE  AfterExecute(r, e) \in CallRecord
BY ReturnType DEF AfterExecute, CallRecord, Points, Active

\* The retry and failover loops of execute continue with a well-typed call.
LEMMA AfterTransientType ==
    ASSUME NEW r \in CallRecord
    PROVE  AfterTransient(r) \in CallRecord
<1>1. "transient" \in Outcomes /\ "transient" \in ErrKinds
  BY DEF Outcomes, Results, ErrKinds, Sentinels
<1>2. Return(r, "transient") \in CallRecord
  BY <1>1, ReturnType
<1> QED
  BY <1>1, <1>2 DEF AfterTransient, CallRecord, Points, Active, Sending

\* Whatever an answer is classified as, the call goes on well typed.
LEMMA AfterReplyType ==
    ASSUME NEW r \in CallRecord, NEW e \in Outcomes
    PROVE  AfterReply(r, e) \in CallRecord
BY AfterExecuteType, AfterTransientType DEF AfterReply

\* Replacing one call's locals keeps every call's well typed.
LEMMA GotoType ==
    ASSUME NEW c \in Calls, NEW r \in CallRecord,
           call \in [Calls -> CallRecord], Goto(c, r)
    PROVE  call' \in [Calls -> CallRecord]
BY DEF Goto

\* What is remembered of an answer keeps its type.
LEMMA NoteReplyType ==
    ASSUME NEW h \in HistRecord, NEW r \in CallRecord, NEW e
    PROVE  NoteReply(h, r, e) \in HistRecord
BY DEF NoteReply, HistRecord, CallRecord

\* A look at the ticket is noted at a time.
LEMMA CheckedType ==
    ASSUME NEW c \in Calls, now \in Nat, checked \in [Calls -> Nat], NoteChecked(c)
    PROVE  checked' \in [Calls -> Nat]
BY DEF NoteChecked

\* A ticket is stored at a time.
LEMMA ArrivedType ==
    ASSUME NEW t \in Nat, now \in Nat, DOMAIN arrived \subseteq Nat,
           \A u \in DOMAIN arrived : arrived[u] \in Nat, NoteArrived(t)
    PROVE  DOMAIN arrived' \subseteq Nat /\ \A u \in DOMAIN arrived' : arrived'[u] \in Nat
BY DEF NoteArrived

-----------------------------------------------------------------------------
\* A new transport, with no call begun, is well typed.
LEMMA InitType == Init => TypeOK
<1> SUFFICES ASSUME Init PROVE TypeOK
  OBVIOUS
<1> USE DEF Init, ConnectionInit, CredentialsInit
<1>1. call \in [Calls -> CallRecord]
  <2>1. Idle \in CallRecord
    BY EndpointCountAssumption
    DEF Idle, CallRecord, Points, Looped, Endpoints, ErrKinds, Outcomes
  <2> QED
    BY <2>1
<1>2. hist \in [Calls -> HistRecord]
  BY DEF NoHist, HistRecord
<1>3. current \in Endpoints
  BY EndpointCountAssumption DEF Endpoints
<1>4. issued \in Seq(Nat) /\ Len(issued) \in Nat
  <2>1. <<1>> \in Seq(Nat) /\ <<>> \in Seq(Nat)
    OBVIOUS
  <2> QED
    BY <2>1
<1> QED
  BY <1>1, <1>2, <1>3, <1>4 DEF TypeOK

\* No step of a call's own, through mint, request, retry and rotation, leaves
\* the types.
LEMMA StepType ==
    ASSUME TypeOK, NEW c \in Calls, Step(c)
    PROVE  TypeOK'
<1> USE DEF TypeOK
<1>0. /\ call[c] \in CallRecord
      /\ hist[c] \in HistRecord
      /\ Len(issued) \in Nat
      /\ "transient" \in Outcomes /\ "ctx" \in Outcomes
      /\ "none" \in Outcomes /\ "nil" \in ErrKinds
      /\ "exhausted" \in Outcomes
  BY DEF Outcomes, Results, ErrKinds, Sentinels
<1> USE <1>0
<1>1. CASE RefreshNotNeeded(c)
  <2>1. [call[c] EXCEPT !.pc = "top"] \in CallRecord
    BY DEF CallRecord, Points, Active
  <2> QED
    BY <1>1, <2>1, GotoType, CheckedType DEF RefreshNotNeeded, pveVars
<1>2. CASE RefreshLock(c)
  <2>1. [call[c] EXCEPT !.pc = "mint"] \in CallRecord
    BY DEF CallRecord, Points, Active, Minting
  <2> QED
    BY <1>2, <2>1, GotoType DEF RefreshLock, AcquireMint, pveVars
<1>3. CASE MintSend(c)
  <2>1. [call[c] EXCEPT !.pc = "minting", !.base = current] \in CallRecord
    BY DEF CallRecord, Points, Active, Minting
  <2> QED
    BY <1>3, <2>1, GotoType DEF MintSend, credVars, pveVars
<1>4. CASE MintIssue(c)
  <2>1. [call[c] EXCEPT !.pc = "minted", !.tk = Len(issued) + 1] \in CallRecord
    <3>1. Len(issued) + 1 \in Nat
      OBVIOUS
    <3> QED
      BY <3>1 DEF CallRecord, Points, Active, Minting
  <2>2. issued' \in Seq(Nat)
    BY <1>4 DEF MintIssue, Issue
  <2> QED
    BY <1>4, <2>1, <2>2, GotoType DEF MintIssue, credVars
<1>5. CASE MintDone(c)
  <2>1. [call[c] EXCEPT !.pc = "top"] \in CallRecord
    BY DEF CallRecord, Points, Active
  <2>2. call[c].tk \in Nat
    BY DEF CallRecord
  <2>3. checked' \in [Calls -> Nat]
    BY <1>5, CheckedType DEF MintDone
  <2>4. DOMAIN arrived' \subseteq Nat /\ \A t \in DOMAIN arrived' : arrived'[t] \in Nat
    BY <1>5, <2>2, ArrivedType DEF MintDone
  <2>5. call' \in [Calls -> CallRecord]
    BY <1>5, <2>1, GotoType DEF MintDone
  <2> QED
    BY <1>5, <2>2, <2>3, <2>4, <2>5, TicketAssumption
    DEF MintDone, SetTicket, ReleaseMint, pveVars
<1>6. CASE MintFail(c)
  <2>1. PICK e \in MintErrors(call[c]) :
            /\ Goto(c, Return(call[c], e))
            /\ hist' = [hist EXCEPT ![c] = NoteReply(hist[c], call[c], e)]
    BY <1>6 DEF MintFail
  <2>2. Return(call[c], e) \in CallRecord
    BY <2>1, ReturnType DEF MintErrors, Outcomes, Results
  <2>3. NoteReply(hist[c], call[c], e) \in HistRecord
    BY NoteReplyType
  <2> QED
    BY <1>6, <2>1, <2>2, <2>3, GotoType DEF MintFail, ReleaseMint, pveVars
<1>7. CASE Top(c)
  <2>1. [call[c] EXCEPT
            !.pc = IF call[c].op \in Looped /\ Attempts = 0
                   THEN "rotate" ELSE "attempt",
            !.base = current, !.attempt = 1, !.err = "nil"] \in CallRecord
    BY DEF CallRecord, Points, Active, Sending
  <2> QED
    BY <1>7, <2>1, GotoType DEF Top, credVars, pveVars
<1>8. CASE SpoolFail(c)
  BY <1>8, ReturnType, GotoType DEF SpoolFail, credVars, pveVars
<1>9. CASE CtxDone(c)
  BY <1>9, ReturnType, GotoType DEF CtxDone, credVars, pveVars
<1>10. CASE EncodeFail(c)
  BY <1>10, AfterTransientType, GotoType DEF EncodeFail, credVars, pveVars
<1>11. CASE Authorize(c)
  <2>1. [call[c] EXCEPT !.pc = "send", !.tk = ticket] \in CallRecord
    BY DEF CallRecord, Points, Active, Sending
  <2> QED
    BY <1>11, <2>1, GotoType DEF Authorize, credVars, pveVars
<1>12. CASE Send(c)
  <2>1. [call[c] EXCEPT
            !.pc = "wire",
            !.cs = IF call[c].op \in {"write", "upload"}
                   THEN csrf ELSE 0] \in CallRecord
    BY DEF CallRecord, Points, Active, Sending
  <2>2. hist' \in [Calls -> HistRecord]
    <3>1. hist[c].sends + 1 \in Nat
      BY DEF HistRecord
    <3>2. [hist[c] EXCEPT !.sends = @ + 1] \in HistRecord
      BY <3>1 DEF HistRecord
    <3> QED
      BY <1>12, <3>2 DEF Send
  <2> QED
    BY <1>12, <2>1, <2>2, GotoType DEF Send, credVars, pveVars
<1>13. CASE Serve(c)
  <2>1. [call[c] EXCEPT !.pc = "served"] \in CallRecord
    BY DEF CallRecord, Points, Active, Sending
  <2>2. hist' \in [Calls -> HistRecord]
    <3>1. hist[c].applied + 1 \in Nat
      BY DEF HistRecord
    <3>2. [hist[c] EXCEPT !.applied = @ + 1] \in HistRecord
      BY <3>1 DEF HistRecord
    <3> QED
      BY <1>13, <3>2 DEF Serve
  <2> QED
    BY <1>13, <2>1, <2>2, GotoType DEF Serve, credVars, pveVars
<1>14. CASE Receive(c)
  <2>1. PICK e \in Answers(call[c]) :
            /\ Goto(c, AfterReply(call[c], e))
            /\ hist' = [hist EXCEPT ![c] = NoteReply(hist[c], call[c], e)]
    BY <1>14 DEF Receive
  <2>2. AfterReply(call[c], e) \in CallRecord
    BY <2>1, AfterReplyType DEF Answers, Outcomes
  <2>3. NoteReply(hist[c], call[c], e) \in HistRecord
    BY NoteReplyType
  <2> QED
    BY <1>14, <2>1, <2>2, <2>3, GotoType DEF Receive, credVars, pveVars
<1>15. CASE Lose(c)
  <2>1. NoteReply(hist[c], call[c], "transient") \in HistRecord
    BY NoteReplyType
  <2> QED
    BY <1>15, <2>1, AfterTransientType, GotoType DEF Lose, credVars, pveVars
<1>16. CASE GiveUp(c)
  BY <1>16, AfterTransientType, GotoType DEF GiveUp, credVars, pveVars
<1>17. CASE Backoff(c)
  <2>1. [call[c] EXCEPT !.pc = "attempt", !.attempt = @ + 1] \in CallRecord
    <3>1. call[c].attempt + 1 \in Nat
      BY DEF CallRecord
    <3> QED
      BY <3>1 DEF CallRecord, Points, Active, Sending
  <2> QED
    BY <1>17, <2>1, GotoType DEF Backoff, credVars, pveVars
<1>18. CASE Rotate(c)
  <2>1. current' \in Endpoints
    BY <1>18, EndpointCountAssumption
    DEF Rotate, Failover, Advance, Endpoints, CanFailover
  <2>2. call[c].err \in Outcomes
    BY DEF CallRecord, Outcomes, Results
  <2>3. /\ AfterExecute(call[c], call[c].err) \in CallRecord
        /\ AfterExecute(call[c], "exhausted") \in CallRecord
    BY <2>2, AfterExecuteType
  <2>4. [call[c] EXCEPT !.pc = "top", !.ep = @ + 1] \in CallRecord
    <3>1. call[c].ep + 1 \in Nat
      BY DEF CallRecord
    <3> QED
      BY <3>1 DEF CallRecord, Points, Active
  <2> QED
    BY <1>18, <2>1, <2>3, <2>4, GotoType DEF Rotate, credVars, pveVars
<1> QED
  BY <1>1, <1>2, <1>3, <1>4, <1>5, <1>6, <1>7, <1>8, <1>9, <1>10, <1>11,
     <1>12, <1>13, <1>14, <1>15, <1>16, <1>17, <1>18 DEF Step

\* Nor does the beginning of a call, a cancellation or what PVE and the clock
\* do.
LEMMA NextType == TypeOK /\ [Next]_vars => TypeOK'
<1> SUFFICES ASSUME TypeOK, [Next]_vars PROVE TypeOK'
  OBVIOUS
<1>1. ASSUME NEW c \in Calls, NEW op \in Ops, Call(c, op) PROVE TypeOK'
  <2>1. [call[c] EXCEPT !.pc = IF NeedsRefresh THEN "lock" ELSE "top",
                        !.op = op] \in CallRecord
    BY TransportAssumption DEF TypeOK, CallRecord, Points, Active
  <2> QED
    BY <1>1, <2>1, GotoType, CheckedType DEF TypeOK, Call, pveVars
<1>2. ASSUME NEW c \in Calls, Step(c) PROVE TypeOK'
  BY <1>2, StepType
<1>3. ASSUME NEW c \in Calls, Cancel(c) PROVE TypeOK'
  <2>1. [call[c] EXCEPT !.cancelled = TRUE] \in CallRecord
    BY DEF TypeOK, CallRecord
  <2> QED
    BY <1>3, <2>1, GotoType DEF TypeOK, Cancel, credVars, pveVars
<1>4. CASE Clock
  BY <1>4 DEF TypeOK, Clock, Tick, credVars
<1>5. CASE Revokes
  <2>1. Len(issued) \in Nat
    BY DEF TypeOK
  <2> QED
    BY <1>5, <2>1 DEF TypeOK, Revokes, Revoke, credVars
<1>6. CASE UNCHANGED vars
  BY <1>6 DEF TypeOK, vars, credVars, pveVars
<1> QED
  BY <1>1, <1>2, <1>3, <1>4, <1>5, <1>6 DEF Next, Finished

(***************************************************************************)
(* Type correctness, for every instance: the ring index stays within the   *)
(* endpoints, and every call's locals within their types.                  *)
(***************************************************************************)
THEOREM TypeCorrect == Spec => []TypeOK
BY InitType, NextType, PTL DEF Spec

-----------------------------------------------------------------------------
(***************************************************************************)
(* The inductive invariant behind SuccessMeansServed and the refinement:   *)
(* what a call's program counter says about the work PVE has done for it.  *)
(***************************************************************************)
ServedAt(r, h) ==
    /\ r.pc # "done" => r.res = "pending"
    /\ r.pc = "served" => h.applied >= 1
    /\ r.pc = "rotate" => r.err = "transient" \/ Attempts = 0
    /\ r.pc = "idle" => h.applied = 0
    /\ r.op \in OneShot => /\ r.pc \notin {"backoff", "rotate"}
                           /\ r.pc \in {"served", "done"} \/ h.applied = 0
                           /\ h.applied <= 1
    /\ r.res \in {"nil", "stream"} => h.applied >= 1 \/ Attempts = 0

ServedInv == \A c \in Calls : ServedAt(call[c], hist[c])

(***************************************************************************)
(* The inductive invariant behind the properties of tickets: mintMu is     *)
(* held exactly by the call that is minting, so at most one new ticket is  *)
(* on its way, and the tickets in the hands of the calls are bounded by    *)
(* the live one.                                                           *)
(***************************************************************************)
Carrying == {"send", "wire", "served"}

TicketAt(c) ==
    LET r == call[c]
    IN  /\ r.pc \in Minting <=> mintMu = c
        /\ r.pc = "minted" => r.tk > ticket /\ r.tk <= Len(issued)
        /\ r.pc \in Carrying => r.tk <= ticket
        /\ r.pc \in {"top"} \cup Sending /\ CredKind # "token" => ticket > 0
        /\ r.pc \in Carrying /\ CredKind # "token" => r.tk > 0
        /\ r.pc \in {"wire", "served"} /\ r.op \in {"write", "upload"}
              => r.cs >= r.tk
        /\ r.pc = "idle" => hist[c].rejected = {}
        /\ r.pc # "done" /\ ~ r.forced => hist[c].rejected = {}
        /\ \A t \in hist[c].rejected :
              /\ t <= ticket
              /\ CredKind = "user" =>
                   /\ r.pc \in {"top"} \cup Sending => t < ticket
                   /\ r.pc \in Carrying => t < r.tk

TicketInv ==
    /\ csrf = ticket
    /\ ticket <= Len(issued)
    /\ CredKind = "ticket" => ticket > 0
    /\ expiry > 0 => ticket > 0
    /\ \A c \in Calls : TicketAt(c)

(***************************************************************************)
(* The fields of the records a call continues with.                        *)
(***************************************************************************)
LEMMA GotoFacts ==
    ASSUME TypeOK, NEW c \in Calls, NEW r, Goto(c, r)
    PROVE  /\ call'[c] = r
           /\ \A d \in Calls : d # c => call'[d] = call[d]
BY DEF TypeOK, Goto

\* A call that returns is done with the outcome it returns.
LEMMA ReturnFacts ==
    ASSUME NEW r \in CallRecord, NEW e
    PROVE  /\ Return(r, e).pc = "done"
           /\ Return(r, e).res = e
           /\ Return(r, e).op = r.op
BY DEF Return, CallRecord

\* After a transient failure a looped call backs off or rotates, and any other
\* one returns it.
LEMMA AfterTransientFacts ==
    ASSUME NEW r \in CallRecord
    PROVE  LET q == AfterTransient(r)
           IN  /\ q.op = r.op /\ q.forced = r.forced
               /\ \/ /\ r.op \in OneShot
                     /\ q.pc = "done" /\ q.res = "transient"
                  \/ /\ r.op \notin OneShot
                     /\ q.pc \in {"backoff", "rotate"}
                     /\ q.err = "transient" /\ q.res = r.res
BY DEF AfterTransient, Return, CallRecord

\* After execute a call returns the outcome, or refreshes and tries again once.
LEMMA AfterExecuteFacts ==
    ASSUME NEW r \in CallRecord, NEW e
    PROVE  LET q == AfterExecute(r, e)
           IN  /\ q.op = r.op
               /\ \/ /\ e = "ticketExpired" /\ r.op \in Looped
                     /\ q.forced /\ q.res = r.res
                     /\ q.pc \in {"lock", "top"}
                     /\ CredKind = "user" => q.pc = "lock"
                  \/ q.pc = "done" /\ q.res = e
BY DEF AfterExecute, Return, CallRecord

(***************************************************************************)
(* A step of c keeps the invariant of the tickets if it keeps c's part of  *)
(* it, moves the live ticket only forward and only when c holds mintMu,    *)
(* and takes or releases mintMu for c alone.                               *)
(***************************************************************************)
LEMMA TicketFrame ==
    ASSUME TypeOK, TypeOK', TicketInv, NEW c \in Calls,
           \A d \in Calls : d # c => call'[d] = call[d] /\ hist'[d] = hist[d],
           csrf' = ticket',
           ticket <= ticket', ticket' <= Len(issued'),
           Len(issued) <= Len(issued'),
           expiry' > 0 => ticket' > 0,
           ticket' # ticket => mintMu = c,
           \/ mintMu' = mintMu
           \/ mintMu = NoCall /\ mintMu' = c
           \/ mintMu = c /\ mintMu' = NoCall,
           TicketAt(c)'
    PROVE  TicketInv'
<1>1. /\ ticket \in Nat /\ ticket' \in Nat
      /\ Len(issued) \in Nat /\ Len(issued') \in Nat
  BY DEF TypeOK
<1>2. ASSUME NEW d \in Calls, d # c PROVE TicketAt(d)'
  <2>1. /\ TicketAt(d)
        /\ call'[d] = call[d] /\ hist'[d] = hist[d]
        /\ call[d].tk \in Nat /\ call[d].cs \in Nat
        /\ \A t \in hist[d].rejected : t \in Nat
    BY <1>2 DEF TicketInv, TypeOK, CallRecord, HistRecord
  <2>2. mintMu' = d <=> mintMu = d
    BY <1>2, CallsAssumption
  <2>3. call[d].pc = "minted" => ticket' = ticket
    BY <1>2, <2>1 DEF TicketAt, Minting
  <2> QED
    BY <1>1, <2>1, <2>2, <2>3 DEF TicketAt
<1>3. CredKind = "ticket" => ticket' > 0
  BY <1>1 DEF TicketInv
<1> QED
  BY <1>2, <1>3 DEF TicketInv

\* Every step of a call keeps the invariant of the tickets: a request carries
\* the live ticket or an older one, its CSRF token is not the older of the two,
\* and only the holder of mintMu moves the live ticket.
LEMMA TicketStep ==
    ASSUME TypeOK, TypeOK', TicketInv, NEW c \in Calls, Step(c)
    PROVE  TicketInv'
<1> DEFINE r == call[c]
           q == call'[c]
           Others == \A d \in Calls :
                        d # c => call'[d] = call[d] /\ hist'[d] = hist[d]
<1>a. /\ r \in CallRecord
      /\ hist[c] \in HistRecord
      /\ ticket \in Nat /\ csrf \in Nat /\ expiry \in Nat /\ now \in Nat
      /\ issued \in Seq(Nat) /\ Len(issued) \in Nat
      /\ mintMu \in Calls \cup {NoCall}
  BY DEF TypeOK
<1>b. r.tk \in Nat /\ r.cs \in Nat /\ hist[c].rejected \in SUBSET Nat
  BY <1>a DEF CallRecord, HistRecord
<1>c. /\ TicketAt(c)
      /\ csrf = ticket /\ ticket <= Len(issued)
      /\ CredKind = "ticket" => ticket > 0
      /\ expiry > 0 => ticket > 0
  BY DEF TicketInv
<1>d. NoCall \notin Calls /\ CredKind \in {"token", "ticket", "user"}
  BY CallsAssumption, CredKindAssumption
<1> USE <1>a, <1>b, <1>c, <1>d
<1>1. CASE RefreshNotNeeded(c)
  <2>1. Goto(c, [r EXCEPT !.pc = "top"])
    BY <1>1 DEF RefreshNotNeeded
  <2>2. /\ r.pc = "lock" /\ ~ r.forced
        /\ CredKind = "user" => expiry > 0
        /\ UNCHANGED <<ticket, csrf, expiry, mintMu, issued>>
        /\ UNCHANGED hist
    BY <1>1 DEF RefreshNotNeeded, credVars, pveVars, MustMint, NeedsRefresh
  <2>3. Others
    BY <2>1, <2>2, GotoFacts
  <2>4. q.pc = "top" /\ ~ q.forced
    <3>1. q = [r EXCEPT !.pc = "top"]
      BY <2>1, GotoFacts
    <3> QED
      BY <2>2, <3>1 DEF CallRecord
  <2>5. TicketAt(c)'
    BY <2>2, <2>3, <2>4 DEF TicketAt, Minting, Sending, Carrying
  <2> QED
    BY <2>2, <2>3, <2>5, TicketFrame
<1>2. CASE RefreshLock(c)
  <2>1. Goto(c, [r EXCEPT !.pc = "mint"])
    BY <1>2 DEF RefreshLock
  <2>2. /\ r.pc = "lock" /\ mintMu = NoCall /\ mintMu' = c
        /\ UNCHANGED <<ticket, csrf, expiry, issued>>
        /\ UNCHANGED hist
    BY <1>2 DEF RefreshLock, pveVars, AcquireMint
  <2>3. Others
    BY <2>1, <2>2, GotoFacts
  <2>4. q.pc = "mint" /\ q.forced = r.forced
    <3>1. q = [r EXCEPT !.pc = "mint"]
      BY <2>1, GotoFacts
    <3> QED
      BY <2>2, <3>1 DEF CallRecord
  <2>5. TicketAt(c)'
    BY <2>2, <2>3, <2>4 DEF TicketAt, Minting, Sending, Carrying
  <2> QED
    BY <2>2, <2>3, <2>5, TicketFrame
<1>3. CASE MintSend(c)
  <2>1. Goto(c, [r EXCEPT !.pc = "minting", !.base = current])
    BY <1>3 DEF MintSend
  <2>2. /\ r.pc = "mint"
        /\ UNCHANGED <<ticket, csrf, expiry, mintMu, issued>>
        /\ UNCHANGED hist
    BY <1>3 DEF MintSend, credVars, pveVars
  <2>3. Others
    BY <2>1, <2>2, GotoFacts
  <2>4. q.pc = "minting" /\ q.forced = r.forced
    <3>1. q = [r EXCEPT !.pc = "minting", !.base = current]
      BY <2>1, GotoFacts
    <3> QED
      BY <2>2, <3>1 DEF CallRecord
  <2>5. TicketAt(c)'
    BY <2>2, <2>3, <2>4 DEF TicketAt, Minting, Sending, Carrying
  <2> QED
    BY <2>2, <2>3, <2>5, TicketFrame
<1>4. CASE MintIssue(c)
  <2>1. Goto(c, [r EXCEPT !.pc = "minted", !.tk = Len(issued) + 1])
    BY <1>4 DEF MintIssue
  <2>2. /\ r.pc = "minting" /\ Len(issued') = Len(issued) + 1
        /\ UNCHANGED <<ticket, csrf, expiry, mintMu>>
        /\ UNCHANGED hist
    BY <1>4 DEF MintIssue, credVars, Issue
  <2>3. Others
    BY <2>1, <2>2, GotoFacts
  <2>4. /\ q.pc = "minted" /\ q.forced = r.forced
        /\ q.tk = Len(issued) + 1
    <3>1. q = [r EXCEPT !.pc = "minted", !.tk = Len(issued) + 1]
      BY <2>1, GotoFacts
    <3> QED
      BY <2>2, <3>1 DEF CallRecord
  <2>5. TicketAt(c)'
    BY <2>2, <2>3, <2>4 DEF TicketAt, Minting, Sending, Carrying
  <2> QED
    BY <2>2, <2>3, <2>5, TicketFrame
<1>5. CASE MintDone(c)
  <2>1. Goto(c, [r EXCEPT !.pc = "top"])
    BY <1>5 DEF MintDone
  <2>2. /\ r.pc = "minted" /\ mintMu' = NoCall
        /\ ticket' = r.tk /\ csrf' = r.tk
        /\ UNCHANGED issued
        /\ UNCHANGED hist
    BY <1>5 DEF MintDone, pveVars, SetTicket, ReleaseMint
  <2>3. Others
    BY <2>1, <2>2, GotoFacts
  <2>4. q.pc = "top" /\ q.forced = r.forced
    <3>1. q = [r EXCEPT !.pc = "top"]
      BY <2>1, GotoFacts
    <3> QED
      BY <2>2, <3>1 DEF CallRecord
  <2>5. TicketAt(c)'
    BY <2>2, <2>3, <2>4 DEF TicketAt, Minting, Sending, Carrying
  <2>6. mintMu = c /\ ticket < ticket' /\ ticket' <= Len(issued)
    BY <2>2 DEF TicketAt, Minting
  <2> QED
    BY <2>2, <2>3, <2>5, <2>6, TicketFrame
<1>6. CASE MintFail(c)
  <2>1. PICK e \in MintErrors(r) :
            /\ Goto(c, Return(r, e))
            /\ hist' = [hist EXCEPT ![c] = NoteReply(hist[c], r, e)]
    BY <1>6 DEF MintFail
  <2>2. e # "ticketExpired"
    BY DEF MintErrors, Classify, ClassifyNetError
  <2>3. NoteReply(hist[c], r, e).rejected = hist[c].rejected
    BY <2>2 DEF NoteReply, HistRecord
  <2>4. /\ r.pc \in Minting /\ mintMu' = NoCall
        /\ UNCHANGED <<ticket, csrf, expiry, issued>>
    BY <1>6 DEF MintFail, ReleaseMint, pveVars
  <2>5. /\ q.pc = "done" /\ Others
        /\ hist'[c].rejected = hist[c].rejected
    BY <2>1, <2>3, GotoFacts, ReturnFacts DEF TypeOK
  <2>6. TicketAt(c)'
    BY <2>4, <2>5 DEF TicketAt, Minting, Sending, Carrying
  <2> QED
    BY <2>4, <2>5, <2>6, TicketFrame DEF TicketAt
<1>7. CASE Top(c)
  <2>1. Goto(c, [r EXCEPT
                       !.pc = IF r.op \in Looped /\ Attempts = 0
                              THEN "rotate" ELSE "attempt",
                       !.base = current, !.attempt = 1, !.err = "nil"])
    BY <1>7 DEF Top
  <2>2. /\ r.pc = "top"
        /\ UNCHANGED <<ticket, csrf, expiry, mintMu, issued>>
        /\ UNCHANGED hist
    BY <1>7 DEF Top, credVars, pveVars
  <2>3. Others
    BY <2>1, <2>2, GotoFacts
  <2>4. q.pc \in {"attempt", "rotate"} /\ q.forced = r.forced
    <3>1. q = [r EXCEPT
                       !.pc = IF r.op \in Looped /\ Attempts = 0
                              THEN "rotate" ELSE "attempt",
                       !.base = current, !.attempt = 1, !.err = "nil"]
      BY <2>1, GotoFacts
    <3> QED
      BY <2>2, <3>1 DEF CallRecord
  <2>5. TicketAt(c)'
    BY <2>2, <2>3, <2>4 DEF TicketAt, Minting, Sending, Carrying
  <2> QED
    BY <2>2, <2>3, <2>5, TicketFrame
<1>8. CASE SpoolFail(c)
  <2>1. Goto(c, Return(r, "none"))
    BY <1>8 DEF SpoolFail
  <2>2. /\ r.pc = "top"
        /\ UNCHANGED <<ticket, csrf, expiry, mintMu, issued>>
        /\ UNCHANGED hist
    BY <1>8 DEF SpoolFail, credVars, pveVars
  <2>3. Others
    BY <2>1, <2>2, GotoFacts
  <2>4. q.pc = "done"
    BY <2>1, GotoFacts, ReturnFacts
  <2>5. TicketAt(c)'
    BY <2>2, <2>3, <2>4 DEF TicketAt, Minting, Sending, Carrying
  <2> QED
    BY <2>2, <2>3, <2>5, TicketFrame
<1>9. CASE CtxDone(c)
  <2>1. Goto(c, Return(r, "ctx"))
    BY <1>9 DEF CtxDone
  <2>2. /\ r.pc = "attempt"
        /\ UNCHANGED <<ticket, csrf, expiry, mintMu, issued>>
        /\ UNCHANGED hist
    BY <1>9 DEF CtxDone, credVars, pveVars
  <2>3. Others
    BY <2>1, <2>2, GotoFacts
  <2>4. q.pc = "done"
    BY <2>1, GotoFacts, ReturnFacts
  <2>5. TicketAt(c)'
    BY <2>2, <2>3, <2>4 DEF TicketAt, Minting, Sending, Carrying
  <2> QED
    BY <2>2, <2>3, <2>5, TicketFrame
<1>10. CASE EncodeFail(c)
  <2>1. Goto(c, AfterTransient(r))
    BY <1>10 DEF EncodeFail
  <2>2. /\ r.pc = "attempt"
        /\ UNCHANGED <<ticket, csrf, expiry, mintMu, issued>>
        /\ UNCHANGED hist
    BY <1>10 DEF EncodeFail, credVars, pveVars
  <2>3. Others
    BY <2>1, <2>2, GotoFacts
  <2>4. q.pc \in {"done", "backoff", "rotate"} /\ q.forced = r.forced
    BY <2>1, GotoFacts, AfterTransientFacts
  <2>5. TicketAt(c)'
    BY <2>2, <2>3, <2>4 DEF TicketAt, Minting, Sending, Carrying
  <2> QED
    BY <2>2, <2>3, <2>5, TicketFrame
<1>11. CASE Authorize(c)
  <2>1. Goto(c, [r EXCEPT !.pc = "send", !.tk = ticket])
    BY <1>11 DEF Authorize
  <2>2. /\ r.pc = "attempt"
        /\ UNCHANGED <<ticket, csrf, expiry, mintMu, issued>>
        /\ UNCHANGED hist
    BY <1>11 DEF Authorize, credVars, pveVars
  <2>3. Others
    BY <2>1, <2>2, GotoFacts
  <2>4. q.pc = "send" /\ q.forced = r.forced /\ q.tk = ticket
    <3>1. q = [r EXCEPT !.pc = "send", !.tk = ticket]
      BY <2>1, GotoFacts
    <3> QED
      BY <2>2, <3>1 DEF CallRecord
  <2>5. TicketAt(c)'
    BY <2>2, <2>3, <2>4 DEF TicketAt, Minting, Sending, Carrying
  <2> QED
    BY <2>2, <2>3, <2>5, TicketFrame
<1>12. CASE Send(c)
  <2>1. Goto(c, [r EXCEPT !.pc = "wire",
                            !.cs = IF r.op \in {"write", "upload"}
                                   THEN csrf ELSE 0])
    BY <1>12 DEF Send
  <2>2. /\ r.pc = "send"
        /\ UNCHANGED <<ticket, csrf, expiry, mintMu, issued>>
        /\ hist' = [hist EXCEPT ![c].sends = @ + 1]
    BY <1>12 DEF Send, credVars, pveVars
  <2>3. Others /\ hist'[c].rejected = hist[c].rejected
    BY <2>1, <2>2, GotoFacts DEF TypeOK, HistRecord
  <2>4. /\ q.pc = "wire" /\ q.forced = r.forced /\ q.op = r.op
        /\ q.tk = r.tk
        /\ r.op \in {"write", "upload"} => q.cs = csrf
    <3>1. q = [r EXCEPT !.pc = "wire",
                            !.cs = IF r.op \in {"write", "upload"}
                                   THEN csrf ELSE 0]
      BY <2>1, GotoFacts
    <3> QED
      BY <2>2, <3>1 DEF CallRecord
  <2>5. TicketAt(c)'
    BY <2>2, <2>3, <2>4 DEF TicketAt, Minting, Sending, Carrying
  <2> QED
    BY <2>2, <2>3, <2>5, TicketFrame
<1>13. CASE Serve(c)
  <2>1. Goto(c, [r EXCEPT !.pc = "served"])
    BY <1>13 DEF Serve
  <2>2. /\ r.pc = "wire"
        /\ UNCHANGED <<ticket, csrf, expiry, mintMu, issued>>
        /\ hist' = [hist EXCEPT ![c].applied = @ + 1]
    BY <1>13 DEF Serve, credVars, pveVars
  <2>3. Others /\ hist'[c].rejected = hist[c].rejected
    BY <2>1, <2>2, GotoFacts DEF TypeOK, HistRecord
  <2>4. /\ q.pc = "served" /\ q.forced = r.forced /\ q.op = r.op
        /\ q.tk = r.tk /\ q.cs = r.cs
    <3>1. q = [r EXCEPT !.pc = "served"]
      BY <2>1, GotoFacts
    <3> QED
      BY <2>2, <3>1 DEF CallRecord
  <2>5. TicketAt(c)'
    BY <2>2, <2>3, <2>4 DEF TicketAt, Minting, Sending, Carrying
  <2> QED
    BY <2>2, <2>3, <2>5, TicketFrame
<1>14. CASE Receive(c)
  <2>1. PICK e \in Answers(r) :
            /\ Goto(c, AfterReply(r, e))
            /\ hist' = [hist EXCEPT ![c] = NoteReply(hist[c], r, e)]
    BY <1>14 DEF Receive
  <2>2. r.pc \in {"wire", "served"}
    BY DEF Answers
  <2>3. NoteReply(hist[c], r, e).rejected =
            hist[c].rejected \cup (IF e = "ticketExpired" THEN {r.tk} ELSE {})
    BY DEF NoteReply, HistRecord
  <2>4. q = AfterReply(r, e) /\ Others
    BY <2>1, GotoFacts
  <2>5. /\ hist'[c].rejected = hist[c].rejected
                                  \cup (IF e = "ticketExpired" THEN {r.tk} ELSE {})
        /\ UNCHANGED <<ticket, csrf, expiry, mintMu, issued>>
    BY <1>14, <2>1, <2>3 DEF Receive, TypeOK, credVars, pveVars
  <2>6. ASSUME e = "transient" PROVE TicketAt(c)'
    <3>1. q.pc \in {"done", "backoff", "rotate"} /\ q.forced = r.forced
      BY <2>4, <2>6, AfterTransientFacts DEF AfterReply
    <3> QED
      BY <2>2, <2>5, <2>6, <3>1 DEF TicketAt, Minting, Sending, Carrying
  <2>7. ASSUME e # "transient" PROVE TicketAt(c)'
    <3>1. \/ /\ q.forced /\ q.pc \in {"lock", "top"}
             /\ CredKind = "user" => q.pc = "lock"
          \/ q.pc = "done"
      <4>1. q = AfterExecute(r, e)
        BY <2>4, <2>7 DEF AfterReply
      <4> QED
        BY <4>1, AfterExecuteFacts
    <3>2. \A t \in hist'[c].rejected : t <= ticket
      BY <2>2, <2>5 DEF TicketAt, Carrying
    <3> QED
      BY <2>2, <2>5, <3>1, <3>2 DEF TicketAt, Minting, Sending, Carrying
  <2> QED
    BY <2>4, <2>5, <2>6, <2>7, TicketFrame
<1>15. CASE Lose(c)
  <2>1. /\ Goto(c, AfterTransient(r))
        /\ r.pc \in {"wire", "served"}
        /\ UNCHANGED <<ticket, csrf, expiry, mintMu, issued>>
        /\ hist' = [hist EXCEPT ![c] = NoteReply(hist[c], r, "transient")]
    BY <1>15 DEF Lose, credVars, pveVars
  <2>2. NoteReply(hist[c], r, "transient").rejected = hist[c].rejected
    BY DEF NoteReply, HistRecord
  <2>3. /\ q = AfterTransient(r) /\ Others
        /\ hist'[c].rejected = hist[c].rejected
    BY <2>1, <2>2, GotoFacts DEF TypeOK
  <2>4. q.pc \in {"done", "backoff", "rotate"} /\ q.forced = r.forced
    BY <2>3, AfterTransientFacts
  <2>5. TicketAt(c)'
    BY <2>1, <2>3, <2>4 DEF TicketAt, Minting, Sending, Carrying
  <2> QED
    BY <2>1, <2>3, <2>5, TicketFrame
<1>16. CASE GiveUp(c)
  <2>1. Goto(c, AfterTransient(r))
    BY <1>16 DEF GiveUp
  <2>2. /\ r.pc \in {"send", "wire", "served"}
        /\ UNCHANGED <<ticket, csrf, expiry, mintMu, issued>>
        /\ UNCHANGED hist
    BY <1>16 DEF GiveUp, credVars, pveVars
  <2>3. Others
    BY <2>1, <2>2, GotoFacts
  <2>4. q.pc \in {"done", "backoff", "rotate"} /\ q.forced = r.forced
    BY <2>1, GotoFacts, AfterTransientFacts
  <2>5. TicketAt(c)'
    BY <2>2, <2>3, <2>4 DEF TicketAt, Minting, Sending, Carrying
  <2> QED
    BY <2>2, <2>3, <2>5, TicketFrame
<1>17. CASE Backoff(c)
  <2>1. Goto(c, [r EXCEPT !.pc = "attempt", !.attempt = @ + 1])
    BY <1>17 DEF Backoff
  <2>2. /\ r.pc = "backoff"
        /\ UNCHANGED <<ticket, csrf, expiry, mintMu, issued>>
        /\ UNCHANGED hist
    BY <1>17 DEF Backoff, credVars, pveVars
  <2>3. Others
    BY <2>1, <2>2, GotoFacts
  <2>4. q.pc = "attempt" /\ q.forced = r.forced
    <3>1. q = [r EXCEPT !.pc = "attempt", !.attempt = @ + 1]
      BY <2>1, GotoFacts
    <3> QED
      BY <2>2, <3>1 DEF CallRecord
  <2>5. TicketAt(c)'
    BY <2>2, <2>3, <2>4 DEF TicketAt, Minting, Sending, Carrying
  <2> QED
    BY <2>2, <2>3, <2>5, TicketFrame
<1>18. CASE Rotate(c)
  <2>1. /\ \/ Goto(c, AfterExecute(r, r.err))
           \/ Goto(c, AfterExecute(r, "exhausted"))
           \/ Goto(c, [r EXCEPT !.pc = "top", !.ep = @ + 1])
        /\ r.pc = "rotate"
        /\ UNCHANGED <<hist, ticket, csrf, expiry, mintMu, issued>>
    BY <1>18 DEF Rotate, credVars, pveVars
  <2>2. /\ \/ q = AfterExecute(r, r.err)
           \/ q = AfterExecute(r, "exhausted")
           \/ q = [r EXCEPT !.pc = "top", !.ep = @ + 1]
        /\ Others
    BY <2>1, GotoFacts
  <2>3. \/ q.pc = "done"
        \/ q.pc = "top" /\ q.forced = r.forced
        \/ /\ q.forced /\ q.pc \in {"lock", "top"}
           /\ CredKind = "user" => q.pc = "lock"
    <3>1. ASSUME q = [r EXCEPT !.pc = "top", !.ep = @ + 1]
          PROVE  q.pc = "top" /\ q.forced = r.forced
      BY <3>1 DEF CallRecord
    <3> QED
      BY <2>2, <3>1, AfterExecuteFacts
  <2>4. TicketAt(c)'
    BY <2>1, <2>2, <2>3 DEF TicketAt, Minting, Sending, Carrying
  <2> QED
    BY <2>1, <2>2, <2>4, TicketFrame
<1> QED
  BY <1>1, <1>2, <1>3, <1>4, <1>5, <1>6, <1>7, <1>8, <1>9, <1>10, <1>11,
     <1>12, <1>13, <1>14, <1>15, <1>16, <1>17, <1>18 DEF Step

\* A new transport satisfies the invariant of the tickets.
LEMMA TicketInit == Init => TicketInv
<1> SUFFICES ASSUME Init PROVE TicketInv
  OBVIOUS
<1> USE DEF Init, CredentialsInit
<1>1. /\ csrf = ticket /\ ticket = Len(issued) /\ ticket \in Nat
      /\ expiry = 0 /\ mintMu = NoCall
      /\ CredKind = "ticket" => ticket > 0
  OBVIOUS
<1>2. ASSUME NEW c \in Calls PROVE TicketAt(c)
  <2>1. call[c] = Idle /\ hist[c] = NoHist /\ mintMu # c
    BY <1>1, CallsAssumption
  <2>2. Idle.pc = "idle" /\ NoHist.rejected = {}
    BY DEF Idle, NoHist
  <2> QED
    BY <2>1, <2>2 DEF TicketAt, Minting, Sending, Carrying
<1> QED
  BY <1>1, <1>2 DEF TicketInv

\* Every step of the system keeps the invariant of the tickets.
LEMMA TicketNext == TypeOK /\ TypeOK' /\ TicketInv /\ [Next]_vars => TicketInv'
<1> SUFFICES ASSUME TypeOK, TypeOK', TicketInv, [Next]_vars PROVE TicketInv'
  OBVIOUS
<1>0. /\ ticket \in Nat /\ csrf = ticket /\ ticket <= Len(issued)
      /\ Len(issued) \in Nat /\ expiry \in Nat
      /\ expiry > 0 => ticket > 0
      /\ CredKind = "ticket" => ticket > 0
      /\ CredKind \in {"token", "ticket", "user"}
  BY CredKindAssumption DEF TypeOK, TicketInv
<1>1. ASSUME NEW c \in Calls, NEW op \in Ops, Call(c, op) PROVE TicketInv'
  <2>1. /\ call[c].pc = "idle" /\ call[c] \in CallRecord /\ TicketAt(c)
        /\ UNCHANGED <<hist, ticket, csrf, expiry, mintMu, issued>>
    BY <1>1 DEF Call, credVars, pveVars, TypeOK, TicketInv
  <2>2. Goto(c, [call[c] EXCEPT !.pc = IF NeedsRefresh THEN "lock" ELSE "top",
                                !.op = op])
    BY <1>1 DEF Call
  <2>3. /\ call'[c] = [call[c] EXCEPT
                          !.pc = IF NeedsRefresh THEN "lock" ELSE "top",
                          !.op = op]
        /\ \A d \in Calls : d # c => call'[d] = call[d] /\ hist'[d] = hist[d]
    BY <2>1, <2>2, GotoFacts
  <2>4. /\ call'[c].pc = IF NeedsRefresh THEN "lock" ELSE "top"
        /\ call'[c].forced = call[c].forced
    BY <2>1, <2>3 DEF CallRecord
  <2>5. ~ NeedsRefresh /\ CredKind # "token" => ticket > 0
    BY <1>0 DEF NeedsRefresh
  <2>6. hist[c].rejected = {} /\ mintMu # c
    BY <2>1 DEF TicketAt, Minting
  <2>7. TicketAt(c)'
    BY <2>1, <2>3, <2>4, <2>5, <2>6 DEF TicketAt, Minting, Sending, Carrying
  <2> QED
    BY <1>0, <2>1, <2>3, <2>7, TicketFrame
<1>2. ASSUME NEW c \in Calls, Step(c) PROVE TicketInv'
  BY <1>2, TicketStep
<1>3. ASSUME NEW c \in Calls, Cancel(c) PROVE TicketInv'
  <2>1. /\ Goto(c, [call[c] EXCEPT !.cancelled = TRUE])
        /\ call[c] \in CallRecord /\ TicketAt(c)
        /\ UNCHANGED <<hist, ticket, csrf, expiry, mintMu, issued>>
    BY <1>3 DEF Cancel, credVars, pveVars, TypeOK, TicketInv
  <2>2. /\ call'[c] = [call[c] EXCEPT !.cancelled = TRUE]
        /\ \A d \in Calls : d # c => call'[d] = call[d] /\ hist'[d] = hist[d]
    BY <2>1, GotoFacts
  <2>3. /\ call'[c].pc = call[c].pc /\ call'[c].op = call[c].op
        /\ call'[c].forced = call[c].forced
        /\ call'[c].tk = call[c].tk /\ call'[c].cs = call[c].cs
    BY <2>1, <2>2 DEF CallRecord
  <2>4. TicketAt(c)'
    BY <2>1, <2>3 DEF TicketAt
  <2> QED
    BY <1>0, <2>1, <2>2, <2>4, TicketFrame
<1>4. ASSUME UNCHANGED <<call, hist, ticket, csrf, expiry, mintMu, issued>>
      PROVE  TicketInv'
  BY <1>4 DEF TicketInv, TicketAt
<1>5. CASE Clock
  BY <1>4, <1>5 DEF Clock, Tick, credVars
<1>6. CASE Revokes
  BY <1>4, <1>6 DEF Revokes, Revoke, credVars
<1>7. CASE UNCHANGED vars
  BY <1>4, <1>7 DEF vars, credVars, pveVars
<1> QED
  BY <1>1, <1>2, <1>3, <1>5, <1>6, <1>7 DEF Next, Finished

\* The inductive invariant behind the three theorems that follow: what the live
\* ticket, the tickets on their way and mintMu have to do with one another
\* (credentials.go), for any number of concurrent calls.
THEOREM TicketInvariant == Spec => [](TypeOK /\ TicketInv)
BY InitType, NextType, TicketInit, TicketNext, PTL DEF Spec

(***************************************************************************)
(* No request pairs a ticket with an older CSRF token, or has an empty     *)
(* ticket, however many calls refresh at the same time.                    *)
(***************************************************************************)
THEOREM CsrfCorrect == Spec => []CsrfNotOlder
<1>1. TypeOK /\ TicketInv => CsrfNotOlder
  BY DEF TicketInv, TicketAt, CsrfNotOlder, Carrying
<1> QED
  BY <1>1, TicketInvariant, PTL

(***************************************************************************)
(* A replay never presents a ticket PVE has rejected to the same call.     *)
(***************************************************************************)
THEOREM ReplayCorrect == Spec => []RejectedNeverResent
<1>1. TypeOK /\ TicketInv => RejectedNeverResent
  <2> SUFFICES ASSUME TypeOK, TicketInv, NEW c \in Calls,
                      call[c].pc \in {"wire", "served"}, CredKind = "user",
                      call[c].tk \in hist[c].rejected
               PROVE  FALSE
    BY DEF RejectedNeverResent
  <2>1. call[c].tk \in Nat
    BY DEF TypeOK, CallRecord
  <2> QED
    BY <2>1 DEF TicketInv, TicketAt, Carrying
<1> QED
  BY <1>1, TicketInvariant, PTL

(***************************************************************************)
(* The live ticket is never replaced by an older one.                      *)
(***************************************************************************)
THEOREM TicketMonotone == Spec => TicketNeverOlder
<1>1. TypeOK /\ TicketInv /\ [Next]_vars => [ticket' >= ticket]_<<ticket>>
  <2> SUFFICES ASSUME TypeOK, TicketInv, [Next]_vars
               PROVE  ticket' = ticket \/ ticket' >= ticket
    OBVIOUS
  <2>1. ticket \in Nat
    BY DEF TypeOK
  <2>2. ASSUME NEW c \in Calls, MintDone(c) PROVE ticket' >= ticket
    BY <2>1, <2>2 DEF MintDone, SetTicket, TicketInv, TicketAt, TypeOK, CallRecord
  <2>3. ASSUME NEW c \in Calls, Step(c), ~ MintDone(c) PROVE ticket' = ticket
    BY <2>3 DEF Step, RefreshNotNeeded, RefreshLock, MintSend, MintIssue,
        MintFail, Top, SpoolFail, CtxDone, EncodeFail, Authorize, Send, Serve,
        Receive, Lose, GiveUp, Backoff, Rotate, credVars
  <2>4. ASSUME NEW c \in Calls, NEW op \in Ops, Call(c, op)
        PROVE  ticket' = ticket
    BY <2>4 DEF Call, credVars
  <2>5. Clock \/ Revokes \/ UNCHANGED vars => ticket' = ticket
    BY DEF Clock, Revokes, vars, credVars
  <2>6. ASSUME NEW c \in Calls, Cancel(c) PROVE ticket' = ticket
    BY <2>6 DEF Cancel, credVars
  <2> QED
    BY <2>2, <2>3, <2>4, <2>5, <2>6 DEF Next, Finished
<1> QED
  BY <1>1, TicketInvariant, PTL DEF Spec, TicketNeverOlder

-----------------------------------------------------------------------------
(***************************************************************************)
(* What a step of a call in progress does, as seen by its caller and by    *)
(* PVE: nothing, one execution, or its return.                             *)
(***************************************************************************)
Effect(r, h, q, g) ==
    /\ r.pc \in Active /\ q.op = r.op
    /\ \/ q.pc \in Active /\ q.res = r.res /\ g.applied = h.applied
       \/ /\ r.pc = "wire" /\ q.pc = "served" /\ q.res = r.res
          /\ g.applied = h.applied + 1
       \/ /\ q.pc = "done" /\ g.applied = h.applied
          /\ q.res \in Results
          /\ q.res \in {"nil", "stream"} => h.applied >= 1 \/ Attempts = 0

(***************************************************************************)
(* A request PVE did not carry out is never answered with a success.       *)
(***************************************************************************)
LEMMA RefusedIsNoSuccess ==
    ASSUME NEW r, r.pc = "wire", NEW e \in Answers(r)
    PROVE  e \notin {"nil", "stream"}
<1>1. PICK rep \in Refusals(r.tk) : e = ReadReply(r.op, rep, FALSE)
  BY DEF Answers
<1>2. rep.status \in {400, 401, 403, 404, 409, 500, 596}
  BY DEF Refusals
<1>3. ReadResponse(rep, FALSE) # "nil" /\ ReadResponse(rep, FALSE) # "stream"
  BY <1>2 DEF ReadResponse, Classify, ClassifyNetError, IsSuccess
<1>4. ReadReply(r.op, rep, FALSE) = ReadResponse(rep, FALSE)
  <2>1. rep.status # 101
    BY <1>2
  <2> QED
    BY <2>1 DEF ReadReply
<1> QED
  BY <1>1, <1>3, <1>4

\* Every step of a call keeps the connection between what it is about to
\* report and whether PVE carried it out.
LEMMA ServedStep ==
    ASSUME TypeOK, ServedInv, NEW c \in Calls, Step(c)
    PROVE  /\ ServedAt(call'[c], hist'[c])
           /\ Effect(call[c], hist[c], call'[c], hist'[c])
           /\ \A d \in Calls : d # c => call'[d] = call[d] /\ hist'[d] = hist[d]
<1> DEFINE r == call[c]
           h == hist[c]
           q == call'[c]
           g == hist'[c]
           Others == \A d \in Calls :
                        d # c => call'[d] = call[d] /\ hist'[d] = hist[d]
<1>a. r \in CallRecord /\ h \in HistRecord
  BY DEF TypeOK
<1>b. h.applied \in Nat /\ r.op \in Looped \cup OneShot /\ Attempts \in Nat
  BY <1>a, TransportAssumption DEF CallRecord, HistRecord
<1>c. ServedAt(r, h)
  BY DEF ServedInv
<1>d. {"none", "ctx", "transient", "exhausted"} \subseteq Results
  BY DEF Results, ErrKinds, Sentinels
<1>e. \A op \in Looped : op \notin OneShot
  BY DEF Looped, OneShot
<1> USE <1>a, <1>b, <1>c, <1>d, <1>e
<1>1. CASE RefreshNotNeeded(c)
  <2>1. Goto(c, [r EXCEPT !.pc = "top"])
    BY <1>1 DEF RefreshNotNeeded
  <2>2. r.pc = "lock" /\ hist' = hist
    BY <1>1 DEF RefreshNotNeeded
  <2>3. Others
    BY <2>1, <2>2, GotoFacts DEF TypeOK
  <2>4. g.applied = h.applied
    BY <2>2
  <2>5. q.pc = "top" /\ q.op = r.op /\ q.res = r.res
    <3>1. q = [r EXCEPT !.pc = "top"]
      BY <2>1, GotoFacts
    <3> QED
      BY <3>1 DEF CallRecord
  <2> QED
    BY <2>2, <2>3, <2>4, <2>5
    DEF ServedAt, Effect, Active, Minting, Sending
<1>2. CASE RefreshLock(c)
  <2>1. Goto(c, [r EXCEPT !.pc = "mint"])
    BY <1>2 DEF RefreshLock
  <2>2. r.pc = "lock" /\ hist' = hist
    BY <1>2 DEF RefreshLock
  <2>3. Others
    BY <2>1, <2>2, GotoFacts DEF TypeOK
  <2>4. g.applied = h.applied
    BY <2>2
  <2>5. q.pc = "mint" /\ q.op = r.op /\ q.res = r.res
    <3>1. q = [r EXCEPT !.pc = "mint"]
      BY <2>1, GotoFacts
    <3> QED
      BY <3>1 DEF CallRecord
  <2> QED
    BY <2>2, <2>3, <2>4, <2>5
    DEF ServedAt, Effect, Active, Minting, Sending
<1>3. CASE MintSend(c)
  <2>1. Goto(c, [r EXCEPT !.pc = "minting", !.base = current])
    BY <1>3 DEF MintSend
  <2>2. r.pc = "mint" /\ hist' = hist
    BY <1>3 DEF MintSend
  <2>3. Others
    BY <2>1, <2>2, GotoFacts DEF TypeOK
  <2>4. g.applied = h.applied
    BY <2>2
  <2>5. q.pc = "minting" /\ q.op = r.op /\ q.res = r.res
    <3>1. q = [r EXCEPT !.pc = "minting", !.base = current]
      BY <2>1, GotoFacts
    <3> QED
      BY <3>1 DEF CallRecord
  <2> QED
    BY <2>2, <2>3, <2>4, <2>5
    DEF ServedAt, Effect, Active, Minting, Sending
<1>4. CASE MintIssue(c)
  <2>1. Goto(c, [r EXCEPT !.pc = "minted", !.tk = Len(issued) + 1])
    BY <1>4 DEF MintIssue
  <2>2. r.pc = "minting" /\ hist' = hist
    BY <1>4 DEF MintIssue
  <2>3. Others
    BY <2>1, <2>2, GotoFacts DEF TypeOK
  <2>4. g.applied = h.applied
    BY <2>2
  <2>5. q.pc = "minted" /\ q.op = r.op /\ q.res = r.res
    <3>1. q = [r EXCEPT !.pc = "minted", !.tk = Len(issued) + 1]
      BY <2>1, GotoFacts
    <3> QED
      BY <3>1 DEF CallRecord
  <2> QED
    BY <2>2, <2>3, <2>4, <2>5
    DEF ServedAt, Effect, Active, Minting, Sending
<1>5. CASE MintDone(c)
  <2>1. Goto(c, [r EXCEPT !.pc = "top"])
    BY <1>5 DEF MintDone
  <2>2. r.pc = "minted" /\ hist' = hist
    BY <1>5 DEF MintDone
  <2>3. Others
    BY <2>1, <2>2, GotoFacts DEF TypeOK
  <2>4. g.applied = h.applied
    BY <2>2
  <2>5. q.pc = "top" /\ q.op = r.op /\ q.res = r.res
    <3>1. q = [r EXCEPT !.pc = "top"]
      BY <2>1, GotoFacts
    <3> QED
      BY <3>1 DEF CallRecord
  <2> QED
    BY <2>2, <2>3, <2>4, <2>5
    DEF ServedAt, Effect, Active, Minting, Sending
<1>6. CASE MintFail(c)
  <2>1. PICK e \in MintErrors(r) :
            /\ Goto(c, Return(r, e))
            /\ hist' = [hist EXCEPT ![c] = NoteReply(h, r, e)]
    BY <1>6 DEF MintFail
  <2>2. r.pc \in Minting
    BY <1>6 DEF MintFail
  <2>3. e \in Results /\ e # "nil" /\ e # "stream"
    BY DEF MintErrors, Classify, ClassifyNetError, Results, ErrKinds, Sentinels
  <2>4. NoteReply(h, r, e).applied = h.applied
    BY DEF NoteReply, HistRecord
  <2>5. Others /\ g.applied = h.applied
    BY <2>1, <2>4, GotoFacts DEF TypeOK
  <2>6. q.pc = "done" /\ q.op = r.op /\ q.res = e
    BY <2>1, GotoFacts, ReturnFacts
  <2> QED
    BY <2>2, <2>3, <2>5, <2>6 DEF ServedAt, Effect, Active, Minting
<1>7. CASE Top(c)
  <2>1. Goto(c, [r EXCEPT
                       !.pc = IF r.op \in Looped /\ Attempts = 0
                              THEN "rotate" ELSE "attempt",
                       !.base = current, !.attempt = 1, !.err = "nil"])
    BY <1>7 DEF Top
  <2>2. r.pc = "top" /\ hist' = hist
    BY <1>7 DEF Top
  <2>3. Others
    BY <2>1, <2>2, GotoFacts DEF TypeOK
  <2>4. g.applied = h.applied
    BY <2>2
  <2>5. /\ q.pc = IF r.op \in Looped /\ Attempts = 0
                   THEN "rotate" ELSE "attempt"
        /\ q.op = r.op /\ q.res = r.res
    <3>1. q = [r EXCEPT
                       !.pc = IF r.op \in Looped /\ Attempts = 0
                              THEN "rotate" ELSE "attempt",
                       !.base = current, !.attempt = 1, !.err = "nil"]
      BY <2>1, GotoFacts
    <3> QED
      BY <3>1 DEF CallRecord
  <2> QED
    BY <2>2, <2>3, <2>4, <2>5
    DEF ServedAt, Effect, Active, Minting, Sending
<1>8. CASE SpoolFail(c)
  <2>1. Goto(c, Return(r, "none"))
    BY <1>8 DEF SpoolFail
  <2>2. r.pc = "top" /\ hist' = hist
    BY <1>8 DEF SpoolFail
  <2>3. Others
    BY <2>1, <2>2, GotoFacts DEF TypeOK
  <2>4. g.applied = h.applied
    BY <2>2
  <2>5. q.pc = "done" /\ q.op = r.op /\ q.res = "none"
    BY <2>1, GotoFacts, ReturnFacts
  <2> QED
    BY <2>2, <2>3, <2>4, <2>5
    DEF ServedAt, Effect, Active, Minting, Sending
<1>9. CASE CtxDone(c)
  <2>1. Goto(c, Return(r, "ctx"))
    BY <1>9 DEF CtxDone
  <2>2. r.pc = "attempt" /\ hist' = hist
    BY <1>9 DEF CtxDone
  <2>3. Others
    BY <2>1, <2>2, GotoFacts DEF TypeOK
  <2>4. g.applied = h.applied
    BY <2>2
  <2>5. q.pc = "done" /\ q.op = r.op /\ q.res = "ctx"
    BY <2>1, GotoFacts, ReturnFacts
  <2> QED
    BY <2>2, <2>3, <2>4, <2>5
    DEF ServedAt, Effect, Active, Minting, Sending
<1>10. CASE EncodeFail(c)
  <2>1. Goto(c, AfterTransient(r))
    BY <1>10 DEF EncodeFail
  <2>2. r.pc = "attempt" /\ hist' = hist
    BY <1>10 DEF EncodeFail
  <2>3. Others
    BY <2>1, <2>2, GotoFacts DEF TypeOK
  <2>4. g.applied = h.applied
    BY <2>2
  <2>5. /\ q.op = r.op
        /\ \/ r.op \in OneShot /\ q.pc = "done" /\ q.res = "transient"
           \/ /\ r.op \notin OneShot /\ q.pc \in {"backoff", "rotate"}
              /\ q.err = "transient" /\ q.res = r.res
    BY <2>1, GotoFacts, AfterTransientFacts
  <2> QED
    BY <2>2, <2>3, <2>4, <2>5
    DEF ServedAt, Effect, Active, Minting, Sending
<1>11. CASE Authorize(c)
  <2>1. Goto(c, [r EXCEPT !.pc = "send", !.tk = ticket])
    BY <1>11 DEF Authorize
  <2>2. r.pc = "attempt" /\ hist' = hist
    BY <1>11 DEF Authorize
  <2>3. Others
    BY <2>1, <2>2, GotoFacts DEF TypeOK
  <2>4. g.applied = h.applied
    BY <2>2
  <2>5. q.pc = "send" /\ q.op = r.op /\ q.res = r.res
    <3>1. q = [r EXCEPT !.pc = "send", !.tk = ticket]
      BY <2>1, GotoFacts
    <3> QED
      BY <3>1 DEF CallRecord
  <2> QED
    BY <2>2, <2>3, <2>4, <2>5
    DEF ServedAt, Effect, Active, Minting, Sending
<1>12. CASE Send(c)
  <2>1. Goto(c, [r EXCEPT !.pc = "wire",
                            !.cs = IF r.op \in {"write", "upload"}
                                   THEN csrf ELSE 0])
    BY <1>12 DEF Send
  <2>2. r.pc = "send" /\ hist' = [hist EXCEPT ![c].sends = @ + 1]
    BY <1>12 DEF Send
  <2>3. Others
    BY <2>1, <2>2, GotoFacts DEF TypeOK
  <2>4. g.applied = h.applied
    BY <2>2 DEF TypeOK, HistRecord, NoteReply
  <2>5. q.pc = "wire" /\ q.op = r.op /\ q.res = r.res
    <3>1. q = [r EXCEPT !.pc = "wire",
                            !.cs = IF r.op \in {"write", "upload"}
                                   THEN csrf ELSE 0]
      BY <2>1, GotoFacts
    <3> QED
      BY <3>1 DEF CallRecord
  <2> QED
    BY <2>2, <2>3, <2>4, <2>5
    DEF ServedAt, Effect, Active, Minting, Sending
<1>13. CASE Serve(c)
  <2>1. Goto(c, [r EXCEPT !.pc = "served"])
    BY <1>13 DEF Serve
  <2>2. r.pc = "wire" /\ hist' = [hist EXCEPT ![c].applied = @ + 1]
    BY <1>13 DEF Serve
  <2>3. Others
    BY <2>1, <2>2, GotoFacts DEF TypeOK
  <2>4. g.applied = h.applied + 1
    BY <2>2 DEF TypeOK, HistRecord, NoteReply
  <2>5. q.pc = "served" /\ q.op = r.op /\ q.res = r.res
    <3>1. q = [r EXCEPT !.pc = "served"]
      BY <2>1, GotoFacts
    <3> QED
      BY <3>1 DEF CallRecord
  <2> QED
    BY <2>2, <2>3, <2>4, <2>5
    DEF ServedAt, Effect, Active, Minting, Sending
<1>14. CASE Receive(c)
  <2>1. PICK e \in Answers(r) :
            /\ Goto(c, AfterReply(r, e))
            /\ hist' = [hist EXCEPT ![c] = NoteReply(h, r, e)]
    BY <1>14 DEF Receive
  <2>2. /\ r.pc \in {"wire", "served"} /\ e \in Results
        /\ e \in {"nil", "stream"} => r.pc = "served"
    BY RefusedIsNoSuccess DEF Answers
  <2>3. NoteReply(h, r, e).applied = h.applied
    BY DEF NoteReply, HistRecord
  <2>4. Others /\ g.applied = h.applied /\ q = AfterReply(r, e)
    BY <2>1, <2>3, GotoFacts DEF TypeOK
  <2>5. CASE e = "transient"
    <3>1. q = AfterTransient(r)
      BY <2>4, <2>5 DEF AfterReply
    <3>2. /\ q.op = r.op
          /\ \/ r.op \in OneShot /\ q.pc = "done" /\ q.res = "transient"
             \/ /\ r.op \notin OneShot /\ q.pc \in {"backoff", "rotate"}
                /\ q.err = "transient" /\ q.res = r.res
      BY <3>1, AfterTransientFacts
    <3> QED
      BY <2>2, <2>4, <3>2 DEF ServedAt, Effect, Active, Minting, Sending
  <2>6. CASE e # "transient"
    <3>1. q = AfterExecute(r, e)
      BY <2>4, <2>6 DEF AfterReply
    <3>2. /\ q.op = r.op
          /\ \/ r.op \in Looped /\ q.res = r.res /\ q.pc \in {"lock", "top"}
             \/ q.pc = "done" /\ q.res = e
      BY <3>1, AfterExecuteFacts
    <3> QED
      BY <2>2, <2>4, <3>2 DEF ServedAt, Effect, Active, Minting, Sending
  <2> QED
    BY <2>5, <2>6
<1>15. CASE Lose(c)
  <2>1. Goto(c, AfterTransient(r))
    BY <1>15 DEF Lose
  <2>2. r.pc \in {"wire", "served"} /\ hist' = [hist EXCEPT ![c] = NoteReply(h, r, "transient")]
    BY <1>15 DEF Lose
  <2>3. Others
    BY <2>1, <2>2, GotoFacts DEF TypeOK
  <2>4. g.applied = h.applied
    BY <2>2 DEF TypeOK, HistRecord, NoteReply
  <2>5. /\ q.op = r.op
        /\ \/ r.op \in OneShot /\ q.pc = "done" /\ q.res = "transient"
           \/ /\ r.op \notin OneShot /\ q.pc \in {"backoff", "rotate"}
              /\ q.err = "transient" /\ q.res = r.res
    BY <2>1, GotoFacts, AfterTransientFacts
  <2> QED
    BY <2>2, <2>3, <2>4, <2>5
    DEF ServedAt, Effect, Active, Minting, Sending
<1>16. CASE GiveUp(c)
  <2>1. Goto(c, AfterTransient(r))
    BY <1>16 DEF GiveUp
  <2>2. r.pc \in {"send", "wire", "served"} /\ hist' = hist
    BY <1>16 DEF GiveUp
  <2>3. Others
    BY <2>1, <2>2, GotoFacts DEF TypeOK
  <2>4. g.applied = h.applied
    BY <2>2
  <2>5. /\ q.op = r.op
        /\ \/ r.op \in OneShot /\ q.pc = "done" /\ q.res = "transient"
           \/ /\ r.op \notin OneShot /\ q.pc \in {"backoff", "rotate"}
              /\ q.err = "transient" /\ q.res = r.res
    BY <2>1, GotoFacts, AfterTransientFacts
  <2> QED
    BY <2>2, <2>3, <2>4, <2>5
    DEF ServedAt, Effect, Active, Minting, Sending
<1>17. CASE Backoff(c)
  <2>1. Goto(c, [r EXCEPT !.pc = "attempt", !.attempt = @ + 1])
    BY <1>17 DEF Backoff
  <2>2. r.pc = "backoff" /\ hist' = hist
    BY <1>17 DEF Backoff
  <2>3. Others
    BY <2>1, <2>2, GotoFacts DEF TypeOK
  <2>4. g.applied = h.applied
    BY <2>2
  <2>5. q.pc = "attempt" /\ q.op = r.op /\ q.res = r.res
    <3>1. q = [r EXCEPT !.pc = "attempt", !.attempt = @ + 1]
      BY <2>1, GotoFacts
    <3> QED
      BY <3>1 DEF CallRecord
  <2> QED
    BY <2>2, <2>3, <2>4, <2>5
    DEF ServedAt, Effect, Active, Minting, Sending
<1>18. CASE Rotate(c)
  <2>1. /\ \/ Goto(c, AfterExecute(r, r.err))
           \/ Goto(c, AfterExecute(r, "exhausted"))
           \/ Goto(c, [r EXCEPT !.pc = "top", !.ep = @ + 1])
        /\ r.pc = "rotate" /\ hist' = hist
    BY <1>18 DEF Rotate
  <2>2. /\ \/ q = AfterExecute(r, r.err)
           \/ q = AfterExecute(r, "exhausted")
           \/ q = [r EXCEPT !.pc = "top", !.ep = @ + 1]
        /\ Others /\ g.applied = h.applied
    BY <2>1, GotoFacts
  <2>3. r.err \in Results /\ (r.err = "transient" \/ Attempts = 0)
    BY <2>1 DEF CallRecord, Results, ServedAt
  <2>4. /\ q.op = r.op
        /\ \/ r.op \in Looped /\ q.res = r.res /\ q.pc \in {"lock", "top"}
           \/ q.pc = "done" /\ q.res \in {r.err, "exhausted"}
           \/ q.pc = "top" /\ q.res = r.res
    <3>1. ASSUME q = [r EXCEPT !.pc = "top", !.ep = @ + 1]
          PROVE  q.pc = "top" /\ q.res = r.res /\ q.op = r.op
      BY <3>1 DEF CallRecord
    <3> QED
      BY <2>2, <3>1, AfterExecuteFacts
  <2> QED
    BY <2>1, <2>2, <2>3, <2>4 DEF ServedAt, Effect, Active, Minting, Sending
<1> QED
  BY <1>1, <1>2, <1>3, <1>4, <1>5, <1>6, <1>7, <1>8, <1>9, <1>10, <1>11,
     <1>12, <1>13, <1>14, <1>15, <1>16, <1>17, <1>18 DEF Step

\* A new transport has reported nothing.
LEMMA ServedInit == Init => ServedInv
<1> SUFFICES ASSUME Init, NEW c \in Calls PROVE ServedAt(call[c], hist[c])
  BY DEF ServedInv
<1>1. call[c] = Idle /\ hist[c] = NoHist
  BY DEF Init
<1>2. /\ Idle.pc = "idle" /\ Idle.res = "pending" /\ Idle.op = "read"
      /\ NoHist.applied = 0
  BY DEF Idle, NoHist
<1> QED
  BY <1>1, <1>2 DEF ServedAt, OneShot

(***************************************************************************)
(* The steps outside a call's own: it begins, or its caller gives up.      *)
(***************************************************************************)
LEMMA CallFacts ==
    ASSUME TypeOK, ServedInv, NEW c \in Calls, NEW op \in Ops, Call(c, op)
    PROVE  /\ call[c].pc = "idle" /\ call'[c].pc \in {"lock", "top"}
           /\ call'[c].op = op /\ call'[c].res = call[c].res
           /\ call[c].res = "pending"
           /\ hist' = hist /\ hist[c].applied = 0
           /\ ServedAt(call'[c], hist[c])
           /\ \A d \in Calls : d # c => call'[d] = call[d]
<1> DEFINE r == call[c]
<1>1. /\ r.pc = "idle" /\ r \in CallRecord /\ hist' = hist
      /\ Goto(c, [r EXCEPT !.pc = IF NeedsRefresh THEN "lock" ELSE "top",
                           !.op = op])
  BY DEF Call, TypeOK
<1>2. /\ call'[c] = [r EXCEPT !.pc = IF NeedsRefresh THEN "lock" ELSE "top",
                              !.op = op]
      /\ \A d \in Calls : d # c => call'[d] = call[d]
  BY <1>1, GotoFacts
<1>3. /\ call'[c].pc \in {"lock", "top"}
      /\ call'[c].op = op /\ call'[c].res = r.res
  BY <1>1, <1>2 DEF CallRecord
<1>4. ServedAt(r, hist[c])
  BY DEF ServedInv
<1> QED
  BY <1>1, <1>2, <1>3, <1>4 DEF ServedAt

\* A cancelled context changes no call's account of what PVE did.
LEMMA CancelFacts ==
    ASSUME TypeOK, ServedInv, NEW c \in Calls, Cancel(c)
    PROVE  /\ call'[c].pc = call[c].pc /\ call'[c].op = call[c].op
           /\ call'[c].res = call[c].res
           /\ hist' = hist
           /\ ServedAt(call'[c], hist[c])
           /\ \A d \in Calls : d # c => call'[d] = call[d]
<1>1. /\ call[c] \in CallRecord /\ hist' = hist
      /\ Goto(c, [call[c] EXCEPT !.cancelled = TRUE])
  BY DEF Cancel, TypeOK
<1>2. /\ call'[c] = [call[c] EXCEPT !.cancelled = TRUE]
      /\ \A d \in Calls : d # c => call'[d] = call[d]
  BY <1>1, GotoFacts
<1>3. /\ call'[c].pc = call[c].pc /\ call'[c].op = call[c].op
      /\ call'[c].res = call[c].res /\ call'[c].err = call[c].err
  BY <1>1, <1>2 DEF CallRecord
<1>4. ServedAt(call[c], hist[c])
  BY DEF ServedInv
<1> QED
  BY <1>1, <1>2, <1>3, <1>4 DEF ServedAt

\* Every step of the system keeps the connection between reports and effects.
LEMMA ServedNext == TypeOK /\ ServedInv /\ [Next]_vars => ServedInv'
<1> SUFFICES ASSUME TypeOK, ServedInv, [Next]_vars PROVE ServedInv'
  OBVIOUS
<1>1. ASSUME NEW c \in Calls, NEW op \in Ops, Call(c, op) PROVE ServedInv'
  BY <1>1, CallFacts DEF ServedInv
<1>2. ASSUME NEW c \in Calls, Step(c) PROVE ServedInv'
  BY <1>2, ServedStep DEF ServedInv
<1>3. ASSUME NEW c \in Calls, Cancel(c) PROVE ServedInv'
  BY <1>3, CancelFacts DEF ServedInv
<1>4. CASE Clock \/ Revokes \/ UNCHANGED vars
  BY <1>4 DEF Clock, Revokes, vars, ServedInv
<1> QED
  BY <1>1, <1>2, <1>3, <1>4 DEF Next, Finished

\* The inductive invariant behind SuccessCorrect: a call that holds a success
\* (execute's lastErr is nil after an attempt) was carried out by PVE.
THEOREM ServedInvariant == Spec => [](TypeOK /\ ServedInv)
BY InitType, NextType, ServedInit, ServedNext, PTL DEF Spec

(***************************************************************************)
(* With at least one attempt per endpoint, an operation that reports       *)
(* success was carried out by PVE.                                         *)
(***************************************************************************)
THEOREM SuccessCorrect ==
    ASSUME Attempts # 0
    PROVE  Spec => []SuccessMeansServed
<1>1. TypeOK /\ ServedInv => SuccessMeansServed
  BY DEF ServedInv, ServedAt, SuccessMeansServed
<1> QED
  BY <1>1, ServedInvariant, PTL

-----------------------------------------------------------------------------
(***************************************************************************)
(* The refinement.                                                         *)
(***************************************************************************)
LEMMA PhaseFacts ==
    /\ PhaseOf("idle") = "idle" /\ PhaseOf("done") = "done"
    /\ \A p \in Active : PhaseOf(p) = "active"
BY DEF PhaseOf, Active, Minting, Sending

\* A new transport is an initial state of Operation.
LEMMA RefinesInit == Init => AsOperation!OpInit
<1> SUFFICES ASSUME Init PROVE AsOperation!OpInit
  OBVIOUS
<1>1. \A c \in Calls : /\ call[c].pc = "idle" /\ call[c].res = "pending"
                       /\ call[c].op \in Looped /\ hist[c].applied = 0
  BY DEF Init, Idle, NoHist, Looped
<1> QED
  BY <1>1, PhaseFacts DEF AsOperation!OpInit, AsOperation!NotReturned

\* Every step of the transport is a Begin, an Apply or an End of Operation for
\* one call, or changes nothing that its callers see.
LEMMA RefinesNext ==
    ASSUME Attempts # 0, TypeOK, ServedInv, [Next]_vars
    PROVE  [AsOperation!OpNext]_(AsOperation!opVars)
<1> DEFINE phase   == [d \in Calls |-> PhaseOf(call[d].pc)]
           kind    == [d \in Calls |-> call[d].op]
           applied == [d \in Calls |-> hist[d].applied]
           result  == [d \in Calls |-> call[d].res]
<1>1. ASSUME NEW c \in Calls, NEW op \in Ops, Call(c, op)
      PROVE  AsOperation!Begin(c)
  <2>1. /\ call[c].pc = "idle" /\ call'[c].pc \in Active
        /\ call'[c].op = op /\ call'[c].res = call[c].res
        /\ hist' = hist
        /\ \A d \in Calls : d # c => call'[d] = call[d]
    BY <1>1, CallFacts DEF Active
  <2>2. op \in Looped \cup OneShot
    BY TransportAssumption
  <2>3. phase' = [phase EXCEPT ![c] = "active"] /\ phase[c] = "idle"
    BY <2>1, PhaseFacts
  <2>4. kind' = [kind EXCEPT ![c] = op]
    BY <2>1
  <2>5. applied' = applied /\ result' = result
    BY <2>1
  <2> QED
    BY <2>2, <2>3, <2>4, <2>5 DEF AsOperation!Begin
<1>2. ASSUME NEW c \in Calls, Step(c)
      PROVE  \/ AsOperation!Apply(c) \/ AsOperation!End(c)
             \/ UNCHANGED AsOperation!opVars
  <2>1. /\ Effect(call[c], hist[c], call'[c], hist'[c])
        /\ \A d \in Calls : d # c => call'[d] = call[d] /\ hist'[d] = hist[d]
    BY <1>2, ServedStep
  <2>2. /\ call[c].pc \in Active /\ call'[c].op = call[c].op
        /\ phase[c] = "active"
        /\ kind' = kind
    BY <2>1, PhaseFacts DEF Effect
  <2>3. CASE /\ call'[c].pc \in Active /\ call'[c].res = call[c].res
             /\ hist'[c].applied = hist[c].applied
    <3>1. phase' = phase /\ applied' = applied /\ result' = result
      BY <2>1, <2>2, <2>3, PhaseFacts
    <3> QED
      BY <2>2, <3>1 DEF AsOperation!opVars
  <2>4. CASE /\ call[c].pc = "wire" /\ call'[c].pc = "served"
             /\ call'[c].res = call[c].res
             /\ hist'[c].applied = hist[c].applied + 1
    <3>1. "served" \in Active
      BY DEF Active, Sending
    <3>2. phase' = phase /\ result' = result
      BY <2>1, <2>2, <2>4, <3>1, PhaseFacts
    <3>3. applied' = [applied EXCEPT ![c] = @ + 1]
      BY <2>1, <2>4
    <3>4. kind[c] \in OneShot => applied[c] = 0
      BY <2>4 DEF ServedInv, ServedAt
    <3> QED
      BY <2>2, <3>2, <3>3, <3>4 DEF AsOperation!Apply
  <2>5. CASE /\ call'[c].pc = "done" /\ hist'[c].applied = hist[c].applied
             /\ call'[c].res \in Results
             /\ call'[c].res \in {"nil", "stream"} => hist[c].applied >= 1
    <3>1. phase' = [phase EXCEPT ![c] = "done"] /\ applied' = applied
      BY <2>1, <2>5, PhaseFacts
    <3>2. result' = [result EXCEPT ![c] = call'[c].res]
      BY <2>1, <2>5
    <3>3. call'[c].res \in {"nil", "stream"} => applied[c] >= 1
      BY <2>5
    <3> QED
      BY <2>2, <2>5, <3>1, <3>2, <3>3 DEF AsOperation!End
  <2> QED
    BY <2>1, <2>3, <2>4, <2>5 DEF Effect
<1>3. ASSUME NEW c \in Calls, Cancel(c) PROVE UNCHANGED AsOperation!opVars
  <2>1. \A d \in Calls : /\ call'[d].pc = call[d].pc /\ call'[d].op = call[d].op
                         /\ call'[d].res = call[d].res /\ hist'[d] = hist[d]
    BY <1>3, CancelFacts
  <2>2. phase' = phase /\ kind' = kind /\ applied' = applied /\ result' = result
    BY <2>1
  <2> QED
    BY <2>2 DEF AsOperation!opVars
<1>4. CASE Clock \/ Revokes \/ UNCHANGED vars
  <2>1. call' = call /\ hist' = hist
    BY <1>4 DEF Clock, Revokes, vars
  <2> QED
    BY <2>1 DEF AsOperation!opVars
<1> QED
  BY <1>1, <1>2, <1>3, <1>4 DEF Next, Finished, AsOperation!OpNext

(***************************************************************************)
(* The transport implements Operation: for its callers, DoRequest is       *)
(* at-least-once on success, DoUpload and DoWebSocket are at-most-once,    *)
(* and nothing is carried out after an operation has returned.             *)
(***************************************************************************)
THEOREM RefinementCorrect ==
    ASSUME Attempts # 0
    PROVE  Spec => ImplementsOperation
BY RefinesInit, RefinesNext, ServedInvariant, PTL
DEF Spec, ImplementsOperation, AsOperation!OpSpec

-----------------------------------------------------------------------------
(***************************************************************************)
(* What the nested loops of execute, the re-auth-and-replay around them    *)
(* and the refresh before them keep.                                       *)
(***************************************************************************)
(***************************************************************************)
(* The shapes of a step of one call, from locals r and history h to q and  *)
(* g.  The two loops are proved from these, and not from the actions.      *)
(***************************************************************************)
Keeps(r, q) == /\ q.op = r.op /\ q.forced = r.forced /\ q.ep = r.ep
               /\ q.cancelled = r.cancelled

InPlace(r, q) == /\ Keeps(r, q) /\ q.res = r.res
                 /\ q.attempt = r.attempt /\ q.base = r.base /\ q.err = r.err

Refreshing(r, h, q, g) ==
    /\ r.pc \in {"lock"} \cup Minting
    /\ q.pc \in {"top"} \cup Minting
    /\ Keeps(r, q) /\ q.res = r.res /\ q.err = r.err
    /\ g = h

RefreshFailed(r, h, q, g) ==
    /\ r.pc \in Minting
    /\ q.pc = "done" /\ q.res \in ErrKinds \ {"ticketExpired"}
    /\ Keeps(r, q) /\ q.err = r.err
    /\ g.sends = h.sends /\ g.rejected = h.rejected

AtEndpoint(r, h, q, g) ==
    /\ r.pc = "top"
    /\ q.pc = IF r.op \in Looped /\ Attempts = 0 THEN "rotate" ELSE "attempt"
    /\ Keeps(r, q) /\ q.res = r.res
    /\ q.attempt = 1 /\ q.base = current /\ q.err = "nil"
    /\ g = h

EndedUnsent(r, h, q, g) ==
    /\ r.pc \in {"top", "attempt"}
    /\ q.pc = "done" /\ q.res \in {"none", "ctx"}
    /\ Keeps(r, q) /\ q.err = r.err
    /\ g = h

Authorized(r, h, q, g) ==
    /\ r.pc = "attempt" /\ q.pc = "send"
    /\ InPlace(r, q) /\ g = h

Sent(r, h, q, g) ==
    /\ r.pc = "send" /\ q.pc = "wire"
    /\ InPlace(r, q) /\ q.tk = r.tk
    /\ g.sends = h.sends + 1 /\ g.rejected = h.rejected /\ g.failed = h.failed

CarriedOut(r, h, q, g) ==
    /\ r.pc = "wire" /\ q.pc = "served"
    /\ InPlace(r, q) /\ q.tk = r.tk
    /\ g.sends = h.sends /\ g.rejected = h.rejected /\ g.failed = h.failed

FailedAttempt(r, h, q, g) ==
    /\ r.pc \in {"attempt", "send", "wire", "served"}
    /\ q = AfterTransient(r)
    /\ g.sends = h.sends /\ g.rejected = h.rejected
    /\ h.failed \subseteq g.failed
    /\ r.op \in {"read", "write"} /\ ~ r.cancelled => r.base \in g.failed

Answered(r, h, q, g) ==
    /\ r.pc \in {"wire", "served"}
    /\ \E e \in Results \ {"transient", "exhausted"} :
          /\ q = AfterExecute(r, e)
          /\ g.rejected = h.rejected \cup (IF e = "ticketExpired" THEN {r.tk} ELSE {})
    /\ g.sends = h.sends /\ g.failed = h.failed

BackedOff(r, h, q, g) ==
    /\ r.pc = "backoff" /\ q.pc = "attempt"
    /\ Keeps(r, q) /\ q.res = r.res /\ q.base = r.base /\ q.err = r.err
    /\ q.attempt = r.attempt + 1
    /\ g = h

Rotated(r, h, q, g) ==
    /\ r.pc = "rotate"
    /\ Failover
    /\ \/ ~ CanFailover /\ q = AfterExecute(r, r.err)
       \/ CanFailover /\ r.ep + 1 >= EndpointCount /\ q = AfterExecute(r, "exhausted")
       \/ /\ CanFailover /\ r.ep + 1 < EndpointCount
          /\ q = [r EXCEPT !.pc = "top", !.ep = r.ep + 1]
    /\ g = h

Shape(r, h, q, g) ==
    \/ /\ UNCHANGED current
       /\ \/ Refreshing(r, h, q, g) \/ RefreshFailed(r, h, q, g)
          \/ AtEndpoint(r, h, q, g) \/ EndedUnsent(r, h, q, g)
          \/ Authorized(r, h, q, g) \/ Sent(r, h, q, g) \/ CarriedOut(r, h, q, g)
          \/ FailedAttempt(r, h, q, g) \/ Answered(r, h, q, g)
          \/ BackedOff(r, h, q, g)
    \/ Rotated(r, h, q, g)

-----------------------------------------------------------------------------
\* readResponse and DoWebSocket never say "exhausted": that is execute's own.
LEMMA AnswersFacts ==
    ASSUME NEW r, NEW e \in Answers(r)
    PROVE  e \in Results /\ e # "exhausted" /\ r.pc \in {"wire", "served"}
<1>1. ASSUME NEW rep, NEW out PROVE ReadResponse(rep, out) # "exhausted"
  BY DEF ReadResponse, Classify, ClassifyNetError
<1>2. ASSUME NEW op, NEW rep, NEW out PROVE ReadReply(op, rep, out) # "exhausted"
  BY <1>1 DEF ReadReply
<1> QED
  BY <1>2 DEF Answers

\* A mint is never answered with ErrTicketExpired: its request has no ticket.
LEMMA MintErrorsFacts ==
    ASSUME NEW r, NEW e \in MintErrors(r)
    PROVE  e \in ErrKinds \ {"ticketExpired"}
BY DEF MintErrors, Classify, ClassifyNetError

\* Every step of a call has one of the shapes, and touches no other call.
LEMMA StepShape ==
    ASSUME TypeOK, NEW c \in Calls, Step(c)
    PROVE  /\ Shape(call[c], hist[c], call'[c], hist'[c])
           /\ \A d \in Calls : d # c => call'[d] = call[d] /\ hist'[d] = hist[d]
<1> DEFINE r == call[c]
           h == hist[c]
           q == call'[c]
           g == hist'[c]
           Others == \A d \in Calls :
                        d # c => call'[d] = call[d] /\ hist'[d] = hist[d]
<1>0. /\ r \in CallRecord /\ h \in HistRecord
      /\ hist \in [Calls -> HistRecord]
  BY DEF TypeOK
<1>a. ASSUME NEW x, Goto(c, x) PROVE q = x /\ \A d \in Calls : d # c => call'[d] = call[d]
  BY <1>a, GotoFacts
<1>b. UNCHANGED hist => g = h /\ \A d \in Calls : hist'[d] = hist[d]
  OBVIOUS
<1>c. ASSUME NEW e, hist' = [hist EXCEPT ![c] = NoteReply(h, r, e)]
      PROVE  /\ \A d \in Calls : d # c => hist'[d] = hist[d]
             /\ g.sends = h.sends
             /\ g.failed = h.failed \cup (IF e = "transient" THEN {r.base} ELSE {})
             /\ g.rejected = h.rejected \cup (IF e = "ticketExpired" THEN {r.tk} ELSE {})
  BY <1>0, <1>c DEF NoteReply, HistRecord
<1> USE DEF Keeps, InPlace
<1>1. CASE RefreshNotNeeded(c) \/ RefreshLock(c)
  <2>1. PICK p \in {"top", "mint"} : Goto(c, [r EXCEPT !.pc = p])
    BY <1>1 DEF RefreshNotNeeded, RefreshLock
  <2>2. r.pc = "lock" /\ UNCHANGED <<hist, current>>
    BY <1>1 DEF RefreshNotNeeded, RefreshLock
  <2>3. q = [r EXCEPT !.pc = p] /\ Others /\ g = h
    BY <1>a, <1>b, <2>1, <2>2
  <2>4. Refreshing(r, h, q, g)
    BY <1>0, <2>2, <2>3 DEF Refreshing, Minting, CallRecord
  <2> QED
    BY <2>2, <2>3, <2>4 DEF Shape
<1>2. CASE MintSend(c)
  <2>1. /\ r.pc = "mint" /\ UNCHANGED <<hist, current>>
        /\ Goto(c, [r EXCEPT !.pc = "minting", !.base = current])
    BY <1>2 DEF MintSend
  <2>2. q = [r EXCEPT !.pc = "minting", !.base = current] /\ Others /\ g = h
    BY <1>a, <1>b, <2>1
  <2>3. Refreshing(r, h, q, g)
    BY <1>0, <2>1, <2>2 DEF Refreshing, Minting, CallRecord
  <2> QED
    BY <2>1, <2>2, <2>3 DEF Shape
<1>3. CASE MintIssue(c)
  <2>1. /\ r.pc = "minting" /\ UNCHANGED <<hist, current>>
        /\ Goto(c, [r EXCEPT !.pc = "minted", !.tk = Len(issued) + 1])
    BY <1>3 DEF MintIssue
  <2>2. q = [r EXCEPT !.pc = "minted", !.tk = Len(issued) + 1] /\ Others /\ g = h
    BY <1>a, <1>b, <2>1
  <2>3. Refreshing(r, h, q, g)
    BY <1>0, <2>1, <2>2 DEF Refreshing, Minting, CallRecord
  <2> QED
    BY <2>1, <2>2, <2>3 DEF Shape
<1>4. CASE MintDone(c)
  <2>1. /\ r.pc = "minted" /\ UNCHANGED <<hist, current>>
        /\ Goto(c, [r EXCEPT !.pc = "top"])
    BY <1>4 DEF MintDone
  <2>2. q = [r EXCEPT !.pc = "top"] /\ Others /\ g = h
    BY <1>a, <1>b, <2>1
  <2>3. Refreshing(r, h, q, g)
    BY <1>0, <2>1, <2>2 DEF Refreshing, Minting, CallRecord
  <2> QED
    BY <2>1, <2>2, <2>3 DEF Shape
<1>5. CASE MintFail(c)
  <2>1. PICK e \in MintErrors(r) :
            /\ Goto(c, Return(r, e))
            /\ hist' = [hist EXCEPT ![c] = NoteReply(h, r, e)]
    BY <1>5 DEF MintFail
  <2>2. r.pc \in Minting /\ UNCHANGED current
    BY <1>5 DEF MintFail
  <2>3. q = Return(r, e) /\ e \in ErrKinds \ {"ticketExpired"}
    BY <1>a, <2>1, MintErrorsFacts
  <2>4. Others /\ g.sends = h.sends /\ g.rejected = h.rejected
    <3>1. /\ \A d \in Calls : d # c => call'[d] = call[d] /\ hist'[d] = hist[d]
          /\ g.sends = h.sends
          /\ g.rejected = h.rejected \cup (IF e = "ticketExpired" THEN {r.tk} ELSE {})
      BY <1>a, <1>c, <2>1
    <3> QED
      BY <2>3, <3>1
  <2>5. RefreshFailed(r, h, q, g)
    BY <1>0, <2>2, <2>3, <2>4 DEF RefreshFailed, Return, CallRecord
  <2> QED
    BY <2>2, <2>4, <2>5 DEF Shape
<1>6. CASE Top(c)
  <2> DEFINE x == [r EXCEPT !.pc = IF r.op \in Looped /\ Attempts = 0
                                   THEN "rotate" ELSE "attempt",
                            !.base = current, !.attempt = 1, !.err = "nil"]
  <2>1. r.pc = "top" /\ UNCHANGED <<hist, current>> /\ Goto(c, x)
    BY <1>6 DEF Top
  <2>2. q = x /\ Others /\ g = h
    BY <1>a, <1>b, <2>1
  <2>3. AtEndpoint(r, h, q, g)
    BY <1>0, <2>1, <2>2 DEF AtEndpoint, CallRecord
  <2> QED
    BY <2>1, <2>2, <2>3 DEF Shape
<1>7. CASE SpoolFail(c) \/ CtxDone(c)
  <2>1. PICK e \in {"none", "ctx"} : Goto(c, Return(r, e))
    BY <1>7 DEF SpoolFail, CtxDone
  <2>2. r.pc \in {"top", "attempt"} /\ UNCHANGED <<hist, current>>
    BY <1>7 DEF SpoolFail, CtxDone
  <2>3. q = Return(r, e) /\ Others /\ g = h
    BY <1>a, <1>b, <2>1, <2>2
  <2>4. EndedUnsent(r, h, q, g)
    BY <1>0, <2>2, <2>3 DEF EndedUnsent, Return, CallRecord
  <2> QED
    BY <2>2, <2>3, <2>4 DEF Shape
<1>8. CASE EncodeFail(c)
  <2>1. /\ r.pc = "attempt" /\ r.op = "unencodable" /\ UNCHANGED <<hist, current>>
        /\ Goto(c, AfterTransient(r))
    BY <1>8 DEF EncodeFail
  <2>2. q = AfterTransient(r) /\ Others /\ g = h
    BY <1>a, <1>b, <2>1
  <2>3. FailedAttempt(r, h, q, g)
    BY <2>1, <2>2 DEF FailedAttempt
  <2> QED
    BY <2>1, <2>2, <2>3 DEF Shape
<1>9. CASE Authorize(c)
  <2>1. /\ r.pc = "attempt" /\ UNCHANGED <<hist, current>>
        /\ Goto(c, [r EXCEPT !.pc = "send", !.tk = ticket])
    BY <1>9 DEF Authorize
  <2>2. q = [r EXCEPT !.pc = "send", !.tk = ticket] /\ Others /\ g = h
    BY <1>a, <1>b, <2>1
  <2>3. Authorized(r, h, q, g)
    BY <1>0, <2>1, <2>2 DEF Authorized, CallRecord
  <2> QED
    BY <2>1, <2>2, <2>3 DEF Shape
<1>10. CASE Send(c)
  <2> DEFINE cs == IF r.op \in {"write", "upload"} THEN csrf ELSE 0
  <2>1. /\ r.pc = "send" /\ UNCHANGED current
        /\ Goto(c, [r EXCEPT !.pc = "wire", !.cs = cs])
        /\ hist' = [hist EXCEPT ![c].sends = @ + 1]
    BY <1>10 DEF Send
  <2> HIDE DEF cs
  <2>2. q = [r EXCEPT !.pc = "wire", !.cs = cs]
    BY <1>a, <2>1
  <2>3. /\ Others /\ g.sends = h.sends + 1
        /\ g.rejected = h.rejected /\ g.failed = h.failed
    BY <1>0, <1>a, <2>1 DEF HistRecord
  <2>4. Sent(r, h, q, g)
    BY <1>0, <2>1, <2>2, <2>3 DEF Sent, CallRecord
  <2> QED
    BY <2>1, <2>3, <2>4 DEF Shape
<1>11. CASE Serve(c)
  <2>1. /\ r.pc = "wire" /\ UNCHANGED current
        /\ Goto(c, [r EXCEPT !.pc = "served"])
        /\ hist' = [hist EXCEPT ![c].applied = @ + 1]
    BY <1>11 DEF Serve
  <2>2. q = [r EXCEPT !.pc = "served"]
    BY <1>a, <2>1
  <2>3. /\ Others /\ g.sends = h.sends
        /\ g.rejected = h.rejected /\ g.failed = h.failed
    BY <1>0, <1>a, <2>1 DEF HistRecord
  <2>4. CarriedOut(r, h, q, g)
    BY <1>0, <2>1, <2>2, <2>3 DEF CarriedOut, CallRecord
  <2> QED
    BY <2>1, <2>3, <2>4 DEF Shape
<1>12. CASE Receive(c)
  <2>1. PICK e \in Answers(r) :
            /\ Goto(c, AfterReply(r, e))
            /\ hist' = [hist EXCEPT ![c] = NoteReply(h, r, e)]
    BY <1>12 DEF Receive
  <2>2. /\ r.pc \in {"wire", "served"} /\ UNCHANGED current
        /\ e \in Results /\ e # "exhausted"
    BY <1>12, AnswersFacts DEF Receive
  <2>3. q = AfterReply(r, e) /\ Others
    BY <1>a, <1>c, <2>1
  <2>4. CASE e = "transient"
    <3>1. q = AfterTransient(r)
      BY <2>3, <2>4 DEF AfterReply
    <3>2. /\ g.sends = h.sends /\ g.rejected = h.rejected
          /\ g.failed = h.failed \cup {r.base}
      BY <1>c, <2>1, <2>4
    <3>3. FailedAttempt(r, h, q, g)
      BY <2>2, <3>1, <3>2 DEF FailedAttempt
    <3> QED
      BY <2>2, <2>3, <3>3 DEF Shape
  <2>5. CASE e # "transient"
    <3>1. q = AfterExecute(r, e)
      BY <2>3, <2>5 DEF AfterReply
    <3>2. /\ g.sends = h.sends /\ g.failed = h.failed
          /\ g.rejected = h.rejected \cup (IF e = "ticketExpired" THEN {r.tk} ELSE {})
      <4>1. /\ g.sends = h.sends
            /\ g.failed = h.failed \cup (IF e = "transient" THEN {r.base} ELSE {})
            /\ g.rejected = h.rejected \cup (IF e = "ticketExpired" THEN {r.tk} ELSE {})
        BY <1>c, <2>1
      <4> QED
        BY <2>5, <4>1
    <3>3. Answered(r, h, q, g)
      BY <2>2, <2>5, <3>1, <3>2 DEF Answered
    <3> QED
      BY <2>2, <2>3, <3>3 DEF Shape
  <2> QED
    BY <2>4, <2>5
<1>13. CASE Lose(c)
  <2>1. /\ r.pc \in {"wire", "served"} /\ UNCHANGED current
        /\ Goto(c, AfterTransient(r))
        /\ hist' = [hist EXCEPT ![c] = NoteReply(h, r, "transient")]
    BY <1>13 DEF Lose
  <2>2. q = AfterTransient(r) /\ Others
    BY <1>a, <1>c, <2>1
  <2>3. /\ g.sends = h.sends /\ g.rejected = h.rejected
        /\ g.failed = h.failed \cup {r.base}
    BY <1>c, <2>1
  <2>4. FailedAttempt(r, h, q, g)
    BY <2>1, <2>2, <2>3 DEF FailedAttempt
  <2> QED
    BY <2>1, <2>2, <2>4 DEF Shape
<1>14. CASE GiveUp(c)
  <2>1. /\ r.pc \in {"send", "wire", "served"} /\ r.cancelled
        /\ UNCHANGED <<hist, current>> /\ Goto(c, AfterTransient(r))
    BY <1>14 DEF GiveUp
  <2>2. q = AfterTransient(r) /\ Others /\ g = h
    BY <1>a, <1>b, <2>1
  <2>3. FailedAttempt(r, h, q, g)
    BY <2>1, <2>2 DEF FailedAttempt
  <2> QED
    BY <2>1, <2>2, <2>3 DEF Shape
<1>15. CASE Backoff(c)
  <2>1. /\ r.pc = "backoff" /\ UNCHANGED <<hist, current>>
        /\ Goto(c, [r EXCEPT !.pc = "attempt", !.attempt = r.attempt + 1])
    BY <1>15 DEF Backoff
  <2>2. q = [r EXCEPT !.pc = "attempt", !.attempt = r.attempt + 1] /\ Others /\ g = h
    BY <1>a, <1>b, <2>1
  <2>3. BackedOff(r, h, q, g)
    BY <1>0, <2>1, <2>2 DEF BackedOff, CallRecord
  <2> QED
    BY <2>1, <2>2, <2>3 DEF Shape
<1>16. CASE Rotate(c)
  <2>1. r.pc = "rotate" /\ Failover /\ UNCHANGED hist
    BY <1>16 DEF Rotate
  <2>2. r.ep \in Nat /\ EndpointCount \in Nat
    BY <1>0, EndpointCountAssumption DEF CallRecord
  <2>3. Goto(c, IF ~ CanFailover THEN AfterExecute(r, r.err)
                ELSE IF r.ep + 1 < EndpointCount
                THEN [r EXCEPT !.pc = "top", !.ep = r.ep + 1]
                ELSE AfterExecute(r, "exhausted"))
    BY <1>16 DEF Rotate
  <2>4. /\ q = IF ~ CanFailover THEN AfterExecute(r, r.err)
               ELSE IF r.ep + 1 < EndpointCount
               THEN [r EXCEPT !.pc = "top", !.ep = r.ep + 1]
               ELSE AfterExecute(r, "exhausted")
        /\ Others /\ g = h
    BY <1>a, <1>b, <2>1, <2>3
  <2>5. Rotated(r, h, q, g)
    BY <2>1, <2>2, <2>4 DEF Rotated, CanFailover
  <2> QED
    BY <2>4, <2>5 DEF Shape
<1> QED
  BY <1>1, <1>2, <1>3, <1>4, <1>5, <1>6, <1>7, <1>8, <1>9, <1>10, <1>11, <1>12,
     <1>13, <1>14, <1>15, <1>16 DEF Step

-----------------------------------------------------------------------------
(***************************************************************************)
(* The budget of requests.  PerExecute is what one execute may send, and   *)
(* Spent what the endpoints and the execute before the ones at hand may    *)
(* have sent.                                                              *)
(***************************************************************************)
PerExecute == EndpointCount * Attempts
UpTo(ep)   == ep * Attempts
Spent(r)   == (IF r.forced THEN PerExecute ELSE 0) + UpTo(r.ep)

BudgetAt(r, h) ==
    /\ r.ep < EndpointCount
    /\ r.err \in {"nil", "transient"}
    /\ r.pc = "idle" => ~ r.forced /\ r.ep = 0 /\ h.sends = 0
    /\ r.op \in OneShot =>
          /\ r.pc \notin {"backoff", "rotate"}
          /\ h.sends <= 1
          /\ r.pc \in {"wire", "served", "done"} \/ h.sends = 0
    /\ r.op \in Looped =>
          /\ r.pc \in {"lock", "top"} \cup Minting => h.sends <= Spent(r)
          /\ r.pc \in {"attempt", "send"} => /\ r.attempt <= Attempts
                                            /\ h.sends < Spent(r) + r.attempt
          /\ r.pc \in {"wire", "served", "backoff"} =>
                /\ r.attempt <= Attempts
                /\ h.sends <= Spent(r) + r.attempt
                /\ r.pc = "backoff" => r.attempt < Attempts
          /\ r.pc = "rotate" => h.sends <= Spent(r) + Attempts
          /\ r.pc = "done" => h.sends <= 2 * PerExecute

(***************************************************************************)
(* What the replay rests on: a call in its second execute has had one      *)
(* request refused, and its request on the wire is another one.            *)
(***************************************************************************)
ReplayAt(r, h) ==
    /\ r.pc # "done" /\ r.forced =>
          /\ h.sends >= 1
          /\ CredKind = "user" => IsFiniteSet(h.rejected) /\ Cardinality(h.rejected) = 1
    /\ r.pc \in {"wire", "served"} => h.sends >= IF r.forced THEN 2 ELSE 1
    /\ r.res = "ticketExpired" /\ r.op \in Looped =>
          /\ h.sends >= 2
          /\ CredKind = "user" => Cardinality(h.rejected) = 2

LoopInv == \A c \in Calls : /\ BudgetAt(call[c], hist[c])
                           /\ ReplayAt(call[c], hist[c])

\* The arithmetic of the two loops: endpoint ep + 1 begins where the attempts
\* on endpoint ep end, and the last one ends where execute does.
LEMMA UpToFacts ==
    ASSUME NEW ep \in Nat
    PROVE  /\ UpTo(ep) \in Nat /\ UpTo(0) = 0
           /\ UpTo(ep + 1) = UpTo(ep) + Attempts
           /\ PerExecute \in Nat
           /\ ep < EndpointCount => UpTo(ep) + Attempts <= PerExecute
<1>1. Attempts \in Nat /\ EndpointCount \in Nat
  BY TransportAssumption, EndpointCountAssumption
<1>2. ASSUME NEW a \in Nat, NEW b \in Nat PROVE a * b \in Nat
  OBVIOUS
<1>3. ASSUME NEW a \in Nat, NEW b \in Nat PROVE (a + 1) * b = a * b + b
  OBVIOUS
<1>4. ASSUME ep < EndpointCount PROVE UpTo(ep) + Attempts <= PerExecute
  <2>1. PICK k \in Nat : EndpointCount = (ep + 1) + k
    <3>1. EndpointCount - (ep + 1) \in Nat /\ EndpointCount = (ep + 1) + (EndpointCount - (ep + 1))
      BY <1>1, <1>4
    <3> QED
      BY <3>1
  <2>2. ((ep + 1) + k) * Attempts = (ep + 1) * Attempts + k * Attempts
    BY <1>1
  <2>3. (ep + 1) * Attempts = ep * Attempts + Attempts
    BY <1>1
  <2>4. k * Attempts \in Nat /\ ep * Attempts \in Nat
    BY <1>1, <1>2
  <2> QED
    BY <1>1, <2>1, <2>2, <2>3, <2>4 DEF UpTo, PerExecute
<1> QED
  BY <1>1, <1>2, <1>3, <1>4 DEF UpTo, PerExecute

\* What AfterExecute leaves alone, and when it begins the replay.
LEMMA ReplayFacts ==
    ASSUME NEW r \in CallRecord, NEW e
    PROVE  LET q == AfterExecute(r, e)
           IN  /\ q.op = r.op /\ q.err = r.err /\ q.cancelled = r.cancelled
               /\ q.base = r.base
               /\ \/ /\ e = "ticketExpired" /\ r.op \in Looped /\ ~ r.forced
                     /\ q.pc = IF CredKind = "user" THEN "lock" ELSE "top"
                     /\ q.forced /\ q.ep = 0 /\ q.res = r.res
                  \/ /\ ~ (e = "ticketExpired" /\ r.op \in Looped /\ ~ r.forced)
                     /\ q.pc = "done" /\ q.res = e
                     /\ q.forced = r.forced /\ q.ep = r.ep
BY DEF AfterExecute, Return, CallRecord

\* What AfterTransient leaves alone, and where the attempt loop ends.
LEMMA RetryFacts ==
    ASSUME NEW r \in CallRecord
    PROVE  LET q == AfterTransient(r)
           IN  /\ Keeps(r, q) /\ q.attempt = r.attempt /\ q.base = r.base
               /\ r.op \in OneShot => /\ q.pc = "done" /\ q.res = "transient"
                                      /\ q.err = r.err
               /\ r.op \in Looped =>
                     /\ q.err = "transient" /\ q.res = r.res
                     /\ q.pc = IF r.attempt < Attempts THEN "backoff" ELSE "rotate"
BY DEF AfterTransient, Return, CallRecord, Keeps, OneShot, Looped

\* The types the budget is computed with.
LEMMA LoopTypes ==
    ASSUME NEW r \in CallRecord, NEW h \in HistRecord
    PROVE  /\ r.ep \in Nat /\ r.attempt \in Nat /\ h.sends \in Nat
           /\ Attempts \in Nat /\ EndpointCount \in Nat /\ EndpointCount > 0
           /\ Spent(r) \in Nat
           /\ r.forced \in BOOLEAN
           /\ r.ep < EndpointCount => Spent(r) + Attempts <= 2 * PerExecute
           /\ r.ep < EndpointCount /\ ~ r.forced => Spent(r) + Attempts <= PerExecute
           /\ r.op \in Looped <=> r.op \notin OneShot
           /\ PerExecute \in Nat
<1>1. /\ r.ep \in Nat /\ r.attempt \in Nat /\ h.sends \in Nat /\ r.forced \in BOOLEAN
      /\ r.op \in Looped <=> r.op \notin OneShot
  BY DEF CallRecord, HistRecord, Looped, OneShot
<1>2. Attempts \in Nat /\ EndpointCount \in Nat /\ EndpointCount > 0
  BY TransportAssumption, EndpointCountAssumption
<1>3. /\ UpTo(r.ep) \in Nat /\ PerExecute \in Nat
      /\ r.ep < EndpointCount => UpTo(r.ep) + Attempts <= PerExecute
  BY <1>1, UpToFacts
<1>4. Spent(r) = UpTo(r.ep) \/ (Spent(r) = PerExecute + UpTo(r.ep) /\ r.forced)
  <2>1. CASE r.forced
    BY <2>1 DEF Spent
  <2>2. CASE ~ r.forced
    BY <1>3, <2>2 DEF Spent
  <2> QED
    BY <2>1, <2>2
<1> QED
  BY <1>1, <1>2, <1>3, <1>4

(***************************************************************************)
(* Every shape keeps the budget.                                           *)
(***************************************************************************)
LEMMA BudgetStep ==
    ASSUME NEW r \in CallRecord, NEW h \in HistRecord,
           NEW q \in CallRecord, NEW g \in HistRecord,
           Shape(r, h, q, g), BudgetAt(r, h)
    PROVE  BudgetAt(q, g)
<1>0. /\ r.ep \in Nat /\ r.attempt \in Nat /\ h.sends \in Nat /\ Spent(r) \in Nat
      /\ q.ep \in Nat /\ q.attempt \in Nat /\ g.sends \in Nat /\ Spent(q) \in Nat
      /\ Attempts \in Nat /\ EndpointCount \in Nat /\ EndpointCount > 0
      /\ r.ep < EndpointCount => Spent(r) + Attempts <= 2 * PerExecute
      /\ r.ep < EndpointCount /\ ~ r.forced => Spent(r) + Attempts <= PerExecute
      /\ r.op \in Looped <=> r.op \notin OneShot
      /\ PerExecute \in Nat /\ r.forced \in BOOLEAN
  BY LoopTypes
<1>1. ASSUME Keeps(r, q) PROVE Spent(q) = Spent(r) /\ q.op = r.op /\ q.ep = r.ep
  BY <1>1 DEF Keeps, Spent
<1>2. CASE Refreshing(r, h, q, g) \/ RefreshFailed(r, h, q, g)
  BY <1>0, <1>1, <1>2 DEF Refreshing, RefreshFailed, BudgetAt, Minting
<1>3. CASE AtEndpoint(r, h, q, g) \/ EndedUnsent(r, h, q, g)
  BY <1>0, <1>1, <1>3 DEF AtEndpoint, EndedUnsent, BudgetAt, Minting
<1>4. CASE Authorized(r, h, q, g) \/ Sent(r, h, q, g) \/ CarriedOut(r, h, q, g)
  BY <1>0, <1>1, <1>4 DEF Authorized, Sent, CarriedOut, InPlace, BudgetAt, Minting
<1>5. CASE FailedAttempt(r, h, q, g)
  <2>1. /\ Keeps(r, q) /\ q.attempt = r.attempt
        /\ r.op \in OneShot => q.pc = "done" /\ q.err = r.err
        /\ r.op \in Looped =>
              /\ q.err = "transient"
              /\ q.pc = IF r.attempt < Attempts THEN "backoff" ELSE "rotate"
    BY <1>5, RetryFacts DEF FailedAttempt
  <2> QED
    BY <1>0, <1>1, <1>5, <2>1 DEF FailedAttempt, BudgetAt, Minting
<1>6. ASSUME NEW e, q = AfterExecute(r, e), g.sends = h.sends,
             r.pc \in {"wire", "served", "rotate"}
      PROVE  BudgetAt(q, g)
  <2>1. r.op \in Looped => h.sends <= Spent(r) + Attempts
    BY <1>0, <1>6 DEF BudgetAt
  <2>2. q.op = r.op /\ q.err = r.err
    BY <1>6, ReplayFacts
  <2>3. CASE e = "ticketExpired" /\ r.op \in Looped /\ ~ r.forced
    <3>1. q.pc \in {"lock", "top"} /\ q.forced /\ q.ep = 0
      BY <1>6, <2>3, ReplayFacts
    <3>2. Spent(q) = PerExecute
      BY <1>0, <3>1, UpToFacts DEF Spent
    <3> QED
      BY <1>0, <1>6, <2>1, <2>2, <2>3, <3>1, <3>2 DEF BudgetAt, Minting
  <2>4. CASE ~ (e = "ticketExpired" /\ r.op \in Looped /\ ~ r.forced)
    <3>1. q.pc = "done" /\ q.ep = r.ep
      BY <1>6, <2>4, ReplayFacts
    <3> QED
      BY <1>0, <1>6, <2>1, <2>2, <3>1 DEF BudgetAt, Minting
  <2> QED
    BY <2>3, <2>4
<1>7. CASE Answered(r, h, q, g)
  BY <1>6, <1>7 DEF Answered
<1>8. CASE BackedOff(r, h, q, g)
  BY <1>0, <1>1, <1>8 DEF BackedOff, BudgetAt, Minting
<1>9. CASE Rotated(r, h, q, g)
  <2>1. CASE CanFailover /\ r.ep + 1 < EndpointCount
             /\ q = [r EXCEPT !.pc = "top", !.ep = r.ep + 1]
    <3>1. /\ q.pc = "top" /\ q.ep = r.ep + 1 /\ q.op = r.op /\ q.err = r.err
          /\ q.forced = r.forced
      BY <2>1 DEF CallRecord
    <3>2. Spent(q) = Spent(r) + Attempts
      BY <1>0, <3>1, UpToFacts DEF Spent
    <3> QED
      BY <1>0, <1>9, <2>1, <3>1, <3>2 DEF Rotated, BudgetAt, Minting
  <2> QED
    BY <1>6, <1>9, <2>1 DEF Rotated
<1> QED
  BY <1>2, <1>3, <1>4, <1>5, <1>7, <1>8, <1>9 DEF Shape

(***************************************************************************)
(* Every shape keeps what the replay rests on, given what the invariants   *)
(* of TransportProofs say of the call.                                     *)
(***************************************************************************)
LEMMA ReplayStep ==
    ASSUME NEW r \in CallRecord, NEW h \in HistRecord,
           NEW q \in CallRecord, NEW g \in HistRecord,
           Shape(r, h, q, g), BudgetAt(r, h), ReplayAt(r, h),
           r.pc # "done" => r.res = "pending",
           r.pc # "done" /\ ~ r.forced => h.rejected = {},
           CredKind = "user" /\ r.pc \in {"wire", "served"} => r.tk \notin h.rejected
    PROVE  ReplayAt(q, g)
<1>0. /\ h.sends \in Nat /\ g.sends \in Nat /\ r.forced \in BOOLEAN
      /\ r.op \in Looped <=> r.op \notin OneShot
  BY LoopTypes
<1>1. CASE Refreshing(r, h, q, g) \/ RefreshFailed(r, h, q, g)
  BY <1>0, <1>1 DEF Refreshing, RefreshFailed, ReplayAt, Keeps, Minting
<1>2. CASE AtEndpoint(r, h, q, g) \/ EndedUnsent(r, h, q, g)
  BY <1>0, <1>2 DEF AtEndpoint, EndedUnsent, ReplayAt, Keeps
<1>3. CASE Authorized(r, h, q, g) \/ Sent(r, h, q, g) \/ CarriedOut(r, h, q, g)
  BY <1>0, <1>3 DEF Authorized, Sent, CarriedOut, InPlace, ReplayAt, Keeps
<1>4. CASE FailedAttempt(r, h, q, g)
  <2>1. /\ Keeps(r, q)
        /\ r.op \in OneShot => q.pc = "done" /\ q.res = "transient"
        /\ r.op \in Looped => q.pc \in {"backoff", "rotate"} /\ q.res = r.res
    BY <1>4, RetryFacts DEF FailedAttempt
  <2> QED
    BY <1>0, <1>4, <2>1 DEF FailedAttempt, ReplayAt, Keeps
<1>5. CASE Answered(r, h, q, g)
  <2>1. PICK e \in Results \ {"transient", "exhausted"} :
            /\ q = AfterExecute(r, e)
            /\ g.rejected = h.rejected \cup (IF e = "ticketExpired" THEN {r.tk} ELSE {})
    BY <1>5 DEF Answered
  <2>2. r.pc \in {"wire", "served"} /\ g.sends = h.sends /\ q.op = r.op
    BY <1>5, <2>1, ReplayFacts DEF Answered
  <2>3. CASE e = "ticketExpired" /\ r.op \in Looped /\ ~ r.forced
    <3>1. q.pc \in {"lock", "top"} /\ q.forced /\ q.res = r.res
      BY <2>1, <2>3, ReplayFacts
    <3>2. g.rejected = {r.tk} /\ r.res = "pending" /\ h.sends >= 1
      BY <2>1, <2>2, <2>3 DEF ReplayAt
    <3>3. IsFiniteSet({r.tk}) /\ Cardinality({r.tk}) = 1
      BY FS_Singleton
    <3> QED
      BY <2>2, <3>1, <3>2, <3>3 DEF ReplayAt
  <2>4. CASE e = "ticketExpired" /\ r.op \in Looped /\ r.forced
    <3>1. q.pc = "done" /\ h.sends >= 2
      BY <2>1, <2>2, <2>4, ReplayFacts DEF ReplayAt
    <3>2. CredKind = "user" => Cardinality(g.rejected) = 2
      <4> SUFFICES ASSUME CredKind = "user" PROVE Cardinality(g.rejected) = 2
        OBVIOUS
      <4>1. /\ IsFiniteSet(h.rejected) /\ Cardinality(h.rejected) = 1
            /\ r.tk \notin h.rejected /\ g.rejected = h.rejected \cup {r.tk}
        BY <2>1, <2>2, <2>4 DEF ReplayAt
      <4>2. Cardinality(h.rejected \cup {r.tk})
               = IF r.tk \in h.rejected THEN Cardinality(h.rejected)
                 ELSE Cardinality(h.rejected) + 1
        BY <4>1, FS_AddElement
      <4> QED
        BY <4>1, <4>2
    <3> QED
      BY <2>2, <3>1, <3>2 DEF ReplayAt
  <2>5. CASE ~ (e = "ticketExpired" /\ r.op \in Looped)
    <3>1. q.pc = "done" /\ q.res = e
      BY <2>1, <2>5, ReplayFacts
    <3> QED
      BY <2>2, <2>5, <3>1 DEF ReplayAt
  <2> QED
    BY <1>0, <2>3, <2>4, <2>5
<1>6. CASE BackedOff(r, h, q, g)
  BY <1>0, <1>6 DEF BackedOff, ReplayAt, Keeps
<1>7. CASE Rotated(r, h, q, g)
  <2>1. r.pc = "rotate" /\ g = h
    BY <1>7 DEF Rotated
  <2>2. CASE q = [r EXCEPT !.pc = "top", !.ep = r.ep + 1]
    <3>1. q.pc = "top" /\ q.op = r.op /\ q.forced = r.forced /\ q.res = r.res
      BY <2>2 DEF CallRecord
    <3> QED
      BY <2>1, <3>1 DEF ReplayAt
  <2>3. ASSUME NEW e \in {"nil", "transient", "exhausted"}, q = AfterExecute(r, e)
        PROVE  ReplayAt(q, g)
    <3>1. q.pc = "done" /\ q.res = e
      BY <2>3, ReplayFacts
    <3> QED
      BY <2>1, <2>3, <3>1 DEF ReplayAt
  <2> QED
    BY <1>7, <2>2, <2>3 DEF Rotated, BudgetAt
<1> QED
  BY <1>1, <1>2, <1>3, <1>4, <1>5, <1>6, <1>7 DEF Shape

\* A call that begins has sent nothing, and one whose caller gives up sends
\* nothing by that.
LEMMA BeginOrCancel ==
    ASSUME TypeOK, NEW c \in Calls,
           (\E op \in Ops : Call(c, op)) \/ Cancel(c)
    PROVE  /\ hist' = hist /\ current' = current
           /\ \A d \in Calls : d # c => call'[d] = call[d]
           /\ LET r == call[c]
                  q == call'[c]
              IN  /\ q.forced = r.forced /\ q.ep = r.ep /\ q.res = r.res
                  /\ q.attempt = r.attempt /\ q.base = r.base /\ q.err = r.err
                  /\ q.tk = r.tk
                  /\ \/ /\ r.pc = "idle"
                        /\ q.pc = IF NeedsRefresh THEN "lock" ELSE "top"
                        /\ q.op \in Looped \cup OneShot
                        /\ q.cancelled = r.cancelled
                     \/ /\ r.pc \in Active /\ q.pc = r.pc
                        /\ q.op = r.op /\ q.cancelled
<1>0. call[c] \in CallRecord
  BY DEF TypeOK
<1>1. ASSUME NEW op \in Ops, Call(c, op)
      PROVE  call'[c] = [call[c] EXCEPT !.pc = IF NeedsRefresh THEN "lock" ELSE "top",
                                        !.op = op]
  BY <1>1, GotoFacts DEF Call
<1>2. Cancel(c) => call'[c] = [call[c] EXCEPT !.cancelled = TRUE]
  BY GotoFacts DEF Cancel
<1>3. \A d \in Calls : d # c => call'[d] = call[d]
  BY GotoFacts DEF Call, Cancel
<1>4. ASSUME NEW op \in Ops, Call(c, op)
      PROVE  /\ call[c].pc = "idle" /\ hist' = hist /\ current' = current
             /\ op \in Looped \cup OneShot
  BY <1>4, TransportAssumption DEF Call
<1>5. CASE \E op \in Ops : Call(c, op)
  <2>1. PICK op \in Ops : Call(c, op)
    BY <1>5
  <2> DEFINE p == IF NeedsRefresh THEN "lock" ELSE "top"
  <2>2. call'[c] = [call[c] EXCEPT !.pc = p, !.op = op]
    BY <1>1, <2>1
  <2>3. op \in Looped \cup OneShot /\ call[c].pc = "idle" /\ hist' = hist /\ current' = current
    BY <1>4, <2>1
  <2> HIDE DEF p
  <2>4. LET r == call[c]
            q == call'[c]
        IN  /\ q.forced = r.forced /\ q.ep = r.ep /\ q.res = r.res
            /\ q.attempt = r.attempt /\ q.base = r.base /\ q.err = r.err
            /\ q.tk = r.tk /\ q.cancelled = r.cancelled
            /\ q.pc = p /\ q.op = op
    BY <1>0, <2>2 DEF CallRecord
  <2> QED
    BY <1>3, <2>3, <2>4 DEF p
<1>6. CASE Cancel(c)
  BY <1>0, <1>2, <1>3, <1>6 DEF Cancel, CallRecord
<1> QED
  BY <1>5, <1>6

\* A new transport has sent nothing.
LEMMA LoopInit == Init => LoopInv
<1> SUFFICES ASSUME Init, NEW c \in Calls
             PROVE  BudgetAt(call[c], hist[c]) /\ ReplayAt(call[c], hist[c])
  BY DEF LoopInv
<1>1. call[c] = Idle /\ hist[c] = NoHist
  BY DEF Init
<1>2. /\ Idle.pc = "idle" /\ Idle.op = "read" /\ ~ Idle.forced /\ Idle.ep = 0
      /\ Idle.err = "nil" /\ Idle.res = "pending" /\ NoHist.sends = 0
  BY DEF Idle, NoHist
<1> QED
  BY <1>1, <1>2, EndpointCountAssumption DEF BudgetAt, ReplayAt, OneShot, Minting

\* Every step of the system keeps the invariant of the loops.
LEMMA LoopNext ==
    TypeOK /\ TypeOK' /\ ServedInv /\ TicketInv /\ LoopInv /\ [Next]_vars => LoopInv'
<1> SUFFICES ASSUME TypeOK, TypeOK', ServedInv, TicketInv, LoopInv, [Next]_vars
             PROVE  LoopInv'
  OBVIOUS
<1>0. \A d \in Calls : BudgetAt(call[d], hist[d]) /\ ReplayAt(call[d], hist[d])
  BY DEF LoopInv
<1>1. ASSUME NEW c \in Calls, (\E op \in Ops : Call(c, op)) \/ Cancel(c)
      PROVE  LoopInv'
  <2> DEFINE r == call[c]
             q == call'[c]
             h == hist[c]
  <2>1. /\ hist' = hist /\ \A d \in Calls : d # c => call'[d] = call[d]
        /\ q.forced = r.forced /\ q.ep = r.ep /\ q.res = r.res
        /\ q.attempt = r.attempt /\ q.err = r.err
        /\ \/ /\ r.pc = "idle" /\ q.pc \in {"lock", "top"}
           \/ r.pc \in Active /\ q.pc = r.pc /\ q.op = r.op
    BY <1>1, BeginOrCancel
  <2>2. r \in CallRecord /\ h \in HistRecord /\ q \in CallRecord
    BY DEF TypeOK
  <2>3. Spent(q) = Spent(r) /\ Spent(r) \in Nat /\ h.sends \in Nat
    BY <2>1, <2>2, LoopTypes DEF Spent
  <2>4. BudgetAt(r, h) /\ ReplayAt(r, h) /\ ServedAt(r, h)
    BY <1>0 DEF ServedInv
  <2>5. CASE r.pc = "idle" /\ q.pc \in {"lock", "top"}
    <3>1. r.res = "pending" /\ ~ r.forced /\ h.sends = 0
      BY <2>4, <2>5 DEF BudgetAt, ServedAt
    <3> QED
      BY <1>0, <2>1, <2>3, <2>4, <2>5, <3>1 DEF LoopInv, BudgetAt, ReplayAt, Minting
  <2>6. CASE r.pc \in Active /\ q.pc = r.pc /\ q.op = r.op
    BY <1>0, <2>1, <2>3, <2>4, <2>6 DEF LoopInv, BudgetAt, ReplayAt
  <2> QED
    BY <2>1, <2>5, <2>6
<1>2. ASSUME NEW c \in Calls, Step(c) PROVE LoopInv'
  <2>1. /\ Shape(call[c], hist[c], call'[c], hist'[c])
        /\ \A d \in Calls : d # c => call'[d] = call[d] /\ hist'[d] = hist[d]
    BY <1>2, StepShape
  <2>2. /\ call[c] \in CallRecord /\ hist[c] \in HistRecord
        /\ call'[c] \in CallRecord /\ hist'[c] \in HistRecord
    BY DEF TypeOK
  <2>3. call[c].pc # "done" => call[c].res = "pending"
    BY DEF ServedInv, ServedAt
  <2>4. /\ call[c].pc # "done" /\ ~ call[c].forced => hist[c].rejected = {}
        /\ CredKind = "user" /\ call[c].pc \in {"wire", "served"}
              => call[c].tk \notin hist[c].rejected
    <3>1. TicketAt(c) /\ call[c].tk \in Nat
      BY <2>2 DEF TicketInv, CallRecord
    <3> QED
      BY <3>1 DEF TicketAt, Carrying
  <2>5. BudgetAt(call'[c], hist'[c])
    BY <1>0, <2>1, <2>2, BudgetStep
  <2>6. ReplayAt(call'[c], hist'[c])
    BY <1>0, <2>1, <2>2, <2>3, <2>4, ReplayStep
  <2> QED
    BY <1>0, <2>1, <2>5, <2>6 DEF LoopInv
<1>3. CASE Clock \/ Revokes \/ UNCHANGED vars
  BY <1>3 DEF Clock, Revokes, vars, LoopInv
<1> QED
  BY <1>1, <1>2, <1>3 DEF Next, Finished

(***************************************************************************)
(* The invariant of the loops: how many requests a call can have sent, and *)
(* how many refusals it can have seen, at each point of execute.           *)
(***************************************************************************)
THEOREM LoopInvariant == Spec => []LoopInv
BY TypeCorrect, ServedInvariant, TicketInvariant, LoopInit, LoopNext, PTL DEF Spec

(***************************************************************************)
(* However refresh, retry, failover and replay nest, a call sends no more  *)
(* than its budget: twice Attempts per endpoint for DoRequest, one request *)
(* for DoUpload and DoWebSocket.                                           *)
(***************************************************************************)
THEOREM BudgetCorrect == Spec => []SendBudget
<1>1. TypeOK /\ LoopInv => SendBudget
  <2> SUFFICES ASSUME TypeOK, LoopInv, NEW c \in Calls
               PROVE  hist[c].sends <= IF call[c].op \in OneShot
                                       THEN 1 ELSE 2 * EndpointCount * Attempts
    BY DEF SendBudget
  <2> DEFINE r == call[c]
             h == hist[c]
  <2>1. r \in CallRecord /\ h \in HistRecord /\ BudgetAt(r, h)
    BY DEF TypeOK, LoopInv
  <2>2. /\ h.sends \in Nat /\ r.attempt \in Nat /\ Spent(r) \in Nat /\ Attempts \in Nat
        /\ Spent(r) + Attempts <= 2 * PerExecute
        /\ r.op \in Looped <=> r.op \notin OneShot
        /\ PerExecute \in Nat
    BY <2>1, LoopTypes DEF BudgetAt
  <2>3. 2 * EndpointCount * Attempts = 2 * PerExecute
    BY EndpointCountAssumption, TransportAssumption DEF PerExecute
  <2>4. r.pc \in Points
    BY <2>1 DEF CallRecord
  <2>5. r.op \in Looped => h.sends <= 2 * PerExecute
    BY <2>1, <2>2, <2>4 DEF BudgetAt, Points, Active, Sending, Minting
  <2> QED
    BY <2>1, <2>2, <2>3, <2>5 DEF BudgetAt
<1> QED
  BY <1>1, TypeCorrect, LoopInvariant, PTL

(***************************************************************************)
(* DoRequest surfaces ErrTicketExpired only after PVE has refused two of   *)
(* its requests, with two different tickets if a new one could be minted.  *)
(***************************************************************************)
THEOREM ReplayedFirst == Spec => []ExpiredOnlyAfterReplay
<1>1. LoopInv => ExpiredOnlyAfterReplay
  BY DEF LoopInv, ReplayAt, ExpiredOnlyAfterReplay
<1> QED
  BY <1>1, LoopInvariant, PTL

-----------------------------------------------------------------------------
(***************************************************************************)
(* One operation at a time, for credentials that never mint: what failover *)
(* then guarantees.  Behind(n) is the n endpoints the ring has just left.  *)
(***************************************************************************)
Solo ==
    \A c, d \in Calls : call[c].pc \in Active /\ call[d].pc \in Active => c = d

NeverMints == expiry = 0 /\ \A c \in Calls : call[c].pc \notin {"lock"} \cup Minting

Behind(n) == {e \in Endpoints : \/ e < current /\ e >= current - n
                                \/ e >= current - n + EndpointCount}

TriedAt(r, h) ==
    r.op \in {"read", "write"} /\ ~ r.cancelled =>
        /\ r.pc \in Active => Behind(r.ep) \subseteq h.failed
        /\ r.pc \in Sending => r.base = current
        /\ r.pc = "rotate" => r.base \in h.failed
        /\ r.pc = "done" /\ r.res \in {"transient", "exhausted"}
              => h.failed = Endpoints

TriedInv == Solo /\ NeverMints /\ \A c \in Calls : TriedAt(call[c], hist[c])

\* The ring's successor, without the modulus.
LEMMA AdvanceFacts ==
    ASSUME NEW i \in Endpoints
    PROVE  Advance(i) = IF i = EndpointCount - 1 THEN 0 ELSE i + 1
BY EndpointCountAssumption DEF Advance, Endpoints

\* The ring has left nothing behind at the start of a loop, one endpoint more
\* after each failover, and every other one when the loop ends.
LEMMA BehindFacts ==
    ASSUME current \in Endpoints
    PROVE  /\ Behind(0) = {}
           /\ Endpoints \subseteq Behind(EndpointCount - 1) \cup {current}
           /\ \A n \in Nat :
                 current' = Advance(current)
                 => Behind(n + 1)' \subseteq Behind(n) \cup {current}
<1>1. EndpointCount \in Nat /\ EndpointCount > 0 /\ current \in 0..(EndpointCount - 1)
  BY EndpointCountAssumption DEF Endpoints
<1>2. Behind(0) = {}
  BY <1>1 DEF Behind, Endpoints
<1>3. Endpoints \subseteq Behind(EndpointCount - 1) \cup {current}
  BY <1>1 DEF Behind, Endpoints
<1>4. ASSUME NEW n \in Nat, current' = Advance(current)
      PROVE  Behind(n + 1)' \subseteq Behind(n) \cup {current}
  <2>1. current' = IF current = EndpointCount - 1 THEN 0 ELSE current + 1
    BY <1>4, AdvanceFacts
  <2> SUFFICES ASSUME NEW e \in Endpoints,
                      \/ e < current' /\ e >= current' - (n + 1)
                      \/ e >= current' - (n + 1) + EndpointCount
               PROVE  e \in Behind(n) \cup {current}
    BY DEF Behind
  <2> QED
    BY <1>1, <2>1 DEF Behind, Endpoints
<1> QED
  BY <1>2, <1>3, <1>4

\* Every shape keeps the account of the endpoints that failed.
LEMMA TriedStep ==
    ASSUME NEW r \in CallRecord, NEW h \in HistRecord,
           NEW q \in CallRecord, NEW g \in HistRecord,
           Attempts > 0, CredKind # "user", current \in Endpoints,
           Shape(r, h, q, g), TriedAt(r, h), BudgetAt(r, h), ServedAt(r, h),
           r.pc \notin {"lock"} \cup Minting
    PROVE  TriedAt(q, g)'
<1>0. /\ r.ep \in Nat /\ r.base \in Endpoints /\ r.ep < EndpointCount
      /\ EndpointCount \in Nat /\ EndpointCount > 0
      /\ h.failed \subseteq Endpoints /\ g.failed \subseteq Endpoints
  BY EndpointCountAssumption DEF CallRecord, HistRecord, BudgetAt
<1> SUFFICES ASSUME q.op \in {"read", "write"}, ~ q.cancelled
             PROVE  /\ q.pc \in Active => Behind(q.ep)' \subseteq g.failed
                    /\ q.pc \in Sending => q.base = current'
                    /\ q.pc = "rotate" => q.base \in g.failed
                    /\ q.pc = "done" /\ q.res \in {"transient", "exhausted"}
                          => g.failed = Endpoints
  BY DEF TriedAt
<1>1. ASSUME q.op = r.op, q.cancelled = r.cancelled, r.pc \in Active
      PROVE  /\ Behind(r.ep) \subseteq h.failed
             /\ r.pc \in Sending => r.base = current
             /\ r.pc = "rotate" => r.base \in h.failed
             /\ r.op \in {"read", "write"} /\ ~ r.cancelled
  BY <1>1 DEF TriedAt
<1>2. UNCHANGED current => \A n : Behind(n)' = Behind(n)
  BY DEF Behind
<1> USE DEF Active, Sending, Keeps
<1>3. CASE UNCHANGED current /\ (AtEndpoint(r, h, q, g) \/ EndedUnsent(r, h, q, g))
  BY <1>1, <1>2, <1>3 DEF AtEndpoint, EndedUnsent, Minting
<1>4. CASE /\ UNCHANGED current
           /\ Authorized(r, h, q, g) \/ Sent(r, h, q, g) \/ CarriedOut(r, h, q, g)
  BY <1>1, <1>2, <1>4 DEF Authorized, Sent, CarriedOut, InPlace, Minting
<1>5. CASE UNCHANGED current /\ FailedAttempt(r, h, q, g)
  <2>1. /\ q.op = r.op /\ q.cancelled = r.cancelled /\ q.ep = r.ep /\ q.base = r.base
        /\ r.op \in Looped => q.pc \in {"backoff", "rotate"}
    BY <1>5, RetryFacts DEF FailedAttempt
  <2>2. r.pc \in Sending /\ r.pc \in Active /\ h.failed \subseteq g.failed
    BY <1>5 DEF FailedAttempt
  <2>3. r.base \in g.failed /\ q.pc \in {"backoff", "rotate"}
    BY <1>1, <1>5, <2>1, <2>2 DEF FailedAttempt, Looped
  <2> QED
    BY <1>1, <1>2, <1>5, <2>1, <2>2, <2>3
<1>6. ASSUME NEW e, q = AfterExecute(r, e)
      PROVE  /\ q.op = r.op /\ q.cancelled = r.cancelled
             /\ \/ q.pc = "top" /\ q.ep = 0
                \/ q.pc = "done" /\ q.res = e
  BY <1>6, ReplayFacts
<1>7. CASE UNCHANGED current /\ Answered(r, h, q, g)
  <2>1. PICK e \in Results \ {"transient", "exhausted"} : q = AfterExecute(r, e)
    BY <1>7 DEF Answered
  <2>2. \/ q.pc = "top" /\ q.ep = 0
        \/ q.pc = "done" /\ q.res = e
    BY <1>6, <2>1
  <2>3. CASE q.pc = "top" /\ q.ep = 0
    <3>1. Behind(q.ep)' = {}
      BY <1>2, <1>7, <2>3, BehindFacts
    <3> QED
      BY <2>3, <3>1
  <2>4. CASE q.pc = "done" /\ q.res = e
    BY <2>1, <2>4 DEF Minting
  <2> QED
    BY <2>2, <2>3, <2>4
<1>8. CASE UNCHANGED current /\ BackedOff(r, h, q, g)
  BY <1>1, <1>2, <1>8 DEF BackedOff
<1>9. CASE Rotated(r, h, q, g)
  <2>1. r.pc = "rotate" /\ r.pc \in Active /\ r.pc \in Sending /\ g = h
    BY <1>9 DEF Rotated
  <2>2. CASE /\ CanFailover /\ r.ep + 1 < EndpointCount
             /\ q = [r EXCEPT !.pc = "top", !.ep = r.ep + 1]
    <3>1. q.pc = "top" /\ q.ep = r.ep + 1 /\ q.op = r.op /\ q.cancelled = r.cancelled
      BY <2>2 DEF CallRecord
    <3>2. current' = Advance(current)
      BY <1>9, <2>2 DEF Rotated, Failover
    <3>3. Behind(r.ep + 1)' \subseteq Behind(r.ep) \cup {current}
      BY <1>0, <3>2, BehindFacts
    <3>4. Behind(r.ep) \cup {current} \subseteq h.failed
      BY <1>1, <2>1, <3>1
    <3> QED
      BY <2>1, <3>1, <3>3, <3>4
  <2>3. CASE CanFailover /\ r.ep + 1 >= EndpointCount /\ q = AfterExecute(r, "exhausted")
    <3>1. q.pc = "done" /\ q.op = r.op /\ q.cancelled = r.cancelled
      BY <2>3, ReplayFacts
    <3>2. r.ep = EndpointCount - 1
      BY <1>0, <2>3
    <3>3. Behind(r.ep) \cup {current} \subseteq h.failed
      BY <1>1, <2>1, <3>1
    <3>4. h.failed = Endpoints
      BY <1>0, <3>2, <3>3, BehindFacts
    <3> QED
      BY <2>1, <3>1, <3>4 DEF Minting
  <2>4. CASE ~ CanFailover /\ q = AfterExecute(r, r.err)
    <3>1. r.err = "transient"
      BY <2>1 DEF ServedAt
    <3>2. q.pc = "done" /\ q.op = r.op /\ q.cancelled = r.cancelled
      BY <2>4, <3>1, ReplayFacts
    <3>3. r.base \in h.failed
      BY <1>1, <2>1, <3>2
    <3>4. Endpoints = {0}
      BY <1>0, <2>4 DEF CanFailover, Endpoints
    <3> QED
      BY <1>0, <2>1, <3>2, <3>3, <3>4 DEF Minting
  <2> QED
    BY <1>9, <2>2, <2>3, <2>4 DEF Rotated
<1>10. ~ Refreshing(r, h, q, g) /\ ~ RefreshFailed(r, h, q, g)
  BY DEF Refreshing, RefreshFailed
<1> QED
  BY <1>3, <1>4, <1>5, <1>7, <1>8, <1>9, <1>10 DEF Shape

\* A call that moves is in progress.
LEMMA ShapeActive ==
    ASSUME NEW r, NEW h, NEW q, NEW g, Shape(r, h, q, g)
    PROVE  r.pc \in Active
BY DEF Shape, Refreshing, RefreshFailed, AtEndpoint, EndedUnsent, Authorized, Sent,
       CarriedOut, FailedAttempt, Answered, BackedOff, Rotated, Active, Minting, Sending

\* Only a call that refreshes goes on to mint, and none does without the
\* credentials for it.
LEMMA ShapeNeverMints ==
    ASSUME NEW r \in CallRecord, NEW h, NEW q, NEW g, Shape(r, h, q, g),
           CredKind # "user", r.pc \notin {"lock"} \cup Minting
    PROVE  q.pc \notin {"lock"} \cup Minting
<1>1. ASSUME NEW e, q = AfterExecute(r, e) PROVE q.pc \in {"top", "done"}
  BY <1>1, ReplayFacts
<1>2. q = AfterTransient(r) => q.pc \in {"done", "backoff", "rotate"}
  BY RetryFacts DEF CallRecord
<1>3. [r EXCEPT !.pc = "top", !.ep = r.ep + 1].pc = "top"
  BY DEF CallRecord
<1> QED
  BY <1>1, <1>2, <1>3 DEF Shape, Refreshing, RefreshFailed, AtEndpoint, EndedUnsent,
     Authorized, Sent, CarriedOut, FailedAttempt, Answered, BackedOff, Rotated, Minting

\* With at most one call in progress allowed, a call that begins is alone.
LEMMA BeginsAlone ==
    ASSUME Solo, MaxActive <= 1, NEW c \in Calls, NEW op \in Ops, Call(c, op)
    PROVE  \A d \in Calls : call[d].pc \notin Active
<1> DEFINE A == {d \in Calls : call[d].pc \in Active}
<1>1. Cardinality(A) < MaxActive /\ MaxActive \in Nat
  BY TransportAssumption DEF Call
<1>2. IsFiniteSet(A)
  <2>1. CASE A = {}
    BY <2>1, FS_EmptySet
  <2>2. CASE A # {}
    <3>1. PICK d \in A : TRUE
      BY <2>2
    <3>2. A = {d}
      BY <3>1 DEF Solo
    <3> QED
      BY <3>2, FS_Singleton
  <2> QED
    BY <2>1, <2>2
<1>3. Cardinality(A) \in Nat
  BY <1>2, FS_CardinalityType
<1>4. Cardinality(A) = 0
  BY <1>1, <1>3
<1> QED
  BY <1>2, <1>4, FS_EmptySet

\* A new transport has left no endpoint behind.
LEMMA TriedInit == Init => TriedInv
<1> SUFFICES ASSUME Init PROVE TriedInv
  OBVIOUS
<1>1. \A c \in Calls : call[c].pc = "idle"
  BY DEF Init, Idle
<1> QED
  BY <1>1 DEF Init, CredentialsInit, TriedInv, Solo, NeverMints, TriedAt, Active,
              Minting, Sending

\* Every step of the system keeps the account, for one call at a time.
LEMMA TriedNext ==
    ASSUME MaxActive <= 1, Attempts > 0, CredKind # "user",
           TypeOK, TypeOK', ServedInv, LoopInv, TriedInv, [Next]_vars
    PROVE  TriedInv'
<1>0. /\ Solo /\ NeverMints /\ current \in Endpoints
      /\ \A d \in Calls : /\ TriedAt(call[d], hist[d])
                          /\ BudgetAt(call[d], hist[d]) /\ ServedAt(call[d], hist[d])
                          /\ call[d] \in CallRecord /\ hist[d] \in HistRecord
                          /\ call'[d] \in CallRecord /\ hist'[d] \in HistRecord
  BY DEF TriedInv, LoopInv, ServedInv, TypeOK
<1>1. ASSUME NEW d \in Calls, call[d].pc \notin Active,
             call'[d] = call[d], hist'[d] = hist[d]
      PROVE  TriedAt(call[d], hist[d])' /\ call'[d].pc \notin Active
  BY <1>0, <1>1 DEF TriedAt, Active, Sending
<1>2. ASSUME NEW c \in Calls, NEW op \in Ops, Call(c, op) PROVE TriedInv'
  <2>1. \A d \in Calls : call[d].pc \notin Active
    BY <1>0, <1>2, BeginsAlone
  <2>2. /\ hist' = hist /\ current' = current
        /\ \A d \in Calls : d # c => call'[d] = call[d]
        /\ call'[c].ep = call[c].ep
        /\ call'[c].pc = IF NeedsRefresh THEN "lock" ELSE "top"
        /\ call[c].pc = "idle"
    <3>1. call[c].pc = "idle"
      BY <1>2 DEF Call
    <3> QED
      BY <1>2, <2>1, <3>1, BeginOrCancel DEF TriedInv
  <2>3. ~ NeedsRefresh /\ expiry' = expiry
    BY <1>0, <1>2 DEF NeedsRefresh, NeverMints, Call, credVars
  <2>4. call'[c].pc = "top" /\ call[c].ep = 0
    BY <1>0, <2>2, <2>3 DEF BudgetAt
  <2>5. Behind(0)' = {}
    BY <1>0, <2>2, BehindFacts DEF Behind
  <2>6. TriedAt(call[c], hist[c])'
    BY <2>2, <2>4, <2>5 DEF TriedAt, Sending
  <2>7. Solo' /\ NeverMints'
    BY <1>0, <2>1, <2>2, <2>3, <2>4 DEF Solo, NeverMints, Minting
  <2> QED
    BY <1>1, <2>1, <2>2, <2>6, <2>7 DEF TriedInv
<1>3. ASSUME NEW c \in Calls, Step(c) PROVE TriedInv'
  <2>1. /\ Shape(call[c], hist[c], call'[c], hist'[c])
        /\ \A d \in Calls : d # c => call'[d] = call[d] /\ hist'[d] = hist[d]
    BY <1>3, StepShape
  <2>2. call[c].pc \in Active /\ \A d \in Calls : d # c => call[d].pc \notin Active
    BY <1>0, <2>1, ShapeActive DEF Solo
  <2>3. call[c].pc \notin {"lock"} \cup Minting
    BY <1>0 DEF NeverMints
  <2>4. TriedAt(call[c], hist[c])'
    BY <1>0, <2>1, <2>3, TriedStep
  <2>5. call'[c].pc \notin {"lock"} \cup Minting
    BY <1>0, <2>1, <2>3, ShapeNeverMints
  <2>6. ~ MintDone(c)
    BY <2>3 DEF MintDone, Minting
  <2>7. expiry' = expiry
    BY <1>3, <2>6 DEF Step, RefreshNotNeeded, RefreshLock, MintSend, MintIssue,
        MintFail, Top, SpoolFail, CtxDone, EncodeFail, Authorize, Send, Serve,
        Receive, Lose, GiveUp, Backoff, Rotate, credVars
  <2>8. Solo' /\ NeverMints'
    BY <1>0, <1>1, <2>1, <2>2, <2>5, <2>7 DEF Solo, NeverMints
  <2> QED
    BY <1>1, <2>1, <2>2, <2>4, <2>8 DEF TriedInv
<1>4. ASSUME NEW c \in Calls, Cancel(c) PROVE TriedInv'
  <2>1. call[c].pc \in Active /\ expiry' = expiry
    BY <1>4 DEF Cancel, credVars
  <2>2. /\ hist' = hist /\ current' = current
        /\ \A d \in Calls : d # c => call'[d] = call[d]
        /\ call'[c].pc = call[c].pc /\ call'[c].cancelled
    BY <1>4, <2>1, BeginOrCancel DEF Active, Minting, Sending
  <2>3. TriedAt(call[c], hist[c])'
    BY <2>2 DEF TriedAt
  <2>4. \A d \in Calls : d # c => call[d].pc \notin Active
    BY <1>0, <2>1 DEF Solo
  <2>5. Solo' /\ NeverMints'
    BY <1>0, <2>1, <2>2 DEF Solo, NeverMints
  <2> QED
    BY <1>1, <2>2, <2>3, <2>4, <2>5 DEF TriedInv
<1>5. ASSUME UNCHANGED <<call, hist, current, expiry>> PROVE TriedInv'
  BY <1>0, <1>5 DEF TriedInv, Solo, NeverMints, TriedAt, Behind
<1>6. CASE Clock \/ Revokes \/ UNCHANGED vars
  BY <1>5, <1>6 DEF Clock, Revokes, vars, credVars
<1> QED
  BY <1>2, <1>3, <1>4, <1>6 DEF Next, Finished

(***************************************************************************)
(* Used by one caller at a time, with credentials that need no mint and at *)
(* least one attempt, a DoRequest fails as transient only after every      *)
(* endpoint failed to answer it.  Concurrent calls break it: each failover *)
(* moves the ring for all of them.                                         *)
(***************************************************************************)
THEOREM TriedAllCorrect ==
    ASSUME MaxActive <= 1, Attempts > 0, CredKind # "user"
    PROVE  Spec => []TransientTriedAll
<1>1. ServedInv /\ TriedInv => TransientTriedAll
  <2> SUFFICES ASSUME ServedInv, TriedInv, NEW c \in Calls,
                      call[c].res \in {"transient", "exhausted"},
                      call[c].op \in {"read", "write"}, ~ call[c].cancelled
               PROVE  hist[c].failed = Endpoints
    BY DEF TransientTriedAll
  <2>1. call[c].pc = "done"
    BY DEF ServedInv, ServedAt
  <2> QED
    BY <2>1 DEF TriedInv, TriedAt
<1>2. TypeOK /\ TypeOK' /\ ServedInv /\ LoopInv /\ TriedInv /\ [Next]_vars => TriedInv'
  BY TriedNext
<1> QED
  BY <1>1, <1>2, TypeCorrect, ServedInvariant, LoopInvariant, TriedInit, PTL DEF Spec

-----------------------------------------------------------------------------
(***************************************************************************)
(* A call that is minting had to: the need it saw under mintMu does not go *)
(* away before it is done, because nobody else can mint.                   *)
(***************************************************************************)
MintNeeded ==
    \A c \in Calls : call[c].pc \in Minting => call[c].forced \/ NeedsRefresh

\* A later moment is past whatever an earlier one was past.
LEMMA LaterIsPast ==
    ASSUME NEW a \in Nat, NEW b \in Nat, NEW s \in Nat, NEW e \in Nat,
           b >= a, a + s > e
    PROVE  b + s > e
OBVIOUS

\* Time only makes the need for a refresh greater.
LEMMA NeedStable ==
    ASSUME TypeOK, TypeOK', expiry' = expiry, now' >= now, NeedsRefresh
    PROVE  NeedsRefresh'
<1>1. /\ now \in Nat /\ now' \in Nat
      /\ expiry \in Nat /\ expiry' \in Nat /\ Skew \in Nat
  BY TicketAssumption DEF TypeOK
<1>2. CASE expiry = 0
  BY <1>2 DEF NeedsRefresh
<1>3. CASE expiry # 0
  <2>1. now + Skew > expiry
    BY <1>3 DEF NeedsRefresh
  <2>2. now' + Skew > expiry
    BY <1>1, <2>1, LaterIsPast
  <2> QED
    BY <1>3, <2>2 DEF NeedsRefresh
<1> QED
  BY <1>2, <1>3

\* Every step of the system keeps the need.
LEMMA MintNeededNext ==
    TypeOK /\ TypeOK' /\ TicketInv /\ MintNeeded /\ [Next]_vars => MintNeeded'
<1> SUFFICES ASSUME TypeOK, TypeOK', TicketInv, MintNeeded, [Next]_vars
             PROVE  MintNeeded'
  OBVIOUS
<1>0. now \in Nat /\ \A c \in Calls : call[c] \in CallRecord
  BY DEF TypeOK
<1>1. ASSUME NEW c \in Calls, MintDone(c) PROVE MintNeeded'
  <2>1. /\ call[c].pc = "minted" /\ call'[c] = [call[c] EXCEPT !.pc = "top"]
        /\ \A d \in Calls : d # c => call'[d] = call[d]
    BY <1>1, GotoFacts DEF MintDone
  <2>2. call'[c].pc \notin Minting
    BY <1>0, <2>1 DEF CallRecord, Minting
  <2>3. \A d \in Calls : d # c => call'[d].pc \notin Minting
    BY <2>1 DEF TicketInv, TicketAt, Minting
  <2> QED
    BY <2>2, <2>3 DEF MintNeeded
<1>2. ASSUME NEW c \in Calls, Step(c), ~ MintDone(c) PROVE MintNeeded'
  <2>1. expiry' = expiry /\ now' = now
    BY <1>2 DEF Step, RefreshNotNeeded, RefreshLock, MintSend, MintIssue,
        MintFail, Top, SpoolFail, CtxDone, EncodeFail, Authorize, Send, Serve,
        Receive, Lose, GiveUp, Backoff, Rotate, credVars, pveVars
  <2>2. NeedsRefresh => NeedsRefresh'
    BY <1>0, <2>1, NeedStable
  <2>3. /\ Shape(call[c], hist[c], call'[c], hist'[c])
        /\ \A d \in Calls : d # c => call'[d] = call[d]
    BY <1>2, StepShape
  <2>4. ASSUME call'[c].pc \in Minting PROVE call'[c].forced \/ NeedsRefresh
    <3>1. Refreshing(call[c], hist[c], call'[c], hist'[c])
      <4>1. ASSUME NEW e, call'[c] = AfterExecute(call[c], e)
            PROVE  call'[c].pc \in {"lock", "top", "done"}
        BY <1>0, <4>1, ReplayFacts
      <4>2. call'[c] = AfterTransient(call[c])
               => call'[c].pc \in {"done", "backoff", "rotate"}
        BY <1>0, RetryFacts DEF CallRecord
      <4>3. [call[c] EXCEPT !.pc = "top", !.ep = call[c].ep + 1].pc = "top"
        BY <1>0 DEF CallRecord
      <4> QED
        BY <2>3, <2>4, <4>1, <4>2, <4>3
        DEF Shape, RefreshFailed, AtEndpoint, EndedUnsent, Authorized, Sent,
            CarriedOut, FailedAttempt, Answered, BackedOff, Rotated, Minting
    <3>2. call'[c].forced = call[c].forced /\ call[c].pc \in {"lock"} \cup Minting
      BY <3>1 DEF Refreshing, Keeps
    <3>3. CASE call[c].pc \in Minting
      BY <3>2, <3>3 DEF MintNeeded
    <3>4. CASE call[c].pc = "lock"
      <4>1. RefreshNotNeeded(c) \/ RefreshLock(c)
        BY <1>2, <3>4, AnswersFacts
        DEF Step, MintSend, MintIssue, MintDone, MintFail, Top, SpoolFail,
            CtxDone, EncodeFail, Authorize, Send, Serve, Receive, Lose, GiveUp,
            Backoff, Rotate, Minting
      <4>2. ~ RefreshNotNeeded(c)
        <5> SUFFICES ASSUME RefreshNotNeeded(c) PROVE FALSE
          OBVIOUS
        <5>1. call'[c] = [call[c] EXCEPT !.pc = "top"]
          BY GotoFacts DEF RefreshNotNeeded
        <5> QED
          BY <1>0, <2>4, <5>1 DEF CallRecord, Minting
      <4> QED
        BY <3>2, <4>1, <4>2 DEF RefreshLock, MustMint
    <3> QED
      BY <3>2, <3>3, <3>4
  <2> QED
    BY <2>2, <2>3, <2>4 DEF MintNeeded
<1>3. ASSUME NEW c \in Calls, (\E op \in Ops : Call(c, op)) \/ Cancel(c)
      PROVE  MintNeeded'
  <2>1. expiry' = expiry /\ now' = now
    BY <1>3 DEF Call, Cancel, credVars, pveVars
  <2>2. NeedsRefresh => NeedsRefresh'
    BY <1>0, <2>1, NeedStable
  <2>3. /\ \A d \in Calls : d # c => call'[d] = call[d]
        /\ call'[c].forced = call[c].forced
        /\ call'[c].pc \in {"lock", "top"} \/ call'[c].pc = call[c].pc
    BY <1>3, BeginOrCancel
  <2> QED
    BY <2>2, <2>3 DEF MintNeeded, Minting
<1>4. CASE Clock \/ Revokes \/ UNCHANGED vars
  <2>1. call' = call /\ expiry' = expiry /\ now' >= now
    BY <1>0, <1>4 DEF Clock, Revokes, Tick, Revoke, vars, credVars, pveVars
  <2> QED
    BY <2>1, NeedStable DEF MintNeeded
<1> QED
  BY <1>1, <1>2, <1>3, <1>4 DEF Next, Finished

(***************************************************************************)
(* A refresh that is not forced replaces only a ticket that needs it, even *)
(* when the call waited for mintMu while any number of others minted.      *)
(***************************************************************************)
THEOREM MintCorrect == Spec => MintOnlyWhenNeeded
<1>1. Init => MintNeeded
  BY DEF Init, Idle, MintNeeded, Minting
<1>2. TypeOK /\ TicketInv /\ MintNeeded /\ [Next]_vars
        => [ticket' # ticket => NeedsRefresh \/ call[mintMu].forced]_vars
  <2> SUFFICES ASSUME TypeOK, TicketInv, MintNeeded, [Next]_vars, ticket' # ticket
               PROVE  NeedsRefresh \/ call[mintMu].forced
    OBVIOUS
  <2>1. PICK c \in Calls : MintDone(c)
    BY DEF Next, Finished, Call, Cancel, Clock, Revokes, Step, RefreshNotNeeded,
        RefreshLock, MintSend, MintIssue, MintFail, Top, SpoolFail, CtxDone,
        EncodeFail, Authorize, Send, Serve, Receive, Lose, GiveUp, Backoff,
        Rotate, credVars, vars
  <2>2. call[c].pc \in Minting /\ mintMu = c
    BY <2>1 DEF MintDone, TicketInv, TicketAt, Minting
  <2> QED
    BY <2>2 DEF MintNeeded
<1> QED
  BY <1>1, <1>2, MintNeededNext, TypeCorrect, TicketInvariant, PTL
  DEF Spec, MintOnlyWhenNeeded

-----------------------------------------------------------------------------
(***************************************************************************)
(* The invariant behind the age of a request.  The client's expiry is the  *)
(* moment it stored the live ticket plus the lifetime.  A call that is     *)
(* past its look at the ticket looked at least the skew before the expiry  *)
(* of the live ticket, which only moves on when it is replaced, and of the *)
(* ticket it carries.                                                      *)
(***************************************************************************)
PastCheck == {"top"} \cup Sending

AgeAt(c) ==
    /\ checked[c] <= now
    /\ call[c].pc \in PastCheck => expiry > 0 /\ checked[c] + Skew <= expiry
    /\ call[c].pc \in Carrying
          => /\ call[c].tk \in DOMAIN arrived
             /\ checked[c] + Skew <= arrived[call[c].tk] + Lifetime

AgeInv ==
    CredKind = "user" =>
        /\ expiry > 0 => /\ ticket \in DOMAIN arrived
                         /\ expiry = arrived[ticket] + Lifetime
        /\ \A c \in Calls : AgeAt(c)

\* The arithmetic of it: what the call has used up of the skew is time that the
\* ticket still has at PVE.
LEMMA WithinSkew ==
    ASSUME NEW n \in Nat, NEW k \in Nat, NEW a \in Nat, NEW i \in Nat,
           NEW s \in Nat, NEW l \in Nat,
           (n - k) + (a - i) <= s, k + s <= a + l
    PROVE  n <= i + l
OBVIOUS

\* A step that neither looks at the ticket nor stores or copies one leaves its
\* call where the look it made still counts.
LEMMA AgeShape ==
    ASSUME TypeOK, NEW c \in Calls, Step(c), CredKind = "user",
           ~ RefreshNotNeeded(c), ~ MintDone(c), ~ Authorize(c)
    PROVE  /\ call'[c].pc \in PastCheck => call[c].pc \in PastCheck
           /\ call'[c].pc \in Carrying => /\ call[c].pc \in Carrying
                                          /\ call'[c].tk = call[c].tk
           /\ UNCHANGED <<ticket, expiry, checked, arrived, now>>
           /\ \A d \in Calls : d # c => call'[d] = call[d]
<1>0. call[c] \in CallRecord
  BY DEF TypeOK
<1>1. /\ Shape(call[c], hist[c], call'[c], hist'[c])
      /\ \A d \in Calls : d # c => call'[d] = call[d]
  BY StepShape
<1>2. UNCHANGED <<ticket, expiry, checked, arrived, now>>
  BY DEF Step, RefreshLock, MintSend, MintIssue, MintFail, Top, SpoolFail,
      CtxDone, EncodeFail, Send, Serve, Receive, Lose, GiveUp, Backoff, Rotate,
      credVars, pveVars
<1>3. ASSUME call[c].pc \in {"lock"} \cup Minting, call'[c].pc \in PastCheck PROVE FALSE
  <2>1. RefreshLock(c) \/ MintSend(c) \/ MintIssue(c) \/ MintFail(c)
    BY <1>3, AnswersFacts
    DEF Step, Top, SpoolFail, CtxDone, EncodeFail, Authorize, Send, Serve,
        Receive, Lose, GiveUp, Backoff, Rotate, Minting
  <2>2. CASE RefreshLock(c)
    <3>1. call'[c] = [call[c] EXCEPT !.pc = "mint"]
      BY <2>2, GotoFacts DEF RefreshLock
    <3> QED
      BY <1>0, <1>3, <3>1 DEF CallRecord, PastCheck, Sending
  <2>3. CASE MintSend(c)
    <3>1. call'[c] = [call[c] EXCEPT !.pc = "minting", !.base = current]
      BY <2>3, GotoFacts DEF MintSend
    <3> QED
      BY <1>0, <1>3, <3>1 DEF CallRecord, PastCheck, Sending
  <2>4. CASE MintIssue(c)
    <3>1. call'[c] = [call[c] EXCEPT !.pc = "minted", !.tk = Len(issued) + 1]
      BY <2>4, GotoFacts DEF MintIssue
    <3> QED
      BY <1>0, <1>3, <3>1 DEF CallRecord, PastCheck, Sending
  <2>5. CASE MintFail(c)
    <3>1. \E e : call'[c] = Return(call[c], e)
      BY <2>5, GotoFacts DEF MintFail
    <3> QED
      BY <1>0, <1>3, <3>1, ReturnFacts DEF PastCheck, Sending
  <2> QED
    BY <2>1, <2>2, <2>3, <2>4, <2>5
<1>4. ASSUME NEW e, call'[c] = AfterExecute(call[c], e)
      PROVE  call'[c].pc \notin PastCheck
  BY <1>0, <1>4, ReplayFacts DEF PastCheck, Sending
<1>5. call'[c] = AfterTransient(call[c]) => call'[c].pc \notin Carrying
  BY <1>0, RetryFacts DEF CallRecord, Carrying
<1>6. [call[c] EXCEPT !.pc = "top", !.ep = call[c].ep + 1].pc = "top"
  BY <1>0 DEF CallRecord
<1>7. ~ (call[c].pc = "attempt" /\ call'[c].pc = "send")
  <2>1. Step(c) /\ call[c].pc = "attempt" => CtxDone(c) \/ EncodeFail(c)
    BY AnswersFacts
    DEF Step, RefreshLock, MintSend, MintIssue, MintFail, Top, SpoolFail, Send,
        Serve, Receive, Lose, GiveUp, Backoff, Rotate, Minting
  <2>2. CtxDone(c) => call'[c].pc = "done"
    BY <1>0, GotoFacts, ReturnFacts DEF CtxDone
  <2>3. EncodeFail(c) => call'[c] = AfterTransient(call[c])
    BY GotoFacts DEF EncodeFail
  <2> QED
    BY <1>5, <2>1, <2>2, <2>3 DEF Carrying
<1>8. CASE Refreshing(call[c], hist[c], call'[c], hist'[c])
  BY <1>2, <1>3, <1>8, <1>1 DEF Refreshing, Carrying, PastCheck, Sending
<1>9. CASE Rotated(call[c], hist[c], call'[c], hist'[c])
  BY <1>1, <1>2, <1>4, <1>6, <1>9 DEF Rotated, Carrying, PastCheck, Sending
<1>10. CASE Answered(call[c], hist[c], call'[c], hist'[c])
  BY <1>1, <1>2, <1>4, <1>10 DEF Answered, Carrying, PastCheck, Sending
<1>11. CASE FailedAttempt(call[c], hist[c], call'[c], hist'[c])
  BY <1>1, <1>2, <1>5, <1>11 DEF FailedAttempt, PastCheck, Sending
<1> QED
  BY <1>1, <1>2, <1>7, <1>8, <1>9, <1>10, <1>11
  DEF Shape, RefreshFailed, AtEndpoint, EndedUnsent, Authorized, Sent,
      CarriedOut, BackedOff, Carrying, PastCheck, Sending

\* Every step of the system keeps the invariant of the ages.
LEMMA AgeNext ==
    TypeOK /\ TypeOK' /\ TicketInv /\ AgeInv /\ [Next]_vars => AgeInv'
<1> SUFFICES ASSUME TypeOK, TypeOK', TicketInv, AgeInv, [Next]_vars, CredKind = "user"
             PROVE  AgeInv'
  BY DEF AgeInv
<1>0. /\ now \in Nat /\ expiry \in Nat /\ ticket \in Nat
      /\ Skew \in Nat /\ Lifetime \in Nat /\ Skew <= Lifetime /\ Lifetime > 0
      /\ checked \in [Calls -> Nat]
      /\ \A t \in DOMAIN arrived : arrived[t] \in Nat
      /\ \A c \in Calls : call[c] \in CallRecord /\ call[c].tk \in Nat
  <2>1. \A c \in Calls : call[c] \in CallRecord
    BY DEF TypeOK
  <2>2. \A r \in CallRecord : r.tk \in Nat
    BY DEF CallRecord
  <2>3. \A t \in DOMAIN arrived : arrived[t] \in Nat
    BY DEF TypeOK
  <2> QED
    BY <2>1, <2>2, <2>3, TicketAssumption DEF TypeOK
<1>a. /\ expiry > 0 => ticket \in DOMAIN arrived /\ expiry = arrived[ticket] + Lifetime
      /\ \A c \in Calls : AgeAt(c)
  BY DEF AgeInv
<1>1. ASSUME NEW c \in Calls, UNCHANGED <<ticket, expiry, arrived, now>>,
             \A d \in Calls : d # c => call'[d] = call[d] /\ checked'[d] = checked[d],
             AgeAt(c)'
      PROVE  AgeInv'
  BY <1>1, <1>a DEF AgeInv, AgeAt
<1>2. ASSUME NEW c \in Calls, checked' = [checked EXCEPT ![c] = now]
      PROVE  checked'[c] = now /\ \A d \in Calls : d # c => checked'[d] = checked[d]
  BY <1>0, <1>2
<1>3. expiry > 0 /\ ~ NeedsRefresh => now + Skew <= expiry
  BY <1>0 DEF NeedsRefresh
<1>4. ~ NeedsRefresh => expiry > 0
  BY <1>0 DEF NeedsRefresh
<1>5. ASSUME NEW c \in Calls, NEW op \in Ops, Call(c, op) PROVE AgeInv'
  <2>1. /\ UNCHANGED <<ticket, expiry, arrived, now>>
        /\ IF NeedsRefresh THEN UNCHANGED checked ELSE checked' = [checked EXCEPT ![c] = now]
    BY <1>5 DEF Call, NoteChecked, pveVars
  <2>2. /\ call[c].pc = "idle"
        /\ call'[c] = [call[c] EXCEPT !.pc = IF NeedsRefresh THEN "lock" ELSE "top",
                                      !.op = op]
        /\ \A d \in Calls : d # c => call'[d] = call[d]
    BY <1>5, GotoFacts DEF Call
  <2>3. call'[c].pc = IF NeedsRefresh THEN "lock" ELSE "top"
    BY <1>0, <2>2 DEF CallRecord
  <2>4. \A d \in Calls : d # c => checked'[d] = checked[d]
    BY <1>2, <2>1
  <2>5. AgeAt(c)'
    <3>1. CASE NeedsRefresh
      BY <1>a, <2>1, <2>3, <3>1 DEF AgeAt, PastCheck, Sending, Carrying
    <3>2. CASE ~ NeedsRefresh
      BY <1>0, <1>2, <1>3, <1>4, <2>1, <2>3, <3>2 DEF AgeAt, PastCheck, Sending, Carrying
    <3> QED
      BY <3>1, <3>2
  <2> QED
    BY <1>1, <2>1, <2>2, <2>4, <2>5
<1>6. ASSUME NEW c \in Calls, RefreshNotNeeded(c) PROVE AgeInv'
  <2>1. /\ UNCHANGED <<ticket, expiry, arrived, now>> /\ ~ NeedsRefresh
        /\ checked' = [checked EXCEPT ![c] = now]
    BY <1>6 DEF RefreshNotNeeded, MustMint, NoteChecked, pveVars
  <2>2. /\ call'[c] = [call[c] EXCEPT !.pc = "top"]
        /\ \A d \in Calls : d # c => call'[d] = call[d]
    BY <1>6, GotoFacts DEF RefreshNotNeeded
  <2>3. call'[c].pc = "top"
    BY <1>0, <2>2 DEF CallRecord
  <2>4. AgeAt(c)'
    BY <1>0, <1>2, <1>3, <1>4, <2>1, <2>3 DEF AgeAt, PastCheck, Sending, Carrying
  <2> QED
    BY <1>1, <1>2, <2>1, <2>2, <2>4
<1>7. ASSUME NEW c \in Calls, MintDone(c) PROVE AgeInv'
  <2> DEFINE t == call[c].tk
  <2>1. /\ call[c].pc = "minted" /\ now' = now
        /\ ticket' = t /\ expiry' = now + Lifetime
        /\ checked' = [checked EXCEPT ![c] = now]
        /\ arrived' = [u \in DOMAIN arrived \cup {t} |-> IF u = t THEN now ELSE arrived[u]]
    BY <1>7 DEF MintDone, SetTicket, NoteChecked, NoteArrived, pveVars
  <2>2. /\ call'[c] = [call[c] EXCEPT !.pc = "top"]
        /\ \A d \in Calls : d # c => call'[d] = call[d]
    BY <1>7, GotoFacts DEF MintDone
  <2>3. call'[c].pc = "top"
    BY <1>0, <2>2 DEF CallRecord
  <2>4. /\ t \in DOMAIN arrived' /\ arrived'[t] = now
        /\ \A u \in DOMAIN arrived : /\ u \in DOMAIN arrived'
                                     /\ u # t => arrived'[u] = arrived[u]
    BY <2>1
  <2>5. t > ticket /\ t \in Nat
    BY <1>0, <2>1 DEF TicketInv, TicketAt
  <2>6. AgeAt(c)'
    BY <1>0, <1>2, <2>1, <2>3 DEF AgeAt, PastCheck, Sending, Carrying
  <2>7. ASSUME NEW d \in Calls, d # c PROVE AgeAt(d)'
    <3>1. checked'[d] = checked[d] /\ checked[d] \in Nat /\ checked[d] <= now
      BY <1>0, <1>2, <1>a, <2>1, <2>7 DEF AgeAt
    <3>2. expiry' > 0 /\ checked[d] + Skew <= expiry'
      BY <1>0, <2>1, <3>1
    <3>3. ASSUME call[d].pc \in Carrying
          PROVE  /\ call[d].tk \in DOMAIN arrived'
                 /\ checked[d] + Skew <= arrived'[call[d].tk] + Lifetime
      <4>1. call[d].tk <= ticket /\ call[d].tk \in Nat
        BY <1>0, <3>3 DEF TicketInv, TicketAt
      <4> QED
        BY <1>0, <1>a, <2>4, <2>5, <3>3, <4>1 DEF AgeAt
    <3> QED
      BY <2>1, <2>2, <2>7, <3>1, <3>2, <3>3 DEF AgeAt
  <2> QED
    BY <2>1, <2>4, <2>6, <2>7 DEF AgeInv
<1>8. ASSUME NEW c \in Calls, Authorize(c) PROVE AgeInv'
  <2>1. UNCHANGED <<ticket, expiry, checked, arrived, now>> /\ call[c].pc = "attempt"
    BY <1>8 DEF Authorize, credVars, pveVars
  <2>2. /\ call'[c] = [call[c] EXCEPT !.pc = "send", !.tk = ticket]
        /\ \A d \in Calls : d # c => call'[d] = call[d]
    BY <1>8, GotoFacts DEF Authorize
  <2>3. call'[c].pc = "send" /\ call'[c].tk = ticket
    BY <1>0, <2>2 DEF CallRecord
  <2>4. AgeAt(c)'
    BY <1>a, <2>1, <2>3 DEF AgeAt, PastCheck, Sending, Carrying
  <2> QED
    BY <1>1, <2>1, <2>2, <2>4
<1>9. ASSUME NEW c \in Calls, Step(c), ~ RefreshNotNeeded(c), ~ MintDone(c), ~ Authorize(c)
      PROVE  AgeInv'
  <2>1. /\ call'[c].pc \in PastCheck => call[c].pc \in PastCheck
        /\ call'[c].pc \in Carrying => /\ call[c].pc \in Carrying
                                       /\ call'[c].tk = call[c].tk
        /\ UNCHANGED <<ticket, expiry, checked, arrived, now>>
        /\ \A d \in Calls : d # c => call'[d] = call[d]
    BY <1>9, AgeShape
  <2>2. AgeAt(c)'
    BY <1>a, <2>1 DEF AgeAt
  <2> QED
    BY <1>1, <2>1, <2>2
<1>10. ASSUME NEW c \in Calls, Cancel(c) PROVE AgeInv'
  <2>1. /\ UNCHANGED <<ticket, expiry, checked, arrived, now>>
        /\ call'[c] = [call[c] EXCEPT !.cancelled = TRUE]
        /\ \A d \in Calls : d # c => call'[d] = call[d]
    BY <1>10, GotoFacts DEF Cancel, credVars, pveVars
  <2>2. call'[c].pc = call[c].pc /\ call'[c].tk = call[c].tk
    BY <1>0, <2>1 DEF CallRecord
  <2>3. AgeAt(c)'
    BY <1>a, <2>1, <2>2 DEF AgeAt
  <2> QED
    BY <1>1, <2>1, <2>3
<1>11. CASE Clock \/ Revokes \/ UNCHANGED vars
  <2>1. UNCHANGED <<call, ticket, expiry, checked, arrived>> /\ now' >= now /\ now' \in Nat
    BY <1>0, <1>11 DEF Clock, Revokes, Tick, Revoke, vars, credVars, pveVars
  <2>2. \A c \in Calls : checked[c] \in Nat /\ (checked[c] <= now => checked[c] <= now')
    BY <1>0, <2>1
  <2> QED
    BY <1>a, <2>1, <2>2 DEF AgeInv, AgeAt
<1> QED
  BY <1>5, <1>6, <1>7, <1>8, <1>9, <1>10, <1>11 DEF Next, Finished

(***************************************************************************)
(* For every skew, lifetime and number of calls: a request sent within the *)
(* skew of the call's look at the ticket, counting the delay of the mint's *)
(* reply, carries a ticket PVE has not let expire, whoever minted it.      *)
(***************************************************************************)
THEOREM PromptCorrect == Spec => []PromptRequestUnexpired
<1>1. Init => AgeInv
  <2>1. Init => expiry = 0 /\ now = 1 /\ \A c \in Calls : call[c] = Idle /\ checked[c] = 0
    BY DEF Init, CredentialsInit
  <2>2. Idle.pc = "idle"
    BY DEF Idle
  <2> QED
    BY <2>1, <2>2 DEF AgeInv, AgeAt, PastCheck, Sending, Carrying
<1>2. TypeOK /\ TicketInv /\ AgeInv => PromptRequestUnexpired
  <2> SUFFICES ASSUME TypeOK, TicketInv, AgeInv, NEW c \in Calls,
                      CredKind = "user", call[c].pc = "wire",
                      (now - checked[c]) + (arrived[call[c].tk] - issued[call[c].tk]) <= Skew
               PROVE  now <= issued[call[c].tk] + Lifetime
    BY DEF PromptRequestUnexpired
  <2> DEFINE t == call[c].tk
  <2>1. /\ t \in 1..Len(issued) /\ issued[t] \in Nat
    <3>1. t \in Nat /\ ticket \in Nat /\ issued \in Seq(Nat) /\ Len(issued) \in Nat
      BY DEF TypeOK, CallRecord
    <3>2. t <= ticket /\ t > 0 /\ ticket <= Len(issued)
      BY DEF TicketInv, TicketAt, Carrying
    <3> QED
      BY <3>1, <3>2
  <2>2. /\ t \in DOMAIN arrived /\ checked[c] + Skew <= arrived[t] + Lifetime
    BY DEF AgeInv, AgeAt, Carrying
  <2>3. arrived[t] \in Nat /\ checked[c] \in Nat /\ now \in Nat
    BY <2>2 DEF TypeOK
  <2>4. issued[t] \in Nat /\ Skew \in Nat /\ Lifetime \in Nat
    BY <2>1, TicketAssumption
  <2>5. (now - checked[c]) + (arrived[t] - issued[t]) <= Skew
    OBVIOUS
  <2> QED
    BY <2>2, <2>3, <2>4, <2>5, WithinSkew
<1> QED
  BY <1>1, <1>2, AgeNext, TypeCorrect, TicketInvariant, PTL DEF Spec
=============================================================================
