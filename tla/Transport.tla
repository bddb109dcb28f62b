----------------------------- MODULE Transport -----------------------------
(***************************************************************************)
(* The transport (proxmox/api/transport.go, websocket.go): DoRequest,      *)
(* DoUpload and DoWebSocket, run by concurrent calls that share the ring   *)
(* of endpoints and the credentials.  A step ends where a call takes a     *)
(* lock another call can take, sends or receives, or sleeps.               *)
(*                                                                         *)
(* PVE and the network are the environment: a request is lost, refused or  *)
(* carried out, and the reply to one that was carried out can still be     *)
(* lost.                                                                   *)
(***************************************************************************)
EXTENDS Connection, Credentials, Pverr

CONSTANTS Attempts,     \* RetryPolicy.Attempts
          Ops,          \* the kinds of operation the calls may be
          Down,         \* endpoints that never answer
          MaxActive     \* bound: calls in progress at once

Looped  == {"read", "write", "unencodable"}     \* DoRequest
OneShot == {"upload", "websocket"}

ASSUME TransportAssumption == /\ Attempts \in Nat
                              /\ Ops \subseteq Looped \cup OneShot
                              /\ Down \subseteq Endpoints
                              /\ MaxActive \in Nat

VARIABLES call,         \* each call's locals and program counter
          hist          \* what each call has done, for the properties

vars == <<call, hist, current, credVars, pveVars>>

(***************************************************************************)
(* The points a call can be at.                                            *)
(*   lock    waits for mintMu                                              *)
(*   mint    holds mintMu, about to POST /access/ticket                    *)
(*   minting the POST is out; minted: PVE has issued the ticket            *)
(*   top     head of execute's loop over the endpoints                     *)
(*   attempt head of its loop over the attempts                            *)
(*   send    authorized, about to read the CSRF token and send             *)
(*   wire    the request is out; served: PVE has carried it out            *)
(*   backoff sleeps before the next attempt                                *)
(*   rotate  out of attempts on this endpoint                              *)
(***************************************************************************)
Minting  == {"mint", "minting", "minted"}
Sending  == {"attempt", "send", "wire", "served", "backoff", "rotate"}
Active   == {"lock", "top"} \cup Minting \cup Sending
Points   == {"idle", "done"} \cup Active

(***************************************************************************)
(* The outcome of a call: the error it returns ("exhausted" also wraps     *)
(* ErrTransient) or "stream", DoWebSocket's only success.                  *)
(***************************************************************************)
Results  == ErrKinds \cup {"exhausted", "stream"}
Outcomes == Results \cup {"pending"}

CallRecord ==
    [pc        : Points,
     op        : Looped \cup OneShot,
     forced    : BOOLEAN,           \* in the re-auth-and-replay
     ep        : Nat,               \* execute's ep
     attempt   : Nat,               \* execute's attempt
     base      : Endpoints,         \* the endpoint of fullURL
     err       : ErrKinds,          \* execute's lastErr
     tk        : Nat,               \* ticket in the request, or just minted
     cs        : Nat,               \* CSRF token in the request
     cancelled : BOOLEAN,           \* the caller's ctx is done
     res       : Outcomes]

HistRecord ==
    [sends    : Nat,                \* authenticated requests sent
     applied  : Nat,                \* times PVE carried the operation out
     failed   : SUBSET Endpoints,   \* endpoints that failed to answer it
     rejected : SUBSET Nat]         \* tickets PVE told it have expired

Idle == [pc |-> "idle", op |-> "read", forced |-> FALSE, ep |-> 0,
         attempt |-> 0, base |-> 0, err |-> "nil", tk |-> 0, cs |-> 0,
         cancelled |-> FALSE, res |-> "pending"]

NoHist == [sends |-> 0, applied |-> 0, failed |-> {}, rejected |-> {}]

Init ==
    /\ ConnectionInit
    /\ CredentialsInit
    /\ call = [c \in Calls |-> Idle]
    /\ hist = [c \in Calls |-> NoHist]

-----------------------------------------------------------------------------
(***************************************************************************)
(* Where a call goes next, as functions of its locals r.                   *)
(***************************************************************************)
Return(r, e) == [r EXCEPT !.pc = "done", !.res = e]

AfterExecuteNoReplay(r, e) == Return(r, e)      \* mutant

(***************************************************************************)
(* The tail of DoRequest: the first ErrTicketExpired is answered by a      *)
(* forced refresh, a no-op unless the credentials can mint, and a second   *)
(* execute.  DoUpload and DoWebSocket return what they got.                *)
(***************************************************************************)
AfterExecute(r, e) ==
    IF e = "ticketExpired" /\ r.op \in Looped /\ ~ r.forced
    THEN [r EXCEPT !.pc = IF CredKind = "user" THEN "lock" ELSE "top",
                   !.forced = TRUE, !.ep = 0]
    ELSE Return(r, e)

AfterTransientShadowed(r) ==        \* mutant: lastErr assigned in a new scope
    IF r.op \in OneShot
    THEN Return(r, "transient")
    ELSE [r EXCEPT !.pc = IF r.attempt < Attempts THEN "backoff" ELSE "rotate"]

AfterTransientOneMore(r) ==         \* mutant: one attempt too many
    IF r.op \in OneShot
    THEN Return(r, "transient")
    ELSE [r EXCEPT !.err = "transient",
                   !.pc = IF r.attempt <= Attempts THEN "backoff" ELSE "rotate"]

AfterTransientAnyOp(r) ==           \* mutant: one-shot operations retried
    [r EXCEPT !.err = "transient",
              !.pc = IF r.attempt < Attempts THEN "backoff" ELSE "rotate"]

(***************************************************************************)
(* A transient failure of one attempt.                                     *)
(***************************************************************************)
AfterTransient(r) ==
    IF r.op \in OneShot
    THEN Return(r, "transient")
    ELSE [r EXCEPT !.err = "transient",
                   !.pc = IF r.attempt < Attempts THEN "backoff" ELSE "rotate"]

AfterReply(r, e) ==
    IF e = "transient" THEN AfterTransient(r) ELSE AfterExecute(r, e)

(***************************************************************************)
(* The history of a call whose request to r.base came back as e.           *)
(***************************************************************************)
NoteReply(h, r, e) ==
    [h EXCEPT !.failed   = @ \cup (IF e = "transient" THEN {r.base} ELSE {}),
              !.rejected = @ \cup (IF e = "ticketExpired" THEN {r.tk} ELSE {})]

Goto(c, r) == call' = [call EXCEPT ![c] = r]

-----------------------------------------------------------------------------
(***************************************************************************)
(* The entry of DoRequest, DoUpload and DoWebSocket: one unlocked look at  *)
(* whether the credentials need a refresh.                                 *)
(***************************************************************************)
Call(c, op) ==
    /\ call[c].pc = "idle"
    /\ Cardinality({d \in Calls : call[d].pc \in Active}) < MaxActive
    /\ Goto(c, [call[c] EXCEPT !.pc = IF NeedsRefresh THEN "lock" ELSE "top",
                               !.op = op])
    /\ IF NeedsRefresh THEN UNCHANGED checked ELSE NoteChecked(c)
    /\ UNCHANGED <<hist, current, ticket, csrf, expiry, mintMu, arrived, pveVars>>

(***************************************************************************)
(* refresh: take mintMu and look again.                                    *)
(***************************************************************************)
RefreshNotNeeded(c) ==
    /\ call[c].pc = "lock"
    /\ mintMu = NoCall
    /\ ~ MustMint(call[c].forced)
    /\ Goto(c, [call[c] EXCEPT !.pc = "top"])
    /\ NoteChecked(c)
    /\ UNCHANGED <<hist, current, ticket, csrf, expiry, mintMu, arrived, pveVars>>

RefreshLock(c) ==
    /\ call[c].pc = "lock"
    /\ MustMint(call[c].forced)
    /\ AcquireMint(c)
    /\ Goto(c, [call[c] EXCEPT !.pc = "mint"])
    /\ UNCHANGED <<hist, current, ticket, csrf, expiry, checked, arrived, pveVars>>

(***************************************************************************)
(* doRaw: one POST to the active endpoint, never retried and never moved.  *)
(***************************************************************************)
MintSend(c) ==
    /\ call[c].pc = "mint"
    /\ ~ call[c].cancelled
    /\ Goto(c, [call[c] EXCEPT !.pc = "minting", !.base = current])
    /\ UNCHANGED <<hist, current, credVars, pveVars>>

MintIssue(c) ==
    /\ call[c].pc = "minting"
    /\ call[c].base \notin Down
    /\ Issue
    /\ Goto(c, [call[c] EXCEPT !.pc = "minted", !.tk = Len(issued) + 1])
    /\ UNCHANGED <<hist, current, credVars, now, revoked>>

MintDone(c) ==
    /\ call[c].pc = "minted"
    /\ SetTicket(call[c].tk)
    /\ NoteArrived(call[c].tk)
    /\ NoteChecked(c)
    /\ ReleaseMint
    /\ Goto(c, [call[c] EXCEPT !.pc = "top"])
    /\ UNCHANGED <<hist, current, pveVars>>

(***************************************************************************)
(* The POST fails: no reply, the caller gave up, a refusal, a reply that   *)
(* does not decode, or one without a ticket ("none").  The operation       *)
(* returns that error.                                                     *)
(***************************************************************************)
MintErrors(r) ==
    {e \in ErrKinds :
        \/ /\ r.pc = "minting" /\ r.base \notin Down
           /\ \E s \in {400, 401, 403, 404, 500, 596} :
                 e = Classify(s, "other", "nil")
        \/ r.pc = "minted" /\ e \in {"decode", "none"}
        \/ /\ r.pc \in {"minting", "minted"} \/ r.cancelled
           /\ e = ClassifyNetError}

MintFail(c) ==
    /\ call[c].pc \in Minting
    /\ \E e \in MintErrors(call[c]) :
          /\ Goto(c, Return(call[c], e))
          /\ hist' = [hist EXCEPT ![c] = NoteReply(hist[c], call[c], e)]
    /\ ReleaseMint
    /\ UNCHANGED <<current, ticket, csrf, expiry, checked, arrived, pveVars>>

(***************************************************************************)
(* The head of the endpoint loop: the base URL is read once for all the    *)
(* attempts.  With no attempts the body of the inner loop never runs.      *)
(* DoUpload and DoWebSocket read it once and have no loop; DoUpload fails  *)
(* here when it cannot spool its body.                                     *)
(***************************************************************************)
Top(c) ==
    /\ call[c].pc = "top"
    /\ Goto(c, [call[c] EXCEPT
                    !.pc = IF call[c].op \in Looped /\ Attempts = 0
                           THEN "rotate" ELSE "attempt",
                    !.base = current, !.attempt = 1, !.err = "nil"])
    /\ UNCHANGED <<hist, current, credVars, pveVars>>

SpoolFail(c) ==
    /\ call[c].pc = "top"
    /\ call[c].op = "upload"
    /\ Goto(c, Return(call[c], "none"))
    /\ UNCHANGED <<hist, current, credVars, pveVars>>

(***************************************************************************)
(* The head of the attempt loop: a done context ends the call.  Otherwise  *)
(* doHTTP encodes the body, whose failure counts as a network error, and   *)
(* authorize copies the ticket.                                            *)
(***************************************************************************)
CtxDone(c) ==
    /\ call[c].pc = "attempt"
    /\ call[c].op \in Looped
    /\ call[c].cancelled
    /\ Goto(c, Return(call[c], "ctx"))
    /\ UNCHANGED <<hist, current, credVars, pveVars>>

EncodeFail(c) ==
    /\ call[c].pc = "attempt"
    /\ call[c].op = "unencodable"
    /\ ~ call[c].cancelled
    /\ Goto(c, AfterTransient(call[c]))
    /\ UNCHANGED <<hist, current, credVars, pveVars>>

Authorize(c) ==
    /\ call[c].pc = "attempt"
    /\ call[c].op \in {"read", "write"} => ~ call[c].cancelled
    /\ call[c].op # "unencodable"
    /\ Goto(c, [call[c] EXCEPT !.pc = "send", !.tk = ticket])
    /\ UNCHANGED <<hist, current, credVars, pveVars>>

SendCachedCsrf(c) ==                \* mutant: the first CSRF token is kept
    /\ call[c].pc = "send"
    /\ ~ call[c].cancelled
    /\ Goto(c, [call[c] EXCEPT !.pc = "wire",
                               !.cs = IF @ = 0 THEN csrf ELSE @])
    /\ hist' = [hist EXCEPT ![c].sends = @ + 1]
    /\ UNCHANGED <<current, credVars, pveVars>>

(***************************************************************************)
(* csrfToken, under a second acquisition of inner.mu, and http.Do.         *)
(***************************************************************************)
Send(c) ==
    /\ call[c].pc = "send"
    /\ ~ call[c].cancelled
    /\ Goto(c, [call[c] EXCEPT
                    !.pc = "wire",
                    !.cs = IF call[c].op \in {"write", "upload"}
                           THEN csrf ELSE 0])
    /\ hist' = [hist EXCEPT ![c].sends = @ + 1]
    /\ UNCHANGED <<current, credVars, pveVars>>

-----------------------------------------------------------------------------
(***************************************************************************)
(* PVE and the network.                                                    *)
(***************************************************************************)
Serve(c) ==
    /\ call[c].pc = "wire"
    /\ call[c].base \notin Down
    /\ Accepts(call[c].tk)
    /\ Goto(c, [call[c] EXCEPT !.pc = "served"])
    /\ hist' = [hist EXCEPT ![c].applied = @ + 1]
    /\ UNCHANGED <<current, credVars, pveVars>>

Refusals(t) ==
    IF Accepts(t)
    THEN [status : {400, 401, 403, 404, 409, 500, 596},
          body : {"json", "garbled", "cut"}, msg : {"other"}]
    ELSE [status : {401}, body : {"json", "garbled", "cut"}, msg : {"ticket"}]

ServedReplies(op) ==
    [status : IF op = "websocket" THEN {101, 200, 500, 596}
                                  ELSE {200, 500, 596},
     body : Bodies, msg : {"other"}]

(***************************************************************************)
(* The error a reply becomes.  DoWebSocket keeps a 101 whose body can also *)
(* be written to, and reads any other reply with nothing to decode into.   *)
(***************************************************************************)
ReadReply(op, rep, out) ==
    IF op = "websocket"
    THEN IF rep.status = 101
         THEN IF rep.body = "duplex" THEN "stream" ELSE "none"
         ELSE ReadResponse(rep, FALSE)
    ELSE ReadResponse(rep, out)

Answers(r) ==
    {e \in Results :
        \/ /\ r.pc = "wire" /\ r.base \notin Down
           /\ \E rep \in Refusals(r.tk) : e = ReadReply(r.op, rep, FALSE)
        \/ /\ r.pc = "served"
           /\ \E rep \in ServedReplies(r.op), out \in BOOLEAN :
                 e = ReadReply(r.op, rep, out)}

Receive(c) ==
    /\ \E e \in Answers(call[c]) :
          /\ Goto(c, AfterReply(call[c], e))
          /\ hist' = [hist EXCEPT ![c] = NoteReply(hist[c], call[c], e)]
    /\ UNCHANGED <<current, credVars, pveVars>>

(***************************************************************************)
(* http.Do returns an error: the request or its reply was lost (a failed   *)
(* dial, a timeout), or the caller's context ended.                        *)
(***************************************************************************)
Lose(c) ==
    /\ call[c].pc \in {"wire", "served"}
    /\ Goto(c, AfterTransient(call[c]))
    /\ hist' = [hist EXCEPT ![c] = NoteReply(hist[c], call[c], "transient")]
    /\ UNCHANGED <<current, credVars, pveVars>>

GiveUp(c) ==
    /\ call[c].pc \in {"send", "wire", "served"}
    /\ call[c].cancelled
    /\ Goto(c, AfterTransient(call[c]))
    /\ UNCHANGED <<hist, current, credVars, pveVars>>

-----------------------------------------------------------------------------
(***************************************************************************)
(* wait: the delay passed, or the context ended; the loop head tells which.*)
(***************************************************************************)
Backoff(c) ==
    /\ call[c].pc = "backoff"
    /\ Goto(c, [call[c] EXCEPT !.pc = "attempt", !.attempt = @ + 1])
    /\ UNCHANGED <<hist, current, credVars, pveVars>>

(***************************************************************************)
(* failover and what execute makes of its answer.  The ring advances from  *)
(* where it is now, which need not be the endpoint this call gave up on.   *)
(***************************************************************************)
Rotate(c) ==
    /\ call[c].pc = "rotate"
    /\ Failover
    /\ Goto(c, IF ~ CanFailover
               THEN AfterExecute(call[c], call[c].err)
               ELSE IF call[c].ep + 1 < EndpointCount
               THEN [call[c] EXCEPT !.pc = "top", !.ep = @ + 1]
               ELSE AfterExecute(call[c], "exhausted"))
    /\ UNCHANGED <<hist, credVars, pveVars>>

(***************************************************************************)
(* The caller's context ends while its call is in progress.                *)
(***************************************************************************)
Cancel(c) ==
    /\ call[c].pc \in Active
    /\ ~ call[c].cancelled
    /\ Goto(c, [call[c] EXCEPT !.cancelled = TRUE])
    /\ UNCHANGED <<hist, current, credVars, pveVars>>

(***************************************************************************)
(* The steps a call makes once it has begun.                               *)
(***************************************************************************)
Step(c) ==
    \/ RefreshNotNeeded(c) \/ RefreshLock(c)
    \/ MintSend(c) \/ MintIssue(c) \/ MintDone(c) \/ MintFail(c)
    \/ Top(c) \/ SpoolFail(c)
    \/ CtxDone(c) \/ EncodeFail(c) \/ Authorize(c) \/ Send(c)
    \/ Serve(c) \/ Receive(c) \/ Lose(c) \/ GiveUp(c)
    \/ Backoff(c) \/ Rotate(c)

Clock  == Tick /\ UNCHANGED <<call, hist, current, credVars>>
Revokes == Revoke /\ UNCHANGED <<call, hist, current, credVars>>

(***************************************************************************)
(* Every call has returned.                                                *)
(***************************************************************************)
Finished == (\A c \in Calls : call[c].pc = "done") /\ UNCHANGED vars

Next ==
    \/ \E c \in Calls : \/ \E op \in Ops : Call(c, op)
                        \/ Step(c)
                        \/ Cancel(c)
    \/ Clock
    \/ Revokes
    \/ Finished

Spec == Init /\ [][Next]_vars

(***************************************************************************)
(* A call that can move does: locks are granted, and http.Do returns.      *)
(***************************************************************************)
FairSpec == Spec /\ \A c \in Calls : WF_vars(Step(c))

-----------------------------------------------------------------------------
TypeOK ==
    /\ call \in [Calls -> CallRecord]
    /\ hist \in [Calls -> HistRecord]
    /\ current \in Endpoints
    /\ now \in Nat
    /\ ticket \in Nat /\ csrf \in Nat /\ expiry \in Nat
    /\ mintMu \in Calls \cup {NoCall}
    /\ issued \in Seq(Nat)
    /\ revoked \in SUBSET Nat
    /\ checked \in [Calls -> Nat]
    /\ DOMAIN arrived \subseteq Nat
    /\ \A t \in DOMAIN arrived : arrived[t] \in Nat

(***************************************************************************)
(* An operation that reports success was carried out by PVE at least once: *)
(* no path through refresh, retry, failover and replay swallows a failure  *)
(* (DoRequest, DoUpload: a nil error; DoWebSocket: a stream).              *)
(***************************************************************************)
SuccessMeansServed ==
    \A c \in Calls :
        call[c].res \in {"nil", "stream"} => hist[c].applied >= 1

(***************************************************************************)
(* A request never carries a CSRF token older than its ticket, though      *)
(* authorize and csrfToken read them under separate acquisitions of        *)
(* inner.mu, and never an empty ticket.                                    *)
(***************************************************************************)
CsrfNotOlder ==
    \A c \in Calls :
        /\ call[c].pc \in {"wire", "served"}
        /\ CredKind # "token"
        => /\ call[c].tk > 0
           /\ call[c].op \in {"write", "upload"} => call[c].cs >= call[c].tk

(***************************************************************************)
(* With credentials that can mint, a call never sends again a ticket PVE   *)
(* has told it is expired: the forced refresh took effect before execute   *)
(* ran again.                                                              *)
(***************************************************************************)
RejectedNeverResent ==
    \A c \in Calls :
        call[c].pc \in {"wire", "served"} /\ CredKind = "user"
        => call[c].tk \notin hist[c].rejected

(***************************************************************************)
(* DoRequest surfaces ErrTicketExpired only after it has replayed: PVE     *)
(* rejected two requests, and two different tickets if a new one could be  *)
(* minted.                                                                 *)
(***************************************************************************)
ExpiredOnlyAfterReplay ==
    \A c \in Calls :
        call[c].res = "ticketExpired" /\ call[c].op \in Looped
        => /\ hist[c].sends >= 2
           /\ CredKind = "user" => Cardinality(hist[c].rejected) = 2

(***************************************************************************)
(* However refresh, retry, failover and replay nest, DoRequest sends at    *)
(* most Attempts requests per endpoint and execute, and executes twice;    *)
(* DoUpload and DoWebSocket send one request.                              *)
(***************************************************************************)
SendBudget ==
    \A c \in Calls :
        hist[c].sends <= IF call[c].op \in OneShot
                         THEN 1 ELSE 2 * EndpointCount * Attempts

(***************************************************************************)
(* What ticketSkew is for: PVE never finds a request too old because the   *)
(* client misjudged its ticket.  With credentials that can mint, a request *)
(* on the wire carries a ticket that PVE has not let expire, whichever     *)
(* call minted it and however often it was replaced since the call looked, *)
(* as long as the time since that look (needsRefresh, or its own mint) and *)
(* the delay of the reply that brought the ticket stay within the skew.    *)
(***************************************************************************)
PromptRequestUnexpired ==
    \A c \in Calls :
        LET t == call[c].tk
        IN  /\ CredKind = "user"
            /\ call[c].pc = "wire"
            /\ (now - checked[c]) + (arrived[t] - issued[t]) <= Skew
            => now <= issued[t] + Lifetime

(***************************************************************************)
(* A DoRequest whose caller is still waiting fails as transient only after *)
(* every endpoint of the cluster failed to answer it.                      *)
(***************************************************************************)
TransientTriedAll ==
    \A c \in Calls :
        /\ call[c].res \in {"transient", "exhausted"}
        /\ call[c].op \in {"read", "write"}
        /\ ~ call[c].cancelled
        => hist[c].failed = Endpoints

(***************************************************************************)
(* The live ticket only ever moves forward: a slow reply to an old mint    *)
(* never overwrites the ticket of a newer one.                             *)
(***************************************************************************)
TicketNeverOlder == [][ticket' >= ticket]_<<ticket>>

(***************************************************************************)
(* A refresh that is not forced replaces only a ticket that needs it, even *)
(* when the call waited for mintMu while another call minted.              *)
(***************************************************************************)
MintOnlyWhenNeeded ==
    [][ticket' # ticket => NeedsRefresh \/ call[mintMu].forced]_vars

(***************************************************************************)
(* An operation PVE has no way to recognise as a repeat is carried out at  *)
(* most once (docs/design/0001: no auto-retry of non-idempotent writes     *)
(* when the outcome is unknown).                                           *)
(***************************************************************************)
WriteAppliedOnce ==
    \A c \in Calls : call[c].op \in {"write", "upload"} => hist[c].applied <= 1

(***************************************************************************)
(* DoWebSocket returns a stream or an error (websocket.go: "Any other      *)
(* status is classified as an error").                                     *)
(***************************************************************************)
WebSocketNilNever ==
    \A c \in Calls : call[c].op = "websocket" => call[c].res # "nil"

(***************************************************************************)
(* Every operation that begins returns: no call is left behind on mintMu,  *)
(* in a retry loop or between endpoints.                                   *)
(***************************************************************************)
EveryCallReturns ==
    \A c \in Calls : call[c].pc \in Active ~> call[c].pc = "done"

-----------------------------------------------------------------------------
(***************************************************************************)
(* The transport implements Operation.                                     *)
(***************************************************************************)
PhaseOf(p) == CASE p = "idle" -> "idle"
                [] p = "done" -> "done"
                [] OTHER      -> "active"

AsOperation == INSTANCE Operation WITH
    Callers   <- Calls,
    Kinds     <- Looped \cup OneShot,
    Single    <- OneShot,
    Results   <- Results,
    Successes <- {"nil", "stream"},
    phase     <- [c \in Calls |-> PhaseOf(call[c].pc)],
    kind      <- [c \in Calls |-> call[c].op],
    applied   <- [c \in Calls |-> hist[c].applied],
    result    <- [c \in Calls |-> call[c].res]

(***************************************************************************)
(* Every behaviour of the transport is one Operation allows: DoRequest is  *)
(* at-least-once on success, DoUpload and DoWebSocket are at-most-once,    *)
(* and PVE carries nothing out for a call that has returned.               *)
(***************************************************************************)
ImplementsOperation == AsOperation!OpSpec
=============================================================================
