------------------------------ MODULE Services ------------------------------
(***************************************************************************)
(* Clients of the SDK (proxmox.NewClient and its typed services) and the   *)
(* server they call.  A call checks its arguments and the release that the *)
(* client found when it was made, sends a form, is delivered any number of *)
(* times up to MaxSends because the transport sends again what it has no   *)
(* answer to, perhaps at another endpoint, and returns what it makes of the*)
(* answer.                                                                 *)
(*                                                                         *)
(* A behaviour is about one family of state: those of MockConfig, served to*)
(* anyone, and four with clients of their own: reading and changing        *)
(* storage.cfg ("datastores"), every method with every mistake in its      *)
(* arguments ("methods"), the methods that need a release ("gates"), and   *)
(* consoles.                                                               *)
(***************************************************************************)
EXTENDS MockConfig

CONSTANTS Clients,
          Endpoints,    \* the cluster's nodes that a client knows
          MaxSends,     \* bound: deliveries of one call
          MaxRelease    \* bound: the newest release, n is 9.n

ASSUME ServicesAssumption ==
  /\ Clients # {} /\ Endpoints # {}
  /\ MaxSends \in Nat \ {0}
  /\ MaxRelease \in Nat

VARIABLES release,      \* what each endpoint runs
          client,       \* the clients' capabilities, transports and results
          call          \* the call that a client has under way

servicesVars == <<st, family, release, client, call>>

M == INSTANCE Methods

\* A release before 9.0.
MinRelease == -1

ClientFamilies == {{"datastores"}, {"methods"}, {"gates"}, {"consoles"}}

\* Two clients race for storage.cfg; for the rest one is enough.
Callers == IF family = {"datastores"} THEN Clients ELSE {CHOOSE c \in Clients : TRUE}

NoCall == [pc |-> "idle", q |-> [op |-> "none"], sends |-> 0, reply |-> "",
           read |-> << >>, served |-> << >>]

\* A call's way from the client to the server and back.
Sent(q) == [NoCall EXCEPT !.pc = "sent", !.q = q, !.sends = 1]

Returned(c, update) == /\ call' = [call EXCEPT ![c] = NoCall]
                       /\ client' = [client EXCEPT ![c] = update]

-----------------------------------------------------------------------------
(* The client and its capabilities.  The snapshot is taken once, from the  *)
(* endpoint that answered, and every service carries a copy of it.         *)

\* The credential of a client that logs in; the other one is APIToken.
User == "root@pam"

Unmade == [made |-> FALSE, active |-> CHOOSE e \in Endpoints : TRUE, from |-> {},
           caps |-> MinRelease, seen |-> [digest |-> 0, stores |-> << >>], tickets |-> {},
           user |-> User]

MeetsMinimum(r) == r >= 0

\* Capabilities.Require.
RequireLoosely(caps, since) == caps + 1 >= since
Require(caps, since) == caps >= since

\* NewClient: whatever endpoint the transport gets an answer from.
NewClient(c) ==
  /\ family = {"gates"} /\ c \in Callers
  /\ ~client[c].made
  /\ \E e \in Endpoints :
       /\ MeetsMinimum(release[e])
       /\ client' = [client EXCEPT ![c] = [@ EXCEPT !.made = TRUE, !.active = e,
                                                   !.from = {e}, !.caps = release[e]]]
  /\ UNCHANGED <<st, family, release, call>>

\* An administrator upgrades a node; nobody downgrades one.
Upgrade(e) ==
  /\ family = {"gates"}
  /\ release[e] < MaxRelease
  /\ release' = [release EXCEPT ![e] = @ + 1]
  /\ UNCHANGED <<st, family, client, call>>

-----------------------------------------------------------------------------
(* Calls of the methods in the tables.                                     *)

\* A caller's arguments: which of the checked ones are given, whether the spec
\* is nil, and a key that Extra sets to nothing.
Arguments(m) ==
  [given : SUBSET m.checked, spec : IF m.spec THEN BOOLEAN ELSE {TRUE},
   blanked : IF m.spec THEN {{}} \union {{k} : k \in m.form \union m.filled} ELSE {{}}]

Unsupported(c, m) == ~Require(client[c].caps, m.since)

Refuses(c, m, a) == Unsupported(c, m) \/ ~a.spec \/ a.given # m.checked

\* A method sends its form, or returns without sending anything.
Invoke(c) ==
  /\ family \in {{"methods"}, {"gates"}} /\ c \in Callers
  /\ client[c].made /\ call[c].pc = "idle"
  /\ \E svc \in DOMAIN M!Service : \E name \in DOMAIN M!Service[svc] :
       LET m == M!Service[svc][name]
       IN  /\ family = {"gates"} => m.since > 0
           /\ \E a \in Arguments(m) :
                call' = [call EXCEPT ![c] =
                  IF Refuses(c, m, a) THEN NoCall
                  ELSE Sent([op |-> "Call", svc |-> svc, name |-> name, since |-> m.since,
                             blanked |-> a.blanked,
                             form |-> M!EncodeWithExtra(m, a.blanked)])]
  /\ UNCHANGED <<st, family, release, client>>

-----------------------------------------------------------------------------
(* Calls that read and change storage.cfg, and calls for consoles.         *)

\* GetDatastore and ListDatastores bring the digest that UpdateDatastore may
\* carry; without one (0) the update is not guarded.
StoreCalls(c) ==
  LET id == CHOOSE n \in Names : TRUE
      form == [f \in Fields |-> IF f = "first" THEN 1 ELSE Empty]
  IN  {[op |-> "DatastoreGet"], [op |-> "DatastoreDelete", id |-> id],
       [op |-> "DatastoreCreate", id |-> id, zfs |-> FALSE, form |-> form]}
      \union [op : {"DatastoreUpdate"}, id : {id}, digest : {0, client[c].seen.digest},
              fixed : {FALSE}, delete : {{}, {"first"}}, form : {form, Cleared(form, Fields)}]

\* A shell has no guest.
Surfaces == [node : Names, kind : {""}, vmid : {0}]
            \union [node : Names, kind : {"qemu", "lxc"}, vmid : {1}]

\* MintVNCTicket notes the guest in the ticket; MintNodeVNC has none to note,
\* and a ticket that the caller rebuilt from its public fields has lost it.
VNCTicket(surface, kept) ==
  [ticket |-> surface, kind |-> IF kept THEN surface.kind ELSE "",
   vmid |-> IF kept THEN surface.vmid ELSE 0]

\* vncWebSocketPath.
vncWebSocketPathOfNode(node, t) == Surface(node, "", 0)
vncWebSocketPath(node, t) ==
  IF t.kind # "" THEN Surface(node, t.kind, t.vmid) ELSE Surface(node, "", 0)

ConsoleCalls(c) ==
  [op : {"Login"}, user : {client[c].user} \ {APIToken}, right : BOOLEAN]
  \union [op : {"Mint"}, user : {client[c].user}, surface : Surfaces]
  \union {[op |-> "Dial", user |-> client[c].user, ticket |-> t.ticket, node |-> node, held |-> t,
           path |-> vncWebSocketPath(node, t)] : t \in client[c].tickets, node \in Names}

Ask(c) ==
  /\ c \in Callers /\ call[c].pc = "idle"
  /\ \E q \in CASE family = {"datastores"} -> StoreCalls(c)
                [] family = {"consoles"}   -> ConsoleCalls(c)
                [] OTHER                   -> {} :
       call' = [call EXCEPT ![c] = Sent(q)]
  /\ UNCHANGED <<st, family, release, client>>

-----------------------------------------------------------------------------
(* The transport and the server.                                           *)

\* A handler that the release does not have is no route at all.
Outcome(c, q) ==
  IF q.op # "Call" THEN Handle(st, q)
  ELSE [st |-> st, reply |-> IF release[client[c].active] < q.since THEN "no route"
                             ELSE M!Answer(q.svc, q.name, q.form)]

Accepted == {"ok", "null", "upid"}

\* What a later question about an accepted delivery is about.
Witness(c) == IF family = {"gates"}
              THEN [at |-> client[c].active, runs |-> release[client[c].active]]
              ELSE st.stores

Deliver(c) ==
  /\ call[c].pc = "sent"
  /\ LET out == Outcome(c, call[c].q)
     IN  /\ st' = out.st
         /\ call' = [call EXCEPT ![c] =
              [@ EXCEPT !.pc = "answered", !.reply = out.reply,
                        !.read = [digest |-> st.version, stores |-> st.stores],
                        !.served = IF out.reply \in Accepted \union {"no route"}
                                   THEN Append(call[c].served, Witness(c))
                                   ELSE call[c].served]]
  /\ Small(st')
  /\ UNCHANGED <<family, release, client>>

\* A request or its answer is lost and the transport sends again, with the next
\* endpoint if it has given up this one.  The endpoints of a cluster share its
\* configuration, so which one it is matters to the gates only.
Resend(c) ==
  /\ call[c].pc \in {"sent", "answered"} /\ call[c].q.op # "Dial"
  /\ call[c].sends < MaxSends
  /\ call' = [call EXCEPT ![c].pc = "sent", ![c].reply = "", ![c].sends = @ + 1]
  /\ \E e \in IF family = {"gates"} THEN Endpoints ELSE {client[c].active} :
       client' = [client EXCEPT ![c].active = e]
  /\ UNCHANGED <<st, family, release>>

\* ... or gives up.  DoWebSocket sends once.
GiveUp(c) ==
  /\ call[c].pc \in {"sent", "answered"}
  /\ call[c].sends = MaxSends \/ call[c].q.op = "Dial"
  /\ Returned(c, client[c])
  /\ UNCHANGED <<st, family, release>>

\* The answer arrives and is decoded.
Receive(c) ==
  /\ call[c].pc = "answered"
  /\ LET q == call[c].q
         k == client[c]
     IN  Returned(c,
           CASE call[c].reply = "ok" /\ q.op = "DatastoreGet" ->
                  [k EXCEPT !.seen = call[c].read]
             [] call[c].reply = "ok" /\ q.op = "Mint" ->
                  [k EXCEPT !.tickets = @ \union {VNCTicket(q.surface, TRUE),
                                                  VNCTicket(q.surface, FALSE)}]
             [] OTHER -> k)
  /\ UNCHANGED <<st, family, release>>

-----------------------------------------------------------------------------
Made(r, user) == [Unmade EXCEPT !.made = TRUE, !.caps = r, !.user = user]

\* Only the consoles look at the credential.
Identities == IF family = {"consoles"} THEN {User, APIToken} ELSE {User}

Init ==
  /\ call = [c \in Clients |-> NoCall]
  /\ \/ /\ ServerInit
        /\ release = [e \in Endpoints |-> MaxRelease]
        /\ client = [c \in Clients |-> Made(MaxRelease, User)]
     \/ /\ family \in ClientFamilies
        /\ st = Seeded(<< >>, File(None, << >>))
        /\ \/ /\ family = {"gates"}
              /\ release \in [Endpoints -> MinRelease..MaxRelease]
              /\ client = [c \in Clients |-> Unmade]
           \/ /\ family # {"gates"}
              /\ release = [e \in Endpoints |-> MaxRelease]
              /\ \E user \in Identities :
                    client = [c \in Clients |-> Made(MaxRelease, user)]

ServeAnyone == Serve /\ UNCHANGED <<release, client, call>>

Next == \/ ServeAnyone
        \/ \E e \in Endpoints : Upgrade(e)
        \/ \E c \in Clients : \/ NewClient(c) \/ Invoke(c) \/ Ask(c)
                              \/ Deliver(c) \/ Resend(c) \/ GiveUp(c) \/ Receive(c)

Spec == Init /\ [][Next]_servicesVars

-----------------------------------------------------------------------------
\* A guarded update changes the file at most once however often it is sent, and
\* changes the file its client read: whoever wrote in between, and however the
\* answers were lost, the digest refuses every other delivery
\* (DatastoreUpdate.Digest).
GuardedAppliedOnce ==
  \A c \in Clients :
    LET q == call[c].q
    IN  /\ q.op = "DatastoreUpdate" /\ call[c].pc # "idle"
        /\ q.digest # 0
        => /\ Len(call[c].served) <= 1
           /\ \A i \in DOMAIN call[c].served :
                call[c].served[i] = client[c].seen.stores

\* A method that needs a release reaches a node without it only after the
\* transport has moved away from the endpoint the capabilities came from: that
\* endpoint can have been upgraded since, which only adds to what it has.
GateHolds ==
  family = {"gates"} =>
    \A c \in Clients : \A i \in DOMAIN call[c].served :
      call[c].served[i].runs < call[c].q.since
      => call[c].served[i].at \notin client[c].from

\* What a method sends after its own checks is never refused for a missing key
\* unless the caller's Extra took that key away, and what a handler answers is
\* what the method decodes: a UPID wherever TaskRef needs one.  A console opens
\* on the surface its ticket was made for and nowhere else, and a ticket as it
\* was minted does open at its node; one that the caller rebuilt from its
\* public fields opens a shell only.
CallsFit ==
  \A c \in Clients :
    LET q == call[c].q IN
    /\ call[c].pc = "answered" /\ q.op = "Call" =>
          /\ call[c].reply = "bad request" => q.blanked # {}
          /\ call[c].reply \in {"upid", "null"} =>
               M!TaskRef(M!Service[q.svc][q.name], call[c].reply) = "ok"
    /\ call[c].pc = "answered" /\ q.op = "Dial" =>
          /\ call[c].reply = "ok" => q.path = q.ticket
          /\ q.node = q.ticket.node /\ q.held = VNCTicket(q.ticket, TRUE)
             => call[c].reply = "ok"
=============================================================================
