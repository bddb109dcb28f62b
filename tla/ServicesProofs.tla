--------------------------- MODULE ServicesProofs ---------------------------
(***************************************************************************)
(* What the server and its clients keep, for any number of clients,        *)
(* endpoints, releases and deliveries of a call, and any names.            *)
(***************************************************************************)
EXTENDS Services, SequenceTheorems, FiniteSetTheorems, WellFoundedInduction, TLAPS

-----------------------------------------------------------------------------
(* The inductive invariant.                                                *)

ServerFields ==
  {"recs", "roles", "acls", "jobs", "seq", "rules", "ipsets", "stores", "version",
   "armed", "mode", "clustered", "members", "joinQueue", "certs", "config",
   "datacenter", "sessions", "vncTickets", "repos"}

StateOK(s) == /\ DOMAIN s = ServerFields
              /\ DOMAIN s.recs = Kinds
              /\ s.version \in Nat

ClientTypes ==
  /\ DOMAIN call = Clients /\ DOMAIN client = Clients
  /\ \A c \in Clients :
       /\ DOMAIN call[c] = {"pc", "q", "sends", "reply", "read", "served"}
       /\ call[c].pc \in {"idle", "sent", "answered"}
       /\ DOMAIN client[c] = {"made", "active", "from", "caps", "seen", "tickets", "user"}

\* What is asked is what this behaviour's clients ask.
StoreOps   == {"DatastoreGet", "DatastoreCreate", "DatastoreUpdate", "DatastoreDelete"}
ConsoleOps == {"Login", "Mint", "Dial"}

Asked(op) == \/ family = {"datastores"} /\ op \in StoreOps
             \/ family = {"consoles"} /\ op \in ConsoleOps
             \/ family \in {{"methods"}, {"gates"}} /\ op = "Call"

OpsFit == \A c \in Clients : call[c].pc # "idle" => Asked(call[c].q.op)

\* A digest stands for one content of the file: what was read with the current
\* digest is what is there.
Matching(r) == /\ r.digest \in Nat
               /\ r.digest <= st.version
               /\ r.digest = st.version => r.stores = st.stores

\* A guarded update has been accepted of the file its client read, once, and
\* the digest has gone on since; or not at all.
GuardedOnce(c) ==
  \/ call[c].served = << >>
  \/ /\ call[c].served = <<client[c].seen.stores>>
     /\ call[c].q.digest < st.version

Stored(c) ==
  /\ Matching(client[c].seen)
  /\ call[c].pc = "answered" => Matching(call[c].read)
  /\ call[c].pc # "idle" /\ call[c].q.op = "DatastoreUpdate" =>
       /\ call[c].q.digest \in {0, client[c].seen.digest}
       /\ call[c].q.digest # 0 => GuardedOnce(c)

StoreInv == family = {"datastores"} => \A c \in Clients : Stored(c)

\* The endpoint that the capabilities came from has all of them still, and a
\* call under way needs no more than they allow.
Witnesses == [at : Endpoints, runs : Int]

Gated(c) ==
  /\ client[c].active \in Endpoints /\ client[c].caps \in Int
  /\ client[c].from \subseteq Endpoints
  /\ client[c].from # {} => client[c].made
  /\ \A e \in client[c].from : client[c].caps <= release[e]
  /\ call[c].pc # "idle" =>
       client[c].made /\ call[c].q.since \in Nat /\ call[c].q.since <= client[c].caps

Reached(c) ==
  /\ call[c].pc = "idle" => call[c].served = << >>
  /\ call[c].served \in Seq(Witnesses)
  /\ \A i \in DOMAIN call[c].served :
       call[c].served[i].runs < call[c].q.since => call[c].served[i].at \notin client[c].from

GateInv ==
  family = {"gates"} => /\ release \in [Endpoints -> Int]
                        /\ \A c \in Clients : Gated(c) /\ Reached(c)

ServicesInv == /\ StateOK(st)
               /\ ClientTypes
               /\ OpsFit
               /\ StoreInv
               /\ GateInv
               /\ NoOrphanedNodes

-----------------------------------------------------------------------------
(* What the handlers leave alone.                                          *)

RecordOps == {"create", "update", "delete", "TokenUpdate", "PluginUpdate"}

OtherOps ==
  {"RoleCreate", "RoleUpdate", "RoleDelete", "ACLSet", "JobCreate", "JobUpdate",
   "JobDelete", "RuleCreate", "RuleUpdate", "RuleDelete", "IPSetCreate", "IPSetRename",
   "IPSetDelete", "EntryAdd", "EntryDelete", "HAArm", "HADisarm", "ClusterCreate",
   "ClusterJoin", "CertUpload", "CertDelete", "CertACME", "NodeConfigSet", "OptionsSet",
   "RepoUpdate", "DatastoreGet", "Login", "Mint", "Dial"}

WritingOps == {"DatastoreCreate", "DatastoreUpdate", "DatastoreDelete"}

\* A handler that is neither about records nor about storage.cfg leaves both.
Leaves(s, t) == /\ DOMAIN t = ServerFields
                /\ t.recs = s.recs /\ t.version = s.version /\ t.stores = s.stores

\* An answer carries the state it is given.
LEMMA Answered ==
  \A t : /\ Done(t).st = t /\ NotFound(t).st = t
         /\ BadRequest(t).st = t /\ Denied(t).st = t
BY DEF Done, NotFound, BadRequest, Denied

\* Every handler but those of records and of storage.cfg leaves both alone.
LEMMA OthersLeave ==
  ASSUME NEW s, StateOK(s), NEW q, q.op \in OtherOps
  PROVE  Leaves(s, Handle(s, q).st)
<1> USE Answered DEF StateOK, ServerFields, Leaves
<1>1. CASE q.op = "RoleCreate"
  <2>1. Handle(s, q) = RoleCreate(s, q) BY <1>1 DEF Handle
  <2> QED BY <2>1 DEF RoleCreate
<1>2. CASE q.op = "RoleUpdate"
  <2>1. Handle(s, q) = RoleUpdate(s, q) BY <1>2 DEF Handle
  <2> QED BY <2>1 DEF RoleUpdate
<1>3. CASE q.op = "RoleDelete"
  <2>1. Handle(s, q) = RoleDelete(s, q) BY <1>3 DEF Handle
  <2> QED BY <2>1 DEF RoleDelete
<1>4. CASE q.op = "ACLSet"
  <2>1. Handle(s, q) = ACLSet(s, q) BY <1>4 DEF Handle
  <2> QED BY <2>1 DEF ACLSet
<1>5. CASE q.op = "JobCreate"
  <2>1. Handle(s, q) = JobCreate(s, q) BY <1>5 DEF Handle
  <2> DEFINE n == IF q.id = 0 THEN s.seq + 1 ELSE s.seq
             first == [s EXCEPT !.seq = n]
  <2>2. Leaves(s, first) OBVIOUS
  <2> DEFINE second == [first EXCEPT !.jobs = Put(s.jobs, IF q.id = 0 THEN n ELSE q.id, q.form)]
  <2> HIDE DEF first, n
  <2>3. Leaves(s, second) BY <2>2
  <2> HIDE DEF second
  <2>4. JobCreate(s, q) \in {Done(second)}
    BY DEF JobCreate, second, first, n
  <2> QED BY <2>1, <2>3, <2>4
<1>6. CASE q.op = "JobUpdate"
  <2>1. Handle(s, q) = JobUpdate(s, q) BY <1>6 DEF Handle
  <2> QED BY <2>1 DEF JobUpdate
<1>7. CASE q.op = "JobDelete"
  <2>1. Handle(s, q) = JobDelete(s, q) BY <1>7 DEF Handle
  <2> QED BY <2>1 DEF JobDelete
<1>8. CASE q.op = "RuleCreate"
  <2>1. Handle(s, q) = RuleCreate(s, q) BY <1>8 DEF Handle
  <2> QED BY <2>1 DEF RuleCreate
<1>9. CASE q.op = "RuleUpdate"
  <2>1. Handle(s, q) = RuleUpdate(s, q) BY <1>9 DEF Handle
  <2> QED BY <2>1 DEF RuleUpdate
<1>10. CASE q.op = "RuleDelete"
  <2>1. Handle(s, q) = RuleDelete(s, q) BY <1>10 DEF Handle
  <2> QED BY <2>1 DEF RuleDelete
<1>11. CASE q.op = "IPSetCreate"
  <2>1. Handle(s, q) = IPSetCreate(s, q) BY <1>11 DEF Handle
  <2> QED BY <2>1 DEF IPSetCreate
<1>12. CASE q.op = "IPSetRename"
  <2>1. Handle(s, q) = IPSetRename(s, q) BY <1>12 DEF Handle
  <2> QED BY <2>1 DEF IPSetRename
<1>13. CASE q.op = "IPSetDelete"
  <2>1. Handle(s, q) = IPSetDelete(s, q) BY <1>13 DEF Handle
  <2> QED BY <2>1 DEF IPSetDelete
<1>14. CASE q.op = "EntryAdd"
  <2>1. Handle(s, q) = EntryAdd(s, q) BY <1>14 DEF Handle
  <2> QED BY <2>1 DEF EntryAdd
<1>15. CASE q.op = "EntryDelete"
  <2>1. Handle(s, q) = EntryDelete(s, q) BY <1>15 DEF Handle
  <2> QED BY <2>1 DEF EntryDelete
<1>16. CASE q.op = "HAArm"
  <2>1. Handle(s, q) = HAArm(s, q) BY <1>16 DEF Handle
  <2> DEFINE first == [s EXCEPT !.armed = TRUE]
  <2>2. Leaves(s, first) OBVIOUS
  <2> DEFINE second == [first EXCEPT !.mode = ""]
  <2> HIDE DEF first
  <2>3. Leaves(s, second) BY <2>2
  <2> HIDE DEF second
  <2>4. HAArm(s, q) \in {Done(second)}
    BY DEF HAArm, second, first
  <2> QED BY <2>1, <2>3, <2>4
<1>17. CASE q.op = "HADisarm"
  <2>1. Handle(s, q) = HADisarm(s, q) BY <1>17 DEF Handle
  <2> DEFINE first == [s EXCEPT !.armed = FALSE]
  <2>2. Leaves(s, first) OBVIOUS
  <2> DEFINE second == [first EXCEPT !.mode = q.mode]
  <2> HIDE DEF first
  <2>3. Leaves(s, second) BY <2>2
  <2> HIDE DEF second
  <2>4. HADisarm(s, q) \in {BadRequest(s), Done(second)}
    BY DEF HADisarm, second, first
  <2> QED BY <2>1, <2>3, <2>4
<1>18. CASE q.op = "ClusterCreate"
  <2>1. Handle(s, q) = ClusterCreate(s, q) BY <1>18 DEF Handle
  <2> DEFINE first == [s EXCEPT !.clustered = TRUE]
  <2>2. Leaves(s, first) OBVIOUS
  <2> DEFINE second == [first EXCEPT !.members = <<Self>>]
  <2> HIDE DEF first
  <2>3. Leaves(s, second) BY <2>2
  <2> HIDE DEF second
  <2>4. ClusterCreate(s, q) \in {BadRequest(s), Done(second)}
    BY DEF ClusterCreate, second, first
  <2> QED BY <2>1, <2>3, <2>4
<1>19. CASE q.op = "CertUpload"
  <2>1. Handle(s, q) = CertUpload(s, q) BY <1>19 DEF Handle
  <2> QED BY <2>1 DEF CertUpload
<1>20. CASE q.op = "CertDelete"
  <2>1. Handle(s, q) = CertDelete(s, q) BY <1>20 DEF Handle
  <2> QED BY <2>1 DEF CertDelete
<1>21. CASE q.op = "CertACME"
  <2>1. Handle(s, q) = CertACME(s, q) BY <1>21 DEF Handle
  <2> QED BY <2>1 DEF CertACME
<1>22. CASE q.op = "NodeConfigSet"
  <2>1. Handle(s, q) = NodeConfigSet(s, q) BY <1>22 DEF Handle
  <2> QED BY <2>1 DEF NodeConfigSet
<1>23. CASE q.op = "OptionsSet"
  <2>1. Handle(s, q) = OptionsSet(s, q) BY <1>23 DEF Handle
  <2> QED BY <2>1 DEF OptionsSet
<1>24. CASE q.op = "RepoUpdate"
  <2>1. Handle(s, q) = RepoUpdate(s, q) BY <1>24 DEF Handle
  <2> QED BY <2>1 DEF RepoUpdate
<1>25. CASE q.op = "Login"
  <2>1. Handle(s, q) = Login(s, q) BY <1>25 DEF Handle
  <2> QED BY <2>1 DEF Login
<1>26. CASE q.op = "Mint"
  <2>1. Handle(s, q) = Mint(s, q) BY <1>26 DEF Handle
  <2> QED BY <2>1 DEF Mint
<1>27. CASE q.op = "Dial"
  <2>1. Handle(s, q) = Dial(s, q) BY <1>27 DEF Handle
  <2> QED BY <2>1 DEF Dial
<1>28. CASE q.op = "DatastoreGet"
  <2>1. Handle(s, q) = Done(s) BY <1>28 DEF Handle
  <2> QED BY <2>1
<1>29. CASE q.op = "ClusterJoin"
  <2> DEFINE joined == Head(s.joinQueue)
             popped == [s EXCEPT !.joinQueue = Tail(@)]
  <2>1. Handle(s, q) = ClusterJoin(s, q) BY <1>29 DEF Handle
  <2>2. Leaves(s, popped) /\ DOMAIN popped = DOMAIN s OBVIOUS
  <2> DEFINE grown == [popped EXCEPT !.members = Append(@, joined)]
  <2> HIDE DEF popped, joined
  <2>3. Leaves(s, grown) BY <2>2
  <2> HIDE DEF grown
  <2>4. ClusterJoin(s, q) \in {BadRequest(s), BadRequest(popped), Done(grown)}
    BY DEF ClusterJoin, grown, popped, joined
  <2> QED BY <2>1, <2>2, <2>3, <2>4
<1> QED BY <1>1, <1>2, <1>3, <1>4, <1>5, <1>6, <1>7, <1>8, <1>9, <1>10, <1>11, <1>12, <1>13, <1>14,
           <1>15, <1>16, <1>17, <1>18, <1>19, <1>20, <1>21, <1>22, <1>23, <1>24, <1>25, <1>26,
           <1>27, <1>28, <1>29 DEF OtherOps

\* A write of storage.cfg is refused and changes nothing, or is accepted and
\* takes the next digest; a guarded one is accepted of its own digest only.
Refusals == {"not found", "bad request"}

Writes(s, q, out) ==
  \/ out.st = s /\ out.reply \in Refusals
  \/ /\ DOMAIN out.st = ServerFields
     /\ out.st.recs = s.recs /\ out.st.version = s.version + 1
     /\ out.reply = "ok"
     /\ q.op = "DatastoreUpdate" => q.digest \in {0, s.version}

\* handleDatastoreCreate, -Update and -Delete write storage.cfg as said above.
LEMMA DatastoresWrite ==
  ASSUME NEW s, StateOK(s), NEW q, q.op \in WritingOps
  PROVE  Writes(s, q, Handle(s, q))
<1> DEFINE out == Handle(s, q)
           created == [s EXCEPT !.stores = Put(@, q.id, Materialised(q))]
           edited  == [s EXCEPT !.stores[q.id] = Edited(@, q)]
           removed == [s EXCEPT !.stores = Without(@, {q.id})]
<1>1. \A t : /\ Done(t).st = t /\ Done(t).reply = "ok"
             /\ NotFound(t).st = t /\ NotFound(t).reply \in Refusals
             /\ BadRequest(t).st = t /\ BadRequest(t).reply \in Refusals
  BY DEF Done, NotFound, BadRequest, Refusals
<1>2. \A t : DOMAIN t = ServerFields =>
               /\ DOMAIN Bump(t) = ServerFields /\ Bump(t).recs = t.recs
               /\ Bump(t).version = t.version + 1
  BY DEF Bump, ServerFields
<1>3. \A t \in {created, edited, removed} :
        DOMAIN t = ServerFields /\ t.recs = s.recs /\ t.version = s.version
  BY DEF StateOK, ServerFields
<1> HIDE DEF created, edited, removed
<1>4. CASE q.op = "DatastoreCreate"
  <2>1. out = DatastoreCreate(s, q) BY <1>4 DEF Handle
  <2>2. out \in {BadRequest(s), Done(Bump(created))} BY <2>1 DEF DatastoreCreate, created
  <2> QED BY <1>1, <1>2, <1>3, <1>4, <2>2 DEF Writes
<1>5. CASE q.op = "DatastoreDelete"
  <2>1. out = DatastoreDelete(s, q) BY <1>5 DEF Handle
  <2>2. out \in {NotFound(s), Done(Bump(removed))} BY <2>1 DEF DatastoreDelete, removed
  <2> QED BY <1>1, <1>2, <1>3, <1>5, <2>2 DEF Writes
<1>6. CASE q.op = "DatastoreUpdate"
  <2>1. out = DatastoreUpdate(s, q) BY <1>6 DEF Handle
  <2>2. CASE q.fixed
    <3>1. out = BadRequest(s) BY <2>1, <2>2 DEF DatastoreUpdate
    <3> QED BY <1>1, <3>1 DEF Writes
  <2>3. CASE ~q.fixed
    <3>1. \/ out \in {NotFound(s), BadRequest(s)}
          \/ out = Done(Bump(edited)) /\ q.digest \in {0, s.version}
      BY <2>1, <2>3 DEF DatastoreUpdate, edited
    <3> QED BY <1>1, <1>2, <1>3, <1>6, <3>1 DEF Writes
  <2> QED BY <2>2, <2>3
<1> QED BY <1>4, <1>5, <1>6 DEF WritingOps

-----------------------------------------------------------------------------
(* The records.                                                            *)

Parented(s) ==
  \A key \in DOMAIN s.recs["fabricNodes"] : Front(key) \in DOMAIN s.recs["fabrics"]

\* Of the tables, that a fabric's nodes are asked for their fabric.
LEMMA FabricNodesChecked ==
  /\ "fabrics" \in Kinds /\ "fabricNodes" \in Kinds
  /\ Collection["fabricNodes"].parent = "fabrics"
  /\ Collection["fabricNodes"].checked
BY DEF Kinds, Collection, fabricNodes, Under, Plain

\* A handler of records leaves storage.cfg, and no node without its fabric.
KeepsRecords(s, t) == /\ StateOK(t) /\ Parented(t)
                      /\ t.version = s.version /\ t.stores = s.stores

\* Replacing the records is all that such a handler does.
LEMMA RecordsReplaced ==
  ASSUME NEW s, StateOK(s), NEW r, DOMAIN r = Kinds,
         \A key \in DOMAIN r["fabricNodes"] : Front(key) \in DOMAIN r["fabrics"]
  PROVE  KeepsRecords(s, [s EXCEPT !.recs = r])
BY DEF KeepsRecords, StateOK, ServerFields, Parented

\* An update in place keeps the keys, so no node loses its fabric.
LEMMA EditKeeps ==
  ASSUME NEW s, StateOK(s), Parented(s), NEW q, NEW record
  PROVE  KeepsRecords(s, Edit(s, q, record).st)
<1> DEFINE r == [s.recs EXCEPT ![q.kind][q.key] = record]
           t == [s EXCEPT !.recs = r]
<1>1. DOMAIN r = Kinds /\ \A k \in Kinds : DOMAIN r[k] = DOMAIN s.recs[k]
  BY DEF StateOK
<1>2. \A key \in DOMAIN r["fabricNodes"] : Front(key) \in DOMAIN r["fabrics"]
  BY <1>1, FabricNodesChecked DEF Parented
<1>3. KeepsRecords(s, t)
  <2> HIDE DEF r
  <2> QED BY <1>1, <1>2, RecordsReplaced
<1>4. KeepsRecords(s, s)
  BY DEF KeepsRecords
<1>5. t = [s EXCEPT !.recs[q.kind][q.key] = record]
  OBVIOUS
<1> HIDE DEF t
<1>6. Edit(s, q, record) \in {NotFound(s), Done(t)}
  BY <1>5 DEF Edit
<1> QED BY <1>3, <1>4, <1>6, Answered

\* A create of a fabric's node asks for the fabric, and no create removes one.
LEMMA CreateKeeps ==
  ASSUME NEW s, StateOK(s), Parented(s), NEW q, q.kind \in Kinds
  PROVE  KeepsRecords(s, Create(s, q).st)
<1> DEFINE c == Collection[q.kind]
           r == [s.recs EXCEPT ![q.kind] = Put(@, q.key, Created(c, q.form))]
           t == [s EXCEPT !.recs = r]
<1>1. KeepsRecords(s, s)
  BY DEF KeepsRecords
<1>2. CASE c.checked /\ Front(q.key) \notin DOMAIN s.recs[c.parent]
  BY <1>1, <1>2, Answered DEF Create
<1>3. CASE ~(c.checked /\ Front(q.key) \notin DOMAIN s.recs[c.parent])
  <2>1. /\ DOMAIN r = Kinds
        /\ \A k \in Kinds : DOMAIN r[k] = IF k = q.kind THEN DOMAIN s.recs[k] \union {q.key}
                                          ELSE DOMAIN s.recs[k]
    BY DEF StateOK, Put
  <2>2. q.kind = "fabricNodes" => Front(q.key) \in DOMAIN s.recs["fabrics"]
    BY <1>3, FabricNodesChecked
  <2>3. \A key \in DOMAIN r["fabricNodes"] : Front(key) \in DOMAIN r["fabrics"]
    <3> HIDE DEF r
    <3> QED BY <2>1, <2>2, FabricNodesChecked DEF Parented
  <2>4. KeepsRecords(s, t)
    <3> HIDE DEF r
    <3> QED BY <2>1, <2>3, RecordsReplaced
  <2>5. Create(s, q) = Done(t)
    BY <1>3 DEF Create
  <2> HIDE DEF t
  <2> QED BY <2>4, <2>5, Answered
<1> QED BY <1>2, <1>3

\* handleFabricDelete takes the fabric's nodes with it; no other delete takes a fabric.
LEMMA DeleteKeeps ==
  ASSUME NEW s, StateOK(s), Parented(s), NEW q, q.kind \in Kinds
  PROVE  KeepsRecords(s, Delete(s, q).st)
<1> DEFINE r == [k \in Kinds |->
                   IF k = q.kind THEN Without(s.recs[k], {q.key})
                   ELSE IF k = "fabricNodes" THEN Without(s.recs[k], Dragged(s, q.kind, q.key))
                   ELSE s.recs[k]]
           t == [s EXCEPT !.recs = r]
<1>1. KeepsRecords(s, s)
  BY DEF KeepsRecords
<1>2. DOMAIN r = Kinds
  OBVIOUS
<1>3. \A key \in DOMAIN r["fabricNodes"] : Front(key) \in DOMAIN r["fabrics"]
  <2>1. CASE q.kind = "fabrics"
    <3>1. DOMAIN r["fabrics"] = DOMAIN s.recs["fabrics"] \ {q.key}
      BY <2>1, FabricNodesChecked DEF Without
    <3>2. r["fabricNodes"] = Without(s.recs["fabricNodes"], Dragged(s, "fabrics", q.key))
      BY <2>1, FabricNodesChecked
    <3>3. DOMAIN r["fabricNodes"]
            = {key \in DOMAIN s.recs["fabricNodes"] : Front(key) # q.key}
      BY <3>2 DEF Without, Dragged
    <3> QED BY <3>1, <3>3 DEF Parented
  <2>2. CASE q.kind # "fabrics"
    <3>1. r["fabrics"] = s.recs["fabrics"]
      BY <2>2, FabricNodesChecked
    <3>2. DOMAIN r["fabricNodes"] \subseteq DOMAIN s.recs["fabricNodes"]
      BY <2>2, FabricNodesChecked DEF Without
    <3> QED BY <3>1, <3>2 DEF Parented
  <2> QED BY <2>1, <2>2
<1>4. KeepsRecords(s, t)
  <2> HIDE DEF r
  <2> QED BY <1>2, <1>3, RecordsReplaced
<1>5. Delete(s, q) \in {NotFound(s), Done(t)}
  BY DEF Delete
<1> HIDE DEF t
<1> QED BY <1>1, <1>4, <1>5, Answered

\* So every handler of records keeps a fabric for every node.
LEMMA RecordsKept ==
  ASSUME NEW s, StateOK(s), Parented(s), NEW q, q.op \in RecordOps, q.kind \in Kinds
  PROVE  KeepsRecords(s, Handle(s, q).st)
<1>1. CASE q.op = "create"
  BY <1>1, CreateKeeps DEF Handle
<1>2. CASE q.op = "delete"
  BY <1>2, DeleteKeeps DEF Handle
<1>3. CASE q.op = "update"
  <2>1. Handle(s, q) = Update(s, q) BY <1>3 DEF Handle
  <2> QED BY <2>1, EditKeeps DEF Update
<1>4. CASE q.op = "TokenUpdate"
  <2>1. Handle(s, q) = TokenUpdate(s, q) BY <1>4 DEF Handle
  <2> QED BY <2>1, EditKeeps DEF TokenUpdate
<1>5. CASE q.op = "PluginUpdate"
  <2>1. Handle(s, q) = PluginUpdate(s, q) BY <1>5 DEF Handle
  <2>2. CASE q.stale /\ q.key \in DOMAIN s.recs[q.kind]
    BY <2>1, <2>2, Answered DEF PluginUpdate, KeepsRecords
  <2>3. CASE ~(q.stale /\ q.key \in DOMAIN s.recs[q.kind])
    BY <2>1, <2>3, EditKeeps DEF PluginUpdate
  <2> QED BY <2>2, <2>3
<1> QED BY <1>1, <1>2, <1>3, <1>4, <1>5 DEF RecordOps

-----------------------------------------------------------------------------
(* Requests of anyone's.                                                   *)

\* A request about records has a handler of records and names their collection.
LEMMA CollectionRouted ==
  ASSUME NEW q \in CollectionRequests
  PROVE  q.op \in RecordOps /\ q.kind \in Kinds
<1> DEFINE all == {"create", "update", "delete"}
<1>1. \A k \in Kinds : Collection[k].ops \subseteq all
  <2>1. /\ Plain.ops = all /\ Typed.ops = all
        /\ \A parent, checked : Under(parent, checked).ops = all
    BY DEF Plain, Typed, Under
  <2>2. /\ zones.ops = all /\ vnets.ops = all /\ subnets.ops = all /\ fabrics.ops = all
        /\ haRules.ops = all /\ users.ops = all /\ groups.ops = all
        /\ servers.ops = all /\ acmeAccounts.ops = all /\ netIfaces.ops = all
    BY <2>1 DEF zones, vnets, subnets, fabrics, haRules, users, groups, servers,
                acmeAccounts, netIfaces
  <2>3. fabricNodes.ops = all /\ repl.ops = all /\ resources.ops = all
    BY DEF fabricNodes, repl, resources, Plain, Typed, Under
  <2>4. /\ pools.ops \subseteq all /\ zfsPools.ops \subseteq all
        /\ options.ops \subseteq all /\ tokens.ops \subseteq all
        /\ acmePlugins.ops \subseteq all
    BY DEF pools, zfsPools, options, tokens, acmePlugins, Plain, Under
  <2> HIDE DEF all
  <2> QED BY <2>2, <2>3, <2>4 DEF Kinds, Collection
<1>2. "tokens" \in Kinds /\ "acmePlugins" \in Kinds
  BY DEF Kinds, Collection
<1>3. \A k \in Kinds :
        q \in {[op |-> op, kind |-> k, key |-> key, form |-> form] :
                op \in Collection[k].ops, key \in Keys(k), form \in Form}
        => q.op \in all /\ q.kind = k
  BY <1>1
<1> DEFINE made(k) == {[op |-> op, kind |-> k, key |-> key, form |-> form] :
                         op \in Collection[k].ops, key \in Keys(k), form \in Form}
           ofTokens  == [op : {"TokenUpdate"}, kind : {"tokens"}, key : Keys("tokens"),
                         form : Form, comment : BOOLEAN, regenerate : BOOLEAN]
           ofPlugins == [op : {"PluginUpdate"}, kind : {"acmePlugins"},
                         key : Keys("acmePlugins"), form : Form, stale : BOOLEAN,
                         delete : SUBSET Fields]
           ofKinds   == UNION {made(k) : k \in family \intersect Kinds}
<1>4. q \in ofTokens \union ofPlugins => q.op \in RecordOps /\ q.kind \in Kinds
  BY <1>2 DEF RecordOps
<1>5. all \subseteq RecordOps
  BY DEF RecordOps
<1>6. ASSUME NEW k \in Kinds, q \in made(k)
      PROVE  q.op \in RecordOps /\ q.kind \in Kinds
  BY <1>3, <1>5, <1>6
<1>7. q \in ofKinds => q.op \in RecordOps /\ q.kind \in Kinds
  <2> HIDE DEF made
  <2> QED BY <1>6
<1>8. CollectionRequests
      = ofKinds \union (IF "tokens" \notin family THEN {} ELSE ofTokens)
                \union (IF "acmePlugins" \notin family THEN {} ELSE ofPlugins)
  BY DEF CollectionRequests
<1> HIDE DEF all, made, ofKinds, ofTokens, ofPlugins
<1> QED BY <1>4, <1>7, <1>8

\* Every request has a handler, and one about records names their collection.
LEMMA RequestsRouted ==
  ASSUME NEW q \in Requests
  PROVE  \/ q.op \in OtherOps \union WritingOps
         \/ q.op \in RecordOps /\ q.kind \in Kinds
<1>1. q \in RoleRequests => q.op \in OtherOps
  BY DEF RoleRequests, OtherOps
<1>2. q \in [op : {"ACLSet"}, grants : Grants, remove : BOOLEAN] => q.op \in OtherOps
  BY DEF OtherOps
<1>3. q \in JobRequests => q.op \in OtherOps
  BY DEF JobRequests, OtherOps
<1>4. q \in RuleRequests => q.op \in OtherOps
  BY DEF RuleRequests, OtherOps
<1>5. q \in IPSetRequests => q.op \in OtherOps
  BY DEF IPSetRequests, OtherOps
<1>6. q \in DatastoreRequests => q.op \in WritingOps
  BY DEF DatastoreRequests, WritingOps
<1>7. q \in [op : {"HAArm"}] \union [op : {"HADisarm"}, mode : {"", "freeze", "ignore"}]
      => q.op \in OtherOps
  BY DEF OtherOps
<1>8. q \in [op : {"ClusterCreate"}] \union [op : {"ClusterJoin"}, complete : BOOLEAN]
      => q.op \in OtherOps
  BY DEF OtherOps
<1>9. q \in CertRequests => q.op \in OtherOps
  BY DEF CertRequests, OtherOps
<1>10. q \in ConfigRequests => q.op \in OtherOps
  BY DEF ConfigRequests, OtherOps
<1>11. q \in [op : {"OptionsSet"}, form : OptionForms] => q.op \in OtherOps
  BY DEF OtherOps
<1>12. q \in [op : {"RepoUpdate"}, path : Names, index : -1..2, enabled : BOOLEAN]
       => q.op \in OtherOps
  BY DEF OtherOps
<1>13. q \in CollectionRequests => q.op \in RecordOps /\ q.kind \in Kinds
  BY CollectionRouted
<1> QED
  BY <1>1, <1>2, <1>3, <1>4, <1>5, <1>6, <1>7, <1>8, <1>9, <1>10, <1>11, <1>12, <1>13
  DEF Requests

\* A step of the server, whoever asked.
LEMMA HandleKeeps ==
  ASSUME NEW s, StateOK(s), Parented(s), NEW q,
         \/ q.op \in OtherOps \union WritingOps
         \/ q.op \in RecordOps /\ q.kind \in Kinds
  PROVE  StateOK(Handle(s, q).st) /\ Parented(Handle(s, q).st)
<1>1. CASE q.op \in OtherOps
  BY <1>1, OthersLeave DEF Leaves, StateOK, Parented
<1>2. CASE q.op \in WritingOps
  BY <1>2, DatastoresWrite DEF Writes, StateOK, Parented
<1>3. CASE q.op \in RecordOps /\ q.kind \in Kinds
  BY <1>3, RecordsKept DEF KeepsRecords
<1> QED BY <1>1, <1>2, <1>3

\* The families of the server's own requests have no clients.
LEMMA FamiliesApart ==
  \A F \in Families : F \notin ClientFamilies
<1>1. \A F \in Families : /\ "datastores" \notin F /\ "methods" \notin F
                          /\ "gates" \notin F /\ "consoles" \notin F
  BY DEF Families
<1> QED BY <1>1 DEF ClientFamilies

-----------------------------------------------------------------------------
(* The invariant holds at first.                                           *)

\* The clients' families differ.
LEMMA Distinct ==
  /\ {"datastores"} # {"gates"} /\ {"datastores"} # {"consoles"}
  /\ {"datastores"} # {"methods"} /\ {"gates"} # {"consoles"}
  /\ {"gates"} # {"methods"} /\ {"consoles"} # {"methods"}
<1>1. /\ "datastores" # "gates" /\ "datastores" # "consoles" /\ "datastores" # "methods"
      /\ "gates" # "consoles" /\ "gates" # "methods" /\ "consoles" # "methods"
  OBVIOUS
<1> QED BY <1>1

\* A server as a test seeds it has no records and an unwritten storage.cfg.
LEMMA SeededOK ==
  ASSUME NEW queue, NEW config
  PROVE  LET s == Seeded(queue, config)
         IN  StateOK(s) /\ Parented(s) /\ s.version = 0 /\ s.stores = << >>
<1> DEFINE s == Seeded(queue, config)
<1>1. DOMAIN s = ServerFields
  BY DEF Seeded, ServerFields
<1>2. s.recs = [k \in Kinds |-> << >>] /\ s.version = 0 /\ s.stores = << >>
  BY DEF Seeded
<1> HIDE DEF s
<1>3. StateOK(s)
  BY <1>1, <1>2 DEF StateOK
<1>4. Parented(s)
  BY <1>2, FabricNodesChecked DEF Parented
<1> QED BY <1>2, <1>3, <1>4 DEF s

\* The invariant holds when the clients and the server start.
LEMMA InitHolds == Init => ServicesInv
<1> SUFFICES ASSUME Init PROVE ServicesInv
  OBVIOUS
<1>1. /\ NoCall.pc = "idle" /\ NoCall.served = << >>
      /\ DOMAIN NoCall = {"pc", "q", "sends", "reply", "read", "served"}
  BY DEF NoCall
<1>2. \A c \in Clients : call[c] = NoCall
  BY DEF Init
<1>3. DOMAIN call = Clients /\ DOMAIN client = Clients
  BY DEF Init
<1>4. StateOK(st) /\ Parented(st) /\ st.version = 0 /\ st.stores = << >>
  BY SeededOK DEF Init, ServerInit
<1>5. \A r, u : DOMAIN Made(r, u) = DOMAIN Unmade /\ Made(r, u).seen = Unmade.seen
  BY DEF Made, Unmade
<1>6. /\ DOMAIN Unmade = {"made", "active", "from", "caps", "seen", "tickets", "user"}
      /\ Unmade.seen.digest = 0 /\ Unmade.seen.stores = << >>
  BY DEF Unmade
<1>7. \A c \in Clients : client[c] = Unmade \/ \E r, u : client[c] = Made(r, u)
  BY DEF Init
<1>8. ClientTypes
  BY <1>1, <1>2, <1>3, <1>5, <1>6, <1>7 DEF ClientTypes
<1>9. OpsFit
  BY <1>1, <1>2 DEF OpsFit
<1>10. StoreInv
  BY <1>1, <1>2, <1>4, <1>5, <1>6, <1>7 DEF StoreInv, Stored, Matching
<1>11. GateInv
  <2> SUFFICES ASSUME family = {"gates"} PROVE GateInv
    BY DEF GateInv
  <2>1. /\ release \in [Endpoints -> MinRelease..MaxRelease]
        /\ client = [c \in Clients |-> Unmade]
    BY FamiliesApart DEF Init, ServerInit, ClientFamilies
  <2>2. Unmade.active \in Endpoints
    BY ServicesAssumption DEF Unmade
  <2>3. Unmade.from = {} /\ Unmade.caps = -1
    BY DEF Unmade, MinRelease
  <2>4. \A e \in Endpoints : release[e] \in Int
    BY <2>1, ServicesAssumption DEF MinRelease
  <2>5. << >> \in Seq(Witnesses) /\ DOMAIN << >> = {}
    OBVIOUS
  <2> HIDE DEF Unmade
  <2>6. \A c \in Clients : /\ client[c] = Unmade
                            /\ call[c].pc = "idle" /\ call[c].served = << >>
    BY <1>1, <1>2, <2>1
  <2>7. \A c \in Clients : Reached(c)
    BY <2>5, <2>6 DEF Reached
  <2>8. \A c \in Clients : Gated(c)
    BY <2>2, <2>3, <2>6 DEF Gated
  <2> QED BY <2>1, <2>4, <2>7, <2>8 DEF GateInv
<1> QED BY <1>4, <1>8, <1>9, <1>10, <1>11 DEF ServicesInv, NoOrphanedNodes, Parented

-----------------------------------------------------------------------------
(* The methods' tables.                                                    *)

\* A method of the tables.
IsMethod(m) == DOMAIN m = {"checked", "form", "filled", "late", "spec", "since", "task"}

\* One like it but for what it reads from the answer and the release it needs.
Like(m, n) == IsMethod(n) /\ n.form = m.form /\ n.filled = m.filled

\* The methods as the tables make them.
LEMMA Making ==
  /\ \A x : LET m == M!Call(x)
            IN  IsMethod(m) /\ m.form = {} /\ m.filled = {} /\ m.task = "none" /\ m.since = 0
  /\ LET m == M!Read
     IN  IsMethod(m) /\ m.form = {} /\ m.filled = {} /\ m.task = "none" /\ m.since = 0
  /\ \A x, y : LET m == M!Spec(x, y)
               IN  IsMethod(m) /\ m.form = y /\ m.filled = {} /\ m.task = "none" /\ m.since = 0
  /\ \A x, y : LET m == M!Body(x, y)
               IN  IsMethod(m) /\ m.form = y /\ m.filled = {} /\ m.task = "none" /\ m.since = 0
  /\ \A m : IsMethod(m) =>
       /\ Like(m, M!Task(m)) /\ M!Task(m).task = "always" /\ M!Task(m).since = m.since
       /\ Like(m, M!Maybe(m)) /\ M!Maybe(m).task = "maybe" /\ M!Maybe(m).since = m.since
  /\ \A n, m : IsMethod(m) =>
       Like(m, M!Since(n, m)) /\ M!Since(n, m).task = m.task /\ M!Since(n, m).since = n
  /\ \A m, key : IsMethod(m) =>
       LET k == M!numbered(m, key)
       IN  IsMethod(k) /\ key \in k.filled /\ k.task = m.task /\ k.since = m.since
<1>1. \A x : LET m == M!Call(x)
             IN  IsMethod(m) /\ m.form = {} /\ m.filled = {} /\ m.task = "none" /\ m.since = 0
  BY DEF M!Call, IsMethod
<1>2. LET m == M!Read
      IN  IsMethod(m) /\ m.form = {} /\ m.filled = {} /\ m.task = "none" /\ m.since = 0
  BY <1>1 DEF M!Read
<1>3. \A x, y : LET m == M!Spec(x, y)
                IN  IsMethod(m) /\ m.form = y /\ m.filled = {} /\ m.task = "none" /\ m.since = 0
  BY DEF M!Call, M!Spec, IsMethod
<1>4. \A x, y : LET m == M!Body(x, y)
                IN  IsMethod(m) /\ m.form = y /\ m.filled = {} /\ m.task = "none" /\ m.since = 0
  BY DEF M!Call, M!Body, IsMethod
<1>5. \A m : IsMethod(m) =>
       /\ Like(m, M!Task(m)) /\ M!Task(m).task = "always" /\ M!Task(m).since = m.since
       /\ Like(m, M!Maybe(m)) /\ M!Maybe(m).task = "maybe" /\ M!Maybe(m).since = m.since
  BY DEF IsMethod, Like, M!Task, M!Maybe
<1>6. \A n, m : IsMethod(m) =>
       Like(m, M!Since(n, m)) /\ M!Since(n, m).task = m.task /\ M!Since(n, m).since = n
  BY DEF IsMethod, Like, M!Since
<1>7. \A m, key : IsMethod(m) =>
       LET k == M!numbered(m, key)
       IN  IsMethod(k) /\ key \in k.filled /\ k.task = m.task /\ k.since = m.since
  BY DEF IsMethod, M!numbered
<1> QED BY <1>1, <1>2, <1>3, <1>4, <1>5, <1>6, <1>7

\* A method fits its handler: it sends what the handler asks for, and reads a
\* UPID only of a handler that answers with one.
Fits(svc, name, m) ==
  /\ name \in DOMAIN M!Asks[svc] => M!Asks[svc][name] \subseteq m.form \union m.filled
  /\ m.task = "always" => name \in M!Workers[svc]
  /\ m.since \in Nat

AllFit(svc, table) == \A name \in DOMAIN table : Fits(svc, name, table[name])

\* Tables that fit fit together.
LEMMA JoinedFit ==
  ASSUME NEW svc, NEW tables, \A t \in tables : AllFit(svc, t)
  PROVE  AllFit(svc, M!Joined(tables))
<1> SUFFICES ASSUME NEW name \in DOMAIN M!Joined(tables)
             PROVE  Fits(svc, name, M!Joined(tables)[name])
  BY DEF AllFit
<1> DEFINE t == CHOOSE u \in tables : name \in DOMAIN u
<1>1. DOMAIN M!Joined(tables) = UNION {DOMAIN u : u \in tables}
  BY DEF M!Joined
<1>2. \E u \in tables : name \in DOMAIN u
  BY <1>1
<1>3. t \in tables /\ name \in DOMAIN t
  BY <1>2
<1>4. M!Joined(tables)[name] = t[name]
  BY <1>1 DEF M!Joined
<1> HIDE DEF t
<1> QED BY <1>3, <1>4 DEF AllFit

\* What the handlers of either kind of guest ask for.
GuestAsked(name, keys) == \/ name = "Create" /\ keys = {"vmid"}
                          \/ name = "Clone" /\ keys = {"newid"}
                          \/ name = "CreateSnapshot" /\ keys = {"snapname"}

\* They ask for that beside what is their own.
LEMMA GuestsAsk ==
  ASSUME NEW own, NEW name \in DOMAIN M!Joined({own, M!guestAsks})
  PROVE  LET keys == M!Joined({own, M!guestAsks})[name]
         IN  GuestAsked(name, keys) \/ (name \in DOMAIN own /\ keys = own[name])
<1> DEFINE tables == {own, M!guestAsks}
           t == CHOOSE u \in tables : name \in DOMAIN u
<1>1. DOMAIN M!Joined(tables) = UNION {DOMAIN u : u \in tables}
  BY DEF M!Joined
<1>2. \E u \in tables : name \in DOMAIN u
  BY <1>1
<1>3. t \in tables /\ name \in DOMAIN t
  BY <1>2
<1>4. M!Joined(tables)[name] = t[name]
  BY <1>1 DEF M!Joined
<1> HIDE DEF t
<1>5. \A x \in DOMAIN M!guestAsks : GuestAsked(x, M!guestAsks[x])
  BY DEF M!guestAsks, GuestAsked
<1> QED BY <1>3, <1>4, <1>5

\* access.
LEMMA AccessFits == AllFit("access", M!Service.access)
<1>1. M!Workers["access"] = {}
  BY DEF M!Workers
<1>2. M!Asks["access"] = [CreateUser |-> {"userid"}, CreateGroup |-> {"groupid"},
                          CreateRole |-> {"roleid"}, SetACL |-> {"path", "roles"}]
  BY DEF M!Asks
<1>3. AllFit("access", M!users)
  BY <1>1, <1>2, Making DEF AllFit, Fits, Like, M!users
<1>4. AllFit("access", M!groups)
  BY <1>1, <1>2, Making DEF AllFit, Fits, Like, M!groups
<1>5. AllFit("access", M!roles)
  BY <1>1, <1>2, Making DEF AllFit, Fits, Like, M!roles
<1>6. AllFit("access", M!acl)
  BY <1>1, <1>2, Making DEF AllFit, Fits, Like, M!acl, IsMethod
<1>7. AllFit("access", M!tokens)
  BY <1>1, <1>2, Making DEF AllFit, Fits, Like, M!tokens, IsMethod
<1>8. M!Service.access = M!Joined({M!users, M!groups, M!roles, M!acl, M!tokens})
  BY DEF M!Service
<1> QED BY <1>3, <1>4, <1>5, <1>6, <1>7, <1>8, JoinedFit

\* ceph.
LEMMA CephFits == AllFit("ceph", M!Service.ceph)
<1>1. M!Workers["ceph"] = {"CreatePool", "DeletePool", "CreateOSD", "DestroyOSD"}
  BY DEF M!Workers
<1>2. M!Asks["ceph"] = [CreatePool |-> {"name"}, CreateOSD |-> {"dev"}]
  BY DEF M!Asks
<1>3. AllFit("ceph", M!osds)
  BY <1>1, <1>2, Making DEF AllFit, Fits, Like, M!osds
<1>4. AllFit("ceph", M!cephPools)
  BY <1>1, <1>2, Making DEF AllFit, Fits, Like, M!cephPools
<1>5. AllFit("ceph", M!mirror)
  BY <1>1, <1>2, Making DEF AllFit, Fits, Like, M!mirror, M!Never
<1>6. AllFit("ceph", M!cephStatus)
  BY <1>1, <1>2, Making DEF AllFit, Fits, Like, M!cephStatus
<1>7. M!Service.ceph = M!Joined({M!osds, M!cephPools, M!mirror, M!cephStatus})
  BY DEF M!Service
<1> QED BY <1>3, <1>4, <1>5, <1>6, <1>7, JoinedFit

\* cluster.
LEMMA ClusterFits == AllFit("cluster", M!Service.cluster)
<1>1. M!Workers["cluster"] = {"CreateCluster", "JoinCluster"}
  BY DEF M!Workers
<1>2. M!Asks["cluster"] = [CreateCluster |-> {"clustername"},
                           JoinCluster |-> {"hostname", "password", "fingerprint"}]
  BY DEF M!Asks
<1>3. AllFit("cluster", M!clusterConfig)
  BY <1>1, <1>2, Making DEF AllFit, Fits, Like, M!clusterConfig
<1>4. AllFit("cluster", M!clusterOptions)
  BY <1>1, <1>2, Making DEF AllFit, Fits, Like, M!clusterOptions
<1>5. AllFit("cluster", M!clusterReads)
  BY <1>1, <1>2, Making DEF AllFit, Fits, Like, M!clusterReads
<1>6. M!Service.cluster = M!Joined({M!clusterConfig, M!clusterOptions, M!clusterReads})
  BY DEF M!Service
<1> QED BY <1>3, <1>4, <1>5, <1>6, JoinedFit

\* firewall.
LEMMA FirewallFits == AllFit("firewall", M!Service.firewall)
<1>1. M!Workers["firewall"] = {}
  BY DEF M!Workers
<1>2. M!Asks["firewall"] = [CreateIPSet |-> {"name"}, RenameIPSet |-> {"name"},
                            AddIPSetEntry |-> {"cidr"}]
  BY DEF M!Asks
<1>3. AllFit("firewall", M!ipsets)
  BY <1>1, <1>2, Making DEF AllFit, Fits, Like, M!ipsets
<1>4. AllFit("firewall", M!firewallOptions)
  BY <1>1, <1>2, Making DEF AllFit, Fits, Like, M!firewallOptions
<1>5. AllFit("firewall", M!firewallRules)
  BY <1>1, <1>2, Making DEF AllFit, Fits, Like, M!firewallRules
<1>6. M!Service.firewall = M!Joined({M!ipsets, M!firewallOptions, M!firewallRules})
  BY DEF M!Service
<1> QED BY <1>3, <1>4, <1>5, <1>6, JoinedFit

\* ha.
LEMMA HAFits == AllFit("ha", M!Service.ha)
<1>1. M!Workers["ha"] = {}
  BY DEF M!Workers
<1>2. M!Asks["ha"] = [CreateReplicationJob |-> {"id"}, DisarmHA |-> {"resource-mode"},
                      MigrateResource |-> {"node"}, RelocateResource |-> {"node"},
                          AddResource |-> {"sid"}, CreateRule |-> {"rule"}]
  BY DEF M!Asks
<1>3. AllFit("ha", M!arm)
  BY <1>1, <1>2, Making DEF AllFit, Fits, Like, M!arm
<1>4. AllFit("ha", M!crs)
  BY <1>1, <1>2, Making DEF AllFit, Fits, Like, M!crs
<1>5. AllFit("ha", M!dlb)
  BY <1>1, <1>2, Making DEF AllFit, Fits, Like, M!dlb, M!Never
<1>6. AllFit("ha", M!placement)
  BY <1>1, <1>2, Making DEF AllFit, Fits, Like, M!placement
<1>7. AllFit("ha", M!replication)
  BY <1>1, <1>2, Making DEF AllFit, Fits, Like, M!replication
<1>8. AllFit("ha", M!haResources)
  BY <1>1, <1>2, Making DEF AllFit, Fits, Like, M!haResources
<1>9. AllFit("ha", M!haRulesCalls)
  BY <1>1, <1>2, Making DEF AllFit, Fits, Like, M!haRulesCalls
<1>10. AllFit("ha", M!haStatus)
  BY <1>1, <1>2, Making DEF AllFit, Fits, Like, M!haStatus
<1>11. M!Service.ha = M!Joined({M!arm, M!crs, M!dlb, M!placement, M!replication,
                                M!haResources, M!haRulesCalls, M!haStatus})
  BY DEF M!Service
<1> QED BY <1>3, <1>4, <1>5, <1>6, <1>7, <1>8, <1>9, <1>10, <1>11, JoinedFit

\* lxc.
LEMMA LxcFits == AllFit("lxc", M!Service.lxc)
<1>1. M!Workers["lxc"] = {"PullOCITemplate"} \union M!guestWorkers
  BY DEF M!Workers
<1> DEFINE asks == M!Asks["lxc"]
           own == [PullOCITemplate |-> {"url", "filename"}]
<1>2. \A name \in DOMAIN asks :
        \/ name = "PullOCITemplate" /\ asks[name] = {"url", "filename"}
        \/ GuestAsked(name, asks[name])
  <2>1. asks = M!Joined({own, M!guestAsks})
    BY DEF M!Asks
  <2>2. /\ own.PullOCITemplate = {"url", "filename"}
        /\ DOMAIN own = {"PullOCITemplate"}
    OBVIOUS
  <2> HIDE DEF own, asks
  <2> QED BY <2>1, <2>2, GuestsAsk
<1> HIDE DEF own
<1>3. AllFit("lxc", M!lxcGuests)
  BY <1>1, <1>2, Making DEF AllFit, Fits, Like, M!lxcGuests, GuestAsked, M!guestWorkers,
     M!powerCalls
<1>4. AllFit("lxc", M!oci)
  BY <1>1, <1>2, Making DEF AllFit, Fits, Like, M!oci, GuestAsked, M!guestWorkers, M!powerCalls
<1>5. AllFit("lxc", M!lxcPower)
  BY <1>1, <1>2, Making DEF AllFit, Fits, Like, M!lxcPower, GuestAsked, M!guestWorkers,
     M!powerCalls
<1>6. AllFit("lxc", M!lxcSnapshots)
  BY <1>1, <1>2, Making DEF AllFit, Fits, Like, M!lxcSnapshots, M!snapshots, GuestAsked,
     M!guestWorkers, M!powerCalls
<1>7. M!Service.lxc = M!Joined({M!lxcGuests, M!oci, M!lxcPower, M!lxcSnapshots})
  BY DEF M!Service
<1> QED BY <1>3, <1>4, <1>5, <1>6, <1>7, JoinedFit

\* metrics.
LEMMA MetricsFits == AllFit("metrics", M!Service.metrics)
<1>1. M!Workers["metrics"] = {}
  BY DEF M!Workers
<1>2. M!Asks["metrics"] = << >>
  BY DEF M!Asks
<1>3. AllFit("metrics", M!rrd)
  BY <1>1, <1>2, Making DEF AllFit, Fits, Like, M!rrd
<1>4. AllFit("metrics", M!metricServers)
  BY <1>1, <1>2, Making DEF AllFit, Fits, Like, M!metricServers
<1>5. AllFit("metrics", M!nodeStatus)
  BY <1>1, <1>2, Making DEF AllFit, Fits, Like, M!nodeStatus
<1>6. AllFit("metrics", M!otel)
  BY <1>1, <1>2, Making DEF AllFit, Fits, Like, M!otel, M!Never
<1>7. M!Service.metrics = M!Joined({M!rrd, M!metricServers, M!nodeStatus, M!otel})
  BY DEF M!Service
<1> QED BY <1>3, <1>4, <1>5, <1>6, <1>7, JoinedFit

\* nodes.
LEMMA NodesFits == AllFit("nodes", M!Service.nodes)
<1>1. M!Workers["nodes"] = {"ApplyNetworkConfig", "RefreshAptCache", "InitializeDisk",
                            "OrderNodeCertificate", "RenewNodeCertificate",
                                "RevokeNodeCertificate", "RegisterACMEAccount",
                                    "UpdateACMEAccount", "DeactivateACMEAccount"}
  BY DEF M!Workers
<1>2. M!Asks["nodes"] = [CreateACMEPlugin |-> {"id"}, CreateInterface |-> {"iface"},
                         InitializeDisk |-> {"disk"}, RegisterACMEAccount |-> {"name"},
                             UploadCustomCertificate |-> {"certificates"}]
  BY DEF M!Asks
<1>3. AllFit("nodes", M!acmePluginCalls)
  BY <1>1, <1>2, Making DEF AllFit, Fits, Like, M!acmePluginCalls, IsMethod
<1>4. AllFit("nodes", M!acmeReads)
  BY <1>1, <1>2, Making DEF AllFit, Fits, Like, M!acmeReads
<1>5. AllFit("nodes", M!aptPackages)
  BY <1>1, <1>2, Making DEF AllFit, Fits, Like, M!aptPackages
<1>6. AllFit("nodes", M!aptRepositories)
  BY <1>1, <1>2, Making DEF AllFit, Fits, Like, M!aptRepositories
<1>7. AllFit("nodes", M!customCerts)
  BY <1>1, <1>2, Making DEF AllFit, Fits, Like, M!customCerts
<1>8. AllFit("nodes", M!acmeAccountCalls)
  BY <1>1, <1>2, Making DEF AllFit, Fits, Like, M!acmeAccountCalls, IsMethod
<1>9. AllFit("nodes", M!acmeCerts)
  BY <1>1, <1>2, Making DEF AllFit, Fits, Like, M!acmeCerts
<1>10. AllFit("nodes", M!disks)
  BY <1>1, <1>2, Making DEF AllFit, Fits, Like, M!disks
<1>11. AllFit("nodes", M!interfaces)
  BY <1>1, <1>2, Making DEF AllFit, Fits, Like, M!interfaces
<1>12. M!Service.nodes = M!Joined({M!acmePluginCalls, M!acmeReads, M!aptPackages,
                                   M!aptRepositories, M!customCerts, M!acmeAccountCalls,
                                       M!acmeCerts, M!disks, M!interfaces})
  BY DEF M!Service
<1> QED BY <1>3, <1>4, <1>5, <1>6, <1>7, <1>8, <1>9, <1>10, <1>11, <1>12, JoinedFit

\* pbs.
LEMMA PbsFits == AllFit("pbs", M!Service.pbs)
<1>1. M!Workers["pbs"] = {"CreateBackup", "RestoreQEMU", "RestoreLXC"}
  BY DEF M!Workers
<1>2. M!Asks["pbs"] = [CreateBackup |-> {"storage"}, CreateBackupJob |-> {"storage"},
                       RestoreQEMU |-> {"vmid"}, RestoreLXC |-> {"vmid"}]
  BY DEF M!Asks
<1>3. AllFit("pbs", M!backups)
  BY <1>1, <1>2, Making DEF AllFit, Fits, Like, M!backups, M!Never
<1>4. AllFit("pbs", M!restores)
  BY <1>1, <1>2, Making DEF AllFit, Fits, Like, M!restores, IsMethod
<1>5. AllFit("pbs", M!backupJobs)
  BY <1>1, <1>2, Making DEF AllFit, Fits, Like, M!backupJobs
<1>6. M!Service.pbs = M!Joined({M!backups, M!restores, M!backupJobs})
  BY DEF M!Service
<1> QED BY <1>3, <1>4, <1>5, <1>6, JoinedFit

\* qemu.
LEMMA QemuFits == AllFit("qemu", M!Service.qemu)
<1>1. M!Workers["qemu"] = {"ConvertToTemplate", "MoveDisk", "Migrate"} \union M!guestWorkers
  BY DEF M!Workers
<1> DEFINE asks == M!Asks["qemu"]
           own == [MoveDisk |-> {"disk", "storage"}, Migrate |-> {"target"},
                   AgentExec |-> {"command"}]
<1>2. \A name \in DOMAIN asks :
        \/ name = "MoveDisk" /\ asks[name] = {"disk", "storage"}
        \/ name = "Migrate" /\ asks[name] = {"target"}
        \/ name = "AgentExec" /\ asks[name] = {"command"}
        \/ GuestAsked(name, asks[name])
  <2>1. asks = M!Joined({own, M!guestAsks})
    BY DEF M!Asks
  <2>2. /\ own.MoveDisk = {"disk", "storage"}
        /\ own.Migrate = {"target"}
        /\ own.AgentExec = {"command"}
        /\ DOMAIN own = {"MoveDisk", "Migrate", "AgentExec"}
    OBVIOUS
  <2> HIDE DEF own, asks
  <2> QED BY <2>1, <2>2, GuestsAsk
<1> HIDE DEF own
<1>3. AllFit("qemu", M!qemuGuests)
  BY <1>1, <1>2, Making DEF AllFit, Fits, Like, M!qemuGuests, GuestAsked, M!guestWorkers,
     M!powerCalls
<1>4. AllFit("qemu", M!qemuPower)
  BY <1>1, <1>2, Making DEF AllFit, Fits, Like, M!qemuPower, GuestAsked, M!guestWorkers,
     M!powerCalls
<1>5. AllFit("qemu", M!qemuSnapshots)
  BY <1>1, <1>2, Making DEF AllFit, Fits, Like, M!qemuSnapshots, M!snapshots, GuestAsked,
     M!guestWorkers, M!powerCalls
<1>6. AllFit("qemu", M!moveDisk)
  BY <1>1, <1>2, Making DEF AllFit, Fits, Like, M!moveDisk, GuestAsked, M!guestWorkers,
     M!powerCalls
<1>7. AllFit("qemu", M!devices)
  BY <1>1, <1>2, Making DEF AllFit, Fits, Like, M!devices, GuestAsked, M!guestWorkers,
     M!powerCalls
<1>8. AllFit("qemu", M!migrate)
  BY <1>1, <1>2, Making DEF AllFit, Fits, Like, M!migrate, GuestAsked, M!guestWorkers,
     M!powerCalls
<1>9. AllFit("qemu", M!template)
  BY <1>1, <1>2, Making DEF AllFit, Fits, Like, M!template, GuestAsked, M!guestWorkers,
     M!powerCalls
<1>10. AllFit("qemu", M!agent)
  BY <1>1, <1>2, Making DEF AllFit, Fits, Like, M!agent, GuestAsked, M!guestWorkers,
     M!powerCalls
<1>11. M!Service.qemu = M!Joined({M!qemuGuests, M!qemuPower, M!qemuSnapshots, M!moveDisk,
                                  M!devices, M!migrate, M!template, M!agent})
  BY DEF M!Service
<1> QED BY <1>3, <1>4, <1>5, <1>6, <1>7, <1>8, <1>9, <1>10, <1>11, JoinedFit

\* sdn.
LEMMA SdnFits == AllFit("sdn", M!Service.sdn)
<1>1. M!Workers["sdn"] = {}
  BY DEF M!Workers
<1>2. M!Asks["sdn"] = [CreateZone |-> {"zone"}, CreateVNet |-> {"vnet"},
                       CreateSubnet |-> {"subnet"}, CreateFabric |-> {"id"},
                           CreateAdvancedFabric |-> {"id"},
                               CreateFabricNode |-> {"node_id"}]
  BY DEF M!Asks
<1>3. AllFit("sdn", M!applySDN)
  BY <1>1, <1>2, Making DEF AllFit, Fits, Like, M!applySDN
<1>4. AllFit("sdn", M!zoneCalls)
  BY <1>1, <1>2, Making DEF AllFit, Fits, Like, M!zoneCalls
<1>5. AllFit("sdn", M!vnetCalls)
  BY <1>1, <1>2, Making DEF AllFit, Fits, Like, M!vnetCalls
<1>6. AllFit("sdn", M!subnetCalls)
  BY <1>1, <1>2, Making DEF AllFit, Fits, Like, M!subnetCalls
<1>7. AllFit("sdn", M!fabricCalls)
  BY <1>1, <1>2, Making DEF AllFit, Fits, Like, M!fabricCalls
<1>8. AllFit("sdn", M!fabricNodeCalls)
  BY <1>1, <1>2, Making DEF AllFit, Fits, Like, M!fabricNodeCalls
<1>9. AllFit("sdn", M!sdnStatus)
  BY <1>1, <1>2, Making DEF AllFit, Fits, Like, M!sdnStatus
<1>10. M!Service.sdn = M!Joined({M!applySDN, M!zoneCalls, M!vnetCalls, M!subnetCalls,
                                 M!fabricCalls, M!fabricNodeCalls, M!sdnStatus})
  BY DEF M!Service
<1> QED BY <1>3, <1>4, <1>5, <1>6, <1>7, <1>8, <1>9, <1>10, JoinedFit

\* storage.
LEMMA StorageFits == AllFit("storage", M!Service.storage)
<1>1. M!Workers["storage"] = {"UploadISO", "UploadDiskImage", "DeleteVolume", "CreateZFSPool"}
  BY DEF M!Workers
<1>2. M!Asks["storage"] = [CreateDatastore |-> {"storage", "type"},
                           CreateVolume |-> {"filename"}, CreateZFSPool |-> {"name"},
                               UploadISO |-> {"content", "filename"},
                                   UploadDiskImage |-> {"content", "filename"}]
  BY DEF M!Asks
<1>3. AllFit("storage", M!content)
  BY <1>1, <1>2, Making DEF AllFit, Fits, Like, M!content
<1>4. AllFit("storage", M!datastores)
  BY <1>1, <1>2, Making DEF AllFit, Fits, Like, M!datastores
<1>5. AllFit("storage", M!nodeStorage)
  BY <1>1, <1>2, Making DEF AllFit, Fits, Like, M!nodeStorage
<1>6. AllFit("storage", M!uploads)
  <2> DEFINE u == [M!Task(M!Body({}, {"filename", "reader"})) EXCEPT
                     !.filled = {"content"}, !.late = @ \union {"content"}]
  <2>1. u.form = {"filename", "reader"} /\ u.filled = {"content"} /\ u.since = 0
    BY Making DEF IsMethod, Like
  <2>2. M!uploads = [UploadISO |-> u, UploadDiskImage |-> u]
    BY DEF M!uploads
  <2> HIDE DEF u
  <2> QED BY <1>1, <1>2, <2>1, <2>2 DEF AllFit, Fits
<1>7. AllFit("storage", M!volumes)
  BY <1>1, <1>2, Making DEF AllFit, Fits, Like, M!volumes
<1>8. AllFit("storage", M!zfs)
  BY <1>1, <1>2, Making DEF AllFit, Fits, Like, M!zfs, M!Never, IsMethod
<1>9. AllFit("storage", M!volumeSnapshots)
  BY <1>1, <1>2, Making DEF AllFit, Fits, Like, M!volumeSnapshots, M!Never
<1>10. M!Service.storage = M!Joined({M!content, M!datastores, M!nodeStorage, M!uploads,
                                     M!volumes, M!zfs, M!volumeSnapshots})
  BY DEF M!Service
<1> QED BY <1>3, <1>4, <1>5, <1>6, <1>7, <1>8, <1>9, <1>10, JoinedFit

\* Every method fits its handler.
LEMMA TablesFit ==
  \A svc \in DOMAIN M!Service : AllFit(svc, M!Service[svc])
<1>1. DOMAIN M!Service = {"access", "ceph", "cluster", "firewall", "ha", "lxc",
                          "metrics", "nodes", "pbs", "qemu", "sdn", "storage"}
  BY DEF M!Service
<1> QED BY <1>1, AccessFits, CephFits, ClusterFits, FirewallFits, HAFits, LxcFits,
           MetricsFits, NodesFits, PbsFits, QemuFits, SdnFits, StorageFits

-----------------------------------------------------------------------------
(* One lemma per action.                                                   *)

\* A call as it is sent.
LEMMA SentIs ==
  ASSUME NEW q
  PROVE  /\ Sent(q).pc = "sent" /\ Sent(q).q = q /\ Sent(q).served = << >>
         /\ DOMAIN Sent(q) = {"pc", "q", "sends", "reply", "read", "served"}
BY DEF Sent, NoCall

\* A client with no call under way.
LEMMA NoCallIs ==
  /\ NoCall.pc = "idle" /\ NoCall.served = << >>
  /\ DOMAIN NoCall = {"pc", "q", "sends", "reply", "read", "served"}
BY DEF NoCall

\* No delivery has been accepted yet.
LEMMA NothingServed ==
  << >> \in Seq(Witnesses) /\ DOMAIN << >> = {}
OBVIOUS

\* A request of anyone's disturbs no client: its family has none.
LEMMA ServeAnyoneKeeps ==
  ASSUME ServicesInv, ServeAnyone
  PROVE  ServicesInv'
<1>1. PICK q \in Requests : st' = Handle(st, q).st
  BY DEF ServeAnyone, Serve
<1>2. StateOK(st') /\ Parented(st')
  BY <1>1, RequestsRouted, HandleKeeps DEF ServicesInv, NoOrphanedNodes, Parented
<1>3. UNCHANGED <<family, release, client, call>> /\ family \in Families
  BY DEF ServeAnyone, Serve
<1>4. family # {"datastores"} /\ family # {"gates"}
  BY <1>3, FamiliesApart DEF ClientFamilies
<1>5. ClientTypes' /\ OpsFit'
  BY <1>3 DEF ServicesInv, ClientTypes, OpsFit, Asked
<1>6. StoreInv' /\ GateInv'
  BY <1>3, <1>4 DEF StoreInv, GateInv
<1> QED BY <1>2, <1>5, <1>6 DEF ServicesInv, NoOrphanedNodes, Parented

\* An upgrade only adds to what an endpoint has.
LEMMA UpgradeKeeps ==
  ASSUME ServicesInv, NEW e \in Endpoints, Upgrade(e)
  PROVE  ServicesInv'
<1>1. UNCHANGED <<st, family, client, call>> /\ family = {"gates"}
  BY DEF Upgrade
<1>2. StateOK(st)' /\ ClientTypes' /\ OpsFit' /\ NoOrphanedNodes'
  BY <1>1 DEF ServicesInv, ClientTypes, OpsFit, Asked, NoOrphanedNodes
<1>3. StoreInv'
  BY <1>1, Distinct DEF StoreInv
<1>4. /\ release \in [Endpoints -> Int] /\ release' = [release EXCEPT ![e] = @ + 1]
      /\ \A c \in Clients : Gated(c) /\ Reached(c)
  BY <1>1 DEF ServicesInv, GateInv, Upgrade
<1>5. release' \in [Endpoints -> Int] /\ \A f \in Endpoints : release[f] <= release'[f]
  BY <1>4
<1>6. \A c \in Clients : Reached(c)'
  BY <1>1, <1>4 DEF Reached
<1>7. \A c \in Clients : Gated(c)'
  BY <1>1, <1>4, <1>5 DEF Gated
<1> QED BY <1>2, <1>3, <1>5, <1>6, <1>7 DEF ServicesInv, GateInv

\* A new client's capabilities are those of the endpoint it asked.
LEMMA NewClientKeeps ==
  ASSUME ServicesInv, NEW c \in Clients, NewClient(c)
  PROVE  ServicesInv'
<1>1. UNCHANGED <<st, family, release, call>> /\ family = {"gates"} /\ ~client[c].made
  BY DEF NewClient
<1>2. PICK e \in Endpoints :
        client' = [client EXCEPT ![c] = [@ EXCEPT !.made = TRUE, !.active = e,
                                                  !.from = {e}, !.caps = release[e]]]
  BY DEF NewClient
<1> DEFINE k == [client[c] EXCEPT !.made = TRUE, !.active = e, !.from = {e},
                                  !.caps = release[e]]
<1>3. /\ DOMAIN k = {"made", "active", "from", "caps", "seen", "tickets", "user"}
      /\ k.made /\ k.active = e /\ k.from = {e} /\ k.caps = release[e]
  BY DEF ServicesInv, ClientTypes
<1>4. client' = [client EXCEPT ![c] = k]
  BY <1>2
<1> HIDE DEF k
<1>5. DOMAIN client' = Clients /\ \A d \in Clients : client'[d] = IF d = c THEN k ELSE client[d]
  BY <1>4 DEF ServicesInv, ClientTypes
<1>6. StateOK(st)' /\ OpsFit' /\ NoOrphanedNodes'
  BY <1>1 DEF ServicesInv, OpsFit, Asked, NoOrphanedNodes
<1>7. ClientTypes'
  BY <1>1, <1>3, <1>5 DEF ServicesInv, ClientTypes
<1>8. StoreInv'
  BY <1>1, Distinct DEF StoreInv
<1>9. /\ release \in [Endpoints -> Int]
      /\ \A d \in Clients : Gated(d) /\ Reached(d)
  BY <1>1 DEF ServicesInv, GateInv
<1>10. call[c].pc = "idle" /\ call[c].served = << >>
  BY <1>1, <1>9 DEF Gated, Reached
<1>11. Gated(c)' /\ Reached(c)'
  BY <1>1, <1>3, <1>5, <1>9, <1>10, NothingServed DEF Gated, Reached
<1>12. \A d \in Clients \ {c} : Gated(d)' /\ Reached(d)'
  BY <1>1, <1>5, <1>9 DEF Gated, Reached
<1> QED BY <1>1, <1>6, <1>7, <1>8, <1>9, <1>11, <1>12 DEF ServicesInv, GateInv

\* A call that begins, or that is refused before anything is sent.
Begins(c, q) ==
  /\ Asked(q.op)
  /\ q.op = "DatastoreUpdate" => q.digest \in {0, client[c].seen.digest}
  /\ family = {"gates"} =>
       client[c].made /\ q.since \in Nat /\ q.since <= client[c].caps

\* Such a call has been served nothing yet.
LEMMA BeginKeeps ==
  ASSUME ServicesInv, NEW c \in Clients, NEW x,
         UNCHANGED <<st, family, release, client>>,
         call' = [call EXCEPT ![c] = x],
         x = NoCall \/ \E q : x = Sent(q) /\ Begins(c, q)
  PROVE  ServicesInv'
<1>1. /\ DOMAIN call' = Clients /\ call'[c] = x
      /\ \A d \in Clients \ {c} : call'[d] = call[d]
  BY DEF ServicesInv, ClientTypes
<1>2. StateOK(st)' /\ NoOrphanedNodes'
  BY DEF ServicesInv, NoOrphanedNodes
<1>3. /\ DOMAIN x = {"pc", "q", "sends", "reply", "read", "served"}
      /\ x.pc \in {"idle", "sent"} /\ x.served = << >>
      /\ x.pc = "sent" => Begins(c, x.q)
  <2>1. CASE x = NoCall
    BY <2>1, NoCallIs
  <2>2. CASE \E q : x = Sent(q) /\ Begins(c, q)
    <3>1. PICK q : x = Sent(q) /\ Begins(c, q)
      BY <2>2
    <3> QED BY <3>1, SentIs
  <2> QED BY <2>1, <2>2
<1>4. ClientTypes'
  BY <1>1, <1>3 DEF ServicesInv, ClientTypes
<1>5. OpsFit'
  <2>1. ASSUME NEW d \in Clients, call'[d].pc # "idle" PROVE Asked(call[d].q.op)'
    <3>1. Asked(call'[d].q.op)
      BY <1>1, <1>3, <2>1 DEF ServicesInv, OpsFit, Begins
    <3> QED BY <3>1 DEF Asked
  <2> QED BY <2>1 DEF OpsFit
<1>6. StoreInv'
  <2> SUFFICES ASSUME family = {"datastores"}, NEW d \in Clients PROVE Stored(d)'
    BY DEF StoreInv
  <2>1. Stored(d) BY DEF ServicesInv, StoreInv
  <2>2. \A r : Matching(r)' <=> Matching(r) BY DEF Matching
  <2>3. CASE d # c
    BY <1>1, <2>1, <2>2, <2>3 DEF Stored, GuardedOnce
  <2>4. CASE d = c
    BY <1>1, <1>3, <2>1, <2>2, <2>4 DEF Stored, GuardedOnce, Begins
  <2> QED BY <2>3, <2>4
<1>7. GateInv'
  <2> SUFFICES ASSUME family = {"gates"}, NEW d \in Clients PROVE Gated(d)' /\ Reached(d)'
    BY DEF ServicesInv, GateInv
  <2>1. Gated(d) /\ Reached(d) BY DEF ServicesInv, GateInv
  <2>2. CASE d # c
    BY <1>1, <2>1, <2>2 DEF Gated, Reached
  <2>3. CASE d = c
    <3>1. Gated(c)'
      BY <1>1, <1>3, <2>1, <2>3 DEF Gated, Begins
    <3>2. Reached(c)'
      BY <1>1, <1>3, NothingServed DEF Reached
    <3> QED BY <2>3, <3>1, <3>2
  <2> QED BY <2>2, <2>3
<1> QED BY <1>2, <1>4, <1>5, <1>6, <1>7 DEF ServicesInv

\* A method sends only what the client's capabilities allow.
LEMMA InvokeKeeps ==
  ASSUME ServicesInv, NEW c \in Clients, Invoke(c)
  PROVE  ServicesInv'
<1>1. PICK svc \in DOMAIN M!Service : \E name \in DOMAIN M!Service[svc] :
        LET m == M!Service[svc][name]
        IN  \E a \in Arguments(m) :
              call' = [call EXCEPT ![c] =
                IF Refuses(c, m, a) THEN NoCall
                ELSE Sent([op |-> "Call", svc |-> svc, name |-> name, since |-> m.since,
                           blanked |-> a.blanked,
                           form |-> M!EncodeWithExtra(m, a.blanked)])]
  BY DEF Invoke
<1>2. PICK name \in DOMAIN M!Service[svc] :
        LET m == M!Service[svc][name]
        IN  \E a \in Arguments(m) :
              call' = [call EXCEPT ![c] =
                IF Refuses(c, m, a) THEN NoCall
                ELSE Sent([op |-> "Call", svc |-> svc, name |-> name, since |-> m.since,
                           blanked |-> a.blanked,
                           form |-> M!EncodeWithExtra(m, a.blanked)])]
  BY <1>1
<1> DEFINE m == M!Service[svc][name]
           q(a) == [op |-> "Call", svc |-> svc, name |-> name, since |-> m.since,
                    blanked |-> a.blanked, form |-> M!EncodeWithExtra(m, a.blanked)]
<1>3. PICK a \in Arguments(m) :
        call' = [call EXCEPT ![c] = IF Refuses(c, m, a) THEN NoCall ELSE Sent(q(a))]
  BY <1>2
<1>4. /\ UNCHANGED <<st, family, release, client>>
      /\ family \in {{"methods"}, {"gates"}} /\ client[c].made
  BY DEF Invoke
<1>5. m.since \in Nat
  BY TablesFit DEF AllFit, Fits
<1>6. q(a).op = "Call" /\ q(a).since = m.since
  OBVIOUS
<1>7. ~Refuses(c, m, a) => client[c].caps >= m.since
  BY DEF Refuses, Unsupported, Require
<1>8. family = {"gates"} => client[c].caps \in Int
  BY DEF ServicesInv, GateInv, Gated
<1> HIDE DEF m, q
<1>9. CASE Refuses(c, m, a)
  <2>1. call' = [call EXCEPT ![c] = NoCall]
    BY <1>3, <1>9
  <2> QED BY <1>4, <2>1, BeginKeeps
<1>10. CASE ~Refuses(c, m, a)
  <2>1. call' = [call EXCEPT ![c] = Sent(q(a))]
    BY <1>3, <1>10
  <2>2. family = {"gates"} => m.since <= client[c].caps
    BY <1>5, <1>7, <1>8, <1>10
  <2>3. Begins(c, q(a))
    BY <1>4, <1>5, <1>6, <2>2 DEF Begins, Asked
  <2> QED BY <1>4, <2>1, <2>3, BeginKeeps
<1> QED BY <1>9, <1>10

\* An update carries no digest, or that of the last read.
LEMMA AskKeeps ==
  ASSUME ServicesInv, NEW c \in Clients, Ask(c)
  PROVE  ServicesInv'
<1>1. UNCHANGED <<st, family, release, client>>
  BY DEF Ask
<1>2. CASE family = {"datastores"}
  <2>1. PICK q \in StoreCalls(c) : call' = [call EXCEPT ![c] = Sent(q)]
    BY <1>2 DEF Ask
  <2> DEFINE id == CHOOSE n \in Names : TRUE
             form == [f \in Fields |-> IF f = "first" THEN 1 ELSE Empty]
             others == {[op |-> "DatastoreGet"], [op |-> "DatastoreDelete", id |-> id],
                        [op |-> "DatastoreCreate", id |-> id, zfs |-> FALSE, form |-> form]}
             updates == [op : {"DatastoreUpdate"}, id : {id},
                         digest : {0, client[c].seen.digest}, fixed : {FALSE},
                         delete : {{}, {"first"}}, form : {form, Cleared(form, Fields)}]
  <2>2. StoreCalls(c) = others \union updates
    BY DEF StoreCalls
  <2>3. q \in others => q.op \in StoreOps /\ q.op # "DatastoreUpdate"
    BY DEF StoreOps
  <2>4. q \in updates => q.op \in StoreOps /\ q.digest \in {0, client[c].seen.digest}
    BY DEF StoreOps
  <2> HIDE DEF others, updates
  <2>5. Begins(c, q)
    BY <1>2, <2>2, <2>3, <2>4, Distinct DEF Begins, Asked
  <2> QED BY <1>1, <2>1, <2>5, BeginKeeps
<1>3. CASE family = {"consoles"}
  <2>1. PICK q \in ConsoleCalls(c) : call' = [call EXCEPT ![c] = Sent(q)]
    BY <1>3, Distinct DEF Ask
  <2>2. q.op \in ConsoleOps /\ q.op # "DatastoreUpdate"
    BY DEF ConsoleCalls, ConsoleOps
  <2>3. Begins(c, q)
    BY <1>3, <2>2, Distinct DEF Begins, Asked
  <2> QED BY <1>1, <2>1, <2>3, BeginKeeps
<1>4. CASE family # {"datastores"} /\ family # {"consoles"}
  BY <1>4 DEF Ask
<1> QED BY <1>2, <1>3, <1>4

\* Sending again, even elsewhere, leaves what has been served.
LEMMA ResendKeeps ==
  ASSUME ServicesInv, NEW c \in Clients, Resend(c)
  PROVE  ServicesInv'
<1> DEFINE first == [call[c] EXCEPT !.pc = "sent"]
           second == [first EXCEPT !.reply = ""]
           x == [second EXCEPT !.sends = @ + 1]
<1>1. UNCHANGED <<st, family, release>> /\ call[c].pc # "idle"
  BY DEF Resend
<1>2. PICK e \in IF family = {"gates"} THEN Endpoints ELSE {client[c].active} :
        client' = [client EXCEPT ![c].active = e]
  BY DEF Resend
<1> DEFINE k == [client[c] EXCEPT !.active = e]
<1>3. call' = [call EXCEPT ![c] = x]
  BY DEF Resend, ServicesInv, ClientTypes
<1>4. client' = [client EXCEPT ![c] = k]
  BY <1>2
<1>5. /\ DOMAIN k = {"made", "active", "from", "caps", "seen", "tickets", "user"}
      /\ k.made = client[c].made /\ k.active = e /\ k.from = client[c].from
      /\ k.caps = client[c].caps /\ k.seen = client[c].seen
  BY DEF ServicesInv, ClientTypes
<1>6. /\ DOMAIN x = {"pc", "q", "sends", "reply", "read", "served"}
      /\ x.pc = "sent" /\ x.q = call[c].q /\ x.served = call[c].served
  <2>1. /\ DOMAIN first = {"pc", "q", "sends", "reply", "read", "served"}
        /\ first.pc = "sent" /\ first.q = call[c].q /\ first.served = call[c].served
    BY DEF ServicesInv, ClientTypes
  <2> HIDE DEF first
  <2>2. /\ DOMAIN second = {"pc", "q", "sends", "reply", "read", "served"}
        /\ second.pc = "sent" /\ second.q = call[c].q /\ second.served = call[c].served
    BY <2>1
  <2> HIDE DEF second
  <2> QED BY <2>2
<1> HIDE DEF k, x
<1>7. /\ DOMAIN call' = Clients /\ DOMAIN client' = Clients
      /\ call'[c] = x /\ client'[c] = k
      /\ \A d \in Clients \ {c} : call'[d] = call[d] /\ client'[d] = client[d]
  BY <1>3, <1>4 DEF ServicesInv, ClientTypes
<1>8. StateOK(st)' /\ NoOrphanedNodes'
  BY <1>1 DEF ServicesInv, NoOrphanedNodes
<1>9. ClientTypes'
  BY <1>5, <1>6, <1>7 DEF ServicesInv, ClientTypes
<1>10. OpsFit'
  BY <1>1, <1>6, <1>7 DEF ServicesInv, OpsFit, Asked
<1>11. StoreInv'
  <2> SUFFICES ASSUME family = {"datastores"}, NEW d \in Clients PROVE Stored(d)'
    BY <1>1 DEF StoreInv
  <2>1. Stored(d) BY DEF ServicesInv, StoreInv
  <2>2. \A r : Matching(r)' <=> Matching(r) BY <1>1 DEF Matching
  <2>3. CASE d # c
    BY <1>1, <1>7, <2>1, <2>2, <2>3 DEF Stored, GuardedOnce
  <2>4. CASE d = c
    BY <1>1, <1>5, <1>6, <1>7, <2>1, <2>2, <2>4 DEF Stored, GuardedOnce
  <2> QED BY <2>3, <2>4
<1>12. GateInv'
  <2> SUFFICES ASSUME family = {"gates"}, NEW d \in Clients PROVE Gated(d)' /\ Reached(d)'
    BY <1>1 DEF ServicesInv, GateInv
  <2>1. Gated(d) /\ Reached(d) BY DEF ServicesInv, GateInv
  <2>2. CASE d # c
    BY <1>1, <1>7, <2>1, <2>2 DEF Gated, Reached
  <2>3. CASE d = c
    <3>1. Gated(c)'
      BY <1>1, <1>2, <1>5, <1>6, <1>7, <2>1, <2>3 DEF Gated
    <3>2. Reached(c)'
      BY <1>5, <1>6, <1>7, <2>1, <2>3 DEF Reached
    <3> QED BY <2>3, <3>1, <3>2
  <2> QED BY <2>2, <2>3
<1> QED BY <1>8, <1>9, <1>10, <1>11, <1>12 DEF ServicesInv

\* A call that ends; a client keeps what it read at most.
LEMMA ReturnedKeeps ==
  ASSUME ServicesInv, NEW c \in Clients, NEW k, Returned(c, k),
         UNCHANGED <<st, family, release>>,
         DOMAIN k = {"made", "active", "from", "caps", "seen", "tickets", "user"},
         k.made = client[c].made, k.active = client[c].active, k.from = client[c].from,
         k.caps = client[c].caps,
         \/ k.seen = client[c].seen
         \/ call[c].pc = "answered" /\ k.seen = call[c].read
  PROVE  ServicesInv'
<1>1. /\ DOMAIN call' = Clients /\ DOMAIN client' = Clients
      /\ call'[c] = NoCall /\ client'[c] = k
      /\ \A d \in Clients \ {c} : call'[d] = call[d] /\ client'[d] = client[d]
  BY DEF ServicesInv, ClientTypes, Returned
<1>2. StateOK(st)' /\ NoOrphanedNodes'
  BY DEF ServicesInv, NoOrphanedNodes
<1>3. ClientTypes'
  BY <1>1, NoCallIs DEF ServicesInv, ClientTypes
<1>4. OpsFit'
  BY <1>1, NoCallIs DEF ServicesInv, OpsFit, Asked
<1>5. StoreInv'
  <2> SUFFICES ASSUME family = {"datastores"}, NEW d \in Clients PROVE Stored(d)'
    BY DEF StoreInv
  <2>1. Stored(d) BY DEF ServicesInv, StoreInv
  <2>2. \A r : Matching(r)' <=> Matching(r) BY DEF Matching
  <2>3. CASE d # c
    BY <1>1, <2>1, <2>2, <2>3 DEF Stored, GuardedOnce
  <2>4. CASE d = c
    BY <1>1, <2>1, <2>2, <2>4, NoCallIs DEF Stored, GuardedOnce
  <2> QED BY <2>3, <2>4
<1>6. GateInv'
  <2> SUFFICES ASSUME family = {"gates"}, NEW d \in Clients PROVE Gated(d)' /\ Reached(d)'
    BY DEF ServicesInv, GateInv
  <2>1. Gated(d) /\ Reached(d) BY DEF ServicesInv, GateInv
  <2>2. CASE d # c
    BY <1>1, <2>1, <2>2 DEF Gated, Reached
  <2>3. CASE d = c
    BY <1>1, <2>1, <2>3, NoCallIs, NothingServed DEF Gated, Reached
  <2> QED BY <2>2, <2>3
<1> QED BY <1>2, <1>3, <1>4, <1>5, <1>6 DEF ServicesInv

\* A call that is given up leaves the client as it was.
LEMMA GiveUpKeeps ==
  ASSUME ServicesInv, NEW c \in Clients, GiveUp(c)
  PROVE  ServicesInv'
<1>1. DOMAIN client[c] = {"made", "active", "from", "caps", "seen", "tickets", "user"}
  BY DEF ServicesInv, ClientTypes
<1> QED BY <1>1, ReturnedKeeps DEF GiveUp

\* What a client remembers of the file was read with its digest.
LEMMA ReceiveKeeps ==
  ASSUME ServicesInv, NEW c \in Clients, Receive(c)
  PROVE  ServicesInv'
<1> DEFINE q == call[c].q
           read == [client[c] EXCEPT !.seen = call[c].read]
           minted == [client[c] EXCEPT !.tickets = @ \union {VNCTicket(q.surface, TRUE),
                                                            VNCTicket(q.surface, FALSE)}]
<1>1. DOMAIN client[c] = {"made", "active", "from", "caps", "seen", "tickets", "user"}
  BY DEF ServicesInv, ClientTypes
<1>2. UNCHANGED <<st, family, release>> /\ call[c].pc = "answered"
  BY DEF Receive
<1>3. /\ DOMAIN read = DOMAIN client[c] /\ read.seen = call[c].read
      /\ read.made = client[c].made /\ read.active = client[c].active
      /\ read.from = client[c].from /\ read.caps = client[c].caps
  BY <1>1
<1>4. /\ DOMAIN minted = DOMAIN client[c] /\ minted.seen = client[c].seen
      /\ minted.made = client[c].made /\ minted.active = client[c].active
      /\ minted.from = client[c].from /\ minted.caps = client[c].caps
  BY <1>1
<1> HIDE DEF read, minted
<1>5. \/ Returned(c, read) \/ Returned(c, minted) \/ Returned(c, client[c])
  BY DEF Receive, read, minted
<1> QED BY <1>1, <1>2, <1>3, <1>4, <1>5, ReturnedKeeps

\* What a delivery does to the server and answers, by what is asked.
LEMMA OutcomeIs ==
  ASSUME ServicesInv, NEW c \in Clients, call[c].pc = "sent"
  PROVE  LET q   == call[c].q
             out == Outcome(c, q)
         IN  /\ StateOK(out.st) /\ Parented(out.st)
             /\ family = {"datastores"} =>
                  \/ out.st.version = st.version /\ out.st.stores = st.stores
                     /\ q.op = "DatastoreGet"
                  \/ Writes(st, q, out)
             /\ family # {"datastores"} => Leaves(st, out.st)
<1> DEFINE q == call[c].q
           out == Outcome(c, q)
<1>1. Asked(q.op) /\ StateOK(st) /\ Parented(st)
  BY DEF ServicesInv, OpsFit, NoOrphanedNodes, Parented
<1>2. CASE family = {"datastores"}
  <2>1. q.op \in StoreOps
    BY <1>1, <1>2, Distinct DEF Asked
  <2>2. out = Handle(st, q)
    BY <2>1 DEF Outcome, StoreOps
  <2>3. CASE q.op = "DatastoreGet"
    <3>1. Leaves(st, out.st)
      BY <1>1, <2>2, <2>3, OthersLeave DEF OtherOps
    <3> QED BY <1>1, <1>2, <2>3, <3>1 DEF Leaves, StateOK, Parented
  <2>4. CASE q.op # "DatastoreGet"
    <3>1. q.op \in WritingOps
      BY <2>1, <2>4 DEF StoreOps, WritingOps
    <3>2. Writes(st, q, out)
      BY <1>1, <2>2, <3>1, DatastoresWrite
    <3>3. StateOK(out.st) /\ Parented(out.st)
      BY <1>1, <2>2, <3>1, HandleKeeps
    <3> QED BY <1>2, <3>2, <3>3
  <2> QED BY <2>3, <2>4
<1>3. CASE family = {"consoles"}
  <2>1. q.op \in OtherOps /\ q.op # "Call"
    BY <1>1, <1>3, Distinct DEF Asked, ConsoleOps, OtherOps
  <2>2. Leaves(st, out.st)
    BY <1>1, <2>1, OthersLeave DEF Outcome
  <2> QED BY <1>1, <1>3, <2>2, Distinct DEF Leaves, StateOK, Parented
<1>4. CASE family \in {{"methods"}, {"gates"}}
  <2>1. q.op = "Call"
    BY <1>1, <1>4, Distinct DEF Asked
  <2>2. out.st = st
    BY <2>1 DEF Outcome
  <2>3. Leaves(st, st)
    BY <1>1 DEF Leaves, StateOK
  <2> QED BY <1>1, <1>4, <2>2, <2>3, Distinct
<1> QED BY <1>1, <1>2, <1>3, <1>4 DEF Asked

\* A delivery is accepted with the current digest or changes nothing.
LEMMA DeliverKeeps ==
  ASSUME ServicesInv, NEW c \in Clients, Deliver(c)
  PROVE  ServicesInv'
<1> DEFINE q == call[c].q
           out == Outcome(c, q)
           read == [digest |-> st.version, stores |-> st.stores]
           counted == out.reply \in Accepted \union {"no route"}
           served == IF counted THEN Append(call[c].served, Witness(c)) ELSE call[c].served
           x == [call[c] EXCEPT !.pc = "answered", !.reply = out.reply,
                                !.read = read, !.served = served]
<1>1. UNCHANGED <<family, release, client>> /\ call[c].pc = "sent" /\ st' = out.st
  BY DEF Deliver
<1>2. call' = [call EXCEPT ![c] = x]
  BY DEF Deliver
<1>3. /\ StateOK(out.st) /\ Parented(out.st)
      /\ family = {"datastores"} =>
           \/ out.st.version = st.version /\ out.st.stores = st.stores
              /\ q.op = "DatastoreGet"
           \/ Writes(st, q, out)
      /\ family # {"datastores"} => Leaves(st, out.st)
  BY <1>1, OutcomeIs
<1>4. /\ DOMAIN x = {"pc", "q", "sends", "reply", "read", "served"}
      /\ x.pc = "answered" /\ x.q = q /\ x.served = served /\ x.read = read
  <2> HIDE DEF out, read, served, counted
  <2> QED BY DEF ServicesInv, ClientTypes
<1> HIDE DEF out, x, read, served, counted
<1>5. /\ DOMAIN call' = Clients /\ call'[c] = x
      /\ \A d \in Clients \ {c} : call'[d] = call[d]
  BY <1>2 DEF ServicesInv, ClientTypes
<1>6. StateOK(st)' /\ NoOrphanedNodes'
  BY <1>1, <1>3 DEF NoOrphanedNodes, Parented, StateOK
<1>7. ClientTypes'
  BY <1>1, <1>4, <1>5 DEF ServicesInv, ClientTypes
<1>8. OpsFit'
  BY <1>1, <1>4, <1>5 DEF ServicesInv, OpsFit, Asked
<1>9. StoreInv'
  <2> SUFFICES ASSUME family = {"datastores"}, NEW d \in Clients PROVE Stored(d)'
    BY <1>1 DEF StoreInv
  <2>1. Stored(d) /\ st.version \in Nat
    BY DEF ServicesInv, StoreInv, StateOK
  <2>2. \/ st'.version = st.version /\ st'.stores = st.stores
        \/ st'.version = st.version + 1
    BY <1>1, <1>3 DEF Writes
  <2>3. \A r : Matching(r) => Matching(r)'
    BY <2>1, <2>2 DEF Matching
  <2>4. CASE d # c
    BY <1>1, <1>5, <2>1, <2>2, <2>3, <2>4 DEF Stored, GuardedOnce, Matching
  <2>5. CASE d = c
    <3>1. Matching(call[c].read)'
      BY <1>4, <1>5, <2>1, <2>2 DEF Matching, read
    <3>2. Matching(client[c].seen)'
      BY <1>1, <2>1, <2>3, <2>5 DEF Stored
    <3>3. ASSUME q.op = "DatastoreUpdate" PROVE q.digest \in {0, client[c].seen.digest}
      <4>1. call[c].pc # "idle" BY <1>1
      <4> QED BY <2>1, <2>5, <3>3, <4>1 DEF Stored
    <3>4. ASSUME q.op = "DatastoreUpdate", q.digest # 0
          PROVE  \/ served = << >>
                 \/ served = <<client[c].seen.stores>> /\ q.digest < st'.version
      <4>1. Writes(st, q, out)
        BY <1>3, <3>4
      <4>2. GuardedOnce(c) /\ q.digest \in Nat
        BY <1>1, <2>1, <2>5, <3>3, <3>4 DEF Stored, Matching
      <4>3. CASE out.st = st /\ out.reply \in Refusals
        <5>1. served = call[c].served
          BY <4>3 DEF served, counted, Refusals, Accepted
        <5> QED BY <1>1, <4>2, <4>3, <5>1 DEF GuardedOnce
      <4>4. CASE ~(out.st = st /\ out.reply \in Refusals)
        <5>1. out.st.version = st.version + 1 /\ out.reply = "ok" /\ q.digest = st.version
          BY <3>4, <4>1, <4>4 DEF Writes
        <5>2. call[c].served = << >>
          BY <2>1, <4>2, <5>1 DEF GuardedOnce
        <5>3. st.stores = client[c].seen.stores
          BY <2>1, <2>5, <3>3, <3>4, <5>1 DEF Stored, Matching
        <5>4. Witness(c) = client[c].seen.stores
          BY <5>3, Distinct DEF Witness
        <5>5. served = <<client[c].seen.stores>>
          BY <5>1, <5>2, <5>4 DEF served, counted, Accepted
        <5> QED BY <1>1, <2>1, <5>1, <5>5
      <4> QED BY <4>3, <4>4
    <3>5. Stored(c)'
      BY <1>1, <1>4, <1>5, <3>1, <3>2, <3>3, <3>4 DEF Stored, GuardedOnce
    <3> QED BY <2>5, <3>5
  <2> QED BY <2>4, <2>5
<1>10. GateInv'
  <2> SUFFICES ASSUME family = {"gates"}, NEW d \in Clients PROVE Gated(d)' /\ Reached(d)'
    BY <1>1 DEF ServicesInv, GateInv
  <2>1. Gated(d) /\ Reached(d) /\ release \in [Endpoints -> Int]
    BY DEF ServicesInv, GateInv
  <2>2. CASE d # c
    BY <1>1, <1>5, <2>1, <2>2 DEF Gated, Reached
  <2>3. CASE d = c
    <3>1. Gated(c)'
      BY <1>1, <1>4, <1>5, <2>1, <2>3 DEF Gated
    <3> DEFINE w == Witness(c)
    <3>2. /\ w \in Witnesses
          /\ w.runs < q.since => w.at \notin client[c].from
      <4>1. w = [at |-> client[c].active, runs |-> release[client[c].active]]
        BY DEF Witness
      <4> QED BY <1>1, <2>1, <2>3, <4>1 DEF Gated, Witnesses
    <3> HIDE DEF w
    <3>3. /\ served \in Seq(Witnesses)
          /\ \A i \in DOMAIN served :
               served[i].runs < q.since => served[i].at \notin client[c].from
      <4>1. CASE ~counted
        BY <2>1, <2>3, <4>1 DEF Reached, served
      <4>2. CASE counted
        <5>1. served = Append(call[c].served, w) /\ call[c].served \in Seq(Witnesses)
          BY <2>1, <2>3, <4>2 DEF Reached, served, w
        <5>2. \A i \in DOMAIN served :
                \/ i \in DOMAIN call[c].served /\ served[i] = call[c].served[i]
                \/ served[i] = w
          BY <3>2, <5>1, AppendProperties
        <5>3. served \in Seq(Witnesses)
          BY <3>2, <5>1, AppendProperties
        <5> QED BY <2>1, <2>3, <3>2, <5>2, <5>3 DEF Reached
      <4> QED BY <4>1, <4>2
    <3> QED BY <1>1, <1>4, <1>5, <2>3, <3>1, <3>3 DEF Reached
  <2> QED BY <2>2, <2>3
<1> QED BY <1>6, <1>7, <1>8, <1>9, <1>10 DEF ServicesInv

-----------------------------------------------------------------------------
(* The theorems.                                                           *)

\* However calls, deliveries, answers, upgrades and requests of anyone's
\* interleave, the server and its clients keep the invariant above.
THEOREM ServicesInvariant == Spec => []ServicesInv
<1>1. ServicesInv /\ [Next]_servicesVars => ServicesInv'
  <2> SUFFICES ASSUME ServicesInv, [Next]_servicesVars PROVE ServicesInv'
    OBVIOUS
  <2>1. CASE ServeAnyone
    BY <2>1, ServeAnyoneKeeps
  <2>2. CASE \E e \in Endpoints : Upgrade(e)
    BY <2>2, UpgradeKeeps
  <2>3. ASSUME NEW c \in Clients,
               \/ NewClient(c) \/ Invoke(c) \/ Ask(c)
               \/ Deliver(c) \/ Resend(c) \/ GiveUp(c) \/ Receive(c)
        PROVE  ServicesInv'
    BY <2>3, NewClientKeeps, InvokeKeeps, AskKeeps, DeliverKeeps, ResendKeeps,
       GiveUpKeeps, ReceiveKeeps
  <2>4. CASE UNCHANGED servicesVars
    BY <2>4 DEF servicesVars, ServicesInv, ClientTypes, OpsFit, Asked, StoreInv, Stored,
                Matching, GuardedOnce, GateInv, Gated, Reached, NoOrphanedNodes
  <2> QED BY <2>1, <2>2, <2>3, <2>4 DEF Next
<1> QED BY InitHolds, <1>1, PTL DEF Spec

\* A guarded UpdateDatastore is accepted at most once and of the file its
\* client read, however many clients write and however often it is delivered.
THEOREM GuardedCorrect == Spec => []GuardedAppliedOnce
<1>1. ServicesInv => GuardedAppliedOnce
  <2> SUFFICES ASSUME ServicesInv, NEW c \in Clients,
                      call[c].q.op = "DatastoreUpdate", call[c].pc # "idle",
                      call[c].q.digest # 0
               PROVE  /\ Len(call[c].served) <= 1
                      /\ \A i \in DOMAIN call[c].served :
                           call[c].served[i] = client[c].seen.stores
    BY DEF GuardedAppliedOnce
  <2>1. family = {"datastores"}
    BY DEF ServicesInv, OpsFit, Asked, ConsoleOps
  <2>2. GuardedOnce(c)
    BY <2>1 DEF ServicesInv, StoreInv, Stored
  <2>3. CASE call[c].served = << >>
    BY <2>3
  <2>4. CASE call[c].served = <<client[c].seen.stores>>
    BY <2>4
  <2> QED BY <2>2, <2>3, <2>4 DEF GuardedOnce
<1> QED BY <1>1, ServicesInvariant, PTL

\* Whatever is upgraded when and wherever a call is sent again, a method that
\* needs a release meets a node without it only off the endpoint that the
\* client's capabilities came from.
THEOREM GateCorrect == Spec => []GateHolds
<1>1. ServicesInv => GateHolds
  BY DEF ServicesInv, GateInv, Reached, GateHolds
<1> QED BY <1>1, ServicesInvariant, PTL

\* Whatever is asked of the server, a fabric's nodes exist only while the
\* fabric does.
THEOREM FabricsCorrect == Spec => []NoOrphanedNodes
<1>1. ServicesInv => NoOrphanedNodes
  BY DEF ServicesInv
<1> QED BY <1>1, ServicesInvariant, PTL

-----------------------------------------------------------------------------
(* Loops.                                                                  *)

\* A set of numbers has a least one.
LEMMA LeastNumber ==
  ASSUME NEW T \in SUBSET Nat, T # {}
  PROVE  \E x \in T : \A y \in T : x <= y
<1>1. PICK x \in T : \A y \in T : ~ (<<y, x>> \in OpToRel(<, Nat))
  BY NatLessThanWellFounded, WFMin
<1>2. \A y \in T : ~ (y < x)
  BY <1>1 DEF OpToRel
<1> QED BY <1>2

\* Induction, for a set of numbers.
LEMMA Counting ==
  ASSUME NEW T \in SUBSET Nat, 0 \in T, \A i \in T : i + 1 \in T
  PROVE  T = Nat
<1> DEFINE U == Nat \ T
<1> SUFFICES ASSUME U # {} PROVE FALSE
  OBVIOUS
<1>1. PICK x \in U : \A y \in U : x <= y
  <2>1. U \in SUBSET Nat OBVIOUS
  <2> QED BY <2>1, LeastNumber
<1>2. x \in Nat /\ x # 0 /\ x \notin T
  BY <1>1
<1>3. x - 1 \in Nat /\ x - 1 \in T
  BY <1>1, <1>2
<1>4. (x - 1) + 1 = x
  BY <1>2
<1> QED BY <1>2, <1>3, <1>4

\* A loop of n turns that begins with b: turn i makes s[i][v] of v.
Loops(n, b, s, f) == f = [i \in 0..n |-> IF i = 0 THEN b ELSE s[i][f[i - 1]]]

\* Such a loop has a run.
LEMMA LoopRuns ==
  ASSUME NEW V, NEW b \in V, NEW n \in Nat, NEW s \in [1..n -> [V -> V]]
  PROVE  \E f \in [0..n -> V] : Loops(n, b, s, f)
<1> DEFINE T == {m \in Nat : m <= n => \E f \in [0..m -> V] : Loops(m, b, s, f)}
<1>1. 0 \in T
  <2> DEFINE f == [i \in 0..0 |-> b]
  <2>1. f \in [0..0 -> V] OBVIOUS
  <2>2. \A i \in 0..0 : i = 0 OBVIOUS
  <2>3. Loops(0, b, s, f)
    <3>1. [i \in 0..0 |-> IF i = 0 THEN b ELSE s[i][f[i - 1]]] = [i \in 0..0 |-> b]
      <4> HIDE DEF f
      <4> QED BY <2>2
    <3> QED BY <3>1 DEF Loops
  <2> HIDE DEF f
  <2> QED BY <2>1, <2>3
<1>2. ASSUME NEW m \in T PROVE m + 1 \in T
  <2> SUFFICES ASSUME m + 1 <= n PROVE \E f \in [0..(m + 1) -> V] : Loops(m + 1, b, s, f)
    OBVIOUS
  <2>1. PICK e \in [0..m -> V] : Loops(m, b, s, e)
    BY <1>2
  <2> DEFINE last == s[m + 1][e[m]]
             f == [i \in 0..(m + 1) |-> IF i = m + 1 THEN last ELSE e[i]]
  <2>2. m \in Nat /\ m + 1 \in 1..n /\ m \in 0..m
    BY <1>2
  <2>3. last \in V
    BY <2>1, <2>2
  <2>4. \A i \in 0..(m + 1) : i # m + 1 => i \in 0..m
    BY <2>2
  <2>5. f \in [0..(m + 1) -> V]
    <3> HIDE DEF last
    <3> QED BY <2>1, <2>3, <2>4
  <2>6. ASSUME NEW i \in 0..(m + 1)
        PROVE  f[i] = IF i = 0 THEN b ELSE s[i][f[i - 1]]
    <3>1. CASE i = m + 1
      <4>1. f[i] = last /\ i # 0 BY <2>2, <3>1
      <4>2. i - 1 = m /\ m \in 0..(m + 1) /\ m # m + 1 BY <2>2, <3>1
      <4>3. f[i - 1] = e[m] BY <4>2
      <4> QED BY <3>1, <4>1, <4>3
    <3>2. CASE i # m + 1
      <4>1. i \in 0..m /\ f[i] = e[i] BY <2>4, <3>2
      <4>2. e[i] = IF i = 0 THEN b ELSE s[i][e[i - 1]] BY <2>1, <4>1 DEF Loops
      <4>3. i # 0 => i - 1 \in 0..(m + 1) /\ i - 1 # m + 1 BY <2>2, <4>1
      <4>4. i # 0 => f[i - 1] = e[i - 1] BY <4>3
      <4> QED BY <4>1, <4>2, <4>4
    <3> QED BY <3>1, <3>2
  <2>7. Loops(m + 1, b, s, f)
    <3>1. f = [i \in 0..(m + 1) |-> f[i]] OBVIOUS
    <3> HIDE DEF f
    <3> QED BY <2>6, <3>1 DEF Loops
  <2> HIDE DEF f
  <2> QED BY <2>5, <2>7
<1>3. T = Nat
  <2>1. T \in SUBSET Nat OBVIOUS
  <2> HIDE DEF T
  <2> QED BY <1>1, <1>2, <2>1, Counting
<1> QED BY <1>3

\* A run of a loop stays in the set that its turns stay in.
LEMMA LoopStays ==
  ASSUME NEW V, NEW n \in Nat, NEW f, f[0] \in V,
         \A i \in 1..n : f[i - 1] \in V => f[i] \in V
  PROVE  \A i \in 0..n : f[i] \in V
<1> DEFINE T == {m \in Nat : m <= n => f[m] \in V}
<1>1. 0 \in T OBVIOUS
<1>2. ASSUME NEW m \in T PROVE m + 1 \in T
  <2> SUFFICES ASSUME m + 1 <= n PROVE f[m + 1] \in V
    OBVIOUS
  <2>1. m \in Nat /\ m + 1 \in 1..n /\ (m + 1) - 1 = m /\ f[m] \in V
    BY <1>2
  <2> QED BY <2>1
<1>3. T = Nat
  <2>1. T \in SUBSET Nat OBVIOUS
  <2> HIDE DEF T
  <2> QED BY <1>1, <1>2, <2>1, Counting
<1> QED BY <1>3

\* The loop of Dropped, turn by turn.
Drops(list, S, out) ==
  /\ DOMAIN out = 0..Len(list) /\ out[0] = << >>
  /\ \A i \in 1..Len(list) :
       out[i] = IF list[i] \in S THEN out[i - 1] ELSE Append(out[i - 1], list[i])
  /\ Dropped(list, S) = out[Len(list)]

\* Dropped ends, with a list of elements that are not in S.
LEMMA DroppedRuns ==
  ASSUME NEW A, NEW list \in Seq(A), NEW S
  PROVE  \E out \in [0..Len(list) -> Seq(A \ S)] : Drops(list, S, out)
<1> DEFINE n == Len(list)
           V == Seq(A \ S)
           turn(i) == [v \in V |-> IF list[i] \in S THEN v ELSE Append(v, list[i])]
           s == [i \in 1..n |-> turn(i)]
           Is(f) == f = [i \in 0..n |-> IF i = 0 THEN << >>
                                        ELSE IF list[i] \in S THEN f[i - 1]
                                        ELSE Append(f[i - 1], list[i])]
           out == CHOOSE f : Is(f)
<1>1. n \in Nat /\ << >> \in V /\ \A i \in 1..n : list[i] \in A
  OBVIOUS
<1>2. \A i \in 1..n : turn(i) \in [V -> V]
  <2> SUFFICES ASSUME NEW i \in 1..n, NEW v \in V, list[i] \notin S
               PROVE  Append(v, list[i]) \in V
    OBVIOUS
  <2>1. list[i] \in A \ S BY <1>1
  <2> QED BY <2>1
<1>3. s \in [1..n -> [V -> V]]
  <2> HIDE DEF turn, V
  <2> QED BY <1>2
<1>4. PICK f \in [0..n -> V] : Loops(n, << >>, s, f)
  <2> HIDE DEF s, V, n
  <2> QED BY <1>1, <1>3, LoopRuns
<1>5. \A i \in 1..n, v \in V : s[i][v] = IF list[i] \in S THEN v ELSE Append(v, list[i])
  <2> HIDE DEF V
  <2> QED OBVIOUS
<1>6. Is(f)
  <2> HIDE DEF s, V
  <2>1. \A i \in 0..n : i # 0 => i \in 1..n /\ f[i - 1] \in V
    BY <1>1, <1>4
  <2>2. \A i \in 0..n : (IF i = 0 THEN << >> ELSE s[i][f[i - 1]])
                        = (IF i = 0 THEN << >> ELSE IF list[i] \in S THEN f[i - 1]
                           ELSE Append(f[i - 1], list[i]))
    BY <1>5, <2>1
  <2> QED BY <1>4, <2>2 DEF Loops
<1>7. Is(out) /\ Dropped(list, S) = out[n]
  <2>1. Is(out)
    <3> HIDE DEF Is
    <3> QED BY <1>6
  <2>2. Dropped(list, S) = out[n] BY DEF Dropped
  <2> QED BY <2>1, <2>2
<1> HIDE DEF out, s
<1>8. DOMAIN out = 0..n /\ out = [i \in 0..n |-> out[i]]
  BY <1>7
<1>9. /\ out[0] = << >>
      /\ \A i \in 1..n : out[i] = IF list[i] \in S THEN out[i - 1]
                                  ELSE Append(out[i - 1], list[i])
  <2>1. 0 \in 0..n /\ \A i \in 1..n : i \in 0..n /\ i # 0 BY <1>1
  <2> QED BY <1>7, <2>1
<1>10. \A i \in 0..n : out[i] \in V
  <2>1. \A i \in 1..n : out[i - 1] \in V => out[i] \in V
    <3> SUFFICES ASSUME NEW i \in 1..n, out[i - 1] \in V PROVE out[i] \in V
      OBVIOUS
    <3>1. CASE list[i] \in S
      BY <1>9, <3>1
    <3>2. CASE list[i] \notin S
      <4>1. list[i] \in A \ S BY <1>1, <3>2
      <4>2. out[i] = Append(out[i - 1], list[i]) BY <1>9, <3>2
      <4> HIDE DEF n
      <4> QED BY <4>1, <4>2, AppendProperties
    <3> QED BY <3>1, <3>2
  <2> HIDE DEF V, n
  <2> QED BY <1>1, <1>9, <2>1, LoopStays
<1>11. out \in [0..n -> V]
  <2> HIDE DEF V
  <2> QED BY <1>8, <1>10
<1> QED BY <1>7, <1>8, <1>9, <1>11 DEF Drops

\* What is left has none of S.
LEMMA DroppedType ==
  ASSUME NEW A, NEW list \in Seq(A), NEW S
  PROVE  Dropped(list, S) \in Seq(A \ S)
<1>1. PICK out \in [0..Len(list) -> Seq(A \ S)] : Drops(list, S, out)
  BY DroppedRuns
<1>2. Len(list) \in 0..Len(list) OBVIOUS
<1> QED BY <1>1, <1>2 DEF Drops

\* A list keeps its beginning for as long as there is nothing to drop.
LEMMA DroppedPrefix ==
  ASSUME NEW A, NEW list \in Seq(A), NEW S, NEW m \in 0..Len(list),
         \A i \in 1..m : list[i] \notin S,
         \A i \in (m + 1)..Len(list) : list[i] \in S
  PROVE  Dropped(list, S) = SubSeq(list, 1, m)
<1>1. PICK out \in [0..Len(list) -> Seq(A \ S)] : Drops(list, S, out)
  BY DroppedRuns
<1> DEFINE n == Len(list)
           T == {j \in Nat : j <= n => out[j] = SubSeq(list, 1, IF j <= m THEN j ELSE m)}
<1>2. n \in Nat /\ m \in Nat /\ m <= n /\ \A i \in 1..n : list[i] \in A
  OBVIOUS
<1>3. 0 \in T
  <2>1. SubSeq(list, 1, 0) = << >> BY SubSeqEmpty
  <2> QED BY <1>1, <1>2, <2>1 DEF Drops
<1>4. ASSUME NEW j \in T PROVE j + 1 \in T
  <2> SUFFICES ASSUME j + 1 <= n
               PROVE  out[j + 1] = SubSeq(list, 1, IF j + 1 <= m THEN j + 1 ELSE m)
    OBVIOUS
  <2>1. j \in Nat /\ j + 1 \in 1..n /\ (j + 1) - 1 = j
        /\ out[j] = SubSeq(list, 1, IF j <= m THEN j ELSE m)
    BY <1>2, <1>4
  <2>2. out[j + 1] = IF list[j + 1] \in S THEN out[j] ELSE Append(out[j], list[j + 1])
    BY <1>1, <2>1 DEF Drops
  <2>3. CASE j + 1 <= m
    <3>1. j + 1 \in 1..m BY <1>2, <2>1, <2>3
    <3>2. out[j + 1] = Append(SubSeq(list, 1, j), list[j + 1])
      BY <1>2, <2>1, <2>2, <2>3, <3>1
    <3>3. SubSeq(list, 1, j + 1) = Append(SubSeq(list, 1, j), list[j + 1])
      BY <1>2, <2>1
    <3> QED BY <2>3, <3>2, <3>3
  <2>4. CASE ~(j + 1 <= m)
    <3>1. j + 1 \in (m + 1)..n BY <1>2, <2>1, <2>4
    <3>2. out[j + 1] = out[j] BY <2>2, <3>1
    <3>3. (IF j <= m THEN j ELSE m) = m BY <1>2, <2>1, <2>4
    <3> QED BY <2>1, <2>4, <3>2, <3>3
  <2> QED BY <2>3, <2>4
<1>5. T = Nat
  <2>1. T \in SUBSET Nat OBVIOUS
  <2> HIDE DEF T
  <2> QED BY <1>3, <1>4, <2>1, Counting
<1>6. out[n] = SubSeq(list, 1, IF n <= m THEN n ELSE m)
  BY <1>2, <1>5
<1> QED BY <1>1, <1>2, <1>6 DEF Drops

\* A list without any of S stays as it is.
LEMMA DroppedNone ==
  ASSUME NEW A, NEW list \in Seq(A), NEW S, \A i \in 1..Len(list) : list[i] \notin S
  PROVE  Dropped(list, S) = list
<1>1. Dropped(list, S) = SubSeq(list, 1, Len(list))
  BY DroppedPrefix
<1> QED BY <1>1, SubSeqFull

\* Dropping twice is dropping once.
LEMMA DroppedTwice ==
  ASSUME NEW A, NEW list \in Seq(A), NEW S
  PROVE  Dropped(Dropped(list, S), S) = Dropped(list, S)
<1> DEFINE d == Dropped(list, S)
<1>1. d \in Seq(A \ S) BY DroppedType
<1> HIDE DEF d
<1>2. \A i \in 1..Len(d) : d[i] \notin S BY <1>1
<1>3. Dropped(d, S) = d BY <1>1, <1>2, DroppedNone
<1> QED BY <1>3 DEF d

-----------------------------------------------------------------------------
(* Serving a request twice.                                                *)

\* Serving q again leaves what serving it once left.
Settles(s, q) == LET once == Handle(s, q).st IN Handle(once, q).st = once

\* A record or a map with an entry that is there set to a value.
Set(f, x, v) == [f EXCEPT ![x] = v]

\* Setting it again to the same value changes nothing.
LEMMA SetTwice ==
  ASSUME NEW f, NEW x \in DOMAIN f, NEW v
  PROVE  /\ DOMAIN Set(f, x, v) = DOMAIN f /\ Set(f, x, v)[x] = v
         /\ Set(Set(f, x, v), x, v) = Set(f, x, v)
         /\ \A y \in DOMAIN f : y # x => Set(f, x, v)[y] = f[y]
BY DEF Set

\* A request that changes nothing, or sets a field, or two.
Sets(s, q, f, v) == Handle(s, q).st \in {s, Set(s, f, v)}
SetsTwo(s, q, f, v, g, w) == Handle(s, q).st \in {s, Set(Set(s, f, v), g, w)}

\* A request may be repeated if it changes nothing the first time, or sets a
\* field that it would leave or set to the same again.
LEMMA SettledBy ==
  ASSUME NEW s, NEW q, NEW f \in DOMAIN s, NEW v,
         Handle(s, q).st \in {s, Set(s, f, v)},
         Handle(Set(s, f, v), q).st \in {Set(s, f, v), Set(Set(s, f, v), f, v)}
  PROVE  Settles(s, q)
BY SetTwice DEF Settles

\* A map after a key is set twice.
LEMMA PutTwice ==
  ASSUME NEW f, NEW key, NEW val
  PROVE  Put(Put(f, key, val), key, val) = Put(f, key, val)
BY DEF Put

\* A request that puts a record under a key may be repeated.
LEMMA PutSettles ==
  ASSUME NEW s, NEW q, NEW f \in DOMAIN s, NEW key, NEW val,
         \A u : Handle(u, q).st = Set(u, f, Put(u[f], key, val))
  PROVE  Settles(s, q)
<1> DEFINE v == Put(s[f], key, val)
<1>1. Put(v, key, val) = v
  BY PutTwice
<1> HIDE DEF v
<1>2. Handle(s, q).st = Set(s, f, v)
  BY DEF v
<1>3. Handle(Set(s, f, v), q).st = Set(Set(s, f, v), f, v)
  BY <1>1, SetTwice
<1> QED BY <1>2, <1>3, SettledBy

\* A request that deletes what is under a key finds nothing the second time.
LEMMA DeleteSettles ==
  ASSUME NEW s, NEW q, NEW f \in DOMAIN s, NEW key,
         \A u : Handle(u, q).st = IF key \notin DOMAIN u[f] THEN u
                                  ELSE Set(u, f, Without(u[f], {key}))
  PROVE  Settles(s, q)
<1> DEFINE v == Without(s[f], {key})
<1>1. key \notin DOMAIN v
  BY DEF Without
<1> HIDE DEF v
<1>2. Handle(s, q).st \in {s, Set(s, f, v)}
  BY DEF v
<1>3. Handle(Set(s, f, v), q).st = Set(s, f, v)
  BY <1>1, SetTwice
<1> QED BY <1>2, <1>3, SettledBy

\* A request that edits what is under a key may be repeated if it leaves what
\* it made.
LEMMA EditSettles ==
  ASSUME NEW s, NEW q, NEW f \in DOMAIN s, NEW key \in DOMAIN s[f], NEW a,
         Handle(s, q).st = Set(s, f, Set(s[f], key, a)),
         \A u : DOMAIN u[f] = DOMAIN s[f] /\ u[f][key] = a =>
                  Handle(u, q).st = Set(u, f, Set(u[f], key, a))
  PROVE  Settles(s, q)
<1> DEFINE v == Set(s[f], key, a)
<1>1. DOMAIN v = DOMAIN s[f] /\ v[key] = a /\ Set(v, key, a) = v
  BY SetTwice
<1> HIDE DEF v
<1>2. Handle(s, q).st = Set(s, f, v)
  BY DEF v
<1>3. Handle(Set(s, f, v), q).st = Set(Set(s, f, v), f, v)
  BY <1>1, SetTwice
<1> QED BY <1>2, <1>3, SettledBy

\* A request that sets a field to what depends on it no more may be repeated.
LEMMA SetSettles ==
  ASSUME NEW s, NEW q, NEW f \in DOMAIN s, NEW v,
         Sets(s, q, f, v), \A u : u[f] = v => Sets(u, q, f, v)
  PROVE  Settles(s, q)
<1>1. Sets(Set(s, f, v), q, f, v)
  BY SetTwice
<1> QED BY <1>1, SettledBy DEF Sets

\* RoleCreate, RoleUpdate without append, and RoleDelete.
LEMMA RolesSettle ==
  ASSUME NEW s, StateOK(s), NEW q,
         \/ q.op \in {"RoleCreate", "RoleDelete"}
         \/ q.op = "RoleUpdate" /\ ~q.append
  PROVE  Settles(s, q)
<1>0. "roles" \in DOMAIN s
  BY DEF StateOK, ServerFields
<1>1. CASE q.op = "RoleCreate"
  <2>1. \A u : Handle(u, q).st = Set(u, "roles", Put(u.roles, q.id, q.privs))
    BY <1>1, Answered DEF Handle, RoleCreate, Set
  <2> QED BY <1>0, <2>1, PutSettles
<1>2. CASE q.op = "RoleUpdate" /\ ~q.append
  <2> DEFINE a == ApplyRoleForm(s.roles[q.id], q)
  <2>1. \A u : Handle(u, q).st = IF q.id \notin DOMAIN u.roles THEN u
                 ELSE Set(u, "roles", Set(u.roles, q.id, ApplyRoleForm(u.roles[q.id], q)))
    BY <1>2, Answered DEF Handle, RoleUpdate, Set
  <2>2. ApplyRoleForm(a, q) = a
    BY <1>2 DEF ApplyRoleForm
  <2>3. CASE q.id \notin DOMAIN s.roles
    BY <2>1, <2>3 DEF Settles
  <2>4. CASE q.id \in DOMAIN s.roles
    <3>1. Handle(s, q).st = Set(s, "roles", Set(s.roles, q.id, a))
      BY <2>1, <2>4
    <3> HIDE DEF a
    <3>2. \A u : DOMAIN u.roles = DOMAIN s.roles /\ u.roles[q.id] = a =>
                   Handle(u, q).st = Set(u, "roles", Set(u.roles, q.id, a))
      BY <2>1, <2>2, <2>4
    <3> QED BY <1>0, <2>4, <3>1, <3>2, EditSettles
  <2> QED BY <2>3, <2>4
<1>3. CASE q.op = "RoleDelete"
  <2>1. \A u : Handle(u, q).st = IF q.id \notin DOMAIN u.roles THEN u
                                 ELSE Set(u, "roles", Without(u.roles, {q.id}))
    BY <1>3, Answered DEF Handle, RoleDelete, Set
  <2> QED BY <1>0, <2>1, DeleteSettles
<1> QED BY <1>1, <1>2, <1>3

\* The same for a request that sets two fields.
LEMMA TwoSettle ==
  ASSUME NEW s, NEW q, NEW f \in DOMAIN s, NEW g \in DOMAIN s, f # g, NEW v, NEW w,
         SetsTwo(s, q, f, v, g, w),
         \A u : u[f] = v /\ u[g] = w => SetsTwo(u, q, f, v, g, w)
  PROVE  Settles(s, q)
<1> DEFINE t == Set(Set(s, f, v), g, w)
<1>1. t[f] = v /\ t[g] = w
  BY DEF Set
<1>2. Set(Set(t, f, v), g, w) = t
  BY DEF Set
<1> HIDE DEF t
<1>3. Handle(t, q).st = t
  BY <1>1, <1>2 DEF SetsTwo
<1>4. Handle(s, q).st \in {s, t}
  BY DEF t, SetsTwo
<1> QED BY <1>3, <1>4 DEF Settles

\* Overwriting what a form carries twice.
LEMMA MergeTwice ==
  ASSUME NEW rec, NEW form
  PROVE  Merge(Merge(rec, form), form) = Merge(rec, form)
BY DEF Merge

\* JobCreate with an id, JobUpdate and JobDelete.
LEMMA JobsSettle ==
  ASSUME NEW s, StateOK(s), NEW q,
         \/ q.op = "JobCreate" /\ q.id # 0
         \/ q.op \in {"JobUpdate", "JobDelete"}
  PROVE  Settles(s, q)
<1>0. "jobs" \in DOMAIN s /\ "seq" \in DOMAIN s
  BY DEF StateOK, ServerFields
<1>1. CASE q.op = "JobCreate" /\ q.id # 0
  <2> DEFINE w == Put(s.jobs, q.id, q.form)
  <2>1. \A u : Handle(u, q).st = Set(Set(u, "seq", u.seq), "jobs", Put(u.jobs, q.id, q.form))
    BY <1>1, Answered DEF Handle, JobCreate, Set
  <2>2. Put(w, q.id, q.form) = w
    BY PutTwice
  <2>3. SetsTwo(s, q, "seq", s.seq, "jobs", w)
    BY <2>1 DEF SetsTwo
  <2> HIDE DEF w
  <2>4. \A u : u.seq = s.seq /\ u.jobs = w => SetsTwo(u, q, "seq", s.seq, "jobs", w)
    BY <2>1, <2>2 DEF SetsTwo
  <2> QED BY <1>0, <2>3, <2>4, TwoSettle
<1>2. CASE q.op = "JobUpdate"
  <2> DEFINE a == Merge(s.jobs[q.id], q.form)
  <2>1. \A u : Handle(u, q).st = IF q.id \notin DOMAIN u.jobs THEN u
                 ELSE Set(u, "jobs", Set(u.jobs, q.id, Merge(u.jobs[q.id], q.form)))
    BY <1>2, Answered DEF Handle, JobUpdate, Set
  <2>2. Merge(a, q.form) = a
    BY MergeTwice
  <2>3. CASE q.id \notin DOMAIN s.jobs
    BY <2>1, <2>3 DEF Settles
  <2>4. CASE q.id \in DOMAIN s.jobs
    <3>1. Handle(s, q).st = Set(s, "jobs", Set(s.jobs, q.id, a))
      BY <2>1, <2>4
    <3> HIDE DEF a
    <3>2. \A u : DOMAIN u.jobs = DOMAIN s.jobs /\ u.jobs[q.id] = a =>
                   Handle(u, q).st = Set(u, "jobs", Set(u.jobs, q.id, a))
      BY <2>1, <2>2, <2>4
    <3> QED BY <1>0, <2>4, <3>1, <3>2, EditSettles
  <2> QED BY <2>3, <2>4
<1>3. CASE q.op = "JobDelete"
  <2>1. \A u : Handle(u, q).st = IF q.id \notin DOMAIN u.jobs THEN u
                                 ELSE Set(u, "jobs", Without(u.jobs, {q.id}))
    BY <1>3, Answered DEF Handle, JobDelete, Set
  <2> QED BY <1>0, <2>1, DeleteSettles
<1> QED BY <1>1, <1>2, <1>3

\* What the lists and the records that handlers edit in place look like.
Issuers == {"pve", "custom", "acme"}
Cert == [file : {"pve-ssl.pem", Frontend}, issuer : Issuers]

Lists(s) == /\ s.acls \in Seq(Names \X Names)
            /\ s.rules \in Seq(Form)
            /\ s.certs \in Seq(Cert)
            /\ \A x \in DOMAIN s.ipsets : DOMAIN s.ipsets[x] = {"name", "entries"}
            /\ \A f \in DOMAIN s.repos : DOMAIN s.repos[f] = {"path", "enabled"}

\* What the requests that edit them carry.
Formed(q) == /\ q.op = "ACLSet" => q.grants \in Seq(Names \X Names)
             /\ q.op \in {"RuleCreate", "RuleUpdate"} => q.form \in Form
             /\ q.op \in {"RuleUpdate", "RuleDelete"} => q.pos \in Int

\* A list with an element in place of another.
LEMMA SetInList ==
  ASSUME NEW A, NEW list \in Seq(A), NEW i \in 1..Len(list), NEW a \in A
  PROVE  /\ Set(list, i, a) \in Seq(A) /\ Len(Set(list, i, a)) = Len(list)
         /\ Set(list, i, a)[i] = a
BY ExceptSeq DEF Set

\* fwRuleUpdate.
LEMMA RulesSettle ==
  ASSUME NEW s, StateOK(s), Lists(s), NEW q, Formed(q), q.op = "RuleUpdate"
  PROVE  Settles(s, q)
<1>0. "rules" \in DOMAIN s
  BY DEF StateOK, ServerFields
<1> DEFINE i == q.pos + 1
           a == Merge(s.rules[i], q.form)
           v == Set(s.rules, i, a)
<1>1. \A u : Handle(u, q).st = IF ~HasRule(u, q.pos) THEN u
               ELSE Set(u, "rules", Set(u.rules, i, Merge(u.rules[i], q.form)))
  BY Answered DEF Handle, RuleUpdate, Set
<1>2. CASE ~HasRule(s, q.pos)
  BY <1>1, <1>2 DEF Settles
<1>3. CASE HasRule(s, q.pos)
  <2>1. s.rules \in Seq(Form) /\ i \in 1..Len(s.rules) /\ q.form \in Form
    BY <1>3 DEF HasRule, Lists, Formed
  <2>2. a \in Form
    BY <2>1 DEF Merge, Form, Values, Empty
  <2>3. Merge(a, q.form) = a
    BY MergeTwice
  <2>4. Sets(s, q, "rules", v)
    BY <1>1, <1>3 DEF Sets
  <2> HIDE DEF a, i
  <2>5. v[i] = a /\ Len(v) = Len(s.rules) /\ Set(v, i, a) = v
    <3>1. i \in DOMAIN s.rules
      BY <2>1
    <3>2. Len(v) = Len(s.rules)
      BY <2>1, <2>2, SetInList
    <3>3. v[i] = a /\ Set(v, i, a) = v
      BY <3>1, SetTwice
    <3> QED BY <3>2, <3>3
  <2> HIDE DEF v
  <2>6. \A u : u.rules = v => Sets(u, q, "rules", v)
    BY <1>1, <1>3, <2>3, <2>5 DEF HasRule, Sets
  <2> QED BY <1>0, <2>4, <2>6, SetSettles
<1> QED BY <1>2, <1>3

\* The IPSets.  fwRenameIPSet finds nothing under the old name the second time.
LEMMA IPSetsSettle ==
  ASSUME NEW s, StateOK(s), NEW q,
         q.op \in {"IPSetCreate", "IPSetRename", "IPSetDelete"}
  PROVE  Settles(s, q)
<1>0. "ipsets" \in DOMAIN s
  BY DEF StateOK, ServerFields
<1>1. CASE q.op = "IPSetCreate"
  <2> DEFINE new == [name |-> q.name, entries |-> {}]
  <2>1. \A u : Handle(u, q).st = Set(u, "ipsets", Put(u.ipsets, q.name, new))
    BY <1>1, Answered DEF Handle, IPSetCreate, Set
  <2> HIDE DEF new
  <2> QED BY <1>0, <2>1, PutSettles
<1>2. CASE q.op = "IPSetDelete"
  <2>1. \A u : Handle(u, q).st = IF q.name \notin DOMAIN u.ipsets THEN u
                                 ELSE Set(u, "ipsets", Without(u.ipsets, {q.name}))
    BY <1>2, Answered DEF Handle, IPSetDelete, Set
  <2> QED BY <1>0, <2>1, DeleteSettles
<1>3. CASE q.op = "IPSetRename"
  <2> DEFINE moved(u) == Without(Put(u.ipsets, q.name, Moved(u, q)), {q.rename})
             v == moved(s)
  <2>1. \A u : Handle(u, q).st = IF q.rename \notin DOMAIN u.ipsets THEN u
                                 ELSE Set(u, "ipsets", moved(u))
    BY <1>3, Answered DEF Handle, IPSetRename, Set
  <2>2. q.rename \notin DOMAIN v
    BY DEF Without
  <2>3. Sets(s, q, "ipsets", v)
    BY <2>1 DEF Sets
  <2> HIDE DEF v
  <2>4. \A u : u.ipsets = v => Sets(u, q, "ipsets", v)
    BY <2>1, <2>2 DEF Sets
  <2> QED BY <1>0, <2>3, <2>4, SetSettles
<1> QED BY <1>1, <1>2, <1>3

\* The entries of an IPSet.
LEMMA EntriesSettle ==
  ASSUME NEW s, StateOK(s), Lists(s), NEW q, q.op \in {"EntryAdd", "EntryDelete"}
  PROVE  Settles(s, q)
<1>0. "ipsets" \in DOMAIN s
  BY DEF StateOK, ServerFields
<1> DEFINE to(e) == IF q.op = "EntryAdd" THEN e \union {q.cidr} ELSE e \ {q.cidr}
           made(r) == Set(r, "entries", to(r.entries))
           old == s.ipsets[q.name]
           a == made(old)
<1>1. \A u : Handle(u, q).st \in
                {u, Set(u, "ipsets", Set(u.ipsets, q.name, made(u.ipsets[q.name])))}
  <2>1. CASE q.op = "EntryAdd"
    BY <2>1, Answered DEF Handle, EntryAdd, Set
  <2>2. CASE q.op = "EntryDelete"
    BY <2>2, Answered DEF Handle, EntryDelete, Set
  <2> QED BY <2>1, <2>2
<1>2. CASE q.name \notin DOMAIN s.ipsets
  <2>1. Handle(s, q).st = s
    BY <1>2, Answered DEF Handle, EntryAdd, EntryDelete
  <2> QED BY <2>1 DEF Settles
<1>3. CASE q.name \in DOMAIN s.ipsets
  <2> DEFINE v == Set(s.ipsets, q.name, a)
  <2>1. "entries" \in DOMAIN old
    BY <1>3 DEF Lists
  <2>2. to(to(old.entries)) = to(old.entries)
    OBVIOUS
  <2>3. made(a) = a
    <3> HIDE DEF old, to
    <3>1. a.entries = to(old.entries) /\ Set(a, "entries", to(old.entries)) = a
      BY <2>1, SetTwice
    <3> QED BY <2>2, <3>1
  <2>4. Sets(s, q, "ipsets", v)
    BY <1>1 DEF Sets
  <2> HIDE DEF a
  <2>5. v[q.name] = a /\ Set(v, q.name, a) = v
    BY <1>3, SetTwice
  <2> HIDE DEF made, v
  <2>6. \A u : u.ipsets = v => Sets(u, q, "ipsets", v)
    BY <1>1, <2>3, <2>5 DEF Sets
  <2> QED BY <1>0, <2>4, <2>6, SetSettles
<1> QED BY <1>2, <1>3

\* The HA switch and the cluster's creation.
LEMMA SwitchSettles ==
  ASSUME NEW s, StateOK(s), NEW q, q.op \in {"HAArm", "HADisarm"}
  PROVE  Settles(s, q)
<1>0. "armed" \in DOMAIN s /\ "mode" \in DOMAIN s
  BY DEF StateOK, ServerFields
<1>1. CASE q.op = "HAArm"
  <2>1. \A u : SetsTwo(u, q, "armed", TRUE, "mode", "")
    BY <1>1, Answered DEF Handle, HAArm, Set, SetsTwo
  <2> QED BY <1>0, <2>1, TwoSettle
<1>2. CASE q.op = "HADisarm"
  <2>1. \A u : SetsTwo(u, q, "armed", FALSE, "mode", q.mode)
    BY <1>2, Answered DEF Handle, HADisarm, Set, SetsTwo
  <2> QED BY <1>0, <2>1, TwoSettle
<1> QED BY <1>1, <1>2

\* A cluster is created once.
LEMMA ClusterSettles ==
  ASSUME NEW s, StateOK(s), NEW q, q.op = "ClusterCreate"
  PROVE  Settles(s, q)
<1>0. "clustered" \in DOMAIN s /\ "members" \in DOMAIN s
  BY DEF StateOK, ServerFields
<1>1. \A u : SetsTwo(u, q, "clustered", TRUE, "members", <<Self>>)
  BY Answered DEF Handle, ClusterCreate, Set, SetsTwo
<1> QED BY <1>0, <1>1, TwoSettle

\* Revoking twice.
LEMMA RevokeSettles ==
  ASSUME NEW s, StateOK(s), Lists(s), NEW q, q.op = "ACLSet", q.remove
  PROVE  Settles(s, q)
<1>0. "acls" \in DOMAIN s
  BY DEF StateOK, ServerFields
<1> DEFINE v == Revoked(s.acls, q.grants)
<1>1. \A u : Handle(u, q).st = Set(u, "acls", Revoked(u.acls, q.grants))
  BY Answered DEF Handle, ACLSet, Set
<1>2. Revoked(v, q.grants) = v
  <2> DEFINE A == Names \X Names
  <2>1. s.acls \in Seq(A) BY DEF Lists
  <2> HIDE DEF A
  <2> QED BY <2>1, DroppedTwice DEF Revoked
<1>3. Sets(s, q, "acls", v)
  BY <1>1 DEF Sets
<1> HIDE DEF v
<1>4. \A u : u.acls = v => Sets(u, q, "acls", v)
  BY <1>1, <1>2 DEF Sets
<1> QED BY <1>0, <1>3, <1>4, SetSettles

FrontendCert(issuer) == [file |-> Frontend, issuer |-> issuer]

\* Taking the certificate of the web server away leaves the others, and of these
\* none is the web server's.
LEMMA CertsLeft ==
  ASSUME NEW certs \in Seq(Cert)
  PROVE  WithoutFrontendCert(certs) \in Seq({c \in Cert : c.file # Frontend})
<1> DEFINE S == {c \in Range(certs) : c.file = Frontend}
           B == Cert \ S
           d == Dropped(certs, S)
<1>1. d \in Seq(B)
  BY DroppedType
<1>2. \A i \in 1..Len(certs) : certs[i] \in S => certs[i].file = Frontend
  OBVIOUS
<1>3. certs \in Seq(Range(certs))
  BY DEF Range
<1>4. d \in Seq(Range(certs) \ S)
  BY <1>3, DroppedType
<1>5. \A i \in 1..Len(d) : d[i] \in B /\ d[i] \in Range(certs) \ S
  BY <1>1, <1>4
<1>6. \A i \in 1..Len(d) : d[i] \in Cert /\ d[i].file # Frontend
  <2> HIDE DEF d
  <2> QED BY <1>5
<1> HIDE DEF d
<1>7. d \in Seq({c \in Cert : c.file # Frontend})
  BY <1>1, <1>6
<1> QED BY <1>7 DEF d, WithoutFrontendCert

\* Taking it away from a list without it changes nothing.
LEMMA NoneTaken ==
  ASSUME NEW list \in Seq({c \in Cert : c.file # Frontend})
  PROVE  WithoutFrontendCert(list) = list
<1> DEFINE A == {c \in Cert : c.file # Frontend}
           S == {c \in Range(list) : c.file = Frontend}
<1>1. \A i \in 1..Len(list) : list[i] \in A
  OBVIOUS
<1>2. \A i \in 1..Len(list) : list[i] \notin S
  BY <1>1
<1>3. list \in Seq(A)
  OBVIOUS
<1> HIDE DEF A, S
<1>4. Dropped(list, S) = list
  BY <1>2, <1>3, DroppedNone
<1> QED BY <1>4 DEF S, WithoutFrontendCert

\* Taking away the one that was installed last leaves what was there before it.
LEMMA LastTaken ==
  ASSUME NEW list \in Seq({c \in Cert : c.file # Frontend}), NEW issuer \in Issuers
  PROVE  WithoutFrontendCert(Append(list, FrontendCert(issuer))) = list
<1> DEFINE new == FrontendCert(issuer)
           v == Append(list, new)
           S == {c \in Range(v) : c.file = Frontend}
           m == Len(list)
<1>1. new \in Cert /\ new.file = Frontend
  <2>2. new.file = Frontend
    BY DEF FrontendCert
  <2>3. FrontendCert(issuer) \in Cert
    BY DEF FrontendCert, Cert
  <2> QED BY <2>2, <2>3
<1>2. \A i \in 1..m : list[i] \in Cert /\ list[i].file # Frontend
  OBVIOUS
<1> HIDE DEF new
<1>3. list \in Seq(Cert)
  BY <1>2
<1>4. /\ v \in Seq(Cert) /\ Len(v) = m + 1 /\ m \in Nat /\ v[m + 1] = new
      /\ \A i \in 1..m : v[i] = list[i]
  BY <1>1, <1>3
<1>5. new \in S
  <2>1. m + 1 \in DOMAIN v
    BY <1>4
  <2> HIDE DEF v
  <2>2. new \in Range(v)
    BY <1>4, <2>1 DEF Range
  <2> QED BY <1>1, <2>2
<1>6. \A i \in 1..m : v[i] \notin S
  BY <1>2, <1>4
<1>7. \A i \in (m + 1)..Len(v) : v[i] \in S
  BY <1>4, <1>5
<1>8. m \in 0..Len(v)
  BY <1>4
<1>9. SubSeq(v, 1, m) = list
  BY <1>1, <1>3
<1> HIDE DEF v, S
<1>10. Dropped(v, S) = SubSeq(v, 1, m)
  <2> HIDE DEF m
  <2> QED BY <1>4, <1>6, <1>7, <1>8, DroppedPrefix
<1> QED BY <1>9, <1>10 DEF v, S, new, WithoutFrontendCert

\* Uploads, deletions and ACME orders of certificates.
LEMMA CertsSettle ==
  ASSUME NEW s, StateOK(s), Lists(s), NEW q, q.op \in {"CertUpload", "CertDelete", "CertACME"}
  PROVE  Settles(s, q)
<1>0. "certs" \in DOMAIN s /\ s.certs \in Seq(Cert)
  BY DEF StateOK, ServerFields, Lists
<1> DEFINE w == WithoutFrontendCert(s.certs)
           installs(issuer) == \A u : u.config = s.config =>
                                 Handle(u, q).st = Set(u, "certs", Installed(u.certs, issuer))
<1>1. w \in Seq({c \in Cert : c.file # Frontend})
  BY <1>0, CertsLeft
<1>2. WithoutFrontendCert(w) = w
  BY <1>1, NoneTaken
<1>3. \A issuer \in Issuers :
        Installed(Installed(s.certs, issuer), issuer) = Installed(s.certs, issuer)
  BY <1>1, LastTaken DEF Installed, FrontendCert
<1> HIDE DEF w
<1>4. ASSUME NEW v, WithoutFrontendCert(v) = v, \A u : u.certs \in {s.certs, v} =>
                       Handle(u, q).st = Set(u, "certs", WithoutFrontendCert(u.certs)),
             WithoutFrontendCert(s.certs) = v
      PROVE  Settles(s, q)
  <2>1. Sets(s, q, "certs", v) /\ \A u : u.certs = v => Sets(u, q, "certs", v)
    BY <1>4 DEF Sets
  <2> QED BY <1>0, <2>1, SetSettles
<1>5. ASSUME NEW issuer \in Issuers, installs(issuer)
      PROVE  Settles(s, q)
  <2> DEFINE v == Installed(s.certs, issuer)
  <2>1. Handle(s, q).st = Set(s, "certs", v)
    BY <1>5
  <2>2. Installed(v, issuer) = v
    BY <1>3, <1>5
  <2> HIDE DEF v
  <2>3. Set(s, "certs", v).config = s.config
    BY DEF Set
  <2>4. Handle(Set(s, "certs", v), q).st = Set(Set(s, "certs", v), "certs", v)
    BY <1>0, <1>5, <2>2, <2>3, SetTwice
  <2> QED BY <1>0, <2>1, <2>4, SettledBy
<1>6. CASE q.op = "CertUpload"
  <2>1. \A u : Handle(u, q).st = Set(u, "certs", Installed(u.certs, "custom"))
    BY <1>6, Answered DEF Handle, CertUpload, Set
  <2>2. installs("custom")
    BY <2>1
  <2> HIDE DEF installs
  <2> QED BY <1>5, <2>2 DEF Issuers
<1>7. CASE q.op = "CertDelete"
  <2>1. \A u : Handle(u, q).st = Set(u, "certs", WithoutFrontendCert(u.certs))
    BY <1>7, Answered DEF Handle, CertDelete, Set
  <2> QED BY <1>2, <1>4, <2>1 DEF w
<1>8. CASE q.op = "CertACME"
  <2> DEFINE none(u) == q.revoke \/ acmeSANs(u.config) = {}
  <2>1. \A u : Handle(u, q).st = Set(u, "certs", IF none(u) THEN WithoutFrontendCert(u.certs)
                                                 ELSE Installed(u.certs, "acme"))
    BY <1>8, Answered DEF Handle, CertACME, Set
  <2>2. CASE ~none(s)
    <3>1. \A u : u.config = s.config => (none(u) <=> none(s))
      OBVIOUS
    <3> HIDE DEF none
    <3>2. installs("acme")
      BY <2>1, <2>2, <3>1
    <3> HIDE DEF installs
    <3> QED BY <1>5, <3>2 DEF Issuers
  <2>3. CASE none(s)
    <3>1. Handle(s, q).st = Set(s, "certs", w)
      BY <2>1, <2>3 DEF w
    <3>2. none(Set(s, "certs", w))
      BY <2>3 DEF Set
    <3> HIDE DEF none
    <3>3. Handle(Set(s, "certs", w), q).st = Set(Set(s, "certs", w), "certs", w)
      BY <1>0, <1>2, <2>1, <3>2, SetTwice
    <3> QED BY <1>0, <3>1, <3>3, SettledBy
  <2> QED BY <2>2, <2>3
<1> QED BY <1>6, <1>7, <1>8

\* Setting the same keys twice.
LEMMA OverTwice ==
  ASSUME NEW f, NEW g
  PROVE  Over(f, Over(f, g)) = Over(f, g)
BY DEF Over

\* The cluster's options.
LEMMA OptionsSettle ==
  ASSUME NEW s, StateOK(s), NEW q, q.op = "OptionsSet"
  PROVE  Settles(s, q)
<1>0. "datacenter" \in DOMAIN s
  BY DEF StateOK, ServerFields
<1> DEFINE v == Over(q.form, s.datacenter)
<1>1. \A u : Handle(u, q).st = Set(u, "datacenter", Over(q.form, u.datacenter))
  BY Answered DEF Handle, OptionsSet, Set
<1>2. Over(q.form, v) = v
  BY OverTwice
<1>3. Sets(s, q, "datacenter", v)
  BY <1>1 DEF Sets
<1> HIDE DEF v
<1>4. \A u : u.datacenter = v => Sets(u, q, "datacenter", v)
  BY <1>1, <1>2 DEF Sets
<1> QED BY <1>0, <1>3, <1>4, SetSettles

\* A form applied to the node's file twice: what it deletes is gone, or set by it.
LEMMA ApplyTwice ==
  ASSUME NEW file, NEW form
  PROVE  ApplyConfig(ApplyConfig(file, form), form) = ApplyConfig(file, form)
<1> DEFINE kept(f) == [key \in DOMAIN f.slots \ form.delete |-> f.slots[key]]
           acme(f) == CASE form.acme # None               -> form.acme
                        [] form.acme = None /\ form.drop  -> None
                        [] form.acme = None /\ ~form.drop -> f.acme
           once == ApplyConfig(file, form)
<1>1. \A f : ApplyConfig(f, form) = File(acme(f), Over(form.slots, kept(f)))
  BY DEF ApplyConfig
<1>2. once.acme = acme(file) /\ once.slots = Over(form.slots, kept(file))
  BY <1>1 DEF File
<1> HIDE DEF once
<1>3. acme(once) = acme(file)
  BY <1>2
<1>4. Over(form.slots, kept(once)) = Over(form.slots, kept(file))
  <2> DEFINE k == kept(file)
             S == form.slots
             v == Over(S, k)
             V == [key \in DOMAIN v \ form.delete |-> v[key]]
  <2>1. DOMAIN k \intersect form.delete = {}
    OBVIOUS
  <2> HIDE DEF k, S
  <2>2. Over(S, V) = v
    BY <2>1 DEF Over
  <2>3. V = kept(once)
    BY <1>2 DEF k, S
  <2> QED BY <2>2, <2>3 DEF k, S
<1> HIDE DEF kept, acme
<1>5. ApplyConfig(once, form) = File(acme(file), Over(form.slots, kept(file)))
  BY <1>1, <1>3, <1>4
<1> QED BY <1>1, <1>5 DEF once

\* handleNodeConfigSet.
LEMMA ConfigSettles ==
  ASSUME NEW s, StateOK(s), NEW q, q.op = "NodeConfigSet"
  PROVE  Settles(s, q)
<1>0. "config" \in DOMAIN s
  BY DEF StateOK, ServerFields
<1> DEFINE v == ApplyConfig(s.config, q.form)
<1>1. \A u : Handle(u, q).st \in {u, Set(u, "config", ApplyConfig(u.config, q.form))}
  BY Answered DEF Handle, NodeConfigSet, Set
<1>2. ApplyConfig(v, q.form) = v
  BY ApplyTwice
<1>3. Sets(s, q, "config", v)
  BY <1>1 DEF Sets
<1> HIDE DEF v
<1>4. \A u : u.config = v => Sets(u, q, "config", v)
  BY <1>1, <1>2 DEF Sets
<1> QED BY <1>0, <1>3, <1>4, SetSettles

\* handleRepoUpdate.
LEMMA ReposSettle ==
  ASSUME NEW s, StateOK(s), Lists(s), NEW q, q.op = "RepoUpdate"
  PROVE  Settles(s, q)
<1>0. "repos" \in DOMAIN s
  BY DEF StateOK, ServerFields
<1> DEFINE i == q.index + 1
           hit(r) == r.path = q.path /\ i \in DOMAIN r.enabled
           turned(r) == Set(r, "enabled", Set(r.enabled, i, q.enabled))
           all(rs) == [f \in DOMAIN rs |-> IF hit(rs[f]) THEN turned(rs[f]) ELSE rs[f]]
           v == all(s.repos)
<1>1. \A u : Handle(u, q).st \in {u, Set(u, "repos", all(u.repos))}
  <2> SUFFICES ASSUME NEW u PROVE Handle(u, q).st \in {u, Set(u, "repos", all(u.repos))}
    OBVIOUS
  <2> DEFINE hits == {f \in DOMAIN u.repos :
                        u.repos[f].path = q.path /\ i \in DOMAIN u.repos[f].enabled}
             new == [f \in DOMAIN u.repos |-> IF f \in hits
                       THEN [u.repos[f] EXCEPT !.enabled[i] = q.enabled] ELSE u.repos[f]]
  <2>1. new = all(u.repos)
    BY DEF Set
  <2>2. RepoUpdate(u, q) \in {NotFound(u), Done([u EXCEPT !.repos = new])}
    BY DEF RepoUpdate
  <2>3. Handle(u, q) = RepoUpdate(u, q)
    BY DEF Handle
  <2> HIDE DEF new, all
  <2> QED BY <2>1, <2>2, <2>3, Answered DEF Set
<1>2. ASSUME NEW r, DOMAIN r = {"path", "enabled"}, hit(r)
      PROVE  hit(turned(r)) /\ turned(turned(r)) = turned(r)
  <2> DEFINE e == Set(r.enabled, i, q.enabled)
             t == Set(r, "enabled", e)
  <2>1. i \in DOMAIN r.enabled /\ r.path = q.path
    BY <1>2
  <2> HIDE DEF i
  <2>2. DOMAIN e = DOMAIN r.enabled /\ Set(e, i, q.enabled) = e
    BY <2>1, SetTwice
  <2> HIDE DEF e
  <2>3. t.enabled = e /\ t.path = r.path /\ Set(t, "enabled", e) = t
    BY <1>2, SetTwice
  <2> HIDE DEF t
  <2>4. hit(t) /\ turned(t) = t
    BY <2>1, <2>2, <2>3
  <2> QED BY <2>4 DEF t, e
<1>3. all(v) = v
  <2>1. \A f \in DOMAIN s.repos : DOMAIN s.repos[f] = {"path", "enabled"}
    BY DEF Lists
  <2> HIDE DEF hit, turned
  <2> QED BY <1>2, <2>1
<1>4. Sets(s, q, "repos", v)
  BY <1>1 DEF Sets
<1> HIDE DEF v, all
<1>5. \A u : u.repos = v => Sets(u, q, "repos", v)
  BY <1>1, <1>3 DEF Sets
<1> QED BY <1>0, <1>4, <1>5, SetSettles

\* A create of a record replaces the one that is there.
LEMMA CreateSettles ==
  ASSUME NEW s, StateOK(s), NEW q, q.op = "create", q.kind \in Kinds
  PROVE  Settles(s, q)
<1>0. "recs" \in DOMAIN s /\ q.kind \in DOMAIN s.recs
  BY DEF StateOK, ServerFields
<1> DEFINE new == Created(Collection[q.kind], q.form)
           put(r) == Set(r, q.kind, Put(r[q.kind], q.key, new))
           v == put(s.recs)
<1>1. \A u : Handle(u, q).st \in {u, Set(u, "recs", put(u.recs))}
  BY Answered DEF Handle, Create, Set
<1>2. put(v) = v
  <2> HIDE DEF new
  <2> DEFINE p == Put(s.recs[q.kind], q.key, new)
  <2>1. Put(p, q.key, new) = p
    BY PutTwice
  <2> HIDE DEF p
  <2>2. v = Set(s.recs, q.kind, p)
    BY DEF p
  <2>3. v[q.kind] = p /\ Set(v, q.kind, p) = v
    BY <1>0, <2>2, SetTwice
  <2> QED BY <2>1, <2>3
<1>3. Sets(s, q, "recs", v)
  BY <1>1 DEF Sets
<1> HIDE DEF v, put
<1>4. \A u : u.recs = v => Sets(u, q, "recs", v)
  BY <1>1, <1>2 DEF Sets
<1> QED BY <1>0, <1>3, <1>4, SetSettles

\* A delete of a record finds none the second time, whatever went with it.
LEMMA RecordDeleteSettles ==
  ASSUME NEW s, StateOK(s), NEW q, q.op = "delete", q.kind \in Kinds
  PROVE  Settles(s, q)
<1>0. "recs" \in DOMAIN s
  BY DEF StateOK, ServerFields
<1> DEFINE left(u) == [k \in Kinds |->
                         IF k = q.kind THEN Without(u.recs[k], {q.key})
                         ELSE IF k = "fabricNodes"
                              THEN Without(u.recs[k], Dragged(u, q.kind, q.key))
                         ELSE u.recs[k]]
           v == left(s)
<1>1. \A u : Handle(u, q).st = IF q.key \notin DOMAIN u.recs[q.kind] THEN u
                               ELSE Set(u, "recs", left(u))
  <2> SUFFICES ASSUME NEW u
               PROVE  Handle(u, q).st = IF q.key \notin DOMAIN u.recs[q.kind] THEN u
                                        ELSE Set(u, "recs", left(u))
    OBVIOUS
  <2>1. Handle(u, q) = IF q.key \notin DOMAIN u.recs[q.kind] THEN NotFound(u)
                       ELSE Done([u EXCEPT !.recs = left(u)])
    BY DEF Handle, Delete
  <2> HIDE DEF left
  <2> QED BY <2>1, Answered DEF Set
<1>2. q.key \notin DOMAIN v[q.kind]
  <2>1. v[q.kind] = Without(s.recs[q.kind], {q.key})
    OBVIOUS
  <2> QED BY <2>1 DEF Without
<1>3. Sets(s, q, "recs", v)
  BY <1>1 DEF Sets
<1> HIDE DEF v, left
<1>4. \A u : u.recs = v => Sets(u, q, "recs", v)
  BY <1>1, <1>2 DEF Sets
<1> QED BY <1>0, <1>3, <1>4, SetSettles

\* An update of a record may be repeated if it edits its own result into itself.
LEMMA EditedSettles ==
  ASSUME NEW s, StateOK(s), NEW q, q.kind \in Kinds, NEW a,
         Handle(s, q) = Edit(s, q, a),
         \A u : Found(u, q) = a => Handle(u, q) = Edit(u, q, a)
  PROVE  Settles(s, q)
<1>0. "recs" \in DOMAIN s /\ q.kind \in DOMAIN s.recs
  BY DEF StateOK, ServerFields
<1>1. \A u : Edit(u, q, a).st = IF q.key \notin DOMAIN u.recs[q.kind] THEN u
               ELSE Set(u, "recs", Set(u.recs, q.kind, Set(u.recs[q.kind], q.key, a)))
  BY Answered DEF Edit, Set
<1>2. CASE q.key \notin DOMAIN s.recs[q.kind]
  BY <1>1, <1>2 DEF Settles
<1>3. CASE q.key \in DOMAIN s.recs[q.kind]
  <2> DEFINE k == Set(s.recs[q.kind], q.key, a)
             r == Set(s.recs, q.kind, k)
             t == Set(s, "recs", r)
  <2>1. k[q.key] = a /\ Set(k, q.key, a) = k
    BY <1>3, SetTwice
  <2>2. Handle(s, q).st = t
    BY <1>1, <1>3
  <2> HIDE DEF k
  <2>3. r[q.kind] = k /\ Set(r, q.kind, k) = r
    BY <1>0, SetTwice
  <2> HIDE DEF r
  <2>4. t.recs = r /\ Set(t, "recs", r) = t
    BY <1>0, SetTwice
  <2> HIDE DEF t
  <2>5. Found(t, q) = a
    BY <2>1, <2>3, <2>4 DEF Found
  <2>6. Edit(t, q, a).st \in
          {t, Set(t, "recs", Set(t.recs, q.kind, Set(t.recs[q.kind], q.key, a)))}
    BY <1>1
  <2>7. Edit(t, q, a).st = t
    BY <2>1, <2>3, <2>4, <2>6
  <2> QED BY <2>2, <2>5, <2>7 DEF Settles
<1> QED BY <1>2, <1>3

\* handleZoneUpdate and the like, handleTokenUpdate and handleACMEPluginUpdate.
LEMMA UpdatesSettle ==
  ASSUME NEW s, StateOK(s), NEW q, q.kind \in Kinds,
         q.op \in {"update", "TokenUpdate", "PluginUpdate"}
  PROVE  Settles(s, q)
<1>1. CASE q.op = "update"
  <2> DEFINE form == Cleared(q.form, Collection[q.kind].fixed)
             a == Merge(Found(s, q), form)
  <2>1. \A u : Handle(u, q) = Edit(u, q, Merge(Found(u, q), form))
    BY <1>1 DEF Handle, Update
  <2> HIDE DEF form
  <2>2. Merge(a, form) = a
    BY MergeTwice
  <2>3. Handle(s, q) = Edit(s, q, a)
    BY <2>1
  <2> HIDE DEF a
  <2>4. \A u : Found(u, q) = a => Handle(u, q) = Edit(u, q, a)
    BY <2>1, <2>2
  <2> QED BY <2>3, <2>4, EditedSettles
<1>2. CASE q.op = "TokenUpdate"
  <2> DEFINE new(r) == IF q.regenerate THEN r
                       ELSE Merge(IF q.comment THEN Cleared(r, {"first"}) ELSE r,
                                  IF q.comment THEN q.form ELSE Cleared(q.form, {"first"}))
             a == new(Found(s, q))
  <2>1. \A u : Handle(u, q) = Edit(u, q, new(Found(u, q)))
    BY <1>2 DEF Handle, TokenUpdate
  <2>2. new(a) = a
    <3>1. CASE q.regenerate
      BY <3>1
    <3>2. CASE ~q.regenerate /\ q.comment
      BY <3>2 DEF Merge, Cleared
    <3>3. CASE ~q.regenerate /\ ~q.comment
      BY <3>3 DEF Merge, Cleared
    <3> QED BY <3>1, <3>2, <3>3
  <2>3. Handle(s, q) = Edit(s, q, a)
    BY <2>1
  <2> HIDE DEF a, new
  <2>4. \A u : Found(u, q) = a => Handle(u, q) = Edit(u, q, a)
    BY <2>1, <2>2
  <2> QED BY <2>3, <2>4, EditedSettles
<1>3. CASE q.op = "PluginUpdate"
  <2>1. \A u : Handle(u, q) = PluginUpdate(u, q)
    BY <1>3 DEF Handle
  <2>2. CASE q.stale
    <3>1. Handle(s, q).st = s
      BY <2>1, <2>2, Answered DEF PluginUpdate, Edit
    <3> QED BY <3>1 DEF Settles
  <2>3. CASE ~q.stale
    <3> DEFINE new(r) == Cleared(Merge(r, q.form), q.delete \ {"first"})
               a == new(Found(s, q))
    <3>1. \A u : Handle(u, q) = Edit(u, q, new(Found(u, q)))
      BY <2>1, <2>3 DEF PluginUpdate
    <3>2. new(a) = a
      BY DEF Cleared, Merge
    <3>3. Handle(s, q) = Edit(s, q, a)
      BY <3>1
    <3> HIDE DEF a, new
    <3>4. \A u : Found(u, q) = a => Handle(u, q) = Edit(u, q, a)
      BY <3>1, <3>2
    <3> QED BY <3>3, <3>4, EditedSettles
  <2> QED BY <2>2, <2>3
<1> QED BY <1>1, <1>2, <1>3

\* As RepeatHarmless has it: serving q again changes nothing but the digest.
Harmless(s, q) ==
  LET once == Handle(s, q).st IN Contents(Handle(once, q).st) = Contents(once)

\* What settles is harmless.
LEMMA SettledHarmless ==
  ASSUME NEW s, NEW q, Settles(s, q)
  PROVE  Harmless(s, q)
BY DEF Settles, Harmless

\* storage.cfg: a create finds its own datastore, a delete none, a guarded
\* update another digest, and an unguarded one writes what is there.
LEMMA DatastoresHarmless ==
  ASSUME NEW s, StateOK(s), NEW q, q.op \in WritingOps
  PROVE  Harmless(s, q)
<1>0. /\ DOMAIN s = ServerFields /\ s.version \in Nat
      /\ "stores" \in DOMAIN s /\ "version" \in DOMAIN s
  BY DEF StateOK, ServerFields
<1> DEFINE written(u, v) == Set(Set(u, "stores", v), "version", u.version + 1)
<1>1. ASSUME NEW v PROVE /\ written(s, v).stores = v
                         /\ written(s, v).version = s.version + 1
                         /\ DOMAIN written(s, v) = DOMAIN s
  BY <1>0 DEF Set
<1>2. ASSUME NEW v, Handle(s, q).st \in {s, written(s, v)},
             Handle(written(s, v), q).st \in {written(s, v), written(written(s, v), v)}
      PROVE  Harmless(s, q)
  <2> DEFINE t == written(s, v)
  <2>1. t.stores = v /\ DOMAIN t = DOMAIN s
    BY <1>1
  <2>2. CASE Handle(s, q).st = s
    BY <2>2 DEF Harmless
  <2>3. CASE Handle(s, q).st = t
    <3> HIDE DEF t
    <3>1. Handle(t, q).st \in {t, written(t, v)}
      BY <1>2 DEF t
    <3>2. Contents(written(t, v)) = Contents(t)
      BY <1>0, <2>1 DEF Contents, Set
    <3> HIDE DEF written
    <3> QED BY <2>3, <3>1, <3>2 DEF Harmless
  <2> QED BY <1>2, <2>2, <2>3
<1>3. \A t : Bump(t) = Set(t, "version", t.version + 1)
  BY DEF Bump, Set
<1>4. \A u, v : Set(u, "stores", v).version = u.version
  BY DEF Set
<1>5. \A u, v : Bump(Set(u, "stores", v)) = written(u, v)
  BY <1>3, <1>4
<1> HIDE DEF written
<1>6. CASE q.op = "DatastoreCreate"
  <2> DEFINE v == Put(s.stores, q.id, Materialised(q))
  <2>1. \A u : Handle(u, q).st = IF q.id \in DOMAIN u.stores THEN u
                 ELSE Bump(Set(u, "stores", Put(u.stores, q.id, Materialised(q))))
    BY <1>6, Answered DEF Handle, DatastoreCreate, Set
  <2>2. q.id \in DOMAIN v
    BY DEF Put
  <2>3. Handle(s, q).st \in {s, written(s, v)}
    BY <1>5, <2>1
  <2> HIDE DEF v
  <2>4. Handle(written(s, v), q).st = written(s, v)
    BY <1>1, <2>1, <2>2
  <2> QED BY <1>2, <2>3, <2>4
<1>7. CASE q.op = "DatastoreDelete"
  <2> DEFINE v == Without(s.stores, {q.id})
  <2>1. \A u : Handle(u, q).st = IF q.id \notin DOMAIN u.stores THEN u
                 ELSE Bump(Set(u, "stores", Without(u.stores, {q.id})))
    BY <1>7, Answered DEF Handle, DatastoreDelete, Set
  <2>2. q.id \notin DOMAIN v
    BY DEF Without
  <2>3. Handle(s, q).st \in {s, written(s, v)}
    BY <1>5, <2>1
  <2> HIDE DEF v
  <2>4. Handle(written(s, v), q).st = written(s, v)
    BY <1>1, <2>1, <2>2
  <2> QED BY <1>2, <2>3, <2>4
<1>8. CASE q.op = "DatastoreUpdate"
  <2> DEFINE new(m) == Set(m, q.id, Edited(m[q.id], q))
             v == new(s.stores)
             a == Edited(s.stores[q.id], q)
  <2>1. \A u : /\ Handle(u, q).st \in {u, Bump(Set(u, "stores", new(u.stores)))}
               /\ q.id \notin DOMAIN u.stores => Handle(u, q).st = u
    <3> SUFFICES ASSUME NEW u
                 PROVE  /\ Handle(u, q).st \in {u, Bump(Set(u, "stores", new(u.stores)))}
                        /\ q.id \notin DOMAIN u.stores => Handle(u, q).st = u
      OBVIOUS
    <3>1. Handle(u, q) = DatastoreUpdate(u, q)
      BY <1>8 DEF Handle
    <3>2. CASE q.fixed
      <4>1. Handle(u, q) = BadRequest(u)
        BY <3>1, <3>2 DEF DatastoreUpdate
      <4> QED BY <4>1, Answered
    <3>3. CASE ~q.fixed
      BY <3>1, <3>3, Answered DEF DatastoreUpdate, Set
    <3> QED BY <3>2, <3>3
  <2>2. CASE q.id \notin DOMAIN s.stores
    BY <2>1, <2>2 DEF Harmless
  <2>3. CASE q.id \in DOMAIN s.stores
    <3>1. Edited(a, q) = a
      BY DEF Edited, Merge, Cleared
    <3>2. Handle(s, q).st \in {s, written(s, v)}
      <4> HIDE DEF new, v
      <4> QED BY <1>5, <2>1 DEF v
    <3>3. v = Set(s.stores, q.id, a)
      OBVIOUS
    <3> HIDE DEF a
    <3>4. v[q.id] = a /\ Set(v, q.id, a) = v
      BY <2>3, <3>3, SetTwice
    <3>5. new(v) = v
      <4> HIDE DEF v
      <4> QED BY <3>1, <3>4
    <3> HIDE DEF v, new
    <3>6. Handle(written(s, v), q).st \in {written(s, v), written(written(s, v), v)}
      BY <1>1, <1>5, <2>1, <3>5
    <3> QED BY <1>2, <3>2, <3>6
  <2> QED BY <2>2, <2>3
<1> QED BY <1>6, <1>7, <1>8 DEF WritingOps

\* A request about records may be repeated.
LEMMA RecordsSettle ==
  ASSUME NEW s, StateOK(s), NEW q, q.op \in RecordOps, q.kind \in Kinds
  PROVE  Settles(s, q)
BY CreateSettles, RecordDeleteSettles, UpdatesSettle DEF RecordOps

\* Logins and consoles.
LEMMA ConsolesSettle ==
  ASSUME NEW s, StateOK(s), NEW q, q.op \in {"Login", "Mint", "Dial"}
  PROVE  Settles(s, q)
<1>0. "sessions" \in DOMAIN s /\ "vncTickets" \in DOMAIN s
  BY DEF StateOK, ServerFields
<1>1. CASE q.op = "Login"
  <2> DEFINE v == s.sessions \union {q.user}
  <2>1. \A u : Handle(u, q).st \in {u, Set(u, "sessions", u.sessions \union {q.user})}
    BY <1>1, Answered DEF Handle, Login, Set
  <2>2. v \union {q.user} = v
    OBVIOUS
  <2>3. Sets(s, q, "sessions", v)
    BY <2>1 DEF Sets
  <2> HIDE DEF v
  <2>4. \A u : u.sessions = v => Sets(u, q, "sessions", v)
    BY <2>1, <2>2 DEF Sets
  <2> QED BY <1>0, <2>3, <2>4, SetSettles
<1>2. CASE q.op = "Mint"
  <2> DEFINE v == Put(s.vncTickets, q.surface, q.surface)
  <2>1. \A u : Handle(u, q).st \in
                  {u, Set(u, "vncTickets", Put(u.vncTickets, q.surface, q.surface))}
    BY <1>2, Answered DEF Handle, Mint, Set
  <2>2. Put(v, q.surface, q.surface) = v
    BY PutTwice
  <2>3. Sets(s, q, "vncTickets", v)
    BY <2>1 DEF Sets
  <2> HIDE DEF v
  <2>4. \A u : u.vncTickets = v => Sets(u, q, "vncTickets", v)
    BY <2>1, <2>2 DEF Sets
  <2> QED BY <1>0, <2>3, <2>4, SetSettles
<1>3. CASE q.op = "Dial"
  <2>1. Handle(s, q).st = s
    BY <1>3, Answered DEF Handle, Dial
  <2> QED BY <2>1 DEF Settles
<1> QED BY <1>1, <1>2, <1>3

\* The other requests that repeat.
LEMMA OthersSettle ==
  ASSUME NEW s, StateOK(s), Lists(s), NEW q, Formed(q), ~Unrepeatable(q),
         q.op \in OtherOps
  PROVE  Settles(s, q)
<1>1. CASE q.op \in {"RoleCreate", "RoleUpdate", "RoleDelete"}
  BY <1>1, RolesSettle DEF Unrepeatable
<1>2. CASE q.op \in {"ACLSet", "RuleUpdate"}
  BY <1>2, RevokeSettles, RulesSettle DEF Unrepeatable
<1>3. CASE q.op \in {"JobCreate", "JobUpdate", "JobDelete"}
  BY <1>3, JobsSettle DEF Unrepeatable
<1>4. CASE q.op \in {"IPSetCreate", "IPSetRename", "IPSetDelete", "EntryAdd", "EntryDelete"}
  BY <1>4, IPSetsSettle, EntriesSettle
<1>5. CASE q.op \in {"HAArm", "HADisarm", "ClusterCreate"}
  BY <1>5, SwitchSettles, ClusterSettles
<1>6. CASE q.op \in {"CertUpload", "CertDelete", "CertACME", "NodeConfigSet"}
  BY <1>6, CertsSettle, ConfigSettles
<1>7. CASE q.op \in {"OptionsSet", "RepoUpdate"}
  BY <1>7, OptionsSettle, ReposSettle
<1>8. CASE q.op = "DatastoreGet"
  <2>1. Handle(s, q).st = s
    BY <1>8, Answered DEF Handle
  <2> QED BY <2>1 DEF Settles
<1>9. CASE q.op \in {"Login", "Mint", "Dial"}
  BY <1>9, ConsolesSettle
<1>10. q.op \notin {"RuleCreate", "RuleDelete", "ClusterJoin"}
  BY DEF Unrepeatable
<1> QED BY <1>1, <1>2, <1>3, <1>4, <1>5, <1>6, <1>7, <1>8, <1>9, <1>10 DEF OtherOps

\* Requests carry what their handlers take.
LEMMA RequestsFormed ==
  ASSUME NEW q \in Requests
  PROVE  Formed(q)
<1> DEFINE none == q.op \notin {"ACLSet", "RuleCreate", "RuleUpdate", "RuleDelete"}
<1>0. none => Formed(q)
  BY DEF Formed
<1>1. q \in RoleRequests => none
  BY DEF RoleRequests
<1>2. q \in [op : {"ACLSet"}, grants : Grants, remove : BOOLEAN] => Formed(q)
  <2> SUFFICES ASSUME q \in [op : {"ACLSet"}, grants : Grants, remove : BOOLEAN]
               PROVE  Formed(q)
    OBVIOUS
  <2> DEFINE A == Names \X Names
  <2>1. q.op = "ACLSet" /\ q.grants \in Grants
    OBVIOUS
  <2>2. \A n \in 1..2 : [1..n -> A] \subseteq Seq(A)
    <3> HIDE DEF A
    <3> QED OBVIOUS
  <2>3. Grants = UNION {[1..n -> A] : n \in 1..2}
    BY DEF Grants
  <2> HIDE DEF A
  <2>4. q.grants \in Seq(A)
    BY <2>1, <2>2, <2>3
  <2> QED BY <2>1, <2>4 DEF Formed, A
<1>3. q \in JobRequests => none
  BY DEF JobRequests
<1>4. q \in RuleRequests => Formed(q)
  BY ConfigAssumption DEF RuleRequests, Formed
<1>5. q \in IPSetRequests => none
  BY DEF IPSetRequests
<1>6. q \in DatastoreRequests => none
  BY DEF DatastoreRequests
<1>7. q \in [op : {"HAArm"}] \union [op : {"HADisarm"}, mode : {"", "freeze", "ignore"}]
      => none
  OBVIOUS
<1>8. q \in [op : {"ClusterCreate"}] \union [op : {"ClusterJoin"}, complete : BOOLEAN]
      => none
  OBVIOUS
<1>9. q \in CertRequests => none
  BY DEF CertRequests
<1>10. q \in ConfigRequests => none
  BY DEF ConfigRequests
<1>11. q \in [op : {"OptionsSet"}, form : OptionForms] => none
  OBVIOUS
<1>12. q \in [op : {"RepoUpdate"}, path : Names, index : -1..2, enabled : BOOLEAN]
       => none
  OBVIOUS
<1>13. q \in CollectionRequests => none
  BY CollectionRouted DEF RecordOps
<1> HIDE DEF none
<1> QED
  BY <1>0, <1>1, <1>2, <1>3, <1>4, <1>5, <1>6, <1>7, <1>8, <1>9, <1>10, <1>11, <1>12, <1>13
  DEF Requests

\* The lists are not among these fields.
Aside == {"recs", "roles", "jobs", "seq", "stores", "version", "armed", "mode", "clustered",
          "members", "joinQueue", "config", "datacenter", "sessions", "vncTickets"}

\* A change of another field leaves the lists.
LEMMA ListsAside ==
  ASSUME NEW s, StateOK(s), Lists(s), NEW f \in Aside, NEW v
  PROVE  Lists(Set(s, f, v)) /\ DOMAIN Set(s, f, v) = ServerFields
<1> DEFINE t == Set(s, f, v)
<1>1. /\ t.acls = s.acls /\ t.rules = s.rules /\ t.certs = s.certs
      /\ t.ipsets = s.ipsets /\ t.repos = s.repos /\ DOMAIN t = ServerFields
  BY DEF Set, Aside, StateOK, ServerFields
<1> HIDE DEF t
<1>2. Lists(t) BY <1>1 DEF Lists
<1> QED BY <1>1, <1>2 DEF t

\* The same of two fields.
LEMMA ListsAsideTwo ==
  ASSUME NEW s, StateOK(s), Lists(s), NEW f \in Aside, NEW g \in Aside, NEW v, NEW w
  PROVE  Lists(Set(Set(s, f, v), g, w))
<1> DEFINE t == Set(Set(s, f, v), g, w)
<1>1. /\ t.acls = s.acls /\ t.rules = s.rules /\ t.certs = s.certs
      /\ t.ipsets = s.ipsets /\ t.repos = s.repos
  BY DEF Set, Aside, StateOK, ServerFields
<1> HIDE DEF t
<1>2. Lists(t) BY <1>1 DEF Lists
<1> QED BY <1>2 DEF t

\* A change of one list leaves the others.
LEMMA ListsSet ==
  ASSUME NEW s, StateOK(s), Lists(s), NEW v
  PROVE  /\ v \in Seq(Names \X Names) => Lists(Set(s, "acls", v))
         /\ v \in Seq(Form) => Lists(Set(s, "rules", v))
         /\ v \in Seq(Cert) => Lists(Set(s, "certs", v))
         /\ (\A x \in DOMAIN v : DOMAIN v[x] = {"name", "entries"})
              => Lists(Set(s, "ipsets", v))
         /\ (\A x \in DOMAIN v : DOMAIN v[x] = {"path", "enabled"}) => Lists(Set(s, "repos", v))
<1>0. DOMAIN s = ServerFields
  BY DEF StateOK
<1>1. \A f, g \in {"acls", "rules", "certs", "ipsets", "repos"} :
        Set(s, f, v)[g] = IF g = f THEN v ELSE s[g]
  BY <1>0 DEF Set, ServerFields
<1> QED BY <1>1 DEF Lists

\* The handlers that are not about a list.
LEMMA ListsLeft ==
  ASSUME NEW s, StateOK(s), Lists(s), NEW q,
         q.op \in RecordOps \union WritingOps
                  \union {"RoleCreate", "RoleUpdate", "RoleDelete", "JobCreate", "JobUpdate",
                          "JobDelete", "HAArm", "HADisarm", "ClusterCreate", "ClusterJoin",
                          "NodeConfigSet", "OptionsSet", "DatastoreGet", "Login",
                          "Mint", "Dial"}
  PROVE  Lists(Handle(s, q).st)
<1> DEFINE aside(t) == \E f \in Aside : \E v : t = Set(s, f, v)
           two(t) == \E f, g \in Aside : \E v, w : t = Set(Set(s, f, v), g, w)
           h == Handle(s, q).st
<1>0. \A t : t = s \/ aside(t) \/ two(t) => Lists(t)
  BY ListsAside, ListsAsideTwo
<1>1. /\ \A v : /\ aside(Set(s, "recs", v)) /\ aside(Set(s, "roles", v))
                /\ aside(Set(s, "jobs", v))
      /\ \A v : aside(Set(s, "config", v)) /\ aside(Set(s, "datacenter", v))
      /\ \A v : aside(Set(s, "sessions", v)) /\ aside(Set(s, "vncTickets", v))
      /\ \A v : aside(Set(s, "joinQueue", v))
  BY DEF Aside
<1>2. /\ \A v, w : two(Set(Set(s, "stores", v), "version", w))
      /\ \A v, w : two(Set(Set(s, "seq", v), "jobs", w))
      /\ \A v, w : two(Set(Set(s, "armed", v), "mode", w))
      /\ \A v, w : two(Set(Set(s, "clustered", v), "members", w))
      /\ \A v, w : two(Set(Set(s, "joinQueue", v), "members", w))
  BY DEF Aside
<1> HIDE DEF aside, two
<1>3. \A record :
        Edit(s, q, record).st \in
          {s, Set(s, "recs", Set(s.recs, q.kind, Set(s.recs[q.kind], q.key, record)))}
  BY Answered DEF Edit, Set
<1>4. CASE q.op \in RecordOps
  <2>1. CASE q.op = "create"
    <3>1. h \in {s, Set(s, "recs", Set(s.recs, q.kind,
                         Put(s.recs[q.kind], q.key, Created(Collection[q.kind], q.form))))}
      BY <2>1, Answered DEF Handle, Create, Set
    <3> QED BY <1>0, <1>1, <3>1
  <2>2. CASE q.op = "delete"
    <3> DEFINE left == [k \in Kinds |->
                          IF k = q.kind THEN Without(s.recs[k], {q.key})
                          ELSE IF k = "fabricNodes"
                               THEN Without(s.recs[k], Dragged(s, q.kind, q.key))
                          ELSE s.recs[k]]
    <3>1. h \in {s, Set(s, "recs", left)}
      BY <2>2, Answered DEF Handle, Delete, Set
    <3> HIDE DEF left
    <3> QED BY <1>0, <1>1, <3>1
  <2>3. CASE q.op \in {"update", "TokenUpdate", "PluginUpdate"}
    <3>1. Handle(s, q) = BadRequest(s) \/ \E record : Handle(s, q) = Edit(s, q, record)
      BY <2>3 DEF Handle, Update, TokenUpdate, PluginUpdate
    <3> QED BY <1>0, <1>1, <1>3, <3>1, Answered
  <2> QED BY <1>4, <2>1, <2>2, <2>3 DEF RecordOps
<1>5. CASE q.op \in WritingOps
  <2>1. \A v : Bump(Set(s, "stores", v)) = Set(Set(s, "stores", v), "version", s.version + 1)
    BY DEF Bump, Set
  <2>2. h \in {s, Bump(Set(s, "stores", Put(s.stores, q.id, Materialised(q)))),
                Bump(Set(s, "stores", Without(s.stores, {q.id}))),
                Bump(Set(s, "stores", Set(s.stores, q.id, Edited(s.stores[q.id], q))))}
    <3>1. CASE q.op = "DatastoreCreate"
      BY <3>1, Answered DEF Handle, DatastoreCreate, Set
    <3>2. CASE q.op = "DatastoreDelete"
      BY <3>2, Answered DEF Handle, DatastoreDelete, Set
    <3>3. CASE q.op = "DatastoreUpdate"
      <4>1. Handle(s, q) = DatastoreUpdate(s, q)
        BY <3>3 DEF Handle
      <4>2. CASE q.fixed
        <5>1. Handle(s, q) = BadRequest(s)
          BY <4>1, <4>2 DEF DatastoreUpdate
        <5> QED BY <5>1, Answered
      <4>3. CASE ~q.fixed
        BY <4>1, <4>3, Answered DEF DatastoreUpdate, Set
      <4> QED BY <4>2, <4>3
    <3> QED BY <1>5, <3>1, <3>2, <3>3 DEF WritingOps
  <2> QED BY <1>0, <1>2, <2>1, <2>2
<1>6. CASE q.op \in {"RoleCreate", "RoleUpdate", "RoleDelete"}
  <2>1. h \in {s, Set(s, "roles", Put(s.roles, q.id, q.privs)),
                Set(s, "roles", Set(s.roles, q.id, ApplyRoleForm(s.roles[q.id], q))),
                Set(s, "roles", Without(s.roles, {q.id}))}
    BY <1>6, Answered DEF Handle, RoleCreate, RoleUpdate, RoleDelete, Set
  <2> QED BY <1>0, <1>1, <2>1
<1>7. CASE q.op \in {"JobUpdate", "JobDelete"}
  <2>1. h \in {s, Set(s, "jobs", Set(s.jobs, q.id, Merge(s.jobs[q.id], q.form))),
                Set(s, "jobs", Without(s.jobs, {q.id}))}
    BY <1>7, Answered DEF Handle, JobUpdate, JobDelete, Set
  <2> QED BY <1>0, <1>1, <2>1
<1>8. CASE q.op = "JobCreate"
  <2> DEFINE n == IF q.id = 0 THEN s.seq + 1 ELSE s.seq
             w == Put(s.jobs, IF q.id = 0 THEN n ELSE q.id, q.form)
  <2>1. h = Set(Set(s, "seq", n), "jobs", w)
    BY <1>8, Answered DEF Handle, JobCreate, Set
  <2> HIDE DEF n, w
  <2> QED BY <1>0, <1>2, <2>1
<1>9. CASE q.op \in {"HAArm", "HADisarm"}
  <2>1. \/ SetsTwo(s, q, "armed", TRUE, "mode", "")
        \/ SetsTwo(s, q, "armed", FALSE, "mode", q.mode)
    BY <1>9, Answered DEF Handle, HAArm, HADisarm, Set, SetsTwo
  <2> QED BY <1>0, <1>2, <2>1 DEF SetsTwo
<1>10. CASE q.op = "ClusterCreate"
  <2>1. SetsTwo(s, q, "clustered", TRUE, "members", <<Self>>)
    BY <1>10, Answered DEF Handle, ClusterCreate, Set, SetsTwo
  <2> QED BY <1>0, <1>2, <2>1 DEF SetsTwo
<1>11. CASE q.op = "ClusterJoin"
  <2> DEFINE p == Set(s, "joinQueue", Tail(s.joinQueue))
             m == Append(p.members, Head(s.joinQueue))
  <2>1. h \in {s, p, Set(p, "members", m)}
    BY <1>11, Answered DEF Handle, ClusterJoin, Set
  <2> HIDE DEF m
  <2> QED BY <1>0, <1>1, <1>2, <2>1
<1>12. CASE q.op \in {"NodeConfigSet", "OptionsSet", "Login", "Mint", "Dial", "DatastoreGet"}
  <2>1. q.op = "NodeConfigSet" => h \in {s, Set(s, "config", ApplyConfig(s.config, q.form))}
    BY Answered DEF Handle, NodeConfigSet, Set
  <2>2. q.op = "OptionsSet" => h = Set(s, "datacenter", Over(q.form, s.datacenter))
    BY Answered DEF Handle, OptionsSet, Set
  <2>3. q.op = "Login" => h \in {s, Set(s, "sessions", s.sessions \union {q.user})}
    BY Answered DEF Handle, Login, Set
  <2>4. q.op = "Mint" =>
          h \in {s, Set(s, "vncTickets", Put(s.vncTickets, q.surface, q.surface))}
    BY Answered DEF Handle, Mint, Set
  <2>5. q.op \in {"Dial", "DatastoreGet"} => h = s
    BY Answered DEF Handle, Dial
  <2> HIDE DEF h
  <2> QED BY <1>0, <1>1, <1>12, <2>1, <2>2, <2>3, <2>4, <2>5 DEF h
<1> QED BY <1>4, <1>5, <1>6, <1>7, <1>8, <1>9, <1>10, <1>11, <1>12

\* The handlers that change a list keep its type.
LEMMA ListsChanged ==
  ASSUME NEW s, StateOK(s), Lists(s), NEW q, Formed(q),
         q.op \in {"ACLSet", "RuleCreate", "RuleUpdate", "RuleDelete", "IPSetCreate",
                   "IPSetRename", "IPSetDelete", "EntryAdd", "EntryDelete", "CertUpload",
                   "CertDelete", "CertACME", "RepoUpdate"}
  PROVE  Lists(Handle(s, q).st)
<1> DEFINE h == Handle(s, q).st
<1>1. CASE q.op = "ACLSet"
  <2> DEFINE A == Names \X Names
             v == IF q.remove THEN Revoked(s.acls, q.grants) ELSE s.acls \o q.grants
  <2>1. h = Set(s, "acls", v)
    BY <1>1, Answered DEF Handle, ACLSet, Set
  <2>2. s.acls \in Seq(A) /\ q.grants \in Seq(A)
    BY <1>1 DEF Lists, Formed
  <2> HIDE DEF A
  <2>3. Revoked(s.acls, q.grants) \in Seq(A)
    <3> DEFINE R == Range(q.grants)
               d == Dropped(s.acls, R)
    <3>1. d \in Seq(A \ R)
      <4> HIDE DEF R
      <4> QED BY <2>2, DroppedType
    <3>2. d \in Seq(A)
      <4> HIDE DEF d, R
      <4> QED BY <3>1
    <3> QED BY <3>2 DEF Revoked
  <2>4. v \in Seq(A)
    BY <2>2, <2>3
  <2> HIDE DEF v
  <2> QED BY <2>1, <2>4, ListsSet DEF A
<1>2. CASE q.op = "RuleCreate"
  <2>1. h = Set(s, "rules", Append(s.rules, q.form))
    BY <1>2, Answered DEF Handle, RuleCreate, Set
  <2>2. s.rules \in Seq(Form) /\ q.form \in Form
    BY <1>2 DEF Lists, Formed
  <2>3. Append(s.rules, q.form) \in Seq(Form)
    BY <2>2
  <2> QED BY <2>1, <2>3, ListsSet
<1>3. CASE q.op = "RuleUpdate"
  <2> DEFINE i == q.pos + 1
             a == Merge(s.rules[i], q.form)
  <2>1. h = IF ~HasRule(s, q.pos) THEN s ELSE Set(s, "rules", Set(s.rules, i, a))
    BY <1>3, Answered DEF Handle, RuleUpdate, Set
  <2>2. s.rules \in Seq(Form) /\ q.form \in Form /\ q.pos \in Int
    BY <1>3 DEF Lists, Formed
  <2>3. CASE HasRule(s, q.pos)
    <3>1. i \in 1..Len(s.rules)
      BY <2>2, <2>3 DEF HasRule
    <3>2. a \in Form
      BY <2>2, <3>1 DEF Merge, Form, Values, Empty
    <3> HIDE DEF i, a
    <3>3. Set(s.rules, i, a) \in Seq(Form)
      BY <2>2, <3>1, <3>2, SetInList
    <3> QED BY <2>1, <2>3, <3>3, ListsSet
  <2> QED BY <2>1, <2>3
<1>4. CASE q.op = "RuleDelete"
  <2> DEFINE i == q.pos + 1
             v == RemoveAt(s.rules, i)
  <2>1. h = IF ~HasRule(s, q.pos) THEN s ELSE Set(s, "rules", v)
    BY <1>4, Answered DEF Handle, RuleDelete, Set
  <2>2. s.rules \in Seq(Form) /\ q.pos \in Int
    BY <1>4 DEF Lists, Formed
  <2>3. CASE HasRule(s, q.pos)
    <3>1. i \in 1..Len(s.rules)
      BY <2>2, <2>3 DEF HasRule
    <3> HIDE DEF i
    <3>2. /\ SubSeq(s.rules, 1, i - 1) \in Seq(Form)
          /\ SubSeq(s.rules, i + 1, Len(s.rules)) \in Seq(Form)
      BY <2>2, <3>1
    <3>3. v \in Seq(Form)
      BY <3>2 DEF RemoveAt
    <3> HIDE DEF v
    <3> QED BY <2>1, <2>3, <3>3, ListsSet
  <2> QED BY <2>1, <2>3
<1>5. CASE q.op \in {"IPSetCreate", "IPSetDelete", "IPSetRename", "EntryAdd", "EntryDelete"}
  <2> DEFINE fine(v) == \A x \in DOMAIN v : DOMAIN v[x] = {"name", "entries"}
             new == [name |-> q.name, entries |-> {}]
             old == s.ipsets[q.name]
             a == Put(s.ipsets, q.name, new)
             b == Without(s.ipsets, {q.name})
             c == Without(Put(s.ipsets, q.name, Moved(s, q)), {q.rename})
             d == Set(s.ipsets, q.name, Set(old, "entries", old.entries \union {q.cidr}))
             e == Set(s.ipsets, q.name, Set(old, "entries", old.entries \ {q.cidr}))
  <2>0. fine(s.ipsets)
    BY DEF Lists
  <2>1. CASE q.op = "IPSetCreate"
    <3>1. h = Set(s, "ipsets", a)
      BY <2>1, Answered DEF Handle, IPSetCreate, Set
    <3>2. fine(a)
      BY <2>0 DEF Put
    <3> HIDE DEF a
    <3> QED BY <3>1, <3>2, ListsSet
  <2>2. CASE q.op = "IPSetDelete"
    <3>1. h \in {s, Set(s, "ipsets", b)}
      BY <2>2, Answered DEF Handle, IPSetDelete, Set
    <3>2. fine(b)
      BY <2>0 DEF Without
    <3> HIDE DEF b
    <3> QED BY <3>1, <3>2, ListsSet
  <2>3. CASE q.op = "IPSetRename"
    <3>1. h = IF q.rename \notin DOMAIN s.ipsets THEN s ELSE Set(s, "ipsets", c)
      BY <2>3, Answered DEF Handle, IPSetRename, Set
    <3>2. q.rename \in DOMAIN s.ipsets => fine(c)
      <4> SUFFICES ASSUME q.rename \in DOMAIN s.ipsets PROVE fine(c)
        OBVIOUS
      <4>1. DOMAIN Moved(s, q) = {"name", "entries"}
        BY <2>0 DEF Moved
      <4> QED BY <2>0, <4>1 DEF Put, Without
    <3> HIDE DEF c
    <3> QED BY <3>1, <3>2, ListsSet
  <2>4. CASE q.op = "EntryAdd"
    <3>1. h \in {s, Set(s, "ipsets", d)}
      BY <2>4, Answered DEF Handle, EntryAdd, Set
    <3>2. fine(d)
      BY <2>0 DEF Set
    <3> HIDE DEF d
    <3> QED BY <3>1, <3>2, ListsSet
  <2>5. CASE q.op = "EntryDelete"
    <3>1. h \in {s, Set(s, "ipsets", e)}
      BY <2>5, Answered DEF Handle, EntryDelete, Set
    <3>2. fine(e)
      BY <2>0 DEF Set
    <3> HIDE DEF e
    <3> QED BY <3>1, <3>2, ListsSet
  <2> QED BY <1>5, <2>1, <2>2, <2>3, <2>4, <2>5
<1>6. CASE q.op \in {"CertUpload", "CertDelete", "CertACME"}
  <2> DEFINE w == WithoutFrontendCert(s.certs)
             B == {c \in Cert : c.file # Frontend}
  <2>1. h \in {Set(s, "certs", w), Set(s, "certs", Installed(s.certs, "custom")),
               Set(s, "certs", Installed(s.certs, "acme"))}
    <3>1. CASE q.op = "CertUpload"
      BY <3>1, Answered DEF Handle, CertUpload, Set
    <3>2. CASE q.op = "CertDelete"
      BY <3>2, Answered DEF Handle, CertDelete, Set
    <3>3. CASE q.op = "CertACME"
      <4> DEFINE v == IF q.revoke \/ acmeSANs(s.config) = {} THEN w
                      ELSE Installed(s.certs, "acme")
      <4>1. h = Set(s, "certs", v)
        BY <3>3, Answered DEF Handle, CertACME, Set
      <4>2. v \in {w, Installed(s.certs, "acme")}
        OBVIOUS
      <4> HIDE DEF v, w
      <4> QED BY <4>1, <4>2
    <3> QED BY <1>6, <3>1, <3>2, <3>3
  <2>2. s.certs \in Seq(Cert)
    BY DEF Lists
  <2>3. w \in Seq(B)
    BY <2>2, CertsLeft
  <2> HIDE DEF w
  <2>4. w \in Seq(Cert)
    BY <2>3
  <2>5. \A x \in Issuers : Installed(s.certs, x) = Append(w, FrontendCert(x))
    BY DEF Installed, FrontendCert, w
  <2>6. \A x \in Issuers : FrontendCert(x) \in Cert
    BY DEF FrontendCert, Cert
  <2>7. \A x \in Issuers : Installed(s.certs, x) \in Seq(Cert)
    BY <2>4, <2>5, <2>6
  <2>8. Installed(s.certs, "custom") \in Seq(Cert) /\ Installed(s.certs, "acme") \in Seq(Cert)
    BY <2>7 DEF Issuers
  <2> QED BY <2>1, <2>4, <2>8, ListsSet
<1>7. CASE q.op = "RepoUpdate"
  <2> DEFINE i == q.index + 1
             hits == {f \in DOMAIN s.repos :
                        s.repos[f].path = q.path /\ i \in DOMAIN s.repos[f].enabled}
             new == [f \in DOMAIN s.repos |-> IF f \in hits
                       THEN [s.repos[f] EXCEPT !.enabled[i] = q.enabled] ELSE s.repos[f]]
  <2>1. RepoUpdate(s, q) \in {NotFound(s), Done([s EXCEPT !.repos = new])}
    BY DEF RepoUpdate
  <2>2. Handle(s, q) = RepoUpdate(s, q)
    BY <1>7 DEF Handle
  <2>3. \A x \in DOMAIN new : DOMAIN new[x] = {"path", "enabled"}
    <3> HIDE DEF hits
    <3> QED BY DEF Lists
  <2> HIDE DEF new
  <2>4. h \in {s, Set(s, "repos", new)}
    BY <2>1, <2>2, Answered DEF Set
  <2> QED BY <2>3, <2>4, ListsSet
<1> QED BY <1>1, <1>2, <1>3, <1>4, <1>5, <1>6, <1>7

\* So every handler keeps the lists.
LEMMA ListsKept ==
  ASSUME NEW s, StateOK(s), Lists(s), NEW q, Formed(q),
         q.op \in OtherOps \union WritingOps \union RecordOps
  PROVE  Lists(Handle(s, q).st)
BY ListsLeft, ListsChanged DEF OtherOps

\* The lists of a new server.
LEMMA SeededLists ==
  ASSUME NEW queue, NEW config
  PROVE  Lists(Seeded(queue, config))
<1> DEFINE s == Seeded(queue, config)
           c == [file |-> "pve-ssl.pem", issuer |-> "pve"]
           r == [path |-> CHOOSE n \in Names : TRUE, enabled |-> <<TRUE, FALSE>>]
<1>1. /\ s.acls = << >> /\ s.rules = << >> /\ s.ipsets = << >>
      /\ s.certs = <<c>> /\ s.repos = <<r>>
  BY DEF Seeded
<1>2. c \in Cert
  BY DEF Cert, Issuers
<1>3. DOMAIN r = {"path", "enabled"}
  OBVIOUS
<1> HIDE DEF s, c, r
<1>4. <<c>> \in Seq(Cert) /\ \A x \in DOMAIN <<r>> : <<r>>[x] = r
  BY <1>2
<1> QED BY <1>1, <1>3, <1>4 DEF Lists, s

\* The server's lists stay well formed whoever asks for what.
LEMMA ListsInvariant == Spec => []Lists(st)
<1>1. Init => Lists(st)
  BY SeededLists DEF Init, ServerInit
<1>2. ServicesInv /\ Lists(st) /\ [Next]_servicesVars => Lists(st)'
  <2> SUFFICES ASSUME ServicesInv, Lists(st), [Next]_servicesVars PROVE Lists(st')
    BY DEF Lists
  <2>0. StateOK(st)
    BY DEF ServicesInv
  <2>1. CASE ServeAnyone
    <3>1. PICK q \in Requests : st' = Handle(st, q).st
      BY <2>1 DEF ServeAnyone, Serve
    <3>2. q.op \in OtherOps \union WritingOps \union RecordOps
      BY RequestsRouted
    <3>3. Formed(q)
      BY RequestsFormed
    <3> QED BY <2>0, <3>1, <3>2, <3>3, ListsKept
  <2>2. ASSUME NEW c \in Clients, Deliver(c) PROVE Lists(st')
    <3> DEFINE q == call[c].q
    <3>1. st' = Outcome(c, q).st /\ call[c].pc = "sent"
      BY <2>2 DEF Deliver
    <3>2. CASE q.op = "Call"
      BY <3>1, <3>2 DEF Outcome
    <3>3. CASE q.op # "Call"
      <4>1. st' = Handle(st, q).st
        BY <3>1, <3>3 DEF Outcome
      <4>2. q.op \in StoreOps \union ConsoleOps
        BY <3>1, <3>3 DEF ServicesInv, OpsFit, Asked
      <4> HIDE DEF q
      <4>3. Lists(Handle(st, q).st)
        BY <2>0, <4>2, ListsLeft DEF StoreOps, ConsoleOps, WritingOps
      <4> QED BY <4>1, <4>3
    <3> QED BY <3>2, <3>3
  <2>3. CASE UNCHANGED st
    BY <2>3
  <2>4. ServeAnyone \/ (\E c \in Clients : Deliver(c)) \/ UNCHANGED st
    BY DEF Next, servicesVars, Upgrade, NewClient, Invoke, Ask, Resend, GiveUp, Receive
  <2> QED BY <2>1, <2>2, <2>3, <2>4
<1> QED BY <1>1, <1>2, ServicesInvariant, PTL DEF Spec

\* A lost reply and a retry do no harm: every request but those that append or
\* go by position leaves, served twice in a row, what serving it once leaves,
\* whatever was served before it, whatever names there are and however long
\* the lists are.
THEOREM RepeatCorrect == Spec => []RepeatHarmless
<1>1. ServicesInv /\ Lists(st) => RepeatHarmless
  <2> SUFFICES ASSUME ServicesInv, Lists(st), NEW q \in Requests, ~Unrepeatable(q)
               PROVE  Harmless(st, q)
    BY DEF RepeatHarmless, Harmless
  <2>0. StateOK(st)
    BY DEF ServicesInv
  <2>1. CASE q.op \in WritingOps
    BY <2>0, <2>1, DatastoresHarmless
  <2>2. CASE q.op \in RecordOps /\ q.kind \in Kinds
    BY <2>0, <2>2, RecordsSettle, SettledHarmless
  <2>3. CASE q.op \in OtherOps
    BY <2>0, <2>3, RequestsFormed, OthersSettle, SettledHarmless
  <2> QED BY <2>1, <2>2, <2>3, RequestsRouted
<1> QED BY <1>1, ServicesInvariant, ListsInvariant, PTL

-----------------------------------------------------------------------------
(* What is asked of the methods and of the consoles, and answered.         *)

\* A call of a method carries the form that its arguments make; it is answered
\* by the method's handler, or nowhere.
MethodAsked(x) ==
  x.pc # "idle" /\ x.q.op = "Call" =>
    /\ x.q.svc \in DOMAIN M!Service
    /\ x.q.name \in DOMAIN M!Service[x.q.svc]
    /\ x.q.form = M!EncodeWithExtra(M!Service[x.q.svc][x.q.name], x.q.blanked)
    /\ x.pc = "answered" =>
         x.reply = "no route" \/ x.reply = M!Answer(x.q.svc, x.q.name, x.q.form)

\* A ticket for a surface is with the server, which knows the user.
Minted(s, user, surface) == /\ surface \in Surfaces
                            /\ surface \in DOMAIN s.vncTickets
                            /\ checkAuth(s, user)

\* A client's ticket is one that was minted, as it was or rebuilt.
Genuine(s, k, t) ==
  /\ Minted(s, k.user, t.ticket)
  /\ t = VNCTicket(t.ticket, TRUE) \/ t = VNCTicket(t.ticket, FALSE)

MintAsked(s, k, x) ==
  x.pc # "idle" /\ x.q.op = "Mint" =>
    /\ x.q.user = k.user /\ x.q.surface \in Surfaces
    /\ x.pc = "answered" /\ x.reply = "ok" => Minted(s, k.user, x.q.surface)

DialAsked(s, k, x) ==
  x.pc # "idle" /\ x.q.op = "Dial" =>
    /\ x.q.user = k.user /\ x.q.ticket = x.q.held.ticket /\ Genuine(s, k, x.q.held)
    /\ x.q.path = vncWebSocketPath(x.q.node, x.q.held)
    /\ x.pc = "answered" => (x.reply = "ok" <=> x.q.path = x.q.ticket)

\* The server remembers for every ticket the surface it was made for.
Named(s) == \A x \in DOMAIN s.vncTickets : s.vncTickets[x] = x

\* A client's side: the tickets it has and the call under way.
Holds(s, k, x) == /\ \A t \in k.tickets : Genuine(s, k, t)
                  /\ MintAsked(s, k, x) /\ DialAsked(s, k, x)

FitInv ==
  /\ \A c \in Clients : MethodAsked(call[c])
  /\ family = {"consoles"} => Named(st) /\ \A c \in Clients : Holds(st, client[c], call[c])

\* Tickets and logins are never taken back.
Grown(s, t) == /\ DOMAIN s.vncTickets \subseteq DOMAIN t.vncTickets
               /\ s.sessions \subseteq t.sessions

\* So what a client has stays good.
LEMMA HoldsOn ==
  ASSUME NEW s, NEW t, Grown(s, t), NEW k, NEW x, Holds(s, k, x)
  PROVE  Holds(t, k, x)
<1>1. \A u, y : Minted(s, u, y) => Minted(t, u, y)
  BY DEF Grown, Minted, checkAuth
<1>2. \A y : Genuine(s, k, y) => Genuine(t, k, y)
  BY <1>1 DEF Genuine
<1> QED BY <1>1, <1>2 DEF Holds, MintAsked, DialAsked

\* What the handlers of logins and consoles do.
LEMMA ConsolesServe ==
  ASSUME NEW s, StateOK(s), Named(s), NEW q, q.op \in ConsoleOps
  PROVE  LET out == Handle(s, q)
         IN  /\ Named(out.st) /\ Grown(s, out.st)
             /\ q.op = "Mint" /\ out.reply = "ok" =>
                  q.surface \in DOMAIN out.st.vncTickets /\ checkAuth(out.st, q.user)
             /\ q.op = "Dial" /\ checkAuth(s, q.user) /\ q.ticket \in DOMAIN s.vncTickets =>
                  (out.reply = "ok" <=> q.path = q.ticket)
<1> DEFINE out == Handle(s, q)
<1>1. \A t : /\ Done(t).st = t /\ Done(t).reply = "ok"
             /\ Denied(t).st = t /\ Denied(t).reply = "denied"
  BY DEF Done, Denied
<1>2. Grown(s, s)
  BY DEF Grown
<1>3. CASE q.op = "Login"
  <2> DEFINE t == [s EXCEPT !.sessions = @ \union {q.user}]
  <2>1. Handle(s, q) = Login(s, q)
    BY <1>3 DEF Handle
  <2>2. out.st = s \/ out.st = t
    BY <1>1, <2>1 DEF Login
  <2>3. t.vncTickets = s.vncTickets /\ s.sessions \subseteq t.sessions
    BY DEF StateOK, ServerFields
  <2> HIDE DEF t, out
  <2> QED BY <1>2, <1>3, <2>2, <2>3 DEF Named, Grown, out
<1>4. CASE q.op = "Mint"
  <2> DEFINE new == Put(s.vncTickets, q.surface, q.surface)
             t == [s EXCEPT !.vncTickets = new]
  <2>1. Handle(s, q) = Mint(s, q)
    BY <1>4 DEF Handle
  <2>2. \/ out.st = s /\ out.reply = "denied"
        \/ out.st = t /\ checkAuth(s, q.user)
    BY <1>1, <2>1 DEF Mint
  <2>3. /\ DOMAIN new = DOMAIN s.vncTickets \union {q.surface}
        /\ \A x \in DOMAIN new : new[x] = x
    BY DEF Put, Named
  <2> HIDE DEF new
  <2>4. t.vncTickets = new /\ t.sessions = s.sessions
    BY DEF StateOK, ServerFields
  <2> HIDE DEF t, out
  <2> QED BY <1>2, <1>4, <2>2, <2>3, <2>4 DEF Named, Grown, checkAuth, out
<1>5. CASE q.op = "Dial"
  <2>1. Handle(s, q) = Dial(s, q)
    BY <1>5 DEF Handle
  <2>2. out.st = s
    BY <1>1, <2>1 DEF Dial
  <2>3. ASSUME checkAuth(s, q.user), q.ticket \in DOMAIN s.vncTickets
        PROVE  out.reply = "ok" <=> q.path = q.ticket
    <3>1. s.vncTickets[q.ticket] = q.ticket
      BY <2>3 DEF Named
    <3>2. out = IF q.ticket # q.path THEN Denied(s) ELSE Done(s)
      BY <2>1, <2>3, <3>1 DEF Dial
    <3> QED BY <1>1, <3>2
  <2> HIDE DEF out
  <2> QED BY <1>2, <1>5, <2>2, <2>3 DEF out
<1> QED BY <1>3, <1>4, <1>5 DEF ConsoleOps

\* A client's step that leaves the server and the other clients alone.
LEMMA FitKept ==
  ASSUME ServicesInv, FitInv, NEW c \in Clients, UNCHANGED <<st, family>>,
         DOMAIN call = Clients, DOMAIN client = Clients,
         \A d \in Clients \ {c} : call'[d] = call[d] /\ client'[d] = client[d],
         MethodAsked(call'[c]),
         family = {"consoles"} => Holds(st, client'[c], call'[c])
  PROVE  FitInv'
<1>1. ASSUME NEW d \in Clients PROVE MethodAsked(call[d])'
  <2>1. MethodAsked(call'[d])
    BY DEF FitInv
  <2> QED BY <2>1 DEF MethodAsked
<1>2. ASSUME family = {"consoles"}, NEW d \in Clients PROVE Holds(st, client[d], call[d])'
  <2>1. Holds(st', client'[d], call'[d])
    BY <1>2 DEF FitInv
  <2> QED BY <2>1 DEF Holds, MintAsked, DialAsked
<1>3. family = {"consoles"} => Named(st)'
  BY DEF FitInv, Named
<1> QED BY <1>1, <1>2, <1>3 DEF FitInv

\* A method's call carries its form.
LEMMA InvokeFits ==
  ASSUME ServicesInv, FitInv, NEW c \in Clients, Invoke(c)
  PROVE  FitInv'
<1>1. PICK svc \in DOMAIN M!Service : \E name \in DOMAIN M!Service[svc] :
        LET m == M!Service[svc][name]
        IN  \E a \in Arguments(m) :
              call' = [call EXCEPT ![c] =
                IF Refuses(c, m, a) THEN NoCall
                ELSE Sent([op |-> "Call", svc |-> svc, name |-> name, since |-> m.since,
                           blanked |-> a.blanked,
                           form |-> M!EncodeWithExtra(m, a.blanked)])]
  BY DEF Invoke
<1>0. PICK name \in DOMAIN M!Service[svc] :
        LET m == M!Service[svc][name]
        IN  \E a \in Arguments(m) :
              call' = [call EXCEPT ![c] =
                IF Refuses(c, m, a) THEN NoCall
                ELSE Sent([op |-> "Call", svc |-> svc, name |-> name, since |-> m.since,
                           blanked |-> a.blanked,
                           form |-> M!EncodeWithExtra(m, a.blanked)])]
  BY <1>1
<1> DEFINE m == M!Service[svc][name]
           q(a) == [op |-> "Call", svc |-> svc, name |-> name, since |-> m.since,
                    blanked |-> a.blanked, form |-> M!EncodeWithExtra(m, a.blanked)]
<1>2. PICK a \in Arguments(m) :
        call' = [call EXCEPT ![c] = IF Refuses(c, m, a) THEN NoCall ELSE Sent(q(a))]
  BY <1>0
<1>3. UNCHANGED <<st, family, client>> /\ family # {"consoles"}
  BY Distinct DEF Invoke
<1>4. MethodAsked(NoCall)
  BY NoCallIs DEF MethodAsked
<1>5. /\ q(a).svc = svc /\ q(a).name = name /\ q(a).blanked = a.blanked
      /\ q(a).form = M!EncodeWithExtra(M!Service[svc][name], a.blanked)
  OBVIOUS
<1> HIDE DEF q, m
<1>8. MethodAsked(Sent(q(a)))
  BY <1>5, SentIs DEF MethodAsked
<1>6. /\ DOMAIN call = Clients /\ DOMAIN client = Clients
      /\ call'[c] = NoCall \/ call'[c] = Sent(q(a))
      /\ \A d \in Clients \ {c} : call'[d] = call[d]
  BY <1>2 DEF ServicesInv, ClientTypes
<1>7. MethodAsked(call'[c])
  BY <1>4, <1>6, <1>8
<1> QED BY <1>3, <1>6, <1>7, FitKept

\* What is asked of storage.cfg: an update carries no digest, or the last read.
LEMMA StoresAsked ==
  ASSUME NEW c, NEW q \in StoreCalls(c)
  PROVE  /\ q.op \in StoreOps
         /\ q.op = "DatastoreUpdate" => q.digest \in {0, client[c].seen.digest}
<1> DEFINE id == CHOOSE n \in Names : TRUE
           form == [f \in Fields |-> IF f = "first" THEN 1 ELSE Empty]
           others == {[op |-> "DatastoreGet"], [op |-> "DatastoreDelete", id |-> id],
                      [op |-> "DatastoreCreate", id |-> id, zfs |-> FALSE, form |-> form]}
           updates == [op : {"DatastoreUpdate"}, id : {id},
                       digest : {0, client[c].seen.digest}, fixed : {FALSE},
                       delete : {{}, {"first"}}, form : {form, Cleared(form, Fields)}]
<1>1. StoreCalls(c) = others \union updates
  BY DEF StoreCalls
<1>2. q \in others => q.op \in StoreOps /\ q.op # "DatastoreUpdate"
  BY DEF StoreOps
<1>3. q \in updates => q.op \in StoreOps /\ q.digest \in {0, client[c].seen.digest}
  BY DEF StoreOps
<1> HIDE DEF others, updates
<1> QED BY <1>1, <1>2, <1>3

\* A client dials with a ticket it has.
LEMMA AskFits ==
  ASSUME ServicesInv, FitInv, NEW c \in Clients, Ask(c)
  PROVE  FitInv'
<1>1. UNCHANGED <<st, family, client>>
  BY DEF Ask
<1>2. PICK q : /\ call' = [call EXCEPT ![c] = Sent(q)]
               /\ \/ family = {"datastores"} /\ q \in StoreCalls(c)
                  \/ family = {"consoles"} /\ q \in ConsoleCalls(c)
  BY Distinct DEF Ask
<1>3. /\ DOMAIN call = Clients /\ DOMAIN client = Clients /\ call'[c] = Sent(q)
      /\ \A d \in Clients \ {c} : call'[d] = call[d]
  BY <1>2 DEF ServicesInv, ClientTypes
<1>4. q \in StoreCalls(c) => q.op # "Call"
  BY StoresAsked DEF StoreOps
<1>5. q \in ConsoleCalls(c) =>
        \/ q.op = "Login"
        \/ q.op = "Mint" /\ q.user = client[c].user /\ q.surface \in Surfaces
        \/ /\ q.op = "Dial" /\ q.user = client[c].user /\ q.ticket = q.held.ticket
           /\ q.path = vncWebSocketPath(q.node, q.held) /\ q.held \in client[c].tickets
  <2> HIDE DEF vncWebSocketPath, Surfaces
  <2> QED BY DEF ConsoleCalls
<1>6. MethodAsked(Sent(q))
  BY <1>2, <1>4, <1>5, SentIs DEF MethodAsked
<1>7. ASSUME family = {"consoles"} PROVE Holds(st, client[c], Sent(q))
  <2>1. Holds(st, client[c], call[c])
    BY <1>7 DEF FitInv
  <2>2. MintAsked(st, client[c], Sent(q))
    BY <1>2, <1>5, <1>7, SentIs, Distinct DEF MintAsked
  <2>3. DialAsked(st, client[c], Sent(q))
    BY <1>2, <1>5, <1>7, <2>1, SentIs, Distinct DEF DialAsked, Holds
  <2> QED BY <2>1, <2>2, <2>3 DEF Holds
<1> QED BY <1>1, <1>3, <1>6, <1>7, FitKept

\* Sending again asks the same.
LEMMA ResendFits ==
  ASSUME ServicesInv, FitInv, NEW c \in Clients, Resend(c)
  PROVE  FitInv'
<1> DEFINE first == [call[c] EXCEPT !.pc = "sent"]
           second == [first EXCEPT !.reply = ""]
           x == [second EXCEPT !.sends = @ + 1]
<1>1. UNCHANGED <<st, family>> /\ call[c].pc # "idle"
  BY DEF Resend
<1>2. PICK e : client' = [client EXCEPT ![c].active = e]
  BY DEF Resend
<1> DEFINE k == [client[c] EXCEPT !.active = e]
<1>3. call' = [call EXCEPT ![c] = x]
  BY DEF Resend, ServicesInv, ClientTypes
<1>4. client' = [client EXCEPT ![c] = k]
  BY <1>2
<1>5. k.tickets = client[c].tickets /\ k.user = client[c].user
  BY DEF ServicesInv, ClientTypes
<1>6. x.pc = "sent" /\ x.q = call[c].q
  <2>1. /\ DOMAIN first = {"pc", "q", "sends", "reply", "read", "served"}
        /\ first.pc = "sent" /\ first.q = call[c].q
    BY DEF ServicesInv, ClientTypes
  <2> HIDE DEF first
  <2>2. /\ DOMAIN second = {"pc", "q", "sends", "reply", "read", "served"}
        /\ second.pc = "sent" /\ second.q = call[c].q
    BY <2>1
  <2> HIDE DEF second
  <2> QED BY <2>2
<1> HIDE DEF k, x
<1>7. /\ DOMAIN call = Clients /\ DOMAIN client = Clients
      /\ call'[c] = x /\ client'[c] = k
      /\ \A d \in Clients \ {c} : call'[d] = call[d] /\ client'[d] = client[d]
  BY <1>3, <1>4 DEF ServicesInv, ClientTypes
<1>8. MethodAsked(call'[c])
  BY <1>1, <1>6, <1>7 DEF FitInv, MethodAsked
<1>9. family = {"consoles"} => Holds(st, client'[c], call'[c])
  BY <1>1, <1>5, <1>6, <1>7 DEF FitInv, Holds, MintAsked, DialAsked, Genuine
<1> QED BY <1>1, <1>7, <1>8, <1>9, FitKept

\* A call that ends leaves good tickets.
LEMMA ReturnedFits ==
  ASSUME ServicesInv, FitInv, NEW c \in Clients, NEW k, Returned(c, k),
         UNCHANGED <<st, family>>,
         family = {"consoles"} => \A t \in k.tickets : Genuine(st, k, t)
  PROVE  FitInv'
<1>1. /\ DOMAIN call = Clients /\ DOMAIN client = Clients
      /\ call'[c] = NoCall /\ client'[c] = k
      /\ \A d \in Clients \ {c} : call'[d] = call[d] /\ client'[d] = client[d]
  BY DEF ServicesInv, ClientTypes, Returned
<1>2. MethodAsked(call'[c])
  BY <1>1, NoCallIs DEF MethodAsked
<1>3. family = {"consoles"} => Holds(st, client'[c], call'[c])
  BY <1>1, NoCallIs DEF Holds, MintAsked, DialAsked
<1> QED BY <1>1, <1>2, <1>3, FitKept

\* A ticket that a client receives was minted.
LEMMA ReceiveFits ==
  ASSUME ServicesInv, FitInv, NEW c \in Clients, Receive(c)
  PROVE  FitInv'
<1> DEFINE q == call[c].q
           read == [client[c] EXCEPT !.seen = call[c].read]
           minted == [client[c] EXCEPT !.tickets = @ \union {VNCTicket(q.surface, TRUE),
                                                            VNCTicket(q.surface, FALSE)}]
<1>1. DOMAIN client[c] = {"made", "active", "from", "caps", "seen", "tickets", "user"}
  BY DEF ServicesInv, ClientTypes
<1>2. UNCHANGED <<st, family>> /\ call[c].pc = "answered"
  BY DEF Receive
<1>3. read.tickets = client[c].tickets /\ read.user = client[c].user
  BY <1>1
<1>4. /\ minted.tickets = client[c].tickets \union {VNCTicket(q.surface, TRUE),
                                                    VNCTicket(q.surface, FALSE)}
      /\ minted.user = client[c].user
  BY <1>1
<1> HIDE DEF read, minted
<1>5. \/ Returned(c, read)
      \/ Returned(c, minted) /\ call[c].reply = "ok" /\ q.op = "Mint"
      \/ Returned(c, client[c])
  BY DEF Receive, read, minted
<1>6. family = {"consoles"} => \A t \in client[c].tickets : Genuine(st, client[c], t)
  BY DEF FitInv, Holds
<1>7. \A surface : VNCTicket(surface, TRUE).ticket = surface
                   /\ VNCTicket(surface, FALSE).ticket = surface
  BY DEF VNCTicket
<1>8. ASSUME family = {"consoles"}, call[c].reply = "ok", q.op = "Mint"
      PROVE  \A t \in minted.tickets : Genuine(st, minted, t)
  <2>1. Minted(st, client[c].user, q.surface)
    BY <1>2, <1>8 DEF FitInv, Holds, MintAsked
  <2>2. /\ Genuine(st, client[c], VNCTicket(q.surface, TRUE))
        /\ Genuine(st, client[c], VNCTicket(q.surface, FALSE))
    BY <1>7, <2>1 DEF Genuine
  <2>3. \A t \in minted.tickets : Genuine(st, client[c], t)
    BY <1>4, <1>6, <1>8, <2>2
  <2> QED BY <1>4, <2>3 DEF Genuine
<1>9. family = {"consoles"} => \A t \in read.tickets : Genuine(st, read, t)
  BY <1>3, <1>6 DEF Genuine
<1> QED BY <1>2, <1>5, <1>6, <1>8, <1>9, ReturnedFits

\* A delivery answers what was asked.
LEMMA DeliverFits ==
  ASSUME ServicesInv, FitInv, NEW c \in Clients, Deliver(c)
  PROVE  FitInv'
<1> DEFINE q == call[c].q
           out == Outcome(c, q)
           read == [digest |-> st.version, stores |-> st.stores]
           served == IF out.reply \in Accepted \union {"no route"}
                     THEN Append(call[c].served, Witness(c)) ELSE call[c].served
           x == [call[c] EXCEPT !.pc = "answered", !.reply = out.reply,
                                !.read = read, !.served = served]
<1>1. UNCHANGED <<family, client>> /\ call[c].pc = "sent" /\ st' = out.st
  BY DEF Deliver
<1>2. call' = [call EXCEPT ![c] = x]
  BY DEF Deliver
<1>3. x.pc = "answered" /\ x.q = q /\ x.reply = out.reply
  <2> HIDE DEF out, read, served
  <2> QED BY DEF ServicesInv, ClientTypes
<1> HIDE DEF x, read, served
<1>4. call'[c] = x /\ \A d \in Clients \ {c} : call'[d] = call[d]
  BY <1>2 DEF ServicesInv, ClientTypes
<1>5. MethodAsked(x)
  <2> SUFFICES ASSUME q.op = "Call" PROVE MethodAsked(x)
    BY <1>3 DEF MethodAsked
  <2>1. out.reply = "no route" \/ out.reply = M!Answer(q.svc, q.name, q.form)
    BY DEF Outcome
  <2> HIDE DEF out
  <2> QED BY <1>1, <1>3, <2>1 DEF FitInv, MethodAsked
<1>6. ASSUME NEW d \in Clients PROVE MethodAsked(call[d])'
  <2>1. MethodAsked(call'[d])
    BY <1>4, <1>5 DEF FitInv
  <2> QED BY <2>1 DEF MethodAsked
<1>7. ASSUME family = {"consoles"}
      PROVE  Named(st)' /\ \A d \in Clients : Holds(st, client[d], call[d])'
  <2>1. q.op \in ConsoleOps /\ StateOK(st) /\ Named(st)
    BY <1>1, <1>7, Distinct DEF ServicesInv, OpsFit, Asked, FitInv
  <2>2. out = Handle(st, q)
    BY <2>1 DEF Outcome, ConsoleOps
  <2>3. /\ Named(out.st) /\ Grown(st, out.st)
        /\ q.op = "Mint" /\ out.reply = "ok" =>
             q.surface \in DOMAIN out.st.vncTickets /\ checkAuth(out.st, q.user)
        /\ q.op = "Dial" /\ checkAuth(st, q.user) /\ q.ticket \in DOMAIN st.vncTickets =>
             (out.reply = "ok" <=> q.path = q.ticket)
    BY <2>1, <2>2, ConsolesServe
  <2> HIDE DEF out
  <2>4. \A d \in Clients : Holds(out.st, client[d], call[d])
    BY <1>7, <2>3, HoldsOn DEF FitInv
  <2>5. MintAsked(out.st, client[c], x)
    BY <1>1, <1>3, <2>3, <2>4 DEF Holds, MintAsked, Minted
  <2>6. DialAsked(out.st, client[c], x)
    <3> SUFFICES ASSUME q.op = "Dial" PROVE DialAsked(out.st, client[c], x)
      BY <1>3 DEF DialAsked
    <3>1. DialAsked(st, client[c], call[c]) /\ DialAsked(out.st, client[c], call[c])
      BY <1>7, <2>4 DEF FitInv, Holds
    <3>2. checkAuth(st, q.user) /\ q.ticket \in DOMAIN st.vncTickets
      BY <1>1, <3>1 DEF DialAsked, Genuine, Minted
    <3> QED BY <1>1, <1>3, <2>3, <3>1, <3>2 DEF DialAsked
  <2>7. ASSUME NEW d \in Clients PROVE Holds(st', client'[d], call'[d])
    BY <1>1, <1>4, <2>4, <2>5, <2>6 DEF Holds
  <2>8. ASSUME NEW d \in Clients PROVE Holds(st, client[d], call[d])'
    <3>1. Holds(st', client'[d], call'[d])
      BY <2>7
    <3> QED BY <3>1 DEF Holds, MintAsked, DialAsked
  <2>9. Named(st')
    BY <1>1, <2>3
  <2> QED BY <2>8, <2>9 DEF Named
<1> QED BY <1>1, <1>6, <1>7 DEF FitInv

\* At first nothing is asked and no client has a ticket.
LEMMA InitFits == Init => FitInv
<1> SUFFICES ASSUME Init PROVE FitInv
  OBVIOUS
<1>1. \A c \in Clients : call[c] = NoCall
  BY DEF Init
<1>2. \A c \in Clients : client[c].tickets = {}
  <2>1. Unmade.tickets = {} /\ \A r, u : Made(r, u).tickets = {}
    BY DEF Made, Unmade
  <2> QED BY <2>1 DEF Init
<1>3. \A queue, config : Named(Seeded(queue, config))
  BY DEF Seeded, Named
<1>4. Named(st)
  BY <1>3 DEF Init, ServerInit
<1> QED BY <1>1, <1>2, <1>4, NoCallIs
        DEF FitInv, MethodAsked, Holds, MintAsked, DialAsked

\* What is asked and answered stays so, whoever else asks.
LEMMA FitInvariant == Spec => []FitInv
<1>1. ServicesInv /\ FitInv /\ [Next]_servicesVars => FitInv'
  <2> SUFFICES ASSUME ServicesInv, FitInv, [Next]_servicesVars PROVE FitInv'
    OBVIOUS
  <2>1. CASE ServeAnyone
    <3>1. family # {"consoles"} /\ UNCHANGED <<family, call>>
      BY <2>1, FamiliesApart DEF ServeAnyone, Serve, ClientFamilies
    <3> QED BY <3>1 DEF FitInv, MethodAsked
  <2>2. CASE \E e \in Endpoints : Upgrade(e)
    BY <2>2, Distinct DEF Upgrade, FitInv, MethodAsked
  <2>3. ASSUME NEW c \in Clients, NewClient(c) PROVE FitInv'
    BY <2>3, Distinct DEF NewClient, FitInv, MethodAsked
  <2>4. ASSUME NEW c \in Clients, GiveUp(c) PROVE FitInv'
    BY <2>4, ReturnedFits DEF GiveUp, FitInv, Holds
  <2>5. ASSUME NEW c \in Clients,
               Invoke(c) \/ Ask(c) \/ Deliver(c) \/ Resend(c) \/ Receive(c)
        PROVE  FitInv'
    BY <2>5, InvokeFits, AskFits, DeliverFits, ResendFits, ReceiveFits
  <2>6. CASE UNCHANGED servicesVars
    BY <2>6 DEF servicesVars, FitInv, MethodAsked, Named, Holds, MintAsked, DialAsked
  <2> QED BY <2>1, <2>2, <2>3, <2>4, <2>5, <2>6 DEF Next
<1> QED BY InitFits, <1>1, ServicesInvariant, PTL DEF Spec

\* What an answered call of a method shows.
LEMMA AnswersFit ==
  ASSUME NEW x, MethodAsked(x), x.pc = "answered", x.q.op = "Call"
  PROVE  /\ x.reply = "bad request" => x.q.blanked # {}
         /\ x.reply \in {"upid", "null"} =>
              M!TaskRef(M!Service[x.q.svc][x.q.name], x.reply) = "ok"
<1> DEFINE svc == x.q.svc
           name == x.q.name
           m == M!Service[svc][name]
<1>1. /\ svc \in DOMAIN M!Service /\ name \in DOMAIN M!Service[svc]
      /\ x.q.form = M!EncodeWithExtra(m, x.q.blanked)
      /\ x.reply = "no route" \/ x.reply = M!Answer(svc, name, x.q.form)
  BY DEF MethodAsked
<1> HIDE DEF svc, name
<1>2. Fits(svc, name, m)
  BY <1>1, TablesFit DEF AllFit
<1> HIDE DEF m
<1>3. ASSUME x.q.blanked = {} PROVE x.reply # "bad request"
  <2>1. x.q.form = m.form \union m.filled
    BY <1>1, <1>3 DEF M!EncodeWithExtra
  <2> QED BY <1>1, <1>2, <2>1 DEF Fits, M!Answer
<1>4. ASSUME x.reply = "null" PROVE m.task # "always"
  BY <1>1, <1>2, <1>4 DEF Fits, M!Answer
<1> QED BY <1>3, <1>4 DEF M!TaskRef, svc, name, m

\* A surface is a node's shell or a guest's console.
LEMMA SurfaceIs ==
  ASSUME NEW y \in Surfaces
  PROVE  y = Surface(y.node, y.kind, y.vmid) /\ (y.kind = "" => y.vmid = 0)
BY DEF Surfaces, Surface

\* What an answered call for a console shows.
LEMMA DialsFit ==
  ASSUME NEW s, NEW k, NEW x, DialAsked(s, k, x), x.pc = "answered", x.q.op = "Dial"
  PROVE  /\ x.reply = "ok" => x.q.path = x.q.ticket
         /\ x.q.node = x.q.ticket.node /\ x.q.held = VNCTicket(x.q.ticket, TRUE)
            => x.reply = "ok"
<1> DEFINE q == x.q
<1>1. /\ q.ticket \in Surfaces /\ q.path = vncWebSocketPath(q.node, q.held)
      /\ x.reply = "ok" <=> q.path = q.ticket
  BY DEF DialAsked, Genuine, Minted
<1>2. ASSUME q.node = q.ticket.node, q.held = VNCTicket(q.ticket, TRUE)
      PROVE  q.path = q.ticket
  <2>1. q.held.kind = q.ticket.kind /\ q.held.vmid = q.ticket.vmid
    BY <1>2 DEF VNCTicket
  <2> HIDE DEF q
  <2>2. LET y == q.ticket
        IN  /\ y = Surface(y.node, y.kind, y.vmid)
            /\ y.kind = "" => y.vmid = 0
    BY <1>1, SurfaceIs
  <2> QED BY <1>1, <1>2, <2>1, <2>2 DEF vncWebSocketPath
<1> HIDE DEF q
<1> QED BY <1>1, <1>2 DEF q

\* Every method of every service fits its handler and every console opens on
\* its own surface and there only, for any number of clients, endpoints, names
\* and releases, and however often calls are sent.
THEOREM CallsCorrect == Spec => []CallsFit
<1>1. ServicesInv /\ FitInv => CallsFit
  <2> SUFFICES ASSUME ServicesInv, FitInv, NEW c \in Clients, call[c].pc = "answered"
      PROVE  LET q == call[c].q IN
             /\ q.op = "Call" =>
                  /\ call[c].reply = "bad request" => q.blanked # {}
                  /\ call[c].reply \in {"upid", "null"} =>
                       M!TaskRef(M!Service[q.svc][q.name], call[c].reply) = "ok"
             /\ q.op = "Dial" =>
                  /\ call[c].reply = "ok" => q.path = q.ticket
                  /\ q.node = q.ticket.node /\ q.held = VNCTicket(q.ticket, TRUE)
                     => call[c].reply = "ok"
    BY DEF CallsFit
  <2> DEFINE x == call[c]
  <2>1. MethodAsked(x)
    BY DEF FitInv
  <2>2. x.q.op = "Dial" => DialAsked(st, client[c], x)
    BY DEF ServicesInv, OpsFit, Asked, StoreOps, FitInv, Holds
  <2> HIDE DEF x
  <2>3. x.pc = "answered"
    BY DEF x
  <2>4. x.q.op = "Call" =>
          /\ x.reply = "bad request" => x.q.blanked # {}
          /\ x.reply \in {"upid", "null"} =>
               M!TaskRef(M!Service[x.q.svc][x.q.name], x.reply) = "ok"
    BY <2>1, <2>3, AnswersFit
  <2>5. x.q.op = "Dial" =>
          /\ x.reply = "ok" => x.q.path = x.q.ticket
          /\ x.q.node = x.q.ticket.node /\ x.q.held = VNCTicket(x.q.ticket, TRUE)
             => x.reply = "ok"
    BY <2>2, <2>3, DialsFit
  <2> QED BY <2>4, <2>5 DEF x
<1> QED BY <1>1, ServicesInvariant, FitInvariant, PTL

-----------------------------------------------------------------------------
(* The SDK's codec of a node's configuration.                              *)

\* A list, of whatever.
Listed(parts) == Len(parts) \in Nat /\ DOMAIN parts = 1..Len(parts)

\* The domains of a slot whose values are in W.
Domain(W) == [domain : W, plugin : W, alias : W]

\* A part sets one field or none.
LEMMA TakesPart ==
  ASSUME NEW W, NEW out \in Domain(W), NEW part, part.value \in W
  PROVE  /\ TakePart(out, part) \in Domain(W)
         /\ part.key = "domain" =>
              TakePart(out, part) =
                [domain |-> part.value, plugin |-> out.plugin, alias |-> out.alias]
         /\ part.key = "plugin" =>
              TakePart(out, part) =
                [domain |-> out.domain, plugin |-> part.value, alias |-> out.alias]
         /\ part.key = "alias" =>
              TakePart(out, part) =
                [domain |-> out.domain, plugin |-> out.plugin, alias |-> part.value]
<1>1. /\ DOMAIN out = {"domain", "plugin", "alias"}
      /\ out.domain \in W /\ out.plugin \in W /\ out.alias \in W
  BY DEF Domain
<1>2. CASE part.key = ""
  <2>1. part.key \notin DOMAIN out
    BY <1>1, <1>2
  <2>2. TakePart(out, part) \in {out, [out EXCEPT !.domain = part.value]}
    BY <2>1, <1>2 DEF TakePart
  <2> QED BY <1>1, <1>2, <2>2 DEF Domain
<1>3. CASE part.key = "domain"
  <2>1. TakePart(out, part) = [out EXCEPT !["domain"] = part.value]
    BY <1>1, <1>3 DEF TakePart
  <2> QED BY <1>1, <1>3, <2>1 DEF Domain
<1>4. CASE part.key = "plugin"
  <2>1. TakePart(out, part) = [out EXCEPT !["plugin"] = part.value]
    BY <1>1, <1>4 DEF TakePart
  <2> QED BY <1>1, <1>4, <2>1 DEF Domain
<1>5. CASE part.key = "alias"
  <2>1. TakePart(out, part) = [out EXCEPT !["alias"] = part.value]
    BY <1>1, <1>5 DEF TakePart
  <2> QED BY <1>1, <1>5, <2>1 DEF Domain
<1>6. CASE part.key \notin {"", "domain", "plugin", "alias"}
  <2>1. TakePart(out, part) = out
    BY <1>1, <1>6 DEF TakePart
  <2> QED BY <1>6, <2>1
<1> QED BY <1>2, <1>3, <1>4, <1>5, <1>6

\* The values that a slot can have when it has been read from these parts.
Texts(parts) == {""} \union {parts[i].value : i \in DOMAIN parts}

\* parseACMEDomain, turn by turn.
Parses(parts, out) ==
  /\ out[0] = NoDomain
  /\ \A i \in 1..Len(parts) : out[i] = TakePart(out[i - 1], parts[i])
  /\ parseACMEDomain(parts) = out[Len(parts)]

\* parseACMEDomain ends, with a domain.
LEMMA DomainParsed ==
  ASSUME NEW parts, Listed(parts)
  PROVE  \E out \in [0..Len(parts) -> Domain(Texts(parts))] : Parses(parts, out)
<1> DEFINE n == Len(parts)
           W == Texts(parts)
           V == Domain(W)
           turn(i) == [v \in V |-> TakePart(v, parts[i])]
           s == [i \in 1..n |-> turn(i)]
           Is(f) == f = [i \in 0..n |-> IF i = 0 THEN NoDomain
                                        ELSE TakePart(f[i - 1], parts[i])]
           out == CHOOSE f : Is(f)
<1>1. n \in Nat /\ NoDomain \in V /\ \A i \in 1..n : parts[i].value \in W
  BY DEF NoDomain, Domain, Texts, Listed
<1> HIDE DEF W
<1>2. \A i \in 1..n, v \in V : TakePart(v, parts[i]) \in V
  BY <1>1, TakesPart
<1> HIDE DEF V, n
<1>3. s \in [1..n -> [V -> V]]
  BY <1>2
<1>4. PICK f \in [0..n -> V] : Loops(n, NoDomain, s, f)
  <2> HIDE DEF s
  <2> QED BY <1>1, <1>3, LoopRuns
<1>5. \A i \in 1..n, v \in V : s[i][v] = TakePart(v, parts[i])
  OBVIOUS
<1>6. Is(f)
  <2> HIDE DEF s
  <2>1. \A i \in 0..n : i # 0 => i \in 1..n /\ f[i - 1] \in V
    BY <1>1, <1>4
  <2>2. \A i \in 0..n : (IF i = 0 THEN NoDomain ELSE s[i][f[i - 1]])
                        = (IF i = 0 THEN NoDomain ELSE TakePart(f[i - 1], parts[i]))
    BY <1>5, <2>1
  <2> QED BY <1>4, <2>2 DEF Loops
<1>7. Is(out)
  <2> HIDE DEF Is
  <2> QED BY <1>6
<1>8. parseACMEDomain(parts) = out[n]
  BY DEF parseACMEDomain, n
<1> HIDE DEF out, s
<1>9. /\ out[0] = NoDomain
      /\ \A i \in 1..n : out[i] = TakePart(out[i - 1], parts[i])
  <2>1. 0 \in 0..n /\ \A i \in 1..n : i \in 0..n /\ i # 0
    BY <1>1
  <2> QED BY <1>7, <2>1
<1>10. \A i \in 0..n : out[i] \in V
  <2>1. \A i \in 1..n : out[i - 1] \in V => out[i] \in V
    BY <1>2, <1>9
  <2> QED BY <1>1, <1>9, <2>1, LoopStays
<1>11. out \in [0..n -> V]
  BY <1>7, <1>10
<1> QED BY <1>8, <1>9, <1>11 DEF Parses, n, V, W

\* A run of parseACMEDomain, and what a keyed part does in one turn of it.
Run(parts, out) == /\ Listed(parts) /\ Parses(parts, out)
                   /\ out \in [0..Len(parts) -> Domain(Texts(parts))]

Taken(was, part, now) ==
  /\ part.key = "domain" =>
       now = [domain |-> part.value, plugin |-> was.plugin, alias |-> was.alias]
  /\ part.key = "plugin" =>
       now = [domain |-> was.domain, plugin |-> part.value, alias |-> was.alias]
  /\ part.key = "alias" =>
       now = [domain |-> was.domain, plugin |-> was.plugin, alias |-> part.value]

\* Every turn of such a run takes its part so.
LEMMA TurnTakes ==
  ASSUME NEW parts, NEW out, Run(parts, out), NEW i \in 1..Len(parts)
  PROVE  Taken(out[i - 1], parts[i], out[i])
<1> DEFINE W == Texts(parts)
<1>1. \A j \in DOMAIN parts : parts[j].value \in W
  BY DEF Texts
<1> HIDE DEF W
<1>2. Listed(parts) /\ Parses(parts, out) /\ out \in [0..Len(parts) -> Domain(W)]
  BY DEF Run, W
<1>3. parts[i].value \in W /\ i - 1 \in 0..Len(parts)
  BY <1>1, <1>2 DEF Listed
<1>4. out[i - 1] \in Domain(W) /\ out[i] = TakePart(out[i - 1], parts[i])
  BY <1>2, <1>3 DEF Parses
<1> QED BY <1>3, <1>4, TakesPart DEF Taken

\* A list with an element added or not.
LEMMA OneMore ==
  ASSUME NEW S, NEW s \in Seq(S), NEW x \in S
  PROVE  /\ s \o OneIf(FALSE, x) = s
         /\ s \o OneIf(TRUE, x) \in Seq(S) /\ Len(s \o OneIf(TRUE, x)) = Len(s) + 1
         /\ \A i \in 1..Len(s) : (s \o OneIf(TRUE, x))[i] = s[i]
         /\ (s \o OneIf(TRUE, x))[Len(s) + 1] = x
<1>1. OneIf(FALSE, x) = << >> /\ OneIf(TRUE, x) = <<x>>
  BY DEF OneIf
<1>2. s \o << >> = s
  BY ConcatEmptySeq
<1>3. s \o <<x>> = Append(s, x)
  BY AppendIsConcat
<1>4. /\ Append(s, x) \in Seq(S) /\ Len(Append(s, x)) = Len(s) + 1
      /\ \A i \in 1..Len(s) : Append(s, x)[i] = s[i]
      /\ Append(s, x)[Len(s) + 1] = x
  BY AppendProperties
<1> QED BY <1>1, <1>2, <1>3, <1>4

\* A list of one to three elements: the last two are there or not.
Pieced(e, a, p, b, q, c) ==
  /\ Listed(e) /\ e[1] = a
  /\ \/ ~p /\ ~q /\ Len(e) = 1
     \/ p /\ ~q /\ Len(e) = 2 /\ e[2] = b
     \/ ~p /\ q /\ Len(e) = 2 /\ e[2] = c
     \/ p /\ q /\ Len(e) = 3 /\ e[2] = b /\ e[3] = c

\* encodeACMEDomain joins its parts to such a list.
LEMMA Pieces ==
  ASSUME NEW a, NEW p \in BOOLEAN, NEW b, NEW q \in BOOLEAN, NEW c
  PROVE  Pieced((<<a>> \o OneIf(p, b)) \o OneIf(q, c), a, p, b, q, c)
<1> DEFINE S == {a, b, c}
           one == <<a>>
           two(x) == one \o OneIf(TRUE, x)
           three == two(b) \o OneIf(TRUE, c)
<1>1. a \in S /\ b \in S /\ c \in S /\ one \in Seq(S) /\ Len(one) = 1 /\ one[1] = a
  OBVIOUS
<1> HIDE DEF S, one
<1>2. ASSUME NEW x \in S
      PROVE  /\ one \o OneIf(FALSE, x) = one
             /\ two(x) \in Seq(S) /\ Len(two(x)) = Len(one) + 1
             /\ \A i \in 1..Len(one) : two(x)[i] = one[i]
             /\ two(x)[Len(one) + 1] = x
  BY <1>1, OneMore
<1>3. \A x \in S : two(x) \in Seq(S) /\ Len(two(x)) = 2 /\ two(x)[1] = a /\ two(x)[2] = x
  <2>1. 1 \in 1..Len(one) /\ Len(one) + 1 = 2
    BY <1>1
  <2> HIDE DEF two
  <2> QED BY <1>1, <1>2, <2>1, Zenon
<1> HIDE DEF two
<1>4. /\ two(b) \o OneIf(FALSE, c) = two(b)
      /\ three \in Seq(S) /\ Len(three) = Len(two(b)) + 1
      /\ \A i \in 1..Len(two(b)) : three[i] = two(b)[i]
      /\ three[Len(two(b)) + 1] = c
  BY <1>1, <1>3, OneMore
<1>5. /\ three \in Seq(S) /\ Len(three) = 3
      /\ three[1] = a /\ three[2] = b /\ three[3] = c
  <2>1. Len(two(b)) = 2
    BY <1>1, <1>3
  <2>2. 1 \in 1..Len(two(b)) /\ 2 \in 1..Len(two(b)) /\ Len(two(b)) + 1 = 3
    BY <2>1
  <2>3. two(b)[1] = a /\ two(b)[2] = b
    BY <1>1, <1>3
  <2> HIDE DEF three
  <2>4. three[1] = two(b)[1] /\ three[2] = two(b)[2] /\ three[3] = c
    BY <1>4, <2>2
  <2> QED BY <1>4, <2>2, <2>3, <2>4
<1> HIDE DEF three
<1>6. \A s \in Seq(S) : Listed(s)
  BY DEF Listed
<1>7. CASE ~p /\ ~q
  <2>1. (<<a>> \o OneIf(p, b)) \o OneIf(q, c) = one
    BY <1>1, <1>2, <1>7 DEF one
  <2> QED BY <1>1, <1>6, <1>7, <2>1 DEF Pieced
<1>8. CASE p /\ ~q
  <2>1. (<<a>> \o OneIf(p, b)) \o OneIf(q, c) = two(b)
    BY <1>4, <1>8 DEF two, one
  <2> QED BY <1>1, <1>3, <1>6, <1>8, <2>1 DEF Pieced
<1>9. CASE ~p /\ q
  <2>1. (<<a>> \o OneIf(p, b)) \o OneIf(q, c) = two(c)
    BY <1>1, <1>2, <1>9 DEF two, one
  <2> QED BY <1>1, <1>3, <1>6, <1>9, <2>1 DEF Pieced
<1>10. CASE p /\ q
  <2>1. (<<a>> \o OneIf(p, b)) \o OneIf(q, c) = three
    BY <1>10 DEF three, two, one
  <2> QED BY <1>5, <1>6, <1>10, <2>1 DEF Pieced
<1> QED BY <1>7, <1>8, <1>9, <1>10

Blank(x) == x = ""

\* What encodeACMEDomain makes: the domain, and what else there is.
Encodes(e, d) ==
  LET b == Part("plugin", d.plugin)
      c == Part("alias", d.alias)
  IN  /\ Listed(e) /\ e[1] = Part("domain", d.domain)
      /\ \/ Blank(d.plugin) /\ Blank(d.alias) /\ Len(e) = 1
         \/ ~Blank(d.plugin) /\ Blank(d.alias) /\ Len(e) = 2 /\ e[2] = b
         \/ Blank(d.plugin) /\ ~Blank(d.alias) /\ Len(e) = 2 /\ e[2] = c
         \/ ~Blank(d.plugin) /\ ~Blank(d.alias) /\ Len(e) = 3 /\ e[2] = b /\ e[3] = c

\* encodeACMEDomain leaves out an empty plugin and an empty alias, never the domain.
LEMMA EncodedDomain ==
  ASSUME NEW d
  PROVE  Encodes(encodeACMEDomain(d), d)
<1> DEFINE a == Part("domain", d.domain)
           b == Part("plugin", d.plugin)
           c == Part("alias", d.alias)
           p == d.plugin # ""
           q == d.alias # ""
           e == (<<a>> \o OneIf(p, b)) \o OneIf(q, c)
<1>1. encodeACMEDomain(d) = e
  BY DEF encodeACMEDomain
<1>2. (p <=> ~Blank(d.plugin)) /\ (q <=> ~Blank(d.alias))
  BY DEF Blank
<1>5. p \in BOOLEAN /\ q \in BOOLEAN
  OBVIOUS
<1> HIDE DEF a, b, c, p, q
<1>3. Pieced(e, a, p, b, q, c)
  BY <1>5, Pieces
<1> HIDE DEF e
<1>4. Encodes(e, d)
  BY <1>2, <1>3, Zenon DEF Encodes, Pieced, a, b, c
<1> QED BY <1>1, <1>4

\* A domain that is written is read again, by the SDK and by the server.
LEMMA DomainReread ==
  ASSUME NEW W, NEW d \in Domain(W)
  PROVE  LET e == encodeACMEDomain(d)
         IN  /\ Listed(e) /\ parseACMEDomain(e) = d
             /\ slotDomain(e) = d.domain
<1> DEFINE e == encodeACMEDomain(d)
           a == Part("domain", d.domain)
           b == Part("plugin", d.plugin)
           c == Part("alias", d.alias)
           none == NoDomain.plugin
<1>1. /\ Listed(e) /\ e[1] = a
      /\ \/ Blank(d.plugin) /\ Blank(d.alias) /\ Len(e) = 1
         \/ ~Blank(d.plugin) /\ Blank(d.alias) /\ Len(e) = 2 /\ e[2] = b
         \/ Blank(d.plugin) /\ ~Blank(d.alias) /\ Len(e) = 2 /\ e[2] = c
         \/ ~Blank(d.plugin) /\ ~Blank(d.alias) /\ Len(e) = 3 /\ e[2] = b /\ e[3] = c
  BY EncodedDomain DEF Encodes
<1>2. d = [domain |-> d.domain, plugin |-> d.plugin, alias |-> d.alias]
  BY DEF Domain
<1>3. /\ a.key = "domain" /\ a.value = d.domain /\ b.key = "plugin" /\ b.value = d.plugin
      /\ c.key = "alias" /\ c.value = d.alias
  BY DEF Part
<1>4. NoDomain.alias = none /\ \A x : Blank(x) => x = none
  BY DEF NoDomain, Blank
<1> HIDE DEF e, a, b, c, none
<1>0. Listed(e) /\ e[1] = a
  BY <1>1
<1>5. PICK out : Run(e, out)
  BY <1>0, DomainParsed DEF Run
<1>6. out[0] = NoDomain /\ parseACMEDomain(e) = out[Len(e)] /\ NoDomain.plugin = none
  BY <1>5 DEF Run, Parses, none
<1>7. out[1] = [domain |-> d.domain, plugin |-> none, alias |-> none]
  <2>1. 1 \in 1..Len(e) /\ 1 - 1 = 0
    BY <1>1
  <2>2. Taken(out[0], e[1], out[1])
    BY <1>5, <2>1, TurnTakes
  <2> QED BY <1>0, <1>3, <1>4, <1>6, <2>2 DEF Taken
<1>8. parseACMEDomain(e) = d
  <2>1. CASE Blank(d.plugin) /\ Blank(d.alias) /\ Len(e) = 1
    BY <1>2, <1>4, <1>6, <1>7, <2>1
  <2>2. ASSUME Len(e) \in {2, 3} PROVE Taken(out[1], e[2], out[2])
    <3>1. 2 \in 1..Len(e) /\ 2 - 1 = 1
      BY <2>2
    <3> QED BY <1>5, <3>1, TurnTakes
  <2>3. CASE ~Blank(d.plugin) /\ Blank(d.alias) /\ Len(e) = 2 /\ e[2] = b
    <3>1. Taken(out[1], b, out[2]) /\ parseACMEDomain(e) = out[2]
      BY <1>6, <2>2, <2>3
    <3>2. d.alias = none
      BY <1>4, <2>3
    <3> QED BY <1>2, <1>3, <1>7, <3>1, <3>2 DEF Taken
  <2>4. CASE Blank(d.plugin) /\ ~Blank(d.alias) /\ Len(e) = 2 /\ e[2] = c
    <3>1. Taken(out[1], c, out[2]) /\ parseACMEDomain(e) = out[2]
      BY <1>6, <2>2, <2>4
    <3>2. d.plugin = none
      BY <1>4, <2>4
    <3> QED BY <1>2, <1>3, <1>7, <3>1, <3>2 DEF Taken
  <2>5. CASE ~Blank(d.plugin) /\ ~Blank(d.alias) /\ Len(e) = 3 /\ e[2] = b /\ e[3] = c
    <3>1. Taken(out[1], b, out[2]) /\ parseACMEDomain(e) = out[3]
      BY <1>6, <2>2, <2>5
    <3>2. 3 \in 1..Len(e) /\ 3 - 1 = 2
      BY <2>5
    <3>3. Taken(out[2], e[3], out[3])
      BY <1>5, <3>2, TurnTakes
    <3>4. Taken(out[2], c, out[3])
      BY <2>5, <3>3
    <3>5. out[2] = [domain |-> d.domain, plugin |-> d.plugin, alias |-> none]
      BY <1>3, <1>7, <3>1 DEF Taken
    <3> QED BY <1>2, <1>3, <3>1, <3>4, <3>5 DEF Taken
  <2> QED BY <1>1, <2>1, <2>3, <2>4, <2>5
<1>9. slotDomain(e) = d.domain
  <2> DEFINE names == {i \in DOMAIN e : e[i].key = "domain" \/ (i = 1 /\ Blank(e[i].key))}
             first == CHOOSE i \in names : \A j \in names : i <= j
  <2>0. Len(e) \in Nat /\ Len(e) >= 1 /\ DOMAIN e = 1..Len(e)
    BY <1>1 DEF Listed
  <2>1. PICK n \in Nat : DOMAIN e = 1..n /\ n >= 1
    BY <2>0
  <2>6. e[1] = a
    BY <1>0
  <2>2. 1 \in names /\ \A j \in names : j \in Nat /\ 1 <= j
    BY <1>3, <2>1, <2>6
  <2>3. slotDomain(e) = IF names = {} THEN "" ELSE e[first].value
    BY DEF slotDomain, Blank
  <2> HIDE DEF names
  <2>4. first \in names /\ \A j \in names : first <= j
    BY <2>2
  <2> HIDE DEF first
  <2>5. first = 1
    BY <2>2, <2>4
  <2> QED BY <1>3, <2>2, <2>3, <2>5, <2>6
<1> QED BY <1>0, <1>8, <1>9 DEF e

\* What can be read from an acme string.
ACME(W, D) == [account : W, domains : SUBSET D]

Added(was, part, now) ==
  /\ part.key = "account" => now = [account |-> part.value, domains |-> was.domains]
  /\ part.key = "domains" =>
       now = [account |-> was.account, domains |-> was.domains \union part.value]

\* A part sets the account, adds domains or does nothing.
LEMMA TakesACME ==
  ASSUME NEW W, NEW D, NEW out \in ACME(W, D), NEW part, part.value \in W,
         part.key = "domains" => part.value \subseteq D
  PROVE  TakeACME(out, part) \in ACME(W, D) /\ Added(out, part, TakeACME(out, part))
<1>1. /\ DOMAIN out = {"account", "domains"} /\ out.account \in W /\ out.domains \subseteq D
      /\ out = [account |-> out.account, domains |-> out.domains]
  BY DEF ACME
<1>2. CASE part.key = "account"
  <2>1. TakeACME(out, part) = [out EXCEPT !.account = part.value]
    BY <1>2 DEF TakeACME
  <2> QED BY <1>1, <1>2, <2>1 DEF ACME, Added
<1>3. CASE part.key = "domains"
  <2> DEFINE all == out.domains \union part.value
  <2>1. TakeACME(out, part) = [out EXCEPT !.domains = all]
    BY <1>3 DEF TakeACME
  <2>2. all \subseteq D
    BY <1>1, <1>3
  <2> HIDE DEF all
  <2>3. TakeACME(out, part) = [account |-> out.account, domains |-> all]
    BY <1>1, <2>1
  <2> QED BY <1>1, <1>3, <2>2, <2>3 DEF ACME, Added, all
<1>4. CASE part.key \notin {"account", "domains"}
  <2>1. TakeACME(out, part) = out
    BY <1>4 DEF TakeACME
  <2> QED BY <1>4, <2>1 DEF Added
<1> QED BY <1>2, <1>3, <1>4

\* An acme string: the names in it are names.
ACMEString(parts) ==
  /\ Listed(parts)
  /\ \A i \in DOMAIN parts : parts[i].key = "domains" => "" \notin parts[i].value

Mentioned(parts) == (UNION {parts[i].value : i \in DOMAIN parts}) \ {""}

\* A run of parseNodeACME.
ACMERun(parts, out) ==
  /\ Listed(parts) /\ out[0] = NoACME
  /\ \A i \in 0..Len(parts) : out[i] \in ACME(Texts(parts), Mentioned(parts))
  /\ \A i \in 1..Len(parts) : Added(out[i - 1], parts[i], out[i])
  /\ parseNodeACME(parts) = out[Len(parts)]

\* parseNodeACME ends.
LEMMA ACMEParsed ==
  ASSUME NEW parts, ACMEString(parts)
  PROVE  \E out : ACMERun(parts, out)
<1> DEFINE n == Len(parts)
           W == Texts(parts)
           D == Mentioned(parts)
           V == ACME(W, D)
           turn(i) == [v \in V |-> TakeACME(v, parts[i])]
           s == [i \in 1..n |-> turn(i)]
           Is(f) == f = [i \in 0..n |-> IF i = 0 THEN NoACME
                                        ELSE TakeACME(f[i - 1], parts[i])]
           out == CHOOSE f : Is(f)
<1>1. n \in Nat /\ DOMAIN parts = 1..n
  BY DEF ACMEString, Listed
<1>2. NoACME \in V
  BY DEF NoACME, ACME, Texts
<1>3. \A i \in DOMAIN parts :
        parts[i].value \in W /\ (parts[i].key = "domains" => parts[i].value \subseteq D)
  BY DEF ACMEString, Texts, Mentioned
<1> HIDE DEF W, D
<1>4. \A i \in DOMAIN parts, v \in V :
        TakeACME(v, parts[i]) \in V /\ Added(v, parts[i], TakeACME(v, parts[i]))
  BY <1>3, TakesACME
<1> HIDE DEF V, n
<1>5. s \in [1..n -> [V -> V]]
  BY <1>1, <1>4
<1>6. PICK f \in [0..n -> V] : Loops(n, NoACME, s, f)
  <2> HIDE DEF s
  <2> QED BY <1>1, <1>2, <1>5, LoopRuns
<1>7. \A i \in 1..n, v \in V : s[i][v] = TakeACME(v, parts[i])
  OBVIOUS
<1>8. Is(f)
  <2> HIDE DEF s
  <2>1. \A i \in 0..n : i # 0 => i \in 1..n /\ f[i - 1] \in V
    BY <1>1, <1>6
  <2>2. \A i \in 0..n : (IF i = 0 THEN NoACME ELSE s[i][f[i - 1]])
                        = (IF i = 0 THEN NoACME ELSE TakeACME(f[i - 1], parts[i]))
    BY <1>7, <2>1
  <2> QED BY <1>6, <2>2 DEF Loops
<1>9. Is(out)
  <2> HIDE DEF Is
  <2> QED BY <1>8
<1>10. parseNodeACME(parts) = out[n]
  BY DEF parseNodeACME, n
<1> HIDE DEF out, s
<1>11. /\ out[0] = NoACME
       /\ \A i \in 1..n : out[i] = TakeACME(out[i - 1], parts[i])
  <2>1. 0 \in 0..n /\ \A i \in 1..n : i \in 0..n /\ i # 0
    BY <1>1
  <2> QED BY <1>9, <2>1
<1>12. \A i \in 0..n : out[i] \in V
  <2>1. \A i \in 1..n : out[i - 1] \in V => out[i] \in V
    BY <1>1, <1>4, <1>11
  <2> QED BY <1>1, <1>2, <1>11, <2>1, LoopStays
<1>13. \A i \in 1..n : Added(out[i - 1], parts[i], out[i])
  <2>1. \A i \in 1..n : i - 1 \in 0..n
    BY <1>1
  <2> QED BY <1>1, <1>4, <1>11, <1>12, <2>1
<1>14. ACMERun(parts, out)
  BY <1>10, <1>11, <1>12, <1>13 DEF ACMERun, ACMEString, n, V, W, D
<1> QED BY <1>14

\* What parseNodeACME reads.
LEMMA ACMEIs ==
  ASSUME NEW parts, ACMEString(parts)
  PROVE  parseNodeACME(parts) \in ACME(Texts(parts), Mentioned(parts))
<1>1. PICK out : ACMERun(parts, out)
  BY ACMEParsed
<1>2. Len(parts) \in 0..Len(parts)
  BY <1>1 DEF ACMERun, Listed
<1> QED BY <1>1, <1>2 DEF ACMERun

\* Nothing is read of the empty string.
LEMMA NothingParsed == ACMEString(<< >>) /\ parseNodeACME(<< >>) = NoACME
<1>1. Len(<< >>) = 0 /\ DOMAIN << >> = {}
  OBVIOUS
<1>2. DOMAIN << >> = 1..0 /\ 0 \in Nat
  OBVIOUS
<1>3. ACMEString(<< >>)
  BY <1>1, <1>2 DEF ACMEString, Listed
<1> QED BY <1>1, <1>3, ACMEParsed DEF ACMERun

\* A list of two elements that are there or not.
Paired(e, p, b, q, c) ==
  /\ Listed(e)
  /\ \/ ~p /\ ~q /\ e = << >>
     \/ p /\ ~q /\ Len(e) = 1 /\ e[1] = b
     \/ ~p /\ q /\ Len(e) = 1 /\ e[1] = c
     \/ p /\ q /\ Len(e) = 2 /\ e[1] = b /\ e[2] = c

\* encodeNodeACME joins its parts to such a list.
LEMMA Pairs ==
  ASSUME NEW p \in BOOLEAN, NEW b, NEW q \in BOOLEAN, NEW c
  PROVE  Paired(OneIf(p, b) \o OneIf(q, c), p, b, q, c)
<1> DEFINE S == {b, c}
           one(x) == <<x>>
           both == one(b) \o OneIf(TRUE, c)
<1>1. b \in S /\ c \in S
  OBVIOUS
<1>2. \A x \in S : one(x) \in Seq(S) /\ Len(one(x)) = 1 /\ one(x)[1] = x
  OBVIOUS
<1>3. \A x : OneIf(FALSE, x) = << >> /\ OneIf(TRUE, x) = one(x)
  BY DEF OneIf
<1> HIDE DEF S, one
<1>4. \A s \in Seq(S) : Listed(s) /\ << >> \o s = s /\ s \o << >> = s
  BY ConcatEmptySeq DEF Listed
<1>5. << >> \in Seq(S)
  OBVIOUS
<1>8. both \in Seq(S) /\ Len(both) = 2 /\ both[1] = b /\ both[2] = c
  <2> DEFINE u == one(b)
  <2>1. u \in Seq(S) /\ Len(u) = 1 /\ u[1] = b
    BY <1>1, <1>2
  <2> HIDE DEF u
  <2>2. /\ u \o OneIf(TRUE, c) \in Seq(S) /\ Len(u \o OneIf(TRUE, c)) = Len(u) + 1
        /\ \A i \in 1..Len(u) : (u \o OneIf(TRUE, c))[i] = u[i]
        /\ (u \o OneIf(TRUE, c))[Len(u) + 1] = c
    BY <1>1, <2>1, OneMore
  <2>3. 1 \in 1..Len(u) /\ Len(u) + 1 = 2
    BY <2>1
  <2>4. both = u \o OneIf(TRUE, c)
    BY DEF u
  <2> HIDE DEF both
  <2> QED BY <2>1, <2>2, <2>3, <2>4, Zenon
<1> HIDE DEF both
<1>9. CASE ~p /\ ~q
  BY <1>3, <1>4, <1>5, <1>9 DEF Paired
<1>10. CASE p /\ ~q
  <2>1. OneIf(p, b) \o OneIf(q, c) = one(b)
    BY <1>1, <1>2, <1>3, <1>4, <1>10
  <2> QED BY <1>1, <1>2, <1>4, <1>10, <2>1 DEF Paired
<1>11. CASE ~p /\ q
  <2>1. OneIf(p, b) \o OneIf(q, c) = one(c)
    BY <1>1, <1>2, <1>3, <1>4, <1>11
  <2> QED BY <1>1, <1>2, <1>4, <1>11, <2>1 DEF Paired
<1>12. CASE p /\ q
  <2>1. OneIf(p, b) \o OneIf(q, c) = both
    BY <1>3, <1>12 DEF both
  <2> QED BY <1>4, <1>8, <1>12, <2>1 DEF Paired
<1> QED BY <1>9, <1>10, <1>11, <1>12

\* The elements of such a list.
Either(e, b, c) == \A i \in DOMAIN e : e[i] = b \/ e[i] = c

\* Such a list has no other element.
LEMMA PairedIs ==
  ASSUME NEW e, NEW p, NEW b, NEW q, NEW c, Paired(e, p, b, q, c)
  PROVE  Either(e, b, c)
<1> USE DEF Either
<1>1. DOMAIN e = 1..Len(e)
  BY DEF Paired, Listed
<1>2. CASE e = << >>
  BY <1>2
<1>3. CASE Len(e) = 1 /\ (e[1] = b \/ e[1] = c)
  <2>1. \A i \in 1..1 : i = 1
    OBVIOUS
  <2> QED BY <1>1, <1>3, <2>1
<1>4. CASE Len(e) = 2 /\ e[1] = b /\ e[2] = c
  <2>1. \A i \in 1..2 : i = 1 \/ i = 2
    OBVIOUS
  <2> QED BY <1>1, <1>4, <2>1
<1> QED BY <1>2, <1>3, <1>4 DEF Paired

\* What parseNodeACME does with such a list.
PairTaken(e, p, b, q, c, middle, got) ==
  \/ ~p /\ ~q /\ e = << >> /\ got = NoACME
  \/ p /\ ~q /\ e # << >> /\ Added(NoACME, b, got)
  \/ ~p /\ q /\ e # << >> /\ Added(NoACME, c, got)
  \/ p /\ q /\ e # << >> /\ Added(NoACME, b, middle) /\ Added(middle, c, got)

\* parseNodeACME takes one after the other what is there of the two.
LEMMA PairParsed ==
  ASSUME NEW e, NEW p, NEW b, NEW q, NEW c, Paired(e, p, b, q, c), ACMEString(e)
  PROVE  \E middle : PairTaken(e, p, b, q, c, middle, parseNodeACME(e))
<1> DEFINE n == Len(e)
<1>1. PICK out : ACMERun(e, out)
  BY ACMEParsed
<1>2. /\ out[0] = NoACME /\ parseNodeACME(e) = out[n]
      /\ \A i \in 1..n : Added(out[i - 1], e[i], out[i])
  BY <1>1 DEF ACMERun
<1>3. /\ 1 - 1 = 0 /\ 2 - 1 = 1 /\ 1 \in 1..1 /\ 1 \in 1..2 /\ 2 \in 1..2
      /\ Len(<< >>) = 0 /\ 0 # 1 /\ 0 # 2
  OBVIOUS
<1>4. CASE e = << >>
  <2>1. parseNodeACME(e) = NoACME
    BY <1>4, NothingParsed
  <2>2. ~p /\ ~q
    BY <1>3, <1>4 DEF Paired
  <2> QED BY <1>4, <2>1, <2>2 DEF PairTaken
<1>5. CASE n = 1
  <2>1. Added(out[1 - 1], e[1], out[1])
    BY <1>2, <1>3, <1>5
  <2>2. Added(NoACME, e[1], parseNodeACME(e)) /\ e # << >>
    BY <1>2, <1>3, <1>5, <2>1
  <2>3. (p /\ ~q /\ e[1] = b) \/ (~p /\ q /\ e[1] = c)
    BY <1>3, <1>5, <2>2 DEF Paired
  <2> QED BY <2>2, <2>3 DEF PairTaken
<1>6. CASE n = 2
  <2>1. Added(out[1 - 1], e[1], out[1]) /\ Added(out[2 - 1], e[2], out[2])
    BY <1>2, <1>3, <1>6
  <2>2. Added(NoACME, e[1], out[1]) /\ Added(out[1], e[2], parseNodeACME(e)) /\ e # << >>
    BY <1>2, <1>3, <1>6, <2>1
  <2>3. p /\ q /\ e[1] = b /\ e[2] = c
    BY <1>3, <1>6, <2>2 DEF Paired
  <2> QED BY <2>2, <2>3 DEF PairTaken
<1> QED BY <1>4, <1>5, <1>6 DEF Paired

\* An acme value that is written is read again; only the empty one is written
\* as nothing.
LEMMA ACMEReread ==
  ASSUME NEW W, NEW D, NEW a \in ACME(W, D), "" \notin D
  PROVE  LET e == encodeNodeACME(a)
         IN  /\ ACMEString(e) /\ parseNodeACME(e) = a
             /\ e = << >> => a = NoACME
<1> DEFINE b == Part("account", a.account)
           c == Part("domains", a.domains)
           p == a.account # ""
           q == a.domains # {}
           none == NoACME.account
           e == OneIf(p, b) \o OneIf(q, c)
<1>1. encodeNodeACME(a) = e
  BY DEF encodeNodeACME
<1>2. p \in BOOLEAN /\ q \in BOOLEAN
  OBVIOUS
<1>3. /\ b.key = "account" /\ b.value = a.account
      /\ c.key = "domains" /\ c.value = a.domains /\ "account" # "domains"
  BY DEF Part
<1>4. a = [account |-> a.account, domains |-> a.domains] /\ "" \notin a.domains
  BY DEF ACME
<1>5. (~p => a.account = none) /\ (~q => a.domains = {})
  BY DEF NoACME
<1>6. NoACME = [account |-> none, domains |-> {}]
  BY DEF NoACME
<1> HIDE DEF b, c, p, q, none
<1>7. Paired(e, p, b, q, c)
  BY <1>2, Pairs
<1> HIDE DEF e
<1>8. Either(e, b, c)
  BY <1>7, PairedIs
<1>9. ACMEString(e)
  <2>1. Listed(e)
    BY <1>7 DEF Paired
  <2>2. \A i \in DOMAIN e : e[i].key = "domains" => "" \notin e[i].value
    BY <1>3, <1>4, <1>8 DEF Either
  <2> QED BY <2>1, <2>2 DEF ACMEString
<1> DEFINE got == parseNodeACME(e)
<1>10. PICK middle : PairTaken(e, p, b, q, c, middle, got)
  BY <1>7, <1>9, PairParsed
<1> HIDE DEF got
<1>11. \A was, now :
         /\ Added(was, b, now) => now = [account |-> a.account, domains |-> was.domains]
         /\ Added(was, c, now) => now = [account |-> was.account,
                                         domains |-> was.domains \union a.domains]
  BY <1>3 DEF Added
<1>12. NoACME.account = none /\ NoACME.domains = {} /\ {} \union a.domains = a.domains
  BY <1>6
<1>13. got = a /\ (e = << >> => a = NoACME)
  <2>1. CASE ~p /\ ~q /\ e = << >> /\ got = NoACME
    BY <1>4, <1>5, <1>6, <2>1
  <2>2. CASE p /\ ~q /\ e # << >> /\ Added(NoACME, b, got)
    <3>1. got = [account |-> a.account, domains |-> {}]
      BY <1>11, <1>12, <2>2
    <3> QED BY <1>4, <1>5, <2>2, <3>1
  <2>3. CASE ~p /\ q /\ e # << >> /\ Added(NoACME, c, got)
    <3>1. got = [account |-> none, domains |-> a.domains]
      BY <1>11, <1>12, <2>3
    <3> QED BY <1>4, <1>5, <2>3, <3>1
  <2>4. CASE p /\ q /\ e # << >> /\ Added(NoACME, b, middle) /\ Added(middle, c, got)
    <3>1. middle = [account |-> a.account, domains |-> {}]
      BY <1>11, <1>12, <2>4
    <3>2. middle.account = a.account /\ middle.domains = {}
      BY <3>1
    <3>3. got = [account |-> a.account, domains |-> a.domains]
      BY <1>11, <1>12, <2>4, <3>2
    <3> QED BY <1>4, <2>4, <3>3
  <2> QED BY <1>10, <2>1, <2>2, <2>3, <2>4 DEF PairTaken
<1> QED BY <1>1, <1>9, <1>13 DEF got

\* f lists the elements of S, each once.
Enumerates(S, f) ==
  /\ f \in [1..Cardinality(S) -> S] /\ Cardinality(S) \in Nat
  /\ \A i, j \in 1..Cardinality(S) : f[i] = f[j] => i = j
  /\ \A x \in S : \E i \in 1..Cardinality(S) : f[i] = x

\* The slots a client writes back, in whatever order, are all there and none twice.
LEMMA SetListed ==
  ASSUME NEW S, IsFiniteSet(S)
  PROVE  Enumerates(S, SetToSeq(S))
<1> DEFINE n == Cardinality(S)
           f == SetToSeq(S)
<1>1. n \in Nat /\ \E g \in [1..n -> S] : IsInjective(g)
  BY FS_CardinalityType DEF ExistsBijection, Bijection, Injection
<1>2. f \in [1..n -> S] /\ IsInjective(f)
  BY <1>1 DEF SetToSeq
<1>3. Cardinality(1..n) = n
  BY <1>1, FS_Interval
<1> HIDE DEF n, f
<1>4. f \in Injection(1..n, S)
  BY <1>2 DEF Injection
<1>5. f \in Surjection(1..n, S)
  BY <1>3, <1>4, FS_Injection DEF n
<1> QED BY <1>1, <1>2, <1>5 DEF Surjection, IsInjective, Enumerates, n, f

-----------------------------------------------------------------------------
\* A node's configuration file as it can be.
SlotKeys == [n : Nat, padded : BOOLEAN]

SlotsOK(slots) == /\ slots = [key \in DOMAIN slots |-> slots[key]]
                  /\ DOMAIN slots \subseteq SlotKeys
                  /\ IsFiniteSet(DOMAIN slots)
                  /\ \A key \in DOMAIN slots : Listed(slots[key])

AcmeOK(acme) == /\ acme = [i \in DOMAIN acme |-> acme[i]]
                /\ \A i \in DOMAIN acme : ACMEString(acme[i])

FileOK(file) == /\ SlotsOK(file.slots) /\ AcmeOK(file.acme)
                /\ file = File(file.acme, file.slots)

\* What a slot says.
Says(file, key) == parseACMEDomain(file.slots[key])

\* A slot that is claimed has the key that the SDK writes.
LEMMA ClaimedKey ==
  ASSUME NEW file, FileOK(file), NEW key \in Claimed(file)
  PROVE  /\ key \in DOMAIN file.slots /\ key.n \in Nat /\ key = ACMEDomainKey(key.n)
         /\ Says(file, key).domain # ""
<1>1. key \in DOMAIN file.slots /\ ~key.padded /\ Says(file, key).domain # ""
  BY DEF Claimed, acmeDomainSlot, Says
<1>2. key \in SlotKeys
  BY <1>1 DEF FileOK, SlotsOK
<1>3. key = [n |-> key.n, padded |-> FALSE] /\ key.n \in Nat
  BY <1>1, <1>2 DEF SlotKeys
<1> QED BY <1>1, <1>3 DEF ACMEDomainKey, SlotKey

\* What a slot says has three texts.
LEMMA SaysDomain ==
  ASSUME NEW file, FileOK(file), NEW key \in DOMAIN file.slots
  PROVE  Says(file, key) \in Domain(Texts(file.slots[key]))
<1> DEFINE parts == file.slots[key]
<1>1. Listed(parts)
  BY DEF FileOK, SlotsOK
<1> HIDE DEF parts
<1>2. PICK out \in [0..Len(parts) -> Domain(Texts(parts))] : Parses(parts, out)
  BY <1>1, DomainParsed
<1>3. Len(parts) \in 0..Len(parts)
  BY <1>1 DEF Listed
<1>4. parseACMEDomain(parts) = out[Len(parts)]
  BY <1>2 DEF Parses
<1> QED BY <1>2, <1>3, <1>4 DEF Says, parts

\* The update of a client that writes back what it read, and its slots in order.
Back(file) == WriteBack(ReadConfig(file))

Ordered(file) == SetToSeq(Claimed(file))

\* The update of a client that writes back all that it read.
LEMMA BackIs ==
  ASSUME NEW file
  PROVE  /\ Back(file).acme = [i \in DOMAIN file.acme |-> parseNodeACME(file.acme[i])]
         /\ Back(file).domains = [i \in DOMAIN Ordered(file) |->
              Indexed(Ordered(file)[i],
                      [key \in Claimed(file) |-> Says(file, key)][Ordered(file)[i]])]
         /\ Back(file).delete = {} /\ Back(file).drop = FALSE
         /\ Back(file).extra = [key \in DOMAIN file.slots \ Claimed(file) |-> file.slots[key]]
BY DEF Back, WriteBack, ReadConfig, NodeConfigUpdate, Ordered, Says

\* The i-th of them.
LEMMA BackDomain ==
  ASSUME NEW file, FileOK(file), NEW i \in DOMAIN Back(file).domains
  PROVE  LET key == Ordered(file)[i]
         IN  /\ i \in 1..Cardinality(Claimed(file)) /\ key \in Claimed(file)
             /\ Back(file).domains[i] = Indexed(key, Says(file, key))
<1> DEFINE K == Claimed(file)
           f == Ordered(file)
<1>1. K \subseteq DOMAIN file.slots
  BY DEF Claimed
<1>2. IsFiniteSet(K)
  BY <1>1, FS_Subset DEF FileOK, SlotsOK
<1>3. Enumerates(K, f)
  BY <1>2, SetListed DEF Ordered
<1>4. DOMAIN f = 1..Cardinality(K) /\ \A j \in 1..Cardinality(K) : f[j] \in K
  BY <1>3 DEF Enumerates
<1> HIDE DEF K, f
<1>5. Back(file).domains = [j \in DOMAIN f |->
                              Indexed(f[j], [key \in K |-> Says(file, key)][f[j]])]
  BY BackIs DEF K, f
<1>6. i \in DOMAIN f /\ f[i] \in K
  BY <1>4, <1>5
<1>7. Back(file).domains[i] = Indexed(f[i], Says(file, f[i]))
  BY <1>5, <1>6
<1> QED BY <1>4, <1>6, <1>7 DEF K, f

\* The domains that are written back are those that were read, each once.
LEMMA BackEnumerates ==
  ASSUME NEW file, FileOK(file)
  PROVE  /\ DOMAIN Back(file).domains = 1..Cardinality(Claimed(file))
         /\ Enumerates(Claimed(file), Ordered(file))
<1> DEFINE K == Claimed(file)
           f == Ordered(file)
<1>1. K \subseteq DOMAIN file.slots
  BY DEF Claimed
<1>2. IsFiniteSet(K)
  BY <1>1, FS_Subset DEF FileOK, SlotsOK
<1>3. Enumerates(K, f)
  BY <1>2, SetListed DEF Ordered
<1>4. DOMAIN f = 1..Cardinality(K)
  BY <1>3 DEF Enumerates
<1> HIDE DEF f, K
<1>5. Back(file).domains = [j \in DOMAIN f |->
                              Indexed(f[j], [key \in K |-> Says(file, key)][f[j]])]
  BY BackIs DEF K, f
<1>6. DOMAIN Back(file).domains = DOMAIN f
  BY <1>5
<1> QED BY <1>3, <1>4, <1>6 DEF K, f

\* An index of a domain that is written back is its key's.
LEMMA BackIndex ==
  ASSUME NEW file, FileOK(file), NEW i \in DOMAIN Back(file).domains
  PROVE  LET key == Ordered(file)[i]
         IN  /\ key \in Claimed(file) /\ Back(file).domains[i].index = key.n
             /\ Back(file).domains[i].domain = Says(file, key).domain
             /\ Back(file).domains[i].plugin = Says(file, key).plugin
             /\ Back(file).domains[i].alias = Says(file, key).alias
             /\ key = ACMEDomainKey(Back(file).domains[i].index)
<1> DEFINE key == Ordered(file)[i]
<1>1. key \in Claimed(file) /\ Back(file).domains[i] = Indexed(key, Says(file, key))
  BY BackDomain
<1> HIDE DEF key
<1>2. key = ACMEDomainKey(key.n)
  BY <1>1, ClaimedKey
<1>3. Back(file).domains[i].index = key.n
  BY <1>1 DEF Indexed
<1> QED BY <1>1, <1>2, <1>3 DEF key, Indexed

\* SetNodeConfig refuses what was read only for a slot that PVE does not have
\* or an acme value that renders empty.
LEMMA BackRefused ==
  ASSUME NEW file, FileOK(file), Refused(Back(file))
  PROVE  \/ \E key \in Claimed(file) : key.n > ACMEDomainMaxIndex
         \/ \E i \in DOMAIN file.acme : parseNodeACME(file.acme[i]) = NoACME
<1> DEFINE u == Back(file)
<1>1. CASE \E i \in DOMAIN u.acme : encodeNodeACME(u.acme[i]) = << >>
  <2>1. PICK i \in DOMAIN u.acme : encodeNodeACME(u.acme[i]) = << >>
    BY <1>1
  <2>2. i \in DOMAIN file.acme /\ u.acme[i] = parseNodeACME(file.acme[i])
    <3>1. u.acme = [j \in DOMAIN file.acme |-> parseNodeACME(file.acme[j])]
      BY BackIs
    <3> HIDE DEF u
    <3> QED BY <2>1, <3>1
  <2> DEFINE parts == file.acme[i]
             a == parseNodeACME(parts)
  <2>3. ACMEString(parts)
    BY <2>2 DEF FileOK, AcmeOK
  <2>4. a \in ACME(Texts(parts), Mentioned(parts)) /\ "" \notin Mentioned(parts)
    BY <2>3, ACMEIs DEF Mentioned
  <2>5. encodeNodeACME(a) = << >>
    BY <2>1, <2>2
  <2> HIDE DEF a
  <2>6. a = NoACME
    BY <2>4, <2>5, ACMEReread
  <2> QED BY <2>2, <2>6 DEF a
<1>2. ASSUME NEW i \in DOMAIN u.domains, u.domains[i].index \notin 0..ACMEDomainMaxIndex
      PROVE  \E key \in Claimed(file) : key.n > ACMEDomainMaxIndex
  <2> DEFINE key == Ordered(file)[i]
  <2>1. key \in Claimed(file) /\ u.domains[i].index = key.n
    BY BackIndex
  <2> HIDE DEF key, u
  <2>2. key.n \in Nat /\ key.n \notin 0..5
    BY <1>2, <2>1, ClaimedKey DEF ACMEDomainMaxIndex
  <2>3. key.n > ACMEDomainMaxIndex
    BY <2>2 DEF ACMEDomainMaxIndex
  <2> QED BY <2>1, <2>3
<1>3. ASSUME NEW i \in DOMAIN u.domains, u.domains[i].domain = ""
      PROVE  FALSE
  <2> DEFINE key == Ordered(file)[i]
  <2>1. key \in Claimed(file) /\ u.domains[i].domain = Says(file, key).domain
    BY BackIndex
  <2> HIDE DEF key, u
  <2> QED BY <1>3, <2>1, ClaimedKey
<1>4. ASSUME NEW i \in DOMAIN u.domains, NEW j \in 1..(i - 1),
             u.domains[j].index = u.domains[i].index
      PROVE  FALSE
  <2> DEFINE n == Cardinality(Claimed(file))
             f == Ordered(file)
  <2>1. /\ DOMAIN u.domains = 1..n /\ n \in Nat
        /\ \A k, l \in 1..n : f[k] = f[l] => k = l
    BY BackEnumerates DEF Enumerates
  <2>2. i \in 1..n /\ j \in 1..n /\ i # j
    BY <1>4, <2>1
  <2>3. f[i] = ACMEDomainKey(u.domains[i].index) /\ f[j] = ACMEDomainKey(u.domains[j].index)
    BY <2>1, <2>2, BackIndex
  <2> HIDE DEF f, u, n
  <2> QED BY <1>4, <2>1, <2>2, <2>3
<1> HIDE DEF u
<1>5. Refused(u)
  BY DEF u
<1> QED BY <1>1, <1>2, <1>3, <1>4, <1>5 DEF Refused

-----------------------------------------------------------------------------
\* The file after what was read of it has been written back.
Rewritten(file, f) ==
  /\ f = File(f.acme, f.slots)
  /\ f.acme = [i \in DOMAIN file.acme |-> encodeNodeACME(parseNodeACME(file.acme[i]))]
  /\ f.slots = [key \in DOMAIN file.slots |->
                  IF key \in Claimed(file) THEN encodeACMEDomain(Says(file, key))
                  ELSE file.slots[key]]

\* Only the three texts count.
LEMMA SameText ==
  ASSUME NEW d, NEW e, d.domain = e.domain, d.plugin = e.plugin, d.alias = e.alias
  PROVE  encodeACMEDomain(d) = encodeACMEDomain(e)
BY DEF encodeACMEDomain

\* The form of a client that writes back what it read.
LEMMA BackForm ==
  ASSUME NEW file, FileOK(file)
  PROVE  LET form == ConfigForm(Back(file))
         IN  /\ form.acme = [i \in DOMAIN file.acme |->
                  encodeNodeACME(parseNodeACME(file.acme[i]))]
             /\ form.slots = [key \in DOMAIN file.slots |->
                  IF key \in Claimed(file) THEN encodeACMEDomain(Says(file, key))
                  ELSE file.slots[key]]
             /\ form.delete = {} /\ form.drop = FALSE
<1> DEFINE u == Back(file)
           K == Claimed(file)
           f == Ordered(file)
           n == Cardinality(K)
           at(index) == CHOOSE i \in DOMAIN u.domains : u.domains[i].index = index
           slots == {ACMEDomainKey(u.domains[i].index) : i \in DOMAIN u.domains}
           coded == [key \in slots |-> encodeACMEDomain(u.domains[at(key.n)])]
           form == ConfigForm(u)
<1>1. /\ form.acme = [i \in DOMAIN u.acme |-> encodeNodeACME(u.acme[i])]
      /\ form.slots = Over(coded, u.extra)
      /\ form.delete = u.delete /\ form.drop = u.drop
  BY DEF ConfigForm
<1>2. /\ DOMAIN u.domains = 1..n /\ n \in Nat
      /\ \A i, j \in 1..n : f[i] = f[j] => i = j
      /\ \A key \in K : \E i \in 1..n : f[i] = key
  <2>1. Enumerates(K, f) /\ DOMAIN u.domains = 1..n
    BY BackEnumerates
  <2> HIDE DEF K, f, u
  <2>2. n \in Nat /\ \A i, j \in 1..n : f[i] = f[j] => i = j
    BY <2>1 DEF Enumerates
  <2>3. \A key \in K : \E i \in 1..n : f[i] = key
    BY <2>1 DEF Enumerates
  <2> QED BY <2>1, <2>2, <2>3
<1>3. \A i \in 1..n : /\ f[i] \in K /\ u.domains[i].index = f[i].n
                      /\ f[i] = ACMEDomainKey(u.domains[i].index)
                      /\ u.domains[i].domain = Says(file, f[i]).domain
                      /\ u.domains[i].plugin = Says(file, f[i]).plugin
                      /\ u.domains[i].alias = Says(file, f[i]).alias
  BY <1>2, BackIndex
<1>4. K \subseteq DOMAIN file.slots
  BY DEF Claimed
<1>5. /\ u.acme = [i \in DOMAIN file.acme |-> parseNodeACME(file.acme[i])]
      /\ u.extra = [key \in DOMAIN file.slots \ K |-> file.slots[key]]
      /\ u.delete = {} /\ u.drop = FALSE
  BY BackIs
<1> HIDE DEF u, K, f, n, form
<1>6. slots = K
  BY <1>2, <1>3
<1>7. \A key \in K : encodeACMEDomain(u.domains[at(key.n)]) = encodeACMEDomain(Says(file, key))
  <2> SUFFICES ASSUME NEW key \in K
               PROVE  encodeACMEDomain(u.domains[at(key.n)]) = encodeACMEDomain(Says(file, key))
    OBVIOUS
  <2>1. PICK i \in 1..n : f[i] = key
    BY <1>2
  <2>2. u.domains[i].index = key.n
    BY <1>3, <2>1
  <2>3. at(key.n) \in DOMAIN u.domains /\ u.domains[at(key.n)].index = key.n
    BY <1>2, <2>2
  <2> DEFINE j == at(key.n)
  <2> HIDE DEF at, j
  <2>4. j \in 1..n /\ u.domains[j].index = key.n
    BY <1>2, <2>3 DEF j
  <2>5. f[j] = key
    BY <1>3, <2>1, <2>2, <2>4
  <2> QED BY <1>3, <2>4, <2>5, SameText DEF j
<1> HIDE DEF slots, at
<1>8. DOMAIN coded = K /\ \A key \in K : coded[key] = encodeACMEDomain(Says(file, key))
  BY <1>6, <1>7
<1> HIDE DEF coded
<1>9. form.slots = [key \in DOMAIN file.slots |->
                      IF key \in K THEN encodeACMEDomain(Says(file, key)) ELSE file.slots[key]]
  <2>1. K \union (DOMAIN file.slots \ K) = DOMAIN file.slots
    BY <1>4
  <2>2. Over(coded, u.extra) = [key \in DOMAIN file.slots |->
                                  IF key \in K THEN coded[key] ELSE u.extra[key]]
    BY <1>5, <1>8, <2>1 DEF Over
  <2> QED BY <1>1, <1>5, <1>8, <2>2
<1>10. form.acme = [i \in DOMAIN file.acme |-> encodeNodeACME(parseNodeACME(file.acme[i]))]
  BY <1>1, <1>5
<1> QED BY <1>1, <1>5, <1>9, <1>10 DEF u, K, form

\* handleNodeConfigSet makes that of it.
LEMMA BackApplied ==
  ASSUME NEW file, FileOK(file)
  PROVE  Rewritten(file, ApplyConfig(file, ConfigForm(Back(file))))
<1> DEFINE form == ConfigForm(Back(file))
           kept == [key \in DOMAIN file.slots \ form.delete |-> file.slots[key]]
           r == ApplyConfig(file, form)
<1>1. /\ form.acme = [i \in DOMAIN file.acme |-> encodeNodeACME(parseNodeACME(file.acme[i]))]
      /\ form.slots = [key \in DOMAIN file.slots |->
           IF key \in Claimed(file) THEN encodeACMEDomain(Says(file, key)) ELSE file.slots[key]]
      /\ form.delete = {} /\ form.drop = FALSE
  BY BackForm
<1> HIDE DEF form
<1>2. /\ r = File(r.acme, r.slots) /\ r.slots = Over(form.slots, kept)
      /\ r.acme = IF form.acme # None THEN form.acme ELSE file.acme
  BY <1>1 DEF ApplyConfig, File
<1>3. r.slots = form.slots
  <2>1. DOMAIN form.slots = DOMAIN file.slots /\ DOMAIN kept = DOMAIN file.slots
    BY <1>1
  <2>2. form.slots = [key \in DOMAIN form.slots |-> form.slots[key]]
    BY <1>1
  <2> HIDE DEF kept
  <2> QED BY <1>2, <2>1, <2>2 DEF Over
<1>4. r.acme = form.acme
  <2>1. CASE form.acme = None
    <3>1. DOMAIN form.acme = {} /\ DOMAIN form.acme = DOMAIN file.acme
      BY <1>1, <2>1 DEF None
    <3>2. file.acme = [i \in DOMAIN file.acme |-> file.acme[i]]
      BY DEF FileOK, AcmeOK
    <3>3. form.acme = file.acme
      BY <1>1, <3>1, <3>2
    <3> QED BY <1>2, <3>3
  <2> QED BY <1>2, <2>1
<1> QED BY <1>1, <1>2, <1>3, <1>4 DEF Rewritten, form

\* An acme string that is written back reads as the one that was read.
LEMMA AcmeRereads ==
  ASSUME NEW parts, ACMEString(parts)
  PROVE  LET a == parseNodeACME(parts)
         IN  /\ ACMEString(encodeNodeACME(a)) /\ parseNodeACME(encodeNodeACME(a)) = a
             /\ "" \notin a.domains
<1> DEFINE W == Texts(parts)
           D == Mentioned(parts)
           a == parseNodeACME(parts)
<1>1. a \in ACME(W, D) /\ "" \notin D
  BY ACMEIs DEF Mentioned
<1> HIDE DEF W, D, a
<1>2. "" \notin a.domains
  BY <1>1 DEF ACME
<1>3. ACMEString(encodeNodeACME(a)) /\ parseNodeACME(encodeNodeACME(a)) = a
  BY <1>1, ACMEReread
<1> QED BY <1>2, <1>3 DEF a

\* What the rewritten file says.
SaysAgain(file, f) ==
  /\ DOMAIN f.acme = DOMAIN file.acme /\ DOMAIN f.slots = DOMAIN file.slots
  /\ \A i \in DOMAIN file.acme :
       /\ parseNodeACME(f.acme[i]) = parseNodeACME(file.acme[i])
       /\ "" \notin parseNodeACME(file.acme[i]).domains
  /\ \A key \in Claimed(file) :
       /\ parseACMEDomain(f.slots[key]) = Says(file, key)
       /\ slotDomain(f.slots[key]) = Says(file, key).domain
  /\ \A key \in DOMAIN file.slots \ Claimed(file) : f.slots[key] = file.slots[key]
  /\ Claimed(f) = Claimed(file)

\* Each slot and acme string of the rewritten file says what it said before.
LEMMA RewrittenReads ==
  ASSUME NEW file, FileOK(file), NEW f, Rewritten(file, f)
  PROVE  SaysAgain(file, f)
<1> DEFINE K == Claimed(file)
<1>1. K \subseteq DOMAIN file.slots
  BY DEF Claimed
<1> HIDE DEF K
<1>2. /\ DOMAIN f.acme = DOMAIN file.acme /\ DOMAIN f.slots = DOMAIN file.slots
      /\ \A i \in DOMAIN file.acme : f.acme[i] = encodeNodeACME(parseNodeACME(file.acme[i]))
      /\ \A key \in K : f.slots[key] = encodeACMEDomain(Says(file, key))
      /\ \A key \in DOMAIN file.slots \ K : f.slots[key] = file.slots[key]
  BY <1>1 DEF Rewritten, K
<1>3. ASSUME NEW i \in DOMAIN file.acme
      PROVE  /\ parseNodeACME(f.acme[i]) = parseNodeACME(file.acme[i])
             /\ "" \notin parseNodeACME(file.acme[i]).domains
  <2>1. ACMEString(file.acme[i])
    BY DEF FileOK, AcmeOK
  <2> QED BY <1>2, <2>1, AcmeRereads
<1>4. ASSUME NEW key \in K
      PROVE  /\ parseACMEDomain(f.slots[key]) = Says(file, key)
             /\ slotDomain(f.slots[key]) = Says(file, key).domain
  <2>1. Says(file, key) \in Domain(Texts(file.slots[key]))
    BY <1>1, SaysDomain
  <2> QED BY <1>2, <2>1, DomainReread
<1>5. Claimed(f) = K
  <2>1. ASSUME NEW key \in K PROVE key \in Claimed(f)
    <3>1. ~key.padded /\ Says(file, key).domain # "" /\ key \in DOMAIN f.slots
      BY <1>2 DEF K, Claimed, acmeDomainSlot, Says
    <3>2. parseACMEDomain(f.slots[key]).domain # ""
      BY <1>4, <3>1
    <3> QED BY <3>1, <3>2 DEF Claimed, acmeDomainSlot
  <2>2. ASSUME NEW key \in Claimed(f), key \notin K PROVE FALSE
    <3>1. key \in DOMAIN file.slots /\ ~key.padded /\ parseACMEDomain(f.slots[key]).domain # ""
      BY <1>2, <2>2 DEF Claimed, acmeDomainSlot
    <3>2. parseACMEDomain(file.slots[key]).domain # ""
      BY <1>2, <2>2, <3>1
    <3> QED BY <2>2, <3>1, <3>2 DEF K, Claimed, acmeDomainSlot
  <2> QED BY <2>1, <2>2
<1> QED BY <1>2, <1>3, <1>4, <1>5 DEF K, SaysAgain

\* The SDK reads of the rewritten file what it read before.
LEMMA RewrittenSame ==
  ASSUME NEW file, FileOK(file), NEW f, Rewritten(file, f)
  PROVE  ReadConfig(f) = ReadConfig(file)
<1>1. /\ DOMAIN f.acme = DOMAIN file.acme /\ DOMAIN f.slots = DOMAIN file.slots
      /\ Claimed(f) = Claimed(file)
      /\ \A i \in DOMAIN file.acme : parseNodeACME(f.acme[i]) = parseNodeACME(file.acme[i])
      /\ \A key \in Claimed(file) :
           parseACMEDomain(f.slots[key]) = parseACMEDomain(file.slots[key])
      /\ \A key \in DOMAIN file.slots \ Claimed(file) : f.slots[key] = file.slots[key]
  <2>1. SaysAgain(file, f)
    BY RewrittenReads
  <2> QED BY <2>1 DEF SaysAgain, Says
<1> QED BY <1>1 DEF ReadConfig

\* The names a server orders for.
LEMMA OrderedNames ==
  ASSUME NEW file, NEW x
  PROVE  x \in acmeSANs(file) <=>
           /\ x # ""
           /\ \/ \E n \in 0..ACMEDomainMaxIndex :
                   /\ ACMEDomainKey(n) \in DOMAIN file.slots
                   /\ x = slotDomain(file.slots[ACMEDomainKey(n)])
              \/ \E i \in DOMAIN file.acme : x \in parseNodeACME(file.acme[i]).domains
<1> DEFINE S == {ACMEDomainKey(n) : n \in 0..ACMEDomainMaxIndex} \intersect DOMAIN file.slots
           A == {slotDomain(file.slots[key]) : key \in S}
           B == UNION {parseNodeACME(file.acme[i]).domains : i \in DOMAIN file.acme}
<1>1. acmeSANs(file) = (A \union B) \ {""}
  BY DEF acmeSANs
<1>2. x \in B <=> \E i \in DOMAIN file.acme : x \in parseNodeACME(file.acme[i]).domains
  OBVIOUS
<1>3. x \in A <=>
        \E n \in 0..ACMEDomainMaxIndex : /\ ACMEDomainKey(n) \in DOMAIN file.slots
                                         /\ x = slotDomain(file.slots[ACMEDomainKey(n)])
  OBVIOUS
<1> HIDE DEF A, B, S
<1> QED BY <1>1, <1>2, <1>3

\* ... and those a client that reads the file believes it does.
LEMMA BelievedNames ==
  ASSUME NEW file, FileOK(file), NEW x
  PROVE  x \in Believed(ReadConfig(file)) <=>
           \/ \E key \in Claimed(file) :
                key.n <= ACMEDomainMaxIndex /\ x = Says(file, key).domain
           \/ \E i \in DOMAIN file.acme : x \in parseNodeACME(file.acme[i]).domains
<1> DEFINE c == ReadConfig(file)
<1>1. /\ c.acme = [i \in DOMAIN file.acme |-> parseNodeACME(file.acme[i])]
      /\ c.acmeDomains = [key \in Claimed(file) |-> Says(file, key)]
  BY DEF ReadConfig, Says
<1> HIDE DEF c
<1>2. /\ DOMAIN c.acmeDomains = Claimed(file)
      /\ \A key \in Claimed(file) : c.acmeDomains[key] = Says(file, key)
  BY <1>1
<1>3. /\ DOMAIN c.acme = DOMAIN file.acme
      /\ \A i \in DOMAIN file.acme : c.acme[i] = parseNodeACME(file.acme[i])
  BY <1>1
<1>4. x \in Believed(c) <=>
           \/ \E key \in DOMAIN c.acmeDomains :
                key.n <= ACMEDomainMaxIndex /\ x = c.acmeDomains[key].domain
           \/ \E i \in DOMAIN c.acme : x \in c.acme[i].domains
  BY DEF Believed
<1> QED BY <1>2, <1>3, <1>4 DEF c

\* Every name that was believed is ordered for afterwards.
LEMMA BelievedOrdered ==
  ASSUME NEW file, FileOK(file), NEW f, Rewritten(file, f), NEW x \in Believed(ReadConfig(file))
  PROVE  x \in acmeSANs(f)
<1>0. SaysAgain(file, f)
  BY RewrittenReads
<1>1. CASE \E key \in Claimed(file) : key.n <= ACMEDomainMaxIndex /\ x = Says(file, key).domain
  <2>1. PICK key \in Claimed(file) : key.n <= ACMEDomainMaxIndex /\ x = Says(file, key).domain
    BY <1>1
  <2>2. key \in DOMAIN file.slots /\ key.n \in Nat /\ key = ACMEDomainKey(key.n) /\ x # ""
    BY <2>1, ClaimedKey
  <2>3. key.n \in 0..ACMEDomainMaxIndex
    <3> DEFINE n == key.n
    <3>1. n \in Nat /\ n <= 5
      BY <2>1, <2>2 DEF ACMEDomainMaxIndex
    <3> HIDE DEF n
    <3>2. n \in 0..5
      BY <3>1
    <3> QED BY <3>2 DEF n, ACMEDomainMaxIndex
  <2>4. key \in DOMAIN f.slots /\ x = slotDomain(f.slots[key])
    BY <1>0, <2>1, <2>2 DEF SaysAgain
  <2> QED BY <2>2, <2>3, <2>4, OrderedNames
<1>2. CASE \E i \in DOMAIN file.acme : x \in parseNodeACME(file.acme[i]).domains
  <2>1. PICK i \in DOMAIN file.acme : x \in parseNodeACME(file.acme[i]).domains
    BY <1>2
  <2>2. i \in DOMAIN f.acme /\ x \in parseNodeACME(f.acme[i]).domains /\ x # ""
    BY <1>0, <2>1 DEF SaysAgain
  <2> QED BY <2>2, OrderedNames
<1> QED BY <1>1, <1>2, BelievedNames

\* Every other name that is ordered for stands in a slot the SDK does not read.
LEMMA OtherNames ==
  ASSUME NEW file, FileOK(file), NEW f, Rewritten(file, f),
         NEW x \in acmeSANs(f), x \notin Believed(ReadConfig(file))
  PROVE  x \in acmeSANs(File(None, ReadConfig(file).extra))
<1>0. SaysAgain(file, f)
  BY RewrittenReads
<1> DEFINE extra == ReadConfig(file).extra
           g == File(None, extra)
<1>1. extra = [key \in DOMAIN file.slots \ Claimed(file) |-> file.slots[key]] /\ g.slots = extra
  BY DEF ReadConfig, File
<1> HIDE DEF g, extra
<1>2. CASE \E n \in 0..ACMEDomainMaxIndex :
             /\ ACMEDomainKey(n) \in DOMAIN f.slots
             /\ x = slotDomain(f.slots[ACMEDomainKey(n)])
  <2>1. PICK n \in 0..ACMEDomainMaxIndex :
               /\ ACMEDomainKey(n) \in DOMAIN f.slots
               /\ x = slotDomain(f.slots[ACMEDomainKey(n)])
    BY <1>2
  <2> DEFINE key == ACMEDomainKey(n)
  <2>2. key.n = n /\ n <= ACMEDomainMaxIndex
    BY <2>1 DEF ACMEDomainKey, SlotKey, ACMEDomainMaxIndex
  <2> HIDE DEF key
  <2>3. key \in DOMAIN f.slots /\ x = slotDomain(f.slots[key])
    BY <2>1 DEF key
  <2>4. key \notin Claimed(file)
    <3> SUFFICES ASSUME key \in Claimed(file) PROVE FALSE
      OBVIOUS
    <3>1. x = Says(file, key).domain
      BY <1>0, <2>3 DEF SaysAgain
    <3> QED BY <2>2, <3>1, BelievedNames
  <2>5. key \in DOMAIN file.slots \ Claimed(file) /\ f.slots[key] = file.slots[key]
    BY <1>0, <2>3, <2>4 DEF SaysAgain
  <2>6. key \in DOMAIN g.slots /\ x = slotDomain(g.slots[key])
    BY <1>1, <2>3, <2>5
  <2>7. x # ""
    BY OrderedNames
  <2> QED BY <2>1, <2>6, <2>7, OrderedNames DEF key, g, extra
<1>3. CASE \E i \in DOMAIN f.acme : x \in parseNodeACME(f.acme[i]).domains
  <2>1. PICK i \in DOMAIN f.acme : x \in parseNodeACME(f.acme[i]).domains
    BY <1>3
  <2>2. i \in DOMAIN file.acme /\ x \in parseNodeACME(file.acme[i]).domains
    BY <1>0, <2>1 DEF SaysAgain
  <2> QED BY <2>2, BelievedNames
<1> QED BY <1>2, <1>3, OrderedNames

\* Slots that are set over others.
LEMMA SlotsOver ==
  ASSUME NEW g, SlotsOK(g), NEW h, SlotsOK(h)
  PROVE  SlotsOK(Over(g, h))
<1> DEFINE o == Over(g, h)
<1>1. /\ o = [x \in DOMAIN g \union DOMAIN h |-> IF x \in DOMAIN g THEN g[x] ELSE h[x]]
      /\ DOMAIN o = DOMAIN g \union DOMAIN h
  BY DEF Over
<1>2. \A x \in DOMAIN o : IF x \in DOMAIN g THEN o[x] = g[x] ELSE x \in DOMAIN h /\ o[x] = h[x]
  BY <1>1
<1>3. o = [x \in DOMAIN o |-> o[x]]
  BY <1>1
<1> HIDE DEF o
<1>4. DOMAIN o \subseteq SlotKeys
  BY <1>1 DEF SlotsOK
<1>5. IsFiniteSet(DOMAIN o)
  BY <1>1, FS_Union DEF SlotsOK
<1>6. \A x \in DOMAIN o : Listed(o[x])
  BY <1>2 DEF SlotsOK
<1> QED BY <1>3, <1>4, <1>5, <1>6 DEF SlotsOK, o

\* Slots of which some are left.
LEMMA SlotsLeft ==
  ASSUME NEW g, SlotsOK(g), NEW T
  PROVE  SlotsOK([key \in DOMAIN g \ T |-> g[key]])
<1> DEFINE o == [key \in DOMAIN g \ T |-> g[key]]
<1>1. DOMAIN o \subseteq DOMAIN g /\ \A x \in DOMAIN o : o[x] = g[x]
  OBVIOUS
<1>2. o = [x \in DOMAIN o |-> o[x]]
  OBVIOUS
<1> HIDE DEF o
<1>3. IsFiniteSet(DOMAIN o)
  BY <1>1, FS_Subset DEF SlotsOK
<1> QED BY <1>1, <1>2, <1>3 DEF SlotsOK, o

\* A form of SetNodeConfig that leaves a file readable.
FormOK(form) == SlotsOK(form.slots) /\ AcmeOK(form.acme)

\* handleNodeConfigSet leaves such a file.
LEMMA AppliedOK ==
  ASSUME NEW file, FileOK(file), NEW form, FormOK(form), form.drop \in BOOLEAN
  PROVE  FileOK(ApplyConfig(file, form))
<1> DEFINE kept == [key \in DOMAIN file.slots \ form.delete |-> file.slots[key]]
           r == ApplyConfig(file, form)
<1>1. SlotsOK(kept)
  BY SlotsLeft DEF FileOK
<1>2. AcmeOK(None)
  BY DEF AcmeOK, None
<1> HIDE DEF kept
<1>3. /\ r = File(r.acme, r.slots) /\ r.slots = Over(form.slots, kept)
      /\ r.acme = form.acme \/ r.acme = None \/ r.acme = file.acme
  BY DEF ApplyConfig, File, kept
<1> HIDE DEF r
<1>4. SlotsOK(r.slots)
  BY <1>1, <1>3, SlotsOver DEF FormOK
<1>5. AcmeOK(r.acme)
  BY <1>2, <1>3 DEF FormOK, FileOK
<1> QED BY <1>3, <1>4, <1>5 DEF FileOK, r

\* An update whose form is such.
UpdateOK(u) ==
  /\ \A i \in DOMAIN u.domains : u.domains[i].index \in Nat
  /\ IsFiniteSet({ACMEDomainKey(u.domains[i].index) : i \in DOMAIN u.domains})
  /\ SlotsOK(u.extra) /\ u.drop \in BOOLEAN
  /\ \A i \in DOMAIN u.acme : ACMEString(encodeNodeACME(u.acme[i]))

\* SetNodeConfig makes a form of such an update that leaves a file readable.
LEMMA UpdateForm ==
  ASSUME NEW u, UpdateOK(u)
  PROVE  FormOK(ConfigForm(u)) /\ ConfigForm(u).drop \in BOOLEAN
<1> DEFINE at(index) == CHOOSE i \in DOMAIN u.domains : u.domains[i].index = index
           slots == {ACMEDomainKey(u.domains[i].index) : i \in DOMAIN u.domains}
           coded == [key \in slots |-> encodeACMEDomain(u.domains[at(key.n)])]
           acme == [i \in DOMAIN u.acme |-> encodeNodeACME(u.acme[i])]
           form == ConfigForm(u)
<1>1. form.acme = acme /\ form.slots = Over(coded, u.extra) /\ form.drop = u.drop
  BY DEF ConfigForm
<1>2. slots \subseteq SlotKeys
  <2>1. \A n \in Nat : ACMEDomainKey(n) \in SlotKeys
    BY DEF ACMEDomainKey, SlotKey, SlotKeys
  <2> QED BY <2>1 DEF UpdateOK
<1>3. IsFiniteSet(slots)
  BY DEF UpdateOK
<1> HIDE DEF slots, at
<1>4. \A d : Listed(encodeACMEDomain(d))
  BY EncodedDomain DEF Encodes
<1>5. DOMAIN coded = slots /\ coded = [key \in DOMAIN coded |-> coded[key]]
      /\ \A key \in slots : Listed(coded[key])
  BY <1>4
<1> HIDE DEF coded
<1>6. SlotsOK(coded)
  BY <1>2, <1>3, <1>5 DEF SlotsOK
<1>7. SlotsOK(form.slots)
  BY <1>1, <1>6, SlotsOver DEF UpdateOK
<1>8. AcmeOK(acme)
  BY DEF UpdateOK, AcmeOK
<1> QED BY <1>1, <1>7, <1>8 DEF FormOK, UpdateOK

-----------------------------------------------------------------------------
\* What was read and is written back is such an update.
LEMMA BackOK ==
  ASSUME NEW file, FileOK(file)
  PROVE  UpdateOK(Back(file))
<1> DEFINE u == Back(file)
           slots == {ACMEDomainKey(u.domains[i].index) : i \in DOMAIN u.domains}
<1>1. \A i \in DOMAIN u.domains : /\ u.domains[i].index \in Nat
                                  /\ ACMEDomainKey(u.domains[i].index) \in DOMAIN file.slots
  <2> SUFFICES ASSUME NEW i \in DOMAIN u.domains
               PROVE  /\ u.domains[i].index \in Nat
                      /\ ACMEDomainKey(u.domains[i].index) \in DOMAIN file.slots
    OBVIOUS
  <2> DEFINE key == Ordered(file)[i]
  <2>1. /\ key \in Claimed(file) /\ u.domains[i].index = key.n
        /\ key = ACMEDomainKey(u.domains[i].index)
    BY BackIndex
  <2> HIDE DEF key, u
  <2> QED BY <2>1, ClaimedKey
<1>2. /\ u.acme = [i \in DOMAIN file.acme |-> parseNodeACME(file.acme[i])]
      /\ u.extra = [key \in DOMAIN file.slots \ Claimed(file) |-> file.slots[key]]
      /\ u.drop = FALSE
  BY BackIs
<1> HIDE DEF u
<1>3. slots \subseteq DOMAIN file.slots
  BY <1>1
<1>4. IsFiniteSet(slots)
  BY <1>3, FS_Subset DEF FileOK, SlotsOK
<1>5. SlotsOK(u.extra)
  BY <1>2, SlotsLeft DEF FileOK
<1>6. \A i \in DOMAIN u.acme : ACMEString(encodeNodeACME(u.acme[i]))
  <2> SUFFICES ASSUME NEW i \in DOMAIN u.acme PROVE ACMEString(encodeNodeACME(u.acme[i]))
    OBVIOUS
  <2>1. i \in DOMAIN file.acme /\ u.acme[i] = parseNodeACME(file.acme[i])
    BY <1>2
  <2>2. ACMEString(file.acme[i])
    BY <2>1 DEF FileOK, AcmeOK
  <2> QED BY <2>1, <2>2, AcmeRereads
<1> QED BY <1>1, <1>2, <1>4, <1>5, <1>6 DEF UpdateOK, u

\* A form without slots is one too.
LEMMA NoSlots == SlotsOK(<< >>) /\ DOMAIN << >> = {} /\ DOMAIN None = {}
<1>1. DOMAIN << >> = {} /\ IsFiniteSet({})
  BY FS_EmptySet
<1> QED BY <1>1 DEF SlotsOK, None

\* Every update that the clients send is such.
LEMMA UpdatesOK ==
  ASSUME NEW file, FileOK(file), NEW u \in ConfigUpdates(ReadConfig(file))
  PROVE  UpdateOK(u)
<1> DEFINE c == ReadConfig(file)
           slot1 == [index |-> 1, domain |-> "a", plugin |-> "", alias |-> ""]
           b == Back(file)
           back == [b EXCEPT !.drop = TRUE, !.acme = None]
           one == NodeConfigUpdate(None, <<slot1>>, {}, FALSE, << >>)
           less(key) == NodeConfigUpdate(None, << >>, {key}, FALSE, << >>)
<1>1. u = b \/ u = back \/ u = one \/ \E key : u = less(key)
  BY DEF ConfigUpdates, Back
<1>2. UpdateOK(b)
  BY BackOK
<1>3. UpdateOK(back)
  <2>1. /\ back.domains = b.domains /\ back.extra = b.extra
        /\ back.drop = TRUE /\ back.acme = None
    BY DEF Back, WriteBack, NodeConfigUpdate
  <2> HIDE DEF back, b
  <2> QED BY <1>2, <2>1, NoSlots DEF UpdateOK
<1>4. UpdateOK(one)
  <2>1. /\ one.domains = <<slot1>> /\ one.extra = << >>
        /\ one.drop = FALSE /\ one.acme = None
    BY DEF NodeConfigUpdate
  <2>2. slot1.index = 1
    OBVIOUS
  <2> HIDE DEF one, slot1
  <2>3. DOMAIN <<slot1>> = {1} /\ <<slot1>>[1] = slot1
    OBVIOUS
  <2>4. {ACMEDomainKey(one.domains[i].index) : i \in DOMAIN one.domains} = {ACMEDomainKey(1)}
    BY <2>1, <2>2, <2>3
  <2>5. IsFiniteSet({ACMEDomainKey(1)})
    BY FS_Singleton
  <2>6. \A i \in DOMAIN one.domains : one.domains[i].index \in Nat
    BY <2>1, <2>2, <2>3
  <2> QED BY <2>1, <2>4, <2>5, <2>6, NoSlots DEF UpdateOK
<1>5. ASSUME NEW key PROVE UpdateOK(less(key))
  <2> DEFINE l == less(key)
  <2>1. l.domains = << >> /\ l.extra = << >> /\ l.drop = FALSE /\ l.acme = None
    BY DEF NodeConfigUpdate
  <2> HIDE DEF l
  <2>2. {ACMEDomainKey(l.domains[i].index) : i \in DOMAIN l.domains} = {}
    BY <2>1
  <2>3. IsFiniteSet({})
    BY FS_EmptySet
  <2>4. UpdateOK(l)
    BY <2>1, <2>2, <2>3, NoSlots DEF UpdateOK
  <2> QED BY <2>4 DEF l
<1> HIDE DEF b, back, one, less
<1> QED BY <1>1, <1>2, <1>3, <1>4, <1>5

\* A function on an interval is a list.
LEMMA FunctionListed ==
  ASSUME NEW S, NEW n \in 0..2, NEW parts \in [1..n -> S]
  PROVE  Listed(parts) /\ DOMAIN parts = 1..n
<1>1. n \in Nat /\ DOMAIN parts = 1..n
  OBVIOUS
<1>2. Len(parts) = n
  BY <1>1
<1> QED BY <1>1, <1>2 DEF Listed

\* The keys that an administrator may have left are finitely many slots.
LEMMA SeededSlots ==
  ASSUME NEW S \in SUBSET SeedSlots
  PROVE  S \subseteq SlotKeys /\ IsFiniteSet(S)
<1>1. SeedSlots \subseteq SlotKeys
  <2>1. \A n \in Nat, padded \in BOOLEAN : SlotKey(n, padded) \in SlotKeys
    BY DEF SlotKey, SlotKeys
  <2>2. 0 \in Nat /\ 6 \in Nat
    OBVIOUS
  <2> QED BY <2>1, <2>2 DEF SeedSlots
<1>2. IsFiniteSet(SeedSlots)
  <2> DEFINE a == SlotKey(0, FALSE)
             b == SlotKey(0, TRUE)
             c == SlotKey(6, FALSE)
  <2>1. SeedSlots = ({a} \union {b}) \union {c}
    BY DEF SeedSlots
  <2> HIDE DEF a, b, c
  <2>2. IsFiniteSet({a}) /\ IsFiniteSet({b}) /\ IsFiniteSet({c})
    BY FS_Singleton
  <2>3. IsFiniteSet({a} \union {b})
    BY <2>2, FS_Union
  <2> QED BY <2>1, <2>2, <2>3, FS_Union
<1> QED BY <1>1, <1>2, FS_Subset

\* Every seeded property string is a list of parts.
LEMMA SeededStrings ==
  ASSUME NEW parts \in PropertyStrings
  PROVE  Listed(parts)
<1> DEFINE P == {Part("", "a"), Part("", ""), Part("domain", "b"), Part("domain", ""),
                 Part("plugin", "p"), Part("other", "x")}
<1>1. PropertyStrings = UNION {[1..n -> P] : n \in 0..2}
  BY DEF PropertyStrings
<1> HIDE DEF P
<1>2. PICK n \in 0..2 : parts \in [1..n -> P]
  BY <1>1
<1> QED BY <1>2, FunctionListed

\* Every seeded acme string is one, and the names in it are not empty.
LEMMA SeededACME ==
  ASSUME NEW acme \in ACMEStrings
  PROVE  AcmeOK(acme)
<1> DEFINE P == {Part("account", "m"), Part("domains", {"a"}), Part("other", "x")}
<1>1. acme = None \/ \E n \in 0..2 : \E parts \in [1..n -> P] : acme = Some(parts)
  <2> DEFINE Q == UNION {[1..n -> P] : n \in 0..2}
  <2>1. ACMEStrings = {None} \union {Some(parts) : parts \in Q}
    BY DEF ACMEStrings
  <2> HIDE DEF P
  <2>2. \A parts \in Q : \E n \in 0..2 : parts \in [1..n -> P]
    OBVIOUS
  <2> HIDE DEF Q
  <2>3. acme = None \/ \E parts \in Q : acme = Some(parts)
    BY <2>1
  <2> QED BY <2>2, <2>3
<1>2. \A part \in P : part.key = "domains" => "" \notin part.value
  <2>1. Part("account", "m").key # "domains" /\ Part("other", "x").key # "domains"
    BY DEF Part
  <2>2. Part("domains", {"a"}).value = {"a"}
    BY DEF Part
  <2>3. "" \notin {"a"}
    OBVIOUS
  <2> QED BY <2>1, <2>2, <2>3
<1> HIDE DEF P
<1>3. CASE acme = None
  BY <1>3 DEF AcmeOK, None
<1>4. ASSUME NEW n \in 0..2, NEW parts \in [1..n -> P], acme = Some(parts) PROVE AcmeOK(acme)
  <2>1. Listed(parts) /\ DOMAIN parts = 1..n
    BY FunctionListed
  <2>2. \A i \in DOMAIN parts : parts[i] \in P
    OBVIOUS
  <2>3. ACMEString(parts)
    BY <1>2, <2>1, <2>2 DEF ACMEString
  <2>4. DOMAIN <<parts>> = {1} /\ <<parts>>[1] = parts
    OBVIOUS
  <2>5. <<parts>> = [i \in DOMAIN <<parts>> |-> <<parts>>[i]]
    OBVIOUS
  <2> QED BY <1>4, <2>3, <2>4, <2>5 DEF AcmeOK, Some
<1> QED BY <1>1, <1>3, <1>4

\* Every seeded file is one that both readers can read.
LEMMA SeededFiles ==
  ASSUME NEW file \in ConfigFiles
  PROVE  FileOK(file)
<1>1. ASSUME NEW S \in SUBSET SeedSlots, NEW slots \in [S -> PropertyStrings],
             file = File(None, slots)
      PROVE  FileOK(file)
  <2>1. SlotsOK(slots)
    BY SeededSlots, SeededStrings DEF SlotsOK
  <2>2. AcmeOK(None)
    BY DEF AcmeOK, None
  <2>3. file.slots = slots /\ file.acme = None
    BY <1>1 DEF File
  <2> QED BY <1>1, <2>1, <2>2, <2>3 DEF FileOK
<1>2. ASSUME NEW acme \in ACMEStrings, NEW S \in SUBSET {SlotKey(0, FALSE)},
             file = File(acme, [key \in S |-> <<Part("", "a")>>])
      PROVE  FileOK(file)
  <2> DEFINE string == <<Part("", "a")>>
             slots == [key \in S |-> string]
  <2>1. Listed(string)
    BY DEF Listed
  <2> HIDE DEF string
  <2>2. S \in SUBSET SeedSlots
    BY DEF SeedSlots
  <2>3. SlotsOK(slots)
    BY <2>1, <2>2, SeededSlots DEF SlotsOK
  <2>4. AcmeOK(acme)
    BY SeededACME
  <2>5. file = File(acme, slots)
    BY <1>2 DEF string
  <2> HIDE DEF slots
  <2>6. file.slots = slots /\ file.acme = acme
    BY <2>5 DEF File
  <2> QED BY <2>3, <2>4, <2>5, <2>6 DEF FileOK
<1>3. \/ \E S \in SUBSET SeedSlots : \E slots \in [S -> PropertyStrings] :
           file = File(None, slots)
      \/ \E acme \in ACMEStrings : \E S \in SUBSET {SlotKey(0, FALSE)} :
           file = File(acme, [key \in S |-> <<Part("", "a")>>])
  <2> DEFINE Q == UNION {[S -> PropertyStrings] :
                           S \in {T \in SUBSET SeedSlots : Cardinality(T) <= 2}}
             A == {File(None, slots) : slots \in Q}
             T == SUBSET {SlotKey(0, FALSE)}
             made(S) == [key \in S |-> <<Part("", "a")>>]
             B == UNION {{File(acme, made(S)) : acme \in ACMEStrings} : S \in T}
  <2>1. ConfigFiles = A \union B
    BY DEF ConfigFiles
  <2>2. \A slots \in Q : \E S \in SUBSET SeedSlots : slots \in [S -> PropertyStrings]
    OBVIOUS
  <2> HIDE DEF Q, T, made
  <2>3. (\E slots \in Q : file = File(None, slots))
        \/ \E acme \in ACMEStrings : \E S \in T : file = File(acme, made(S))
    BY <2>1
  <2> QED BY <2>2, <2>3 DEF T, made
<1> QED BY <1>1, <1>2, <1>3

\* The node's configuration where clients work on it.
ConfigKept == family = {"nodeconfig"} => FileOK(st.config)

\* None of their requests leaves a file that cannot be read.
LEMMA ConfigServed ==
  ASSUME ServicesInv, ServeAnyone, family = {"nodeconfig"}, FileOK(st.config)
  PROVE  FileOK(st'.config)
<1>1. PICK q \in Requests : st' = Handle(st, q).st
  BY DEF ServeAnyone, Serve
<1>2. Requests = ConfigRequests
  BY DEF Requests
<1>3. PICK u \in ConfigUpdates(ReadConfig(st.config)) :
        q = [op |-> "NodeConfigSet", stale |-> FALSE, form |-> ConfigForm(u)]
  BY <1>1, <1>2 DEF ConfigRequests
<1> DEFINE form == ConfigForm(u)
           config == ApplyConfig(st.config, form)
<1>4. q.op = "NodeConfigSet" /\ q.stale = FALSE /\ q.form = form
  BY <1>3
<1>5. UpdateOK(u)
  BY UpdatesOK
<1>6. FormOK(form) /\ form.drop \in BOOLEAN
  BY <1>5, UpdateForm
<1> HIDE DEF form
<1>7. FileOK(config)
  BY <1>6, AppliedOK
<1> HIDE DEF config
<1>8. Handle(st, q).st = [st EXCEPT !.config = config]
  BY <1>4, Answered DEF Handle, NodeConfigSet, config
<1>9. "config" \in DOMAIN st
  BY DEF ServicesInv, StateOK, ServerFields
<1> QED BY <1>1, <1>7, <1>8, <1>9

\* The file stays one that the SDK and the server can read.
LEMMA ConfigInvariant == Spec => []ConfigKept
<1>1. Init => ConfigKept
  <2> SUFFICES ASSUME Init, family = {"nodeconfig"} PROVE FileOK(st.config)
    BY DEF ConfigKept
  <2>1. family \notin ClientFamilies /\ family # {"cluster"}
    BY DEF ClientFamilies
  <2>2. PICK config \in ConfigFiles : st = Seeded(<< >>, config)
    BY <2>1 DEF Init, ServerInit
  <2>3. st.config = config
    BY <2>2 DEF Seeded
  <2> QED BY <2>3, SeededFiles
<1>2. ServicesInv /\ ConfigKept /\ [Next]_servicesVars => ConfigKept'
  <2> SUFFICES ASSUME ServicesInv, ConfigKept, [Next]_servicesVars, family' = {"nodeconfig"}
               PROVE  FileOK(st'.config)
    BY DEF ConfigKept, FileOK, SlotsOK, AcmeOK
  <2>1. family = {"nodeconfig"}
    BY DEF Next, servicesVars, ServeAnyone, Serve, Upgrade, NewClient, Invoke, Ask, Deliver,
           Resend, GiveUp, Receive
  <2>2. FileOK(st.config)
    BY <2>1 DEF ConfigKept
  <2>3. CASE ServeAnyone
    BY <2>1, <2>2, <2>3, ConfigServed
  <2>4. ASSUME NEW c \in Clients, Deliver(c) PROVE FALSE
    <3>1. call[c].pc = "sent"
      BY <2>4 DEF Deliver
    <3>2. Asked(call[c].q.op)
      BY <3>1 DEF ServicesInv, OpsFit
    <3> QED BY <2>1, <3>2 DEF Asked
  <2>5. CASE UNCHANGED st
    BY <2>2, <2>5
  <2>6. ServeAnyone \/ (\E c \in Clients : Deliver(c)) \/ UNCHANGED st
    BY DEF Next, servicesVars, Upgrade, NewClient, Invoke, Ask, Resend, GiveUp, Receive
  <2> QED BY <2>3, <2>4, <2>5, <2>6
<1> QED BY <1>1, <1>2, ServicesInvariant, PTL DEF Spec

\* What ConfigRoundTrips says of one file.
RoundTrips(file) ==
  LET c == ReadConfig(file)
      u == WriteBack(c)
      f == ApplyConfig(file, ConfigForm(u))
  IN  IF Refused(u)
      THEN \/ \E key \in DOMAIN c.acmeDomains : key.n > ACMEDomainMaxIndex
           \/ \E i \in DOMAIN c.acme : c.acme[i] = parseNodeACME(<< >>)
      ELSE /\ ReadConfig(f) = c
           /\ Believed(c) \subseteq acmeSANs(f)
           /\ acmeSANs(f) \ Believed(c) \subseteq acmeSANs(File(None, c.extra))

\* The codec (parseACMEDomain, encodeACMEDomain, parseNodeACME, encodeNodeACME,
\* SetNodeConfig) for a file with any number of slots, under keys of any number,
\* padded or not, and property strings of any length: what was read and is
\* written back is read again, by the SDK and by the server.
THEOREM FileRoundTrips ==
  ASSUME NEW file, FileOK(file)
  PROVE  RoundTrips(file)
<1> DEFINE c == ReadConfig(file)
           u == WriteBack(c)
           f == ApplyConfig(file, ConfigForm(u))
<1>1. u = Back(file)
  BY DEF Back
<1>2. Rewritten(file, f)
  BY <1>1, BackApplied
<1>3. ReadConfig(f) = c
  BY <1>2, RewrittenSame
<1>4. Believed(c) \subseteq acmeSANs(f)
  <2> HIDE DEF f
  <2> QED BY <1>2, BelievedOrdered
<1>5. acmeSANs(f) \ Believed(c) \subseteq acmeSANs(File(None, c.extra))
  <2> HIDE DEF f
  <2> QED BY <1>2, OtherNames
<1>6. ASSUME Refused(u)
      PROVE  \/ \E key \in DOMAIN c.acmeDomains : key.n > ACMEDomainMaxIndex
             \/ \E i \in DOMAIN c.acme : c.acme[i] = parseNodeACME(<< >>)
  <2>1. \/ \E key \in Claimed(file) : key.n > ACMEDomainMaxIndex
        \/ \E i \in DOMAIN file.acme : parseNodeACME(file.acme[i]) = NoACME
    BY <1>1, <1>6, BackRefused
  <2>2. /\ c.acme = [i \in DOMAIN file.acme |-> parseNodeACME(file.acme[i])]
        /\ DOMAIN c.acmeDomains = Claimed(file)
    BY DEF ReadConfig
  <2> HIDE DEF c
  <2> QED BY <2>1, <2>2, NothingParsed
<1> QED BY <1>3, <1>4, <1>5, <1>6 DEF RoundTrips

\* Whatever is in the file, reading it with the SDK and writing it all back
\* leaves what was read, no slot is lost or doubled, and the server then orders
\* for every name the client read; the write is refused only for a slot PVE does
\* not have or an acme value that renders empty.
THEOREM RoundTripCorrect == Spec => []ConfigRoundTrips
<1>1. ConfigKept => ConfigRoundTrips
  <2> SUFFICES ASSUME ConfigKept, family = {"nodeconfig"} PROVE ConfigRoundTrips
    BY DEF ConfigRoundTrips
  <2>1. RoundTrips(st.config)
    BY FileRoundTrips DEF ConfigKept
  <2> QED BY <2>1 DEF ConfigRoundTrips, RoundTrips
<1> QED BY <1>1, ConfigInvariant, PTL
=============================================================================
