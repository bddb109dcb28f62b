---------------------------- MODULE GuestsProofs ----------------------------
(***************************************************************************)
(* What the guest handlers of the mock server keep for every number of     *)
(* nodes, VMIDs and concurrent requests.                                   *)
(***************************************************************************)
EXTENDS MockGuests, FiniteSetTheorems, TLAPS

Labels == {"idle", "configure", "clone", "remove", "unsnap", "own", "task",
           "finish", "reply"}

GuestRecord == [node : Nodes, status : Statuses, template : BOOLEAN,
                snapshot : BOOLEAN, config : BOOLEAN, origin : Nat]

(***************************************************************************)
(* A handler past its first section has the request that brought it there. *)
(***************************************************************************)
Handlers ==
  /\ pc \in [Clients -> Labels]
  /\ DOMAIN req = Clients
  /\ DOMAIN upid = Clients
  /\ \A c \in Clients : pc[c] # "idle" => req[c] \in Requests
  /\ \A c \in Clients : pc[c] = "clone" => req[c].op = "clone"

(***************************************************************************)
(* Records are well typed and told apart by the number they were made      *)
(* under; none has a number that is still to be given, and each is in one  *)
(* place.                                                                  *)
(***************************************************************************)
Placed ==
  /\ made \in Nat
  /\ DOMAIN guests \subseteq Keys
  /\ \A k \in DOMAIN guests : guests[k] \in GuestRecord
  /\ \A k \in DOMAIN guests : guests[k].origin <= made
  /\ OnePlacePerGuest

GuestsInv == Handlers /\ Placed

(***************************************************************************)
(* A task that a handler has started is known, and one whose UPID was      *)
(* reported, or is about to be, is finished or about to be finished again. *)
(***************************************************************************)
Settled(u) ==
  /\ u \in DOMAIN tasks
  /\ tasks[u] = "OK" \/ \E c \in Clients : pc[c] = "finish" /\ upid[c] = u

TasksSettled ==
  /\ \A u \in acked : Settled(u)
  /\ \A c \in Clients : /\ pc[c] = "finish" => upid[c] \in DOMAIN tasks
                        /\ pc[c] = "reply" => Settled(upid[c])

-----------------------------------------------------------------------------
(***************************************************************************)
(* What a section does to the guests, which is all that the invariant and  *)
(* NoGuestLost need to know of it: it edits records in place, makes one,   *)
(* takes one away or moves one.                                            *)
(***************************************************************************)
Edited ==
  /\ made' = made
  /\ DOMAIN guests' = DOMAIN guests
  /\ \A k \in DOMAIN guests : /\ guests'[k] \in GuestRecord
                              /\ guests'[k].node = guests[k].node
                              /\ guests'[k].origin = guests[k].origin

TookAway(c) ==
  /\ pc[c] = "remove" /\ pc'[c] = "task"
  /\ guests' = Without(req[c].key)
  /\ made' = made

Moved(c, r) ==
  /\ r.op = "migrate" /\ r.key \in DOMAIN guests
  /\ pc[c] = "idle" /\ pc'[c] = "task" /\ req'[c] = r
  /\ guests' = Migrated(r)
  /\ made' = made

Change(c) == \/ Edited
             \/ \E key \in Keys : AddGuest(key)
             \/ TookAway(c)
             \/ \E r \in Requests : Moved(c, r)

\* What NoGuestLost says of one step.
NoneLost ==
  \A k \in DOMAIN guests :
    guests[k].origin \notin Origins(guests') => LossExplained(k)

\* The fields a request has by its operation.
LEMMA RequestFacts ==
  ASSUME NEW r \in Requests
  PROVE  /\ r.key \in Keys
         /\ r.op = "clone" => r.newid \in VMIDs
         /\ r.op = "migrate" => r.target \in Nodes
         /\ r.op = "config" => r.set \in BOOLEAN
BY DEF Requests, powerVerbs

\* A new guest takes a number that no record has.
LEMMA AddKeeps ==
  ASSUME Placed, NEW key \in Keys, AddGuest(key)
  PROVE  Placed' /\ NoneLost
<1>1. made' = made + 1 /\ made \in Nat
  BY DEF AddGuest, Placed
<1>2. /\ DOMAIN guests' = DOMAIN guests \union {key}
      /\ guests'[key] = Guest(key.node, "stopped", made')
      /\ \A k \in DOMAIN guests : k # key => guests'[k] = guests[k]
  BY DEF AddGuest, Put
<1>3. /\ guests'[key] \in GuestRecord
      /\ guests'[key].node = key.node /\ guests'[key].origin = made + 1
  BY <1>1, <1>2 DEF Guest, GuestRecord, Statuses, Keys
<1>4. \A k \in DOMAIN guests : guests[k].origin \in Nat /\ guests[k].origin # made + 1
  BY <1>1 DEF Placed, GuestRecord
<1>5. Placed'
  <2>1. OnePlacePerGuest'
    BY <1>2, <1>3, <1>4 DEF Placed, OnePlacePerGuest
  <2>2. \A k \in DOMAIN guests' : guests'[k].origin <= made'
    BY <1>1, <1>2, <1>3, <1>4 DEF Placed
  <2> QED
    BY <1>1, <1>2, <1>3, <2>1, <2>2 DEF Placed
<1>6. NoneLost
  <2> SUFFICES ASSUME NEW k \in DOMAIN guests,
                      guests[k].origin \notin Origins(guests')
               PROVE  LossExplained(k)
    BY DEF NoneLost
  <2>1. k = key
    BY <1>2 DEF Origins
  <2> QED
    BY <2>1, <1>2, <1>3, <1>4 DEF LossExplained
<1> QED
  BY <1>5, <1>6

\* A record edited in place stays where it is, under its number.
LEMMA EditKeeps ==
  ASSUME Placed, Edited
  PROVE  Placed' /\ NoneLost
BY DEF Placed, Edited, OnePlacePerGuest, NoneLost, Origins

\* A removal takes the record of its own request's key and no other.
LEMMA TakeKeeps ==
  ASSUME Placed, NEW c \in Clients, TookAway(c)
  PROVE  Placed' /\ NoneLost
<1>1. Placed'
  BY DEF Placed, TookAway, Without, OnePlacePerGuest
<1>2. NoneLost
  <2> SUFFICES ASSUME NEW k \in DOMAIN guests,
                      guests[k].origin \notin Origins(guests')
               PROVE  LossExplained(k)
    BY DEF NoneLost
  <2>1. k = req[c].key
    BY DEF TookAway, Without, Origins
  <2> QED
    BY <2>1 DEF LossExplained, TookAway
<1> QED
  BY <1>1, <1>2

\* A migration moves one record, over whatever the target has under that VMID;
\* it loses the record only when source and target are the same node.
LEMMA MoveKeeps ==
  ASSUME Placed, NEW c \in Clients, NEW r \in Requests, Moved(c, r)
  PROVE  Placed' /\ NoneLost
<1> DEFINE to  == [r.key EXCEPT !.node = r.target]
           rec == [guests[r.key] EXCEPT !.node = r.target]
           put == Put(guests, to, rec)
<1>1. r.key \in Keys /\ r.target \in Nodes /\ r.key \in DOMAIN guests
  BY RequestFacts DEF Moved
<1>2. to \in Keys /\ to.node = r.target /\ (to = r.key <=> r.target = r.key.node)
  BY <1>1 DEF Keys
<1>3. /\ rec \in GuestRecord /\ rec.node = r.target
      /\ rec.origin = guests[r.key].origin
  BY <1>1 DEF Placed, GuestRecord
<1>4. guests' = [k \in DOMAIN put \ {r.key} |-> put[k]] /\ made' = made
  BY DEF Moved, Migrated
<1> HIDE DEF to, rec
<1>5. /\ DOMAIN put = DOMAIN guests \union {to} /\ put[to] = rec
      /\ \A k \in DOMAIN guests : k # to => put[k] = guests[k]
  BY DEF Put
<1> HIDE DEF put
<1>6. /\ DOMAIN guests' = (DOMAIN guests \union {to}) \ {r.key}
      /\ to # r.key => guests'[to] = rec
      /\ \A k \in DOMAIN guests : k # to /\ k # r.key => guests'[k] = guests[k]
  BY <1>4, <1>5
<1>7. Placed'
  <2>1. OnePlacePerGuest'
    BY <1>1, <1>2, <1>3, <1>6 DEF Placed, OnePlacePerGuest
  <2> QED
    BY <1>1, <1>2, <1>3, <1>4, <1>6, <2>1 DEF Placed
<1>8. NoneLost
  <2> SUFFICES ASSUME NEW k \in DOMAIN guests,
                      guests[k].origin \notin Origins(guests')
               PROVE  LossExplained(k)
    BY DEF NoneLost
  <2>1. k = r.key \/ k = to
    BY <1>6 DEF Origins
  <2>2. CASE to = r.key
    BY <2>1, <2>2, <1>2 DEF LossExplained, Moved
  <2>3. CASE to # r.key
    <3>1. to \in DOMAIN guests' /\ guests'[to].origin = guests[r.key].origin
      BY <2>3, <1>3, <1>6
    <3>2. k = to
      BY <2>1, <3>1 DEF Origins
    <3>3. guests[k].origin # guests[r.key].origin
      BY <3>2, <2>3, <1>1 DEF Placed, OnePlacePerGuest
    <3> QED
      BY <3>1, <3>2, <3>3 DEF LossExplained
  <2> QED
    BY <2>2, <2>3
<1> QED
  BY <1>7, <1>8

\* So whatever a section does to the guests, each record is in one place and
\* none is lost unexplained.
LEMMA ChangeKeeps ==
  ASSUME Placed, NEW c \in Clients, Change(c)
  PROVE  Placed' /\ NoneLost
BY AddKeeps, EditKeeps, TakeKeeps, MoveKeeps DEF Change

-----------------------------------------------------------------------------
\* The mock server starts with the guests a test seeds, each in its place.
LEMMA GuestsInit == Init => GuestsInv /\ TasksSettled
<1> SUFFICES ASSUME Init PROVE GuestsInv /\ TasksSettled
  OBVIOUS
<1>1. Handlers
  BY DEF Init, Handlers, Labels
<1>2. TasksSettled
  BY DEF Init, TasksSettled
<1>3. PICK seeded \in SUBSET Keys :
        /\ IsFiniteSet(seeded)
        /\ \E order \in [seeded -> 1..Cardinality(seeded)],
              status \in [seeded -> {"stopped", "running"}] :
             /\ \A k, l \in seeded : order[k] = order[l] => k = l
             /\ guests = [k \in seeded |-> Guest(k.node, status[k], order[k])]
             /\ made = Cardinality(seeded)
  BY DEF Init
<1>4. PICK order \in [seeded -> 1..Cardinality(seeded)],
           status \in [seeded -> {"stopped", "running"}] :
        /\ \A k, l \in seeded : order[k] = order[l] => k = l
        /\ guests = [k \in seeded |-> Guest(k.node, status[k], order[k])]
        /\ made = Cardinality(seeded)
  BY <1>3
<1>5. made \in Nat /\ DOMAIN guests = seeded
  BY <1>3, <1>4, FS_CardinalityType
<1>6. ASSUME NEW k \in seeded
      PROVE  /\ guests[k] \in GuestRecord /\ guests[k].node = k.node
             /\ guests[k].origin = order[k] /\ order[k] \in 1..made
  BY <1>4, <1>5 DEF Guest, GuestRecord, Statuses, Keys
<1> QED
  BY <1>1, <1>2, <1>4, <1>5, <1>6 DEF GuestsInv, Placed, OnePlacePerGuest

\* A handler that goes on keeps its request, and one that begins has one.
LEMMA GotoHandlers ==
  ASSUME Handlers, NEW c \in Clients, NEW label \in Labels, Goto(c, label),
         DOMAIN req' = Clients, DOMAIN upid' = Clients,
         \A d \in Clients : d # c => req'[d] = req[d],
         label # "idle" => req'[c] \in Requests,
         label = "clone" => req'[c].op = "clone"
  PROVE  Handlers' /\ pc'[c] = label
BY DEF Handlers, Goto

\* A section that replaces one record by one of the same node and number is an
\* edit.
LEMMA EditIsEdited ==
  ASSUME Placed, NEW key \in DOMAIN guests, NEW rec \in GuestRecord,
         rec.node = guests[key].node, rec.origin = guests[key].origin,
         guests' = [guests EXCEPT ![key] = rec], made' = made
  PROVE  Edited
BY DEF Edited, Placed

\* So is one that leaves the guests alone.
LEMMA SameIsEdited ==
  ASSUME Placed, UNCHANGED <<guests, made>>
  PROVE  Edited
BY DEF Edited, Placed

\* A first section edits one guest, makes one, moves one or only looks.
LEMMA FirstSectionChanges ==
  ASSUME GuestsInv, NEW c \in Clients, NEW r \in Requests, pc[c] = "idle",
         kind # "volume", Routed(r),
         req' = [req EXCEPT ![c] = r], UNCHANGED upid, FirstSection(c, r)
  PROVE  Change(c) /\ Handlers'
<1>0. /\ Handlers /\ Placed /\ r.key \in Keys
      /\ DOMAIN req' = Clients /\ DOMAIN upid' = Clients /\ req'[c] = r
      /\ \A d \in Clients : d # c => req'[d] = req[d]
  BY RequestFacts DEF GuestsInv, Handlers
<1>1. ASSUME NEW label \in Labels, Goto(c, label), label = "clone" => r.op = "clone"
      PROVE  Handlers' /\ pc'[c] = label
  BY <1>0, <1>1, GotoHandlers
<1>2. ASSUME NEW ok, NEW next \in Labels, next = "clone" => r.op = "clone",
             CheckGuest(c, ok, next)
      PROVE  Change(c) /\ Handlers'
  <2>1. CASE ok
    BY <1>0, <1>1, <1>2, <2>1, SameIsEdited DEF CheckGuest, Change
  <2>2. CASE ~ ok
    <3>1. Goto(c, "idle") /\ "idle" \in Labels
      BY <1>2, <2>2 DEF CheckGuest, Labels
    <3> QED
      BY <1>0, <1>1, <1>2, <3>1, SameIsEdited DEF CheckGuest, Change
  <2> QED
    BY <2>1, <2>2
<1>3. ASSUME NEW rec, EditGuest(c, r.key, rec),
             Exists(r.key) => /\ rec \in GuestRecord
                              /\ rec.node = guests[r.key].node
                              /\ rec.origin = guests[r.key].origin
      PROVE  Change(c) /\ Handlers'
  <2>1. CASE Exists(r.key)
    <3>1. Goto(c, "task") /\ "task" \in Labels
      BY <1>3, <2>1 DEF EditGuest, Labels
    <3>2. Edited
      BY <1>0, <1>3, <2>1, EditIsEdited DEF EditGuest, Exists
    <3> QED
      BY <1>1, <3>1, <3>2 DEF Change
  <2>2. CASE ~ Exists(r.key)
    <3>1. Goto(c, "idle") /\ "idle" \in Labels
      BY <1>3, <2>2 DEF EditGuest, Labels
    <3>2. Edited
      BY <1>0, <1>3, <2>2, SameIsEdited DEF EditGuest
    <3> QED
      BY <1>1, <3>1, <3>2 DEF Change
  <2> QED
    BY <2>1, <2>2
<1>4. Exists(r.key) => guests[r.key] \in GuestRecord
  BY <1>0 DEF Exists, Placed
<1>5. {"task", "clone", "remove", "unsnap", "configure", "idle"} \subseteq Labels
  BY DEF Labels
<1>6. CASE r.op = "create"
  <2>1. AddGuest(r.key) /\ Goto(c, "configure")
    BY <1>6 DEF FirstSection, CreateGuest, powerVerbs
  <2> QED
    BY <1>0, <1>1, <1>5, <2>1 DEF Change
<1>7. CASE r.op = "clone"
  <2>1. CheckGuest(c, Exists(r.key), "clone")
    BY <1>7 DEF FirstSection, CloneGuest, powerVerbs
  <2> QED
    BY <1>2, <1>5, <1>7, <2>1
<1>8. CASE r.op = "template"
  <2>1. Template(c, r)
    BY <1>8 DEF FirstSection, powerVerbs
  <2>2. CASE Exists(r.key) /\ guests[r.key].status # "stopped"
    BY <1>2, <1>5, <2>1, <2>2 DEF Template
  <2>3. CASE ~ (Exists(r.key) /\ guests[r.key].status # "stopped")
    <3>1. EditGuest(c, r.key, [guests[r.key] EXCEPT !.template = TRUE])
      BY <2>1, <2>3 DEF Template
    <3> QED
      BY <1>3, <1>4, <3>1 DEF GuestRecord
  <2> QED
    BY <2>2, <2>3
<1>9. CASE r.op = "delete"
  <2>1. CheckGuest(c, Exists(r.key), "remove")
    BY <1>9 DEF FirstSection, DeleteGuest, powerVerbs
  <2> QED
    BY <1>2, <1>5, <2>1
<1>10. CASE r.op = "migrate"
  <2>1. Migrate(c, r)
    BY <1>10 DEF FirstSection, powerVerbs
  <2>2. CASE ~ Exists(r.key)
    BY <1>2, <1>5, <2>1, <2>2 DEF Migrate
  <2>3. CASE Exists(r.key)
    <3>1. guests' = Migrated(r) /\ Goto(c, "task") /\ made' = made
      BY <2>1, <2>3 DEF Migrate
    <3>2. Handlers' /\ pc'[c] = "task"
      BY <1>1, <1>5, <3>1
    <3> QED
      BY <1>0, <1>10, <2>3, <3>1, <3>2 DEF Change, Moved, Exists
  <2> QED
    BY <2>2, <2>3
<1>11. CASE r.op = "snapshot"
  <2>1. EditGuest(c, r.key, [guests[r.key] EXCEPT !.snapshot = TRUE])
    BY <1>11 DEF FirstSection, SnapshotCreate, powerVerbs
  <2> QED
    BY <1>3, <1>4, <2>1 DEF GuestRecord
<1>12. CASE r.op = "rollback"
  <2>1. CheckGuest(c, HasSnapshot(r.key), "task")
    BY <1>12 DEF FirstSection, SnapshotRollback, powerVerbs
  <2> QED
    BY <1>2, <1>5, <2>1
<1>13. CASE r.op = "delsnapshot"
  <2>1. CheckGuest(c, HasSnapshot(r.key), "unsnap")
    BY <1>13 DEF FirstSection, SnapshotDelete, powerVerbs
  <2> QED
    BY <1>2, <1>5, <2>1
<1>14. CASE r.op = "move"
  <2>1. CheckGuest(c, Exists(r.key), "task")
    BY <1>14 DEF FirstSection, MoveDisk, powerVerbs
  <2> QED
    BY <1>2, <1>5, <2>1
<1>15. CASE r.op = "config"
  <2>1. SetConfig(c, r) /\ r.set \in BOOLEAN
    BY <1>15, RequestFacts DEF FirstSection, powerVerbs
  <2>2. Handlers'
    BY <1>1, <1>5, <2>1 DEF SetConfig
  <2>3. CASE Exists(r.key)
    <3>1. guests' = [guests EXCEPT ![r.key] = [guests[r.key] EXCEPT !.config = r.set]]
      BY <2>1, <2>3 DEF SetConfig
    <3>2. /\ [guests[r.key] EXCEPT !.config = r.set] \in GuestRecord
          /\ [guests[r.key] EXCEPT !.config = r.set].node = guests[r.key].node
          /\ [guests[r.key] EXCEPT !.config = r.set].origin = guests[r.key].origin
      BY <1>4, <2>1, <2>3 DEF GuestRecord
    <3> QED
      BY <1>0, <2>1, <2>2, <2>3, <3>1, <3>2, EditIsEdited DEF SetConfig, Exists, Change
  <2>4. CASE ~ Exists(r.key)
    BY <1>0, <2>1, <2>2, <2>4, SameIsEdited DEF SetConfig, Change
  <2> QED
    BY <2>3, <2>4
<1>16. CASE r.op \in powerVerbs
  <2>1. EditGuest(c, r.key, [guests[r.key] EXCEPT !.status = qemuPowerStatus(r.op)])
    BY <1>16 DEF FirstSection, Power, powerVerbs
  <2>2. qemuPowerStatus(r.op) \in Statuses
    BY <1>16 DEF qemuPowerStatus, powerVerbs, Statuses
  <2> QED
    BY <1>3, <1>4, <2>1, <2>2 DEF GuestRecord
<1> QED
  BY <1>6, <1>7, <1>8, <1>9, <1>10, <1>11, <1>12, <1>13, <1>14, <1>15, <1>16
  DEF Routed, Requests

\* A section on the volumes leaves the guests alone.
LEMMA VolumeSectionChanges ==
  ASSUME GuestsInv, NEW c \in Clients, NEW r \in Requests, kind = "volume",
         Routed(r), req' = [req EXCEPT ![c] = r], UNCHANGED <<upid, guests, made>>,
         VolumeSection(c, r)
  PROVE  Change(c) /\ Handlers'
<1>1. PICK label \in {"idle", "own", "task"} : Goto(c, label)
  BY DEF Routed, VolumeSection, VolumeCreate, StorageUpload, VolumeDelete
<1>2. /\ DOMAIN req' = Clients /\ DOMAIN upid' = Clients /\ req'[c] = r
      /\ \A d \in Clients : d # c => req'[d] = req[d]
  BY DEF GuestsInv, Handlers
<1>3. Handlers'
  BY <1>1, <1>2, GotoHandlers DEF GuestsInv, Labels
<1> QED
  BY <1>3, SameIsEdited DEF GuestsInv, Change

\* Every section of every handler changes the guests in one of the four ways.
LEMMA SectionChanges ==
  ASSUME GuestsInv, NEW c \in Clients,
         \/ Accept(c) \/ Configure(c) \/ CloneAdd(c) \/ Remove(c) \/ Unsnap(c)
         \/ Own(c) \/ AddTask(c) \/ FinishTask(c) \/ Reply(c)
  PROVE  Change(c) /\ Handlers'
<1>0. Handlers /\ Placed /\ DOMAIN upid = Clients /\ DOMAIN req = Clients
  BY DEF GuestsInv, Handlers
<1>1. pc[c] # "idle" => req[c] \in Requests
  BY <1>0 DEF Handlers
<1>2. ASSUME NEW label \in Labels \ {"clone"}, Goto(c, label), pc[c] # "idle",
             UNCHANGED req, DOMAIN upid' = Clients
      PROVE  Handlers' /\ pc'[c] = label
  BY <1>0, <1>1, <1>2, GotoHandlers
<1>3. "task" \in Labels /\ "idle" \in Labels /\ "finish" \in Labels /\ "reply" \in Labels
  BY DEF Labels
<1>4. CASE Accept(c)
  <2>1. PICK r \in Requests :
           /\ Routed(r)
           /\ req' = [req EXCEPT ![c] = r]
           /\ IF kind = "volume"
              THEN VolumeSection(c, r) /\ UNCHANGED <<guests, made>>
              ELSE FirstSection(c, r) /\ UNCHANGED volumes
    BY <1>4 DEF Accept
  <2>2. pc[c] = "idle" /\ UNCHANGED upid
    BY <1>4 DEF Accept
  <2> QED
    BY <2>1, <2>2, FirstSectionChanges, VolumeSectionChanges
<1>5. CASE Configure(c)
  <2>1. Edited
    BY <1>0, <1>5 DEF Configure, Edited, Placed, GuestRecord
  <2> QED
    BY <1>0, <1>2, <1>3, <1>5, <2>1 DEF Configure, Change
<1>6. CASE CloneAdd(c)
  <2>1. req[c] \in Requests /\ req[c].op = "clone"
    BY <1>0, <1>6 DEF CloneAdd, Handlers
  <2>2. [req[c].key EXCEPT !.id = req[c].newid] \in Keys
    BY <2>1, RequestFacts DEF Keys
  <2> QED
    BY <1>0, <1>2, <1>3, <1>6, <2>2 DEF CloneAdd, Change
<1>7. CASE Remove(c)
  <2>1. Handlers' /\ pc'[c] = "task"
    BY <1>0, <1>2, <1>3, <1>7 DEF Remove
  <2> QED
    BY <1>7, <2>1 DEF Remove, Removed, Change, TookAway
<1>8. CASE Unsnap(c)
  <2>1. Edited
    BY <1>0, <1>8 DEF Unsnap, Edited, Placed, GuestRecord
  <2> QED
    BY <1>0, <1>2, <1>3, <1>8, <2>1 DEF Unsnap, Change
<1>9. CASE Own(c)
  BY <1>0, <1>2, <1>3, <1>9, SameIsEdited DEF Own, Change
<1>10. CASE AddTask(c)
  BY <1>0, <1>2, <1>3, <1>10, SameIsEdited DEF AddTask, Change
<1>11. CASE FinishTask(c)
  BY <1>0, <1>2, <1>3, <1>11, SameIsEdited DEF FinishTask, Change
<1>12. CASE Reply(c)
  BY <1>0, <1>2, <1>3, <1>12, SameIsEdited DEF Reply, Change
<1> QED
  BY <1>4, <1>5, <1>6, <1>7, <1>8, <1>9, <1>10, <1>11, <1>12

\* The invariant is inductive, and no step loses a guest unexplained.
LEMMA GuestsNext == GuestsInv /\ [Next]_vars => GuestsInv' /\ (NoneLost \/ UNCHANGED vars)
<1> SUFFICES ASSUME GuestsInv, [Next]_vars
             PROVE  GuestsInv' /\ (NoneLost \/ UNCHANGED vars)
  OBVIOUS
<1>1. CASE UNCHANGED vars
  BY <1>1 DEF vars, GuestsInv, Handlers, Placed, OnePlacePerGuest
<1>2. CASE Tick
  BY <1>2, EditKeeps, SameIsEdited DEF Tick, GuestsInv, Handlers
<1>3. ASSUME NEW c \in Clients,
             \/ Accept(c) \/ Configure(c) \/ CloneAdd(c) \/ Remove(c) \/ Unsnap(c)
             \/ Own(c) \/ AddTask(c) \/ FinishTask(c) \/ Reply(c)
      PROVE  GuestsInv' /\ NoneLost
  BY <1>3, SectionChanges, ChangeKeeps DEF GuestsInv
<1> QED
  BY <1>1, <1>2, <1>3 DEF Next

(***************************************************************************)
(* Every record is well typed and in one place, under the node it names,   *)
(* whatever the handlers of any number of requests interleave to.          *)
(***************************************************************************)
THEOREM GuestsInvariant == Spec => []GuestsInv
BY GuestsInit, GuestsNext, PTL DEF Spec

(***************************************************************************)
(* A guest is found under the node it names and under no other.            *)
(***************************************************************************)
THEOREM OnePlaceCorrect == Spec => []OnePlacePerGuest
<1>1. GuestsInv => OnePlacePerGuest
  BY DEF GuestsInv, Placed
<1> QED
  BY <1>1, GuestsInvariant, PTL

(***************************************************************************)
(* No guest is lost by a handler working on another: every record that     *)
(* vanishes was deleted, replaced, or migrated onto its own node.          *)
(***************************************************************************)
THEOREM NoGuestLostCorrect == Spec => NoGuestLost
<1>1. GuestsInv /\ [Next]_vars => [NoneLost]_vars
  BY GuestsNext
<1> QED
  BY <1>1, GuestsInvariant, PTL DEF Spec, NoGuestLost, NoneLost

-----------------------------------------------------------------------------
\* No first section ends in the middle of finishedTask.
LEMMA AcceptGoes ==
  ASSUME NEW c \in Clients, Accept(c)
  PROVE  \E label \in Labels \ {"finish", "reply"} : Goto(c, label)
<1>1. PICK r \in Requests :
         /\ Routed(r)
         /\ IF kind = "volume" THEN VolumeSection(c, r) ELSE FirstSection(c, r)
  BY DEF Accept
<1>2. ASSUME NEW label \in {"idle", "task", "configure", "clone", "remove", "unsnap", "own"},
             Goto(c, label)
      PROVE  \E l \in Labels \ {"finish", "reply"} : Goto(c, l)
  BY <1>2 DEF Labels
<1>3. ASSUME NEW ok, NEW next \in {"task", "clone", "remove", "unsnap"},
             CheckGuest(c, ok, next)
      PROVE  \E l \in Labels \ {"finish", "reply"} : Goto(c, l)
  <2>1. Goto(c, next) \/ Goto(c, "idle")
    BY <1>3 DEF CheckGuest
  <2> QED
    BY <1>2, <2>1
<1>4. ASSUME NEW rec, EditGuest(c, r.key, rec)
      PROVE  \E l \in Labels \ {"finish", "reply"} : Goto(c, l)
  BY <1>2, <1>4 DEF EditGuest
<1>5. CASE kind = "volume"
  BY <1>1, <1>2, <1>5
  DEF Routed, VolumeSection, VolumeCreate, StorageUpload, VolumeDelete
<1>6. CASE kind # "volume"
  <2>1. \/ CreateGuest(c, r) \/ CloneGuest(c, r) \/ Template(c, r) \/ DeleteGuest(c, r)
        \/ Migrate(c, r) \/ SnapshotCreate(c, r) \/ SnapshotRollback(c, r)
        \/ SnapshotDelete(c, r) \/ MoveDisk(c, r) \/ SetConfig(c, r) \/ Power(c, r)
    BY <1>1, <1>6 DEF Routed, FirstSection, Requests, powerVerbs
  <2>2. CASE CreateGuest(c, r) \/ SetConfig(c, r)
    BY <1>2, <2>2 DEF CreateGuest, SetConfig
  <2>3. CASE CloneGuest(c, r) \/ DeleteGuest(c, r) \/ SnapshotRollback(c, r)
             \/ SnapshotDelete(c, r) \/ MoveDisk(c, r)
    BY <1>3, <2>3
    DEF CloneGuest, DeleteGuest, SnapshotRollback, SnapshotDelete, MoveDisk
  <2>4. CASE SnapshotCreate(c, r) \/ Power(c, r)
    BY <1>4, <2>4 DEF SnapshotCreate, Power
  <2>5. CASE Template(c, r)
    BY <1>3, <1>4, <2>5 DEF Template
  <2>6. CASE Migrate(c, r)
    BY <1>2, <1>3, <2>6 DEF Migrate
  <2> QED
    BY <2>1, <2>2, <2>3, <2>4, <2>5, <2>6
<1> QED
  BY <1>5, <1>6

\* A section that is not part of finishedTask leaves every task as settled as
\* it was.
LEMMA OtherSection ==
  ASSUME Handlers, TasksSettled, NEW c \in Clients, pc[c] # "finish",
         NEW label \in Labels \ {"finish", "reply"}, Goto(c, label),
         UNCHANGED <<tasks, acked, upid>>
  PROVE  TasksSettled'
<1>1. \A d \in Clients : pc'[d] = IF d = c THEN label ELSE pc[d]
  BY DEF Handlers, Goto
<1>2. ASSUME NEW u, Settled(u) PROVE Settled(u)'
  BY <1>1, <1>2 DEF Settled
<1> QED
  BY <1>1, <1>2 DEF TasksSettled

\* Whatever handlers share a UPID, a reported task stays settled: AddTask makes
\* its own handler the one that will finish it.
LEMMA SettledNext ==
  GuestsInv /\ TasksSettled /\ [Next]_vars => TasksSettled'
<1> SUFFICES ASSUME GuestsInv, TasksSettled, [Next]_vars PROVE TasksSettled'
  OBVIOUS
<1>0. Handlers /\ "idle" \in Labels /\ "task" \in Labels
  BY DEF GuestsInv, Labels
<1>1. CASE UNCHANGED vars \/ Tick
  BY <1>1 DEF vars, Tick, TasksSettled, Settled
<1>2. ASSUME NEW c \in Clients, Accept(c) PROVE TasksSettled'
  <2>1. pc[c] # "finish" /\ UNCHANGED <<tasks, acked, upid>>
    BY <1>2 DEF Accept
  <2> QED
    BY <1>0, <1>2, <2>1, AcceptGoes, OtherSection
<1>3. ASSUME NEW c \in Clients,
             Configure(c) \/ CloneAdd(c) \/ Remove(c) \/ Unsnap(c) \/ Own(c)
      PROVE  TasksSettled'
  <2>1. /\ pc[c] # "finish" /\ UNCHANGED <<tasks, acked, upid>>
        /\ Goto(c, "task") \/ Goto(c, "idle")
    BY <1>3 DEF Configure, CloneAdd, Remove, Unsnap, Own
  <2> QED
    BY <1>0, <2>1, OtherSection
<1>4. ASSUME NEW c \in Clients, AddTask(c) PROVE TasksSettled'
  <2> DEFINE u == synthUPID(req[c])
  <2>1. /\ pc[c] = "task" /\ acked' = acked /\ upid'[c] = u
        /\ \A d \in Clients : d # c => upid'[d] = upid[d]
        /\ \A d \in Clients : pc'[d] = IF d = c THEN "finish" ELSE pc[d]
    BY <1>0, <1>4 DEF AddTask, Handlers, Goto
  <2>2. /\ DOMAIN tasks' = DOMAIN tasks \union {u}
        /\ \A v \in DOMAIN tasks : v # u => tasks'[v] = tasks[v]
    <3>1. tasks' = Put(tasks, u, "running")
      BY <1>4, <2>1 DEF AddTask
    <3> HIDE DEF u
    <3> QED
      BY <3>1 DEF Put
  <2> HIDE DEF u
  <2>3. ASSUME NEW v, Settled(v) PROVE Settled(v)'
    BY <2>1, <2>2, <2>3 DEF Settled
  <2> QED
    BY <2>1, <2>2, <2>3 DEF TasksSettled
<1>5. ASSUME NEW c \in Clients, FinishTask(c) PROVE TasksSettled'
  <2>1. /\ pc[c] = "finish" /\ acked' = acked /\ upid' = upid
        /\ upid[c] \in DOMAIN tasks
        /\ \A d \in Clients : pc'[d] = IF d = c THEN "reply" ELSE pc[d]
    BY <1>0, <1>5 DEF FinishTask, Handlers, Goto, TasksSettled
  <2>2. /\ DOMAIN tasks' = DOMAIN tasks /\ tasks'[upid[c]] = "OK"
        /\ \A v \in DOMAIN tasks : v # upid[c] => tasks'[v] = tasks[v]
    BY <1>5, <2>1 DEF FinishTask, Finished
  <2>3. ASSUME NEW v, Settled(v) PROVE Settled(v)'
    BY <2>1, <2>2, <2>3 DEF Settled
  <2>4. Settled(upid[c])'
    BY <2>1, <2>2 DEF Settled
  <2> QED
    BY <2>1, <2>2, <2>3, <2>4 DEF TasksSettled
<1>6. ASSUME NEW c \in Clients, Reply(c) PROVE TasksSettled'
  <2>1. /\ pc[c] = "reply" /\ acked' = acked \union {upid[c]}
        /\ UNCHANGED <<tasks, upid>> /\ Settled(upid[c])
        /\ \A d \in Clients : pc'[d] = IF d = c THEN "idle" ELSE pc[d]
    BY <1>0, <1>6 DEF Reply, Handlers, Goto, TasksSettled
  <2>2. ASSUME NEW v, Settled(v) PROVE Settled(v)'
    BY <2>1, <2>2 DEF Settled
  <2> QED
    BY <2>1, <2>2 DEF TasksSettled
<1> QED
  BY <1>1, <1>2, <1>3, <1>4, <1>5, <1>6 DEF Next

(***************************************************************************)
(* A task whose UPID a client holds is known and finished, or a handler    *)
(* that shares the UPID is about to finish it again, for every number of   *)
(* handlers and however their clocks coincide.                             *)
(***************************************************************************)
THEOREM AckedCorrect == Spec => []AckedSettled
<1>1. TasksSettled => AckedSettled
  BY DEF TasksSettled, Settled, AckedSettled
<1>2. Spec => []TasksSettled
  BY GuestsInit, SettledNext, GuestsInvariant, PTL DEF Spec
<1> QED
  BY <1>1, <1>2, PTL
=============================================================================
