---------------------------- MODULE MockGuests ----------------------------
(***************************************************************************)
(* Guests and tasks of the mock PVE server (proxmox/mockpve): the qemu and *)
(* lxc handlers and the finished task each of them reports.  The handlers  *)
(* run concurrently, one per request in flight, and take state.mu once per *)
(* critical section: an action is one section, and what other requests do  *)
(* between two sections of a handler is what this module is about.         *)
(*                                                                         *)
(* Of a guest's configuration keys there is the template mark and whether  *)
(* any other is set.  Resize and the agent calls, which change nothing, are*)
(* left out.  Virtual machines, containers and the volumes of a storage are*)
(* in maps of their own that never meet: a behaviour has one kind.         *)
(***************************************************************************)
EXTENDS Integers, FiniteSets, Sequences

CONSTANTS Nodes, VMIDs, Clients,
          MaxRequests,     \* bound: requests accepted
          MaxSecond        \* bound: seconds the clock shows

ASSUME GuestsAssumption == /\ Nodes # {} /\ VMIDs # {} /\ Clients # {}
                           /\ MaxRequests \in Nat /\ MaxSecond \in Nat

VARIABLES kind,     \* "qemu", "lxc" or "volume"
          guests,   \* s.st.qemu.vms or s.st.lxc.cts
          volumes,  \* s.st.storage.content of one storage, the nodes' lists as one
          made,     \* how many guest records were made
          tasks,    \* the nodes' tasks, by UPID: "running" or "OK"
          acked,    \* UPIDs that a client has been given
          pc, req,  \* each handler's next section, and its request
          upid,     \* the UPID a handler will report
          now, accepted

vars == <<kind, guests, volumes, made, tasks, acked, pc, req, upid, now, accepted>>

Keys == [node : Nodes, id : VMIDs]

\* The map a record is in names its node as well; origin tells records apart
\* as pointers do in the code.
Guest(node, status, origin) ==
  [node |-> node, status |-> status, template |-> FALSE, snapshot |-> FALSE,
   config |-> FALSE, origin |-> origin]

Statuses == {"stopped", "running", "suspended"}

powerVerbs == {"start", "stop", "shutdown", "reboot", "suspend", "resume"}

qemuPowerStatus(verb) == CASE verb \in {"start", "reboot", "resume"} -> "running"
                           [] verb \in {"stop", "shutdown"}          -> "stopped"
                           [] verb = "suspend"                       -> "suspended"

Exists(key) == key \in DOMAIN guests

Without(key) == [k \in DOMAIN guests \ {key} |-> guests[k]]

\* An assignment to a map's entry, new or not.
Put(m, key, entry) ==
  [k \in DOMAIN m \union {key} |-> IF k = key THEN entry ELSE m[k]]

-----------------------------------------------------------------------------
(* A handler: its first section when a client's request comes in, the next *)
(* sections it still has, and the task it reports.                         *)

Goto(c, label) == pc' = [pc EXCEPT ![c] = label]

\* AddVM, AddContainer: a record of the same VMID is replaced.
AddGuest(key) == /\ made' = made + 1
                 /\ guests' = Put(guests, key, Guest(key.node, "stopped", made'))

\* One section that edits a guest if it is there, and then the task.
EditGuest(c, key, record) ==
  /\ IF Exists(key)
     THEN guests' = [guests EXCEPT ![key] = record] /\ Goto(c, "task")
     ELSE Goto(c, "idle") /\ UNCHANGED guests
  /\ UNCHANGED made

\* One section that only looks, and then what comes next.
CheckGuest(c, ok, next) ==
  /\ Goto(c, IF ok THEN next ELSE "idle")
  /\ UNCHANGED <<guests, made>>

CreateGuest(c, r) == AddGuest(r.key) /\ Goto(c, "configure")

CloneGuest(c, r) == CheckGuest(c, Exists(r.key), "clone")

DeleteGuest(c, r) == CheckGuest(c, Exists(r.key), "remove")

Power(c, r) ==
  EditGuest(c, r.key, [guests[r.key] EXCEPT !.status = qemuPowerStatus(r.op)])

\* A guest that is not stopped is refused.
Template(c, r) ==
  IF Exists(r.key) /\ guests[r.key].status # "stopped"
  THEN CheckGuest(c, FALSE, "task")
  ELSE EditGuest(c, r.key, [guests[r.key] EXCEPT !.template = TRUE])

\* The record is stored under the target and then taken from the source, which
\* loses it when they are the same node; a record the target has is replaced.
MigratedLeaves(r) ==
  Put(guests, [r.key EXCEPT !.node = r.target], [guests[r.key] EXCEPT !.node = r.target])
Migrated(r) ==
  LET moved == Put(guests, [r.key EXCEPT !.node = r.target],
                   [guests[r.key] EXCEPT !.node = r.target])
  IN  [k \in DOMAIN moved \ {r.key} |-> moved[k]]

Migrate(c, r) ==
  IF ~Exists(r.key) THEN CheckGuest(c, FALSE, "task")
  ELSE guests' = Migrated(r) /\ Goto(c, "task") /\ UNCHANGED made

SnapshotCreate(c, r) == EditGuest(c, r.key, [guests[r.key] EXCEPT !.snapshot = TRUE])

\* snapshotTarget, lxcSnapshotTarget.
HasSnapshot(key) == Exists(key) /\ guests[key].snapshot

SnapshotRollback(c, r) == CheckGuest(c, HasSnapshot(r.key), "task")

SnapshotDelete(c, r) == CheckGuest(c, HasSnapshot(r.key), "unsnap")

MoveDisk(c, r) == CheckGuest(c, Exists(r.key), "task")

\* handleQEMUSetConfig, handleLXCSetConfig: keys are set or deleted at once and
\* the answer is null.
SetConfig(c, r) ==
  /\ IF Exists(r.key) THEN guests' = [guests EXCEPT ![r.key].config = r.set]
     ELSE UNCHANGED guests
  /\ Goto(c, "idle")
  /\ UNCHANGED made

\* A volume's list: AddVolume appends whatever is there already.
Volume(r) == [key |-> r.key, owner |-> 0]

\* handleVolumeCreate: the owner is noted in a section of its own; the answer is
\* the volume's name.
VolumeCreate(c, r) ==
  /\ volumes' = Append(volumes, Volume(r))
  /\ Goto(c, IF r.owner = 0 THEN "idle" ELSE "own")

StorageUpload(c, r) ==
  /\ volumes' = Append(volumes, Volume(r))
  /\ Goto(c, "task")

\* handleVolumeDelete takes every entry of that name.
VolumeDelete(c, r) ==
  LET kept == SelectSeq(volumes, LAMBDA v : v.key # r.key)
  IN  /\ volumes' = kept
      /\ Goto(c, IF kept = volumes THEN "idle" ELSE "task")

Requests ==
  [op : {"create", "template", "delete", "snapshot", "rollback", "delsnapshot",
         "move", "imgcopy", "imgdel"} \union powerVerbs, key : Keys]
  \union [op : {"config"}, key : Keys, set : BOOLEAN]
  \union [op : {"alloc"}, key : Keys, owner : {0, 1}]
  \union [op : {"clone"}, key : Keys, newid : VMIDs]
  \union [op : {"migrate"}, key : Keys, target : Nodes]

\* Containers have no template, migrate and move-disk route.
Routed(r) == /\ kind = "lxc" => r.op \notin {"template", "migrate", "move"}
             /\ kind = "volume" <=> r.op \in {"alloc", "imgcopy", "imgdel"}

FirstSection(c, r) ==
  CASE r.op = "create"      -> CreateGuest(c, r)
    [] r.op = "clone"       -> CloneGuest(c, r)
    [] r.op = "template"    -> Template(c, r)
    [] r.op = "delete"      -> DeleteGuest(c, r)
    [] r.op = "migrate"     -> Migrate(c, r)
    [] r.op = "snapshot"    -> SnapshotCreate(c, r)
    [] r.op = "rollback"    -> SnapshotRollback(c, r)
    [] r.op = "delsnapshot" -> SnapshotDelete(c, r)
    [] r.op = "move"        -> MoveDisk(c, r)
    [] r.op = "config"      -> SetConfig(c, r)
    [] r.op \in powerVerbs  -> Power(c, r)

VolumeSection(c, r) ==
  CASE r.op = "alloc"   -> VolumeCreate(c, r)
    [] r.op = "imgcopy" -> StorageUpload(c, r)
    [] r.op = "imgdel"  -> VolumeDelete(c, r)

Accept(c) ==
  /\ pc[c] = "idle" /\ accepted < MaxRequests
  /\ \E r \in Requests :
       /\ Routed(r)
       /\ req' = [req EXCEPT ![c] = r]
       /\ IF kind = "volume"
          THEN VolumeSection(c, r) /\ UNCHANGED <<guests, made>>
          ELSE FirstSection(c, r) /\ UNCHANGED volumes
  /\ accepted' = accepted + 1
  /\ UNCHANGED <<kind, tasks, acked, upid, now>>

-----------------------------------------------------------------------------
(* The sections that follow.                                               *)

\* handleQEMUCreate stores the form's keys, if a guest is still there.
Configure(c) ==
  /\ pc[c] = "configure"
  /\ guests' = [k \in DOMAIN guests |->
                  IF k = req[c].key THEN [guests[k] EXCEPT !.config = TRUE] ELSE guests[k]]
  /\ Goto(c, "task")
  /\ UNCHANGED <<kind, volumes, made, tasks, acked, req, upid, now, accepted>>

Own(c) ==
  /\ pc[c] = "own"
  /\ volumes' = [i \in DOMAIN volumes |->
                   IF volumes[i].key = req[c].key THEN [volumes[i] EXCEPT !.owner = req[c].owner]
                   ELSE volumes[i]]
  /\ Goto(c, "idle")
  /\ UNCHANGED <<kind, guests, made, tasks, acked, req, upid, now, accepted>>

\* handleQEMUClone makes the new guest whether or not the source still exists.
CloneAdd(c) ==
  /\ pc[c] = "clone"
  /\ AddGuest([req[c].key EXCEPT !.id = req[c].newid])
  /\ Goto(c, "task")
  /\ UNCHANGED <<kind, volumes, tasks, acked, req, upid, now, accepted>>

\* removeVM removes what is there by now.
RemovedEverywhere(key) == [k \in {k \in DOMAIN guests : k.id # key.id} |-> guests[k]]
Removed(key) == Without(key)

Remove(c) ==
  /\ pc[c] = "remove"
  /\ guests' = Removed(req[c].key)
  /\ Goto(c, "task")
  /\ UNCHANGED <<kind, volumes, made, tasks, acked, req, upid, now, accepted>>

Unsnap(c) ==
  /\ pc[c] = "unsnap"
  /\ guests' = [k \in DOMAIN guests |->
                  IF k = req[c].key THEN [guests[k] EXCEPT !.snapshot = FALSE]
                  ELSE guests[k]]
  /\ Goto(c, "task")
  /\ UNCHANGED <<kind, volumes, made, tasks, acked, req, upid, now, accepted>>

\* synthUPID tells tasks apart by node, type, id and second, and no further; the
\* id of an upload or a removal is the storage, so any two on a node are alike.
synthUPID(r) ==
  [node |-> r.key.node, id |-> IF kind = "volume" THEN "storage" ELSE r.key.id,
   type |-> r.op, at |-> now]

\* finishedTask: AddTask and FinishTask are a section each, and AddTask starts
\* a task of the same UPID over again.
AddTask(c) ==
  /\ pc[c] = "task"
  /\ upid' = [upid EXCEPT ![c] = synthUPID(req[c])]
  /\ tasks' = Put(tasks, upid'[c], "running")
  /\ Goto(c, "finish")
  /\ UNCHANGED <<kind, guests, volumes, made, acked, req, now, accepted>>

FinishedUnlessAcked(u) == IF u \in acked THEN tasks ELSE [tasks EXCEPT ![u] = "OK"]
Finished(u) == [tasks EXCEPT ![u] = "OK"]

FinishTask(c) ==
  /\ pc[c] = "finish"
  /\ tasks' = Finished(upid[c])
  /\ Goto(c, "reply")
  /\ UNCHANGED <<kind, guests, volumes, made, acked, req, upid, now, accepted>>

\* The reply carries the UPID.
Reply(c) ==
  /\ pc[c] = "reply"
  /\ acked' = acked \union {upid[c]}
  /\ Goto(c, "idle")
  /\ UNCHANGED <<kind, guests, volumes, made, tasks, req, upid, now, accepted>>

Tick == /\ now < MaxSecond
        /\ now' = now + 1
        /\ UNCHANGED <<kind, guests, volumes, made, tasks, acked, pc, req, upid, accepted>>

-----------------------------------------------------------------------------
NoUPID == [node |-> "", id |-> "", type |-> "", at |-> 0]
NoRequest == [op |-> "", key |-> << >>]

\* A test seeds at most two guests before serving, in any state a seed gives.
Init ==
  /\ kind \in {"qemu", "lxc", "volume"}
  /\ volumes = << >>
  /\ \E seeded \in {S \in SUBSET Keys : /\ IsFiniteSet(S)
                                          /\ Cardinality(S) <= IF kind = "volume" THEN 0 ELSE 2} :
       \E order \in [seeded -> 1..Cardinality(seeded)],
          status \in [seeded -> {"stopped", "running"}] :
         /\ \A k, l \in seeded : order[k] = order[l] => k = l
         /\ guests = [k \in seeded |-> Guest(k.node, status[k], order[k])]
         /\ made = Cardinality(seeded)
  /\ tasks = << >>
  /\ acked = {}
  /\ pc = [c \in Clients |-> "idle"]
  /\ req = [c \in Clients |-> NoRequest]
  /\ upid = [c \in Clients |-> NoUPID]
  /\ now = 0
  /\ accepted = 0

Next == \/ \E c \in Clients :
             \/ Accept(c) \/ Configure(c) \/ CloneAdd(c) \/ Remove(c) \/ Unsnap(c)
             \/ Own(c) \/ AddTask(c) \/ FinishTask(c) \/ Reply(c)
        \/ Tick

Spec == Init /\ [][Next]_vars

-----------------------------------------------------------------------------
\* A guest is found under the node it names, and under no other: through
\* migrations that cross creates, clones and deletes of the same VMID there
\* are never two entries for one record.
OnePlacePerGuest ==
  /\ \A k \in DOMAIN guests : guests[k].node = k.node
  /\ \A k, l \in DOMAIN guests : guests[k].origin = guests[l].origin => k = l

Origins(gs) == {gs[k].origin : k \in DOMAIN gs}

\* What may make record k vanish: the removal a delete of its own key has got
\* to, a new guest or a migrated one in its place, or a migration to the node
\* it is on.
LossExplained(k) ==
  \/ \E c \in Clients : pc[c] = "remove" /\ pc'[c] = "task" /\ req[c].key = k
  \/ k \in DOMAIN guests' /\ guests'[k].origin # guests[k].origin
  \/ \E c \in Clients : /\ pc[c] = "idle" /\ pc'[c] = "task"
                        /\ req'[c].op = "migrate" /\ req'[c].key = k
                        /\ req'[c].target = k.node

\* No guest is lost by a handler working on another: whatever the sections of
\* two handlers interleave to, one that is gone was deleted, replaced, or
\* migrated onto itself.
NoGuestLost ==
  [][\A k \in DOMAIN guests :
       guests[k].origin \notin Origins(guests') => LossExplained(k)]_vars

\* A task whose UPID a client holds is known and finished, as finishedTask
\* promises, except while a second handler with the same node, type, id and
\* second is between starting that task again and finishing it.
AckedSettled ==
  \A u \in acked :
    tasks[u] = "OK" \/ \E c \in Clients : pc[c] = "finish" /\ upid[c] = u
=============================================================================
