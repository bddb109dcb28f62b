-------------------------------- MODULE Lab --------------------------------
(***************************************************************************)
(* The life of a pvelab laboratory (cmd/pvelab): the operator runs up,     *)
(* down, iso and template build one after another, any of them may be      *)
(* killed, and the outer host they work on is shared.  The VMIDs are       *)
(* declared in the configuration, so a node and its VMID are one, and slot *)
(* 0 is the template's.  Others may make a VM under any of them that is    *)
(* free: one with a name of its own is foreign, and one of another lab,    *)
(* whose name has the harness's prefix too, is "lab".                      *)
(***************************************************************************)
EXTENDS Integers, FiniteSets

CONSTANTS N,            \* the configured nodes are 1..N
          Flags,        \* what a command may be given: force, no-state,
                        \* purge-isos
          MaxRuns,      \* bound: commands the operator runs
          MaxForeign    \* bound: VMs others make

ASSUME LabAssumption == /\ N \in Nat \ {0}
                        /\ Flags \subseteq SUBSET {"force", "noState", "purge"}
                        /\ {MaxRuns, MaxForeign} \subseteq Nat

Nodes == 1..N
Slots == 0..N

VARIABLES vm,           \* the VM of each slot on the outer host
          formed,       \* the VMs form a cluster
          iso,          \* the prepared ISO is on the outer host
          file,         \* the state file
          env,          \* the env file is there
          cmd,          \* the last command, or the running one
          pc,           \* its stage, or "idle"
          flags,        \* of the running command
          clone,        \* the running up makes linked clones
          node,         \* how far a stage has come with each node
          run,          \* commands run so far
          res,          \* how it ended
          foreign,      \* VMs others have made
          harm          \* foreign VMs pvelab stopped or deleted: "found" or
                        \* "late", see Touch

outer   == <<vm, formed, iso>>
files   == <<file, env>>
command == <<cmd, pc, flags, clone, node, run, res>>
vars    == <<outer, files, command, foreign, harm>>

(***************************************************************************)
(* A VM is stopped, booted, or its own API answers ("ready"), or it has     *)
(* been converted to a template.  A clone that is up but not ready has the *)
(* template's address.  made is the command that made it, or during which  *)
(* others made it after the command had looked at its VMID, and system     *)
(* tells whether a finished installation is on its disk.                   *)
(***************************************************************************)
VM     == [owner : {"none", "ours", "lab", "foreign"},
           state : {"stopped", "up", "ready", "template"},
           cloned : BOOLEAN, system : BOOLEAN, made : 0..MaxRuns]
Absent == [owner |-> "none", state |-> "stopped", cloned |-> FALSE,
           system |-> FALSE, made |-> 0]

Template == vm[0].owner = "ours" /\ vm[0].state = "template"

(***************************************************************************)
(* The state file; born is the command that initialised it.  A write cut   *)
(* short leaves a file that does not parse.                                *)
(***************************************************************************)
File   == [kind : {"absent", "torn", "ok"}, born : 0..MaxRuns,
           created : SUBSET Nodes, started : SUBSET Nodes,
           ready : SUBSET Nodes, clustered : BOOLEAN]
NoFile == [kind |-> "absent", born |-> 0, created |-> {}, started |-> {},
           ready |-> {}, clustered |-> FALSE]
Torn   == [NoFile EXCEPT !.kind = "torn"]

Stages == {"check", "seed", "make", "noteMade", "boot", "noteBooted", "await",
           "noteReady", "form", "noteFormed", "handoff", "down", "purge",
           "remove", "slot", "slotStop", "slotDelete", "create", "install",
           "finish", "halt", "convert"}

Untouched == [n \in Nodes |-> "todo"]
At(s)     == {n \in Nodes : node[n] = s}

(***************************************************************************)
(* The ISO and the template belong to a PVE version, not to a lab, and may *)
(* be there before.                                                        *)
(***************************************************************************)
Init ==
    /\ iso \in BOOLEAN
    /\ \E t \in {Absent, [Absent EXCEPT !.owner = "ours", !.system = TRUE,
                                          !.state = "template"]} :
          vm = [n \in Slots |-> IF n = 0 THEN t ELSE Absent]
    /\ formed = FALSE
    /\ file = NoFile
    /\ env = FALSE
    /\ pc = "idle"
    /\ flags = {}
    /\ clone = FALSE
    /\ node = Untouched
    /\ run = 0
    /\ cmd = "none"
    /\ res = "none"
    /\ foreign = 0
    /\ harm = {}

Begin(c, stage, fl) ==
    /\ pc = "idle"
    /\ run < MaxRuns
    /\ run' = run + 1
    /\ cmd' = c
    /\ pc' = stage
    /\ flags' = fl
    /\ clone' = FALSE
    /\ node' = Untouched
    /\ res' = "none"

(***************************************************************************)
(* The command goes on to the next stage, or returns.                      *)
(***************************************************************************)
Goto(stage) == /\ pc' = stage
               /\ node' = Untouched
               /\ UNCHANGED <<cmd, flags, clone, run, res>>

Exit(how) == /\ pc' = "idle"
             /\ node' = Untouched
             /\ res' = how
             /\ UNCHANGED <<cmd, flags, clone, run>>

-----------------------------------------------------------------------------
(***************************************************************************)
(* pvelab iso.                                                             *)
(***************************************************************************)
PrepareISO ==
    /\ Begin("iso", "idle", {})
    /\ iso' = TRUE
    /\ UNCHANGED <<vm, formed, files, foreign, harm>>

Up ==
    /\ Begin("up", "check", {})
    /\ UNCHANGED <<outer, files, foreign, harm>>

(***************************************************************************)
(* EnsureVMIDsFree from one listing; cloneSource, which takes the clones   *)
(* where this version's template is, and else the prepared ISO.  A VM that *)
(* has the template's name but was never converted does not count.         *)
(***************************************************************************)
Check ==
    /\ pc = "check"
    /\ IF /\ \A n \in Nodes : vm[n].owner = "none"
          /\ Template \/ iso
       THEN /\ pc' = "seed"
            /\ clone' = Template
            /\ UNCHANGED <<cmd, flags, node, run, res>>
       ELSE Exit("failed")
    /\ UNCHANGED <<outer, files, foreign, harm>>

(***************************************************************************)
(* UpdateState: load, or start afresh where there is no file, and write    *)
(* back.  A file that does not parse ends the command.                     *)
(***************************************************************************)
Loaded == IF file.kind = "absent" THEN [NoFile EXCEPT !.kind = "ok",
                                                      !.born = run]
                                  ELSE file

UpdateState(f, stage) ==
    IF file.kind = "torn" THEN Exit("failed") /\ UNCHANGED file
                          ELSE Goto(stage) /\ file' = f

(***************************************************************************)
(* SeedNodes keeps the progress of a node it finds.                        *)
(***************************************************************************)
Seed ==
    /\ pc = "seed"
    /\ UpdateState(Loaded, "make")
    /\ UNCHANGED <<outer, env, foreign, harm>>

Made == [owner |-> "ours", state |-> "stopped", cloned |-> clone,
         system |-> clone /\ vm[0].system, made |-> run]

(***************************************************************************)
(* CreateNodeVMs and CloneNodeVMs, one node's part: PVE refuses a VMID     *)
(* that is taken, and a VM can be made although its node reports an error. *)
(***************************************************************************)
Make(n) ==
    /\ pc = "make"
    /\ node[n] = "todo"
    /\ \E made, ok \in BOOLEAN :
          /\ made => vm[n].owner = "none"
          /\ ok => made
          /\ vm' = IF made
                   THEN [vm EXCEPT ![n] = Made] ELSE vm
          /\ node' = [node EXCEPT ![n] = IF ok THEN "ok" ELSE "err"]
    /\ UNCHANGED <<formed, iso, files, cmd, pc, flags, clone, run, res, foreign,
                   harm>>

(***************************************************************************)
(* parallel: the stage ends when every node's part has, and fails with any *)
(* of them.                                                                *)
(***************************************************************************)
Joined(stage, next) ==
    /\ pc = stage
    /\ At("todo") = {}
    /\ IF At("err") = {} THEN Goto(next) ELSE Exit("failed")
    /\ UNCHANGED <<outer, files, foreign, harm>>

MadeAll   == Joined("make", "noteMade")
BootedAll == Joined("boot", "noteBooted")

NoteMadeAll ==                          \* mutant: started is noted too early
    /\ pc = "noteMade"
    /\ UpdateState([Loaded EXCEPT !.created = Nodes, !.started = Nodes],
                   IF clone THEN "await" ELSE "boot")
    /\ UNCHANGED <<outer, env, foreign, harm>>

NoteMade ==
    /\ pc = "noteMade"
    /\ UpdateState([Loaded EXCEPT !.created = Nodes],
                   IF clone THEN "await" ELSE "boot")
    /\ UNCHANGED <<outer, env, foreign, harm>>

(***************************************************************************)
(* StartNodeVMs, one node's part.                                          *)
(***************************************************************************)
Boot(n) ==
    /\ pc = "boot"
    /\ node[n] = "todo"
    /\ \E booted, ok \in BOOLEAN :
          /\ booted => vm[n].owner # "none"
          /\ ok => booted
          /\ vm' = IF booted THEN [vm EXCEPT ![n].state = "up"] ELSE vm
          /\ node' = [node EXCEPT ![n] = IF ok THEN "ok" ELSE "err"]
    /\ UNCHANGED <<formed, iso, files, cmd, pc, flags, clone, run, res, foreign,
                   harm>>

NoteBooted ==
    /\ pc = "noteBooted"
    /\ UpdateState([Loaded EXCEPT !.started = Nodes], "await")
    /\ UNCHANGED <<outer, env, foreign, harm>>

(***************************************************************************)
(* WaitReady, one node's part: its own API answers, or the ceiling passes. *)
(***************************************************************************)
Await(n) ==
    /\ pc = "await"
    /\ ~ clone
    /\ node[n] = "todo"
    /\ \E ready, ok \in BOOLEAN :
          /\ ready => vm[n].state = "up"
          /\ ok => ready
          /\ vm' = IF ready THEN [vm EXCEPT ![n].state = "ready",
                                            ![n].system = TRUE] ELSE vm
          /\ node' = [node EXCEPT ![n] = IF ok THEN "ok" ELSE "err"]
    /\ UNCHANGED <<formed, iso, files, cmd, pc, flags, clone, run, res, foreign,
                   harm>>

NextCloneEager(n) == node[n] = "todo"   \* mutant: the clones boot together

(***************************************************************************)
(* ReidentifyClones: the clones are booted one at a time.  Each comes up   *)
(* with the template's address and leaves it with the reboot that ends its *)
(* rewrite; the next waits until its own API answers, and a failure ends   *)
(* the pass.                                                               *)
(***************************************************************************)
NextClone(n) ==
    /\ node[n] = "todo"
    /\ \A m \in 1..(n - 1) : node[m] = "ok"

BootClone(n) ==
    /\ pc = "await"
    /\ clone
    /\ NextClone(n)
    /\ \E booted, ok \in BOOLEAN :
          /\ booted => vm[n].owner # "none"
          /\ ok => booted
          /\ vm' = IF booted THEN [vm EXCEPT ![n].state = "up"] ELSE vm
          /\ node' = [node EXCEPT ![n] = IF ok THEN "booted" ELSE "err"]
    /\ UNCHANGED <<formed, iso, files, cmd, pc, flags, clone, run, res, foreign,
                   harm>>

Reidentify(n) ==
    /\ pc = "await"
    /\ node[n] = "booted"
    /\ \E ready, ok \in BOOLEAN :
          /\ ready => vm[n].state = "up" /\ vm[n].system
          /\ ok => ready
          /\ vm' = IF ready THEN [vm EXCEPT ![n].state = "ready"] ELSE vm
          /\ node' = [node EXCEPT ![n] = IF ok THEN "ok" ELSE "err"]
    /\ UNCHANGED <<formed, iso, files, cmd, pc, flags, clone, run, res, foreign,
                   harm>>

AwaitedAll ==
    /\ pc = "await"
    /\ At("booted") = {}
    /\ IF clone THEN At("err") # {} \/ At("todo") = {} ELSE At("todo") = {}
    /\ pc' = "noteReady"
    /\ UNCHANGED <<outer, files, cmd, flags, clone, node, run, res, foreign,
                   harm>>

NoteReadyGoesOn ==                      \* mutant: the stage's error is dropped
    /\ pc = "noteReady"
    /\ UpdateState([Loaded EXCEPT !.ready = (@ \ At("err")) \cup At("ok"),
                                  !.started = IF clone THEN @ \cup At("ok") ELSE @],
                   "form")
    /\ UNCHANGED <<outer, env, foreign, harm>>

(***************************************************************************)
(* ApplyReadiness: the measured nodes get what was measured, and nodes the *)
(* pass over the clones did not reach keep what the file says.  The error  *)
(* of the stage is returned after its evidence is on disk.                 *)
(***************************************************************************)
NoteReady ==
    /\ pc = "noteReady"
    /\ LET f == [Loaded EXCEPT !.ready = (@ \ At("err")) \cup At("ok"),
                               !.started = IF clone THEN @ \cup At("ok")
                                                       ELSE @]
       IN  IF file.kind = "torn" \/ At("err") # {}
           THEN /\ Exit("failed")
                /\ file' = IF file.kind = "torn" THEN file ELSE f
           ELSE UpdateState(f, "form")
    /\ UNCHANGED <<outer, env, foreign, harm>>

(***************************************************************************)
(* FormCluster, see the module of that name.                               *)
(***************************************************************************)
Form ==
    /\ pc = "form"
    /\ \/ /\ \A n \in Nodes : vm[n].owner # "none"
          /\ formed' = TRUE
          /\ Goto("noteFormed")
       \/ formed' \in {formed, TRUE} /\ Exit("failed")
    /\ UNCHANGED <<vm, iso, files, foreign, harm>>

NoteFormed ==
    /\ pc = "noteFormed"
    /\ UpdateState([Loaded EXCEPT !.clustered = TRUE], "handoff")
    /\ UNCHANGED <<outer, env, foreign, harm>>

WriteEnvFile ==
    /\ pc = "handoff"
    /\ env' = TRUE
    /\ Exit("up")
    /\ UNCHANGED <<outer, file, foreign, harm>>

-----------------------------------------------------------------------------
Down(fl) ==
    /\ Begin("down", "down", fl)
    /\ UNCHANGED <<outer, files, foreign, harm>>

Part(n, s) == node' = [node EXCEPT ![n] = s]

Teardown == <<files, iso, cmd, pc, flags, clone, run, res, foreign>>

GoneIs(n) == Part(n, IF "force" \in flags THEN "ok" ELSE "err")

CheckOwnershipForce(n) ==               \* mutant: force forgives "not ours"
    /\ pc = "down"
    /\ node[n] = "todo"
    /\ \/ vm[n].owner = "none" /\ GoneIs(n)
       \/ vm[n].owner = "foreign" /\ Part(n, IF "force" \in flags THEN "stop"
                                                                 ELSE "err")
       \/ vm[n].owner \in {"ours", "lab"} /\ Part(n, "stop")
       \/ Part(n, "err")
    /\ UNCHANGED <<vm, formed, Teardown, harm>>

(***************************************************************************)
(* teardownNode: checkOwnership by the prefix of the VM's live name, which *)
(* the VMs of every lab have; force forgives only a VM that is gone.       *)
(***************************************************************************)
CheckOwnership(n) ==
    /\ pc = "down"
    /\ node[n] = "todo"
    /\ \/ vm[n].owner = "none" /\ GoneIs(n)
       \/ vm[n].owner \in {"ours", "lab"} /\ Part(n, "stop")
       \/ Part(n, "err")               \* no prefix, or it cannot be read
    /\ UNCHANGED <<vm, formed, Teardown, harm>>

(***************************************************************************)
(* For the properties: a stop or a delete goes by the VMID and hits what   *)
(* is there now.  A foreign VM was found by the command's own look at the  *)
(* VMID, or came there later in the same command.                          *)
(***************************************************************************)
Touch(n) ==
    harm' = harm \cup
        (IF vm[n].owner # "foreign" THEN {}
         ELSE IF vm[n].made = run THEN {"late"} ELSE {"found"})

(***************************************************************************)
(* Stop is best effort.                                                    *)
(***************************************************************************)
Stop(n) ==
    /\ pc = "down"
    /\ node[n] = "stop"
    /\ \/ /\ vm[n].owner # "none"
          /\ vm' = [vm EXCEPT ![n].state = "stopped"]
          /\ Touch(n)
       \/ UNCHANGED <<vm, harm>>
    /\ Part(n, "delete")
    /\ UNCHANGED <<formed, Teardown>>

(***************************************************************************)
(* External: PVE removes a VM, but no template that linked clones depend   *)
(* on; it also refuses to delete a VM that runs.                           *)
(***************************************************************************)
Gone(n) ==
    /\ vm[n].state = "template" => \A m \in Nodes : ~ vm[m].cloned
    /\ vm' = [vm EXCEPT ![n] = Absent]
    /\ formed' = (formed /\ n = 0)

Erase(n) ==
    /\ vm[n].owner # "none"
    /\ vm[n].state \in {"stopped", "template"}
    /\ Gone(n)
    /\ Touch(n)

DeleteLoose(n) ==                       \* mutant: the delete task is not awaited
    /\ pc = "down"
    /\ node[n] = "delete"
    /\ \/ Erase(n) /\ Part(n, "ok")
       \/ Part(n, "ok") /\ UNCHANGED <<vm, formed, harm>>
    /\ UNCHANGED Teardown

(***************************************************************************)
(* Delete and its task.  The request goes through the transport: when its  *)
(* reply is lost it is sent again, and meets what is there then.           *)
(***************************************************************************)
Delete(n) ==
    /\ pc = "down"
    /\ node[n] = "delete"
    /\ \/ Erase(n) /\ \E s \in {"ok", "err"} : Part(n, s)
       \/ /\ vm[n].owner = "none" /\ GoneIs(n)
          /\ UNCHANGED <<vm, formed, harm>>
       \/ Part(n, "err") /\ UNCHANGED <<vm, formed, harm>>
    /\ UNCHANGED Teardown

DeleteReplay(n) ==
    /\ pc = "down"
    /\ node[n] = "delete"
    /\ Erase(n)
    /\ UNCHANGED <<node, Teardown>>

DownAll ==
    /\ pc = "down"
    /\ At("ok") \cup At("err") = Nodes
    /\ pc' = "purge"
    /\ UNCHANGED <<outer, files, cmd, flags, clone, node, run, res, foreign,
                   harm>>

(***************************************************************************)
(* purgeISO where it was asked for; then the errors of every node and of   *)
(* the purge are returned together.                                        *)
(***************************************************************************)
Purge ==
    /\ pc = "purge"
    /\ \E ok \in BOOLEAN :
          /\ ok => /\ At("err") = {}
                   /\ "purge" \in flags => iso \/ "force" \in flags
          /\ iso' \in {iso /\ "purge" \notin flags} \cup
                     (IF ok THEN {} ELSE {iso})
          /\ IF ~ ok THEN Exit("failed")
             ELSE IF "noState" \in flags THEN Exit("down")
             ELSE Goto("remove")
    /\ UNCHANGED <<vm, formed, files, foreign, harm>>

(***************************************************************************)
(* The state and env files are removed; a failure is only logged.          *)
(***************************************************************************)
Remove ==
    /\ pc = "remove"
    /\ file' \in {NoFile, file}
    /\ env' \in {FALSE, env}
    /\ Exit("down")
    /\ UNCHANGED <<outer, foreign, harm>>

-----------------------------------------------------------------------------
(***************************************************************************)
(* pvelab template build: the slot is freed, an installation is run on it  *)
(* as for a node, and the VM is shut down and converted.                   *)
(***************************************************************************)
BuildTemplate(fl) ==
    /\ Begin("template", "slot", fl)
    /\ UNCHANGED <<outer, files, foreign, harm>>

Build == <<formed, iso, files, foreign, harm>>

(***************************************************************************)
(* ensureTemplateSlotFree, from one listing: a VM with the template's name *)
(* goes, if forced, and is stopped first where the listing says it runs;   *)
(* any other VM in the slot is an error.  Only then is the ISO looked for. *)
(* The configuration is one, so the template has its name in slot 0 only.  *)
(***************************************************************************)
SlotTaken ==
    /\ pc = "slot"
    /\ \/ vm[0].owner \in {"lab", "foreign"}
       \/ vm[0].owner = "ours" /\ "force" \notin flags
    /\ Exit("failed")
    /\ UNCHANGED <<vm, Build>>

SlotForced ==
    /\ pc = "slot"
    /\ vm[0].owner = "ours" /\ "force" \in flags
    /\ Goto(IF vm[0].state \in {"up", "ready"} THEN "slotStop" ELSE "slotDelete")
    /\ UNCHANGED <<vm, Build>>

(***************************************************************************)
(* deleteTemplateVM, by the VMID the listing gave; both steps are awaited, *)
(* and a request whose reply is lost is sent again.                        *)
(***************************************************************************)
StopTemplate ==
    /\ pc = "slotStop"
    /\ \/ /\ vm[0].owner # "none"
          /\ vm' = [vm EXCEPT ![0].state = "stopped"]
          /\ Touch(0)
          /\ Goto("slotDelete") \/ Exit("failed")
       \/ UNCHANGED <<vm, harm>> /\ Exit("failed")
    /\ UNCHANGED <<formed, iso, files, foreign>>

SlotFree == IF iso THEN Goto("create") ELSE Exit("failed")

DeleteTemplate ==
    /\ pc = "slotDelete"
    /\ \/ Erase(0) /\ (SlotFree \/ Exit("failed"))
       \/ Exit("failed") /\ UNCHANGED <<vm, formed, harm>>
    /\ UNCHANGED <<iso, files, foreign>>

DeleteTemplateReplay ==
    /\ pc = "slotDelete"
    /\ Erase(0)
    /\ UNCHANGED <<iso, files, command, foreign>>

SlotEmpty ==
    /\ pc = "slot"
    /\ vm[0].owner = "none"
    /\ SlotFree
    /\ UNCHANGED <<vm, Build>>

(***************************************************************************)
(* One awaited operation on the template's VM; it may take effect and      *)
(* still be reported as failed.                                            *)
(***************************************************************************)
Operate(stage, can, v, next) ==
    /\ pc = stage
    /\ \/ /\ can
          /\ vm' = [vm EXCEPT ![0] = v]
          /\ Goto(next) \/ Exit("failed")
       \/ UNCHANGED vm /\ Exit("failed")
    /\ UNCHANGED Build

CreateTemplate == Operate("create", vm[0].owner = "none", Made, "install")

BootTemplate ==
    Operate("install", vm[0].state = "stopped",
            [vm[0] EXCEPT !.state = "up"], "finish")

InstallUnawaited ==                     \* mutant: the installation is cut off
    Operate("finish", vm[0].state = "up", vm[0], "halt")

InstallTemplate ==
    Operate("finish", vm[0].state = "up",
            [vm[0] EXCEPT !.state = "ready", !.system = TRUE], "halt")

(***************************************************************************)
(* finalizeTemplate: shut down (the installer's ISO is detached then), and *)
(* convert.                                                                *)
(***************************************************************************)
ShutdownTemplate ==
    Operate("halt", vm[0].owner = "ours",
            [vm[0] EXCEPT !.state = "stopped"], "convert")

ConvertTemplate ==
    /\ pc = "convert"
    /\ \/ /\ vm' = [vm EXCEPT ![0].state = "template"]
          /\ Exit("template") \/ Exit("failed")
       \/ UNCHANGED vm /\ Exit("failed")
    /\ UNCHANGED Build

-----------------------------------------------------------------------------
(***************************************************************************)
(* The command is killed, or cannot write; a write of the state file may   *)
(* be cut short.  PVE takes the VMID when it accepts a create, so the VMs  *)
(* of accepted creates are there at the kill, finished or not; a request   *)
(* that is still on its way arrives before the operator's next command.    *)
(***************************************************************************)
Writing == {"seed", "noteMade", "noteBooted", "noteReady", "noteFormed"}

Killed ==
    /\ pc # "idle"
    /\ file' \in {file} \cup (IF pc \in Writing THEN {Torn} ELSE {})
    /\ Exit("failed")
    /\ UNCHANGED <<outer, env, foreign, harm>>

(***************************************************************************)
(* The running command has looked at the VMID n: EnsureVMIDsFree, the      *)
(* listing of the template build, or the ownership check of n.             *)
(***************************************************************************)
Looked(n) == /\ pc \notin {"idle", "check", "slot"}
             /\ pc = "down" => n \in Nodes /\ node[n] # "todo"

(***************************************************************************)
(* Somebody else makes a VM under a free VMID of the block, at any time.   *)
(***************************************************************************)
Others(n) ==
    /\ foreign < MaxForeign
    /\ vm[n].owner = "none"
    /\ \E who \in {"lab", "foreign"} :
          vm' = [vm EXCEPT ![n] = [Absent EXCEPT !.owner = who,
                                     !.made = IF Looked(n) THEN run ELSE 0]]
    /\ foreign' = foreign + 1
    /\ UNCHANGED <<formed, iso, files, command, harm>>

(***************************************************************************)
(* Somebody stops and removes a VM of the lab by hand while a command is   *)
(* about to.  One removed before is as if it were removed at the command's *)
(* first step, and nobody does it to a lab that up is building.            *)
(***************************************************************************)
Vanish(n) ==
    /\ pc \in {"down", "slotStop", "slotDelete"}
    /\ vm[n].owner = "ours"
    /\ Gone(n)
    /\ UNCHANGED <<iso, files, command, foreign, harm>>

Spent == pc = "idle" /\ run = MaxRuns /\ UNCHANGED vars

Next ==
    \/ PrepareISO \/ Up \/ Check \/ Seed \/ MadeAll \/ NoteMade \/ BootedAll
    \/ NoteBooted \/ AwaitedAll \/ NoteReady \/ Form \/ NoteFormed
    \/ WriteEnvFile \/ DownAll \/ Purge \/ Remove \/ Killed \/ Spent
    \/ SlotTaken \/ SlotForced \/ StopTemplate \/ DeleteTemplate
    \/ DeleteTemplateReplay \/ SlotEmpty \/ CreateTemplate \/ BootTemplate
    \/ InstallTemplate \/ ShutdownTemplate \/ ConvertTemplate
    \/ \E fl \in Flags : Down(fl)
    \/ \E fl \in SUBSET {"force"} : BuildTemplate(fl)
    \/ \E n \in Nodes :
          \/ Make(n) \/ Boot(n) \/ Await(n) \/ BootClone(n) \/ Reidentify(n)
          \/ CheckOwnership(n) \/ Stop(n) \/ Delete(n) \/ DeleteReplay(n)
    \/ \E n \in Slots : Others(n) \/ Vanish(n)

Spec == Init /\ [][Next]_vars

-----------------------------------------------------------------------------
TypeOK ==
    /\ vm \in [Slots -> VM]
    /\ {formed, iso, env, clone} \subseteq BOOLEAN
    /\ harm \subseteq {"found", "late"}
    /\ file \in File
    /\ cmd \in {"none", "iso", "template", "up", "down"}
    /\ pc \in Stages \cup {"idle"}
    /\ flags \in SUBSET {"force", "noState", "purge"}
    /\ node \in [Nodes -> {"todo", "booted", "stop", "delete", "ok", "err"}]
    /\ run \in 0..MaxRuns
    /\ res \in {"none", "failed", "up", "down", "template"}
    /\ foreign \in 0..MaxForeign

(***************************************************************************)
(* The blast radius: no down and no forced template build stops or deletes *)
(* a VM without the harness's name that was there when the command looked, *)
(* whatever leftovers, kills, flags, repeated requests and takeovers of    *)
(* VMIDs came before.  The window between the look and the delete is left: *)
(* a VM that others make under a VMID inside it, once the VM that was      *)
(* checked is gone, can be hit, and nothing else can.                      *)
(***************************************************************************)
SparesWhatItFound == "found" \notin harm

(***************************************************************************)
(* up never adopts leftovers: when it reports a lab, every node is a VM    *)
(* this very run made, they form a cluster, and the state file says so.    *)
(***************************************************************************)
UpMeansLab ==
    res = "up" =>
        /\ \A n \in Nodes : /\ vm[n].owner = "ours" /\ vm[n].made = run
                            /\ vm[n].state = "ready" /\ vm[n].system
        /\ formed /\ env
        /\ [Loaded EXCEPT !.born = 0] =
              [kind |-> "ok", born |-> 0, created |-> Nodes, started |-> Nodes,
               ready |-> Nodes, clustered |-> TRUE]

(***************************************************************************)
(* down means gone: when it reports success no VM of pvelab's is left,     *)
(* also when the stops failed or replies were lost.                        *)
(***************************************************************************)
DownMeansGone ==
    res = "down" => \A n \in Nodes : vm[n].owner # "ours"

(***************************************************************************)
(* What the state file claims of the nodes and the cluster is so.          *)
(***************************************************************************)
Evidence ==
    /\ \A n \in file.created : vm[n].owner = "ours"
    /\ \A n \in file.started : vm[n].state # "stopped"
    /\ \A n \in file.ready : vm[n].state = "ready"
    /\ file.clustered => formed

(***************************************************************************)
(* Evidence never runs ahead of the lab: in a state file that the current  *)
(* up began, every claim holds at every moment, killed or not.             *)
(***************************************************************************)
FreshEvidenceTrue ==
    file.kind = "ok" /\ cmd = "up" /\ file.born = run => Evidence

(***************************************************************************)
(* Nothing collides at the template's address: over any sequence of failed *)
(* and killed runs at most one VM at a time is up with it, a clone that    *)
(* has not been re-identified or the template under construction.  Beside  *)
(* the serialized pass it takes up's refusal of leftovers and PVE's of     *)
(* deleting a template that has clones.                                    *)
(***************************************************************************)
OneAtTemplateAddress ==
    Cardinality({n \in Slots : IF n = 0 THEN vm[n].state \in {"up", "ready"}
                               ELSE vm[n].cloned /\ vm[n].state = "up"}) <= 1

(***************************************************************************)
(* A template is only ever made of a finished installation, and so is a    *)
(* node that up reports, whichever build was killed or failed before.      *)
(***************************************************************************)
TemplateInstalled == Template => vm[0].system
=============================================================================
