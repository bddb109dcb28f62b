----------------------------- MODULE LabProofs -----------------------------
(***************************************************************************)
(* What the pvelab commands guarantee for every number of nodes, however   *)
(* many of them are run, fail or are killed, and whatever others do.       *)
(***************************************************************************)
EXTENDS Lab, FiniteSetTheorems, TLAPS

UpStages    == {"check", "seed", "make", "noteMade", "boot", "noteBooted",
                "await", "noteReady", "form", "noteFormed", "handoff"}
DownStages  == {"down", "purge", "remove"}
BuildStages == {"slot", "slotStop", "slotDelete", "create", "install", "finish",
                "halt", "convert"}

\* What is known of up once a part of it is behind.
Seeded   == UpStages \ {"check", "seed"}
AllMade  == Seeded \ {"make"}
Measured == {"form", "noteFormed", "handoff"}

(***************************************************************************)
(* A stage belongs to a command, a running command has no result yet, and  *)
(* the state file is of an earlier command until up has seeded it.         *)
(***************************************************************************)
Commands ==
    /\ pc \in UpStages => cmd = "up"
    /\ pc \in DownStages => cmd = "down"
    /\ pc \in BuildStages => cmd = "template"
    /\ pc # "idle" => res = "none"
    /\ res = "up" => cmd = "up"
    /\ file.born <= run
    /\ pc \in {"check", "seed"} => file.born < run
    /\ \A n \in Slots : vm[n].owner = "none" => vm[n] = Absent

(***************************************************************************)
(* down: a node that is done with has no VM of pvelab's left.              *)
(***************************************************************************)
DownAt(n) ==
    /\ pc \in {"down", "purge"} /\ node[n] = "ok" => vm[n].owner # "ours"
    /\ pc = "purge" => node[n] \in {"ok", "err"}
    /\ pc = "remove" \/ res = "down" => vm[n].owner # "ours"

DownInv == \A n \in Nodes : DownAt(n)

(***************************************************************************)
(* What is about to be stopped or deleted passed the check or the listing: *)
(* if it is foreign now, it came there since.                              *)
(***************************************************************************)
Condemned(n) ==
    \/ n = 0 /\ pc \in {"slotStop", "slotDelete"}
    \/ n \in Nodes /\ pc = "down" /\ node[n] \in {"stop", "delete"}

SpareAt(n) == Condemned(n) /\ vm[n].owner = "foreign" => vm[n].made = run

SpareInv == SparesWhatItFound /\ \A n \in Slots : SpareAt(n)

(***************************************************************************)
(* template build: the VM in the slot follows the stages, and as long as   *)
(* there is a clone, or an up that makes clones, the template is there.    *)
(***************************************************************************)
Building(stage, state) ==
    pc = stage => vm[0].owner = "ours" /\ vm[0].state = state

BuildInv ==
    /\ pc = "slotStop" => vm[0].state # "template"
    /\ Building("install", "stopped")
    /\ Building("finish", "up")
    /\ Building("halt", "ready")
    /\ Building("convert", "stopped")
    /\ pc \in {"halt", "convert"} => vm[0].system
    /\ Template => vm[0].system
    /\ \A n \in Nodes : vm[n].cloned => Template
    /\ pc \in UpStages \ {"check"} /\ clone => Template

(***************************************************************************)
(* up from clones: no clone is left from an earlier run, none is booted    *)
(* before its turn, and those before it have left the template's address.  *)
(***************************************************************************)
Hot(n) == vm[n].cloned /\ vm[n].state = "up"

CloneAt(n) ==
    /\ pc \in UpStages \ {"check"} /\ vm[n].cloned => clone
    /\ pc \in {"seed", "make", "noteMade"} => ~ Hot(n)
    /\ pc = "await" /\ clone =>
          /\ node[n] # "todo" => \A m \in 1..(n - 1) : node[m] = "ok"
          /\ node[n] \in {"todo", "ok"} => ~ Hot(n)

CloneInv ==
    /\ pc \in {"boot", "noteBooted"} => ~ clone
    /\ \A n \in Nodes : CloneAt(n)
    /\ \A m, n \in Nodes : Hot(m) /\ Hot(n) => m = n

(***************************************************************************)
(* up: how far it has come with a node, with the cluster and with the      *)
(* state file.                                                             *)
(***************************************************************************)
Mine(n) == vm[n].owner = "ours" /\ vm[n].made = run
Live(n) == Mine(n) /\ vm[n].state = "ready" /\ vm[n].system

UpAt(n) ==
    /\ pc \in UpStages => /\ node[n] \in {"todo", "booted", "ok", "err"}
                          /\ node[n] = "booted" => pc = "await"
    /\ pc = "make" /\ node[n] = "ok" => Mine(n)
    /\ pc \in AllMade => Mine(n)
    /\ pc \in {"await", "noteReady"} /\ node[n] = "ok" => Live(n)
    /\ pc = "noteReady" => node[n] = "ok" \/ At("err") # {}
    /\ pc \in Measured \/ res = "up" => Live(n)

Noted ==
    /\ pc \in Seeded \/ res = "up" => file.kind = "ok"
    /\ pc \in AllMade \ {"noteMade"} \/ res = "up" => file.created = Nodes
    /\ pc \in {"await", "noteReady"} /\ ~ clone => file.started = Nodes
    /\ pc \in Measured \/ res = "up" => /\ file.started = Nodes
                                        /\ file.ready = Nodes
    /\ pc \in {"noteFormed", "handoff"} \/ res = "up" => formed
    /\ pc = "handoff" \/ res = "up" => file.clustered
    /\ res = "up" => env

UpInv == Noted /\ \A n \in Nodes : UpAt(n)

(***************************************************************************)
(* A state file that the current up began claims nothing ahead of time,    *)
(* and only of VMs that nobody else can take away.                         *)
(***************************************************************************)
Fresh == file.kind = "ok" /\ cmd = "up" /\ file.born = run

BootedAt(n) ==
    /\ pc = "boot" /\ node[n] = "ok" => vm[n].state # "stopped"
    /\ pc = "noteBooted" => vm[n].state # "stopped"

FreshInv ==
    /\ \A n \in Nodes : BootedAt(n)
    /\ Fresh =>
          /\ Evidence
          /\ \A n \in file.started \cup file.ready : vm[n].owner = "ours"
          /\ pc \in Seeded \ Measured => file.ready = {}

LabInv == /\ TypeOK /\ Commands /\ DownInv /\ SpareInv /\ BuildInv /\ CloneInv
          /\ UpInv /\ FreshInv

-----------------------------------------------------------------------------
(***************************************************************************)
(* The steps by the command they belong to.                                *)
(***************************************************************************)
StartStep == \/ PrepareISO \/ Up
             \/ \E fl \in Flags : Down(fl)
             \/ \E fl \in SUBSET {"force"} : BuildTemplate(fl)

NodeUpStep(n) == Make(n) \/ Boot(n) \/ Await(n) \/ BootClone(n) \/ Reidentify(n)

StageUpStep == \/ Check \/ Seed \/ MadeAll \/ NoteMade \/ BootedAll \/ NoteBooted
               \/ AwaitedAll \/ NoteReady \/ Form \/ NoteFormed \/ WriteEnvFile

NodeDownStep(n) == CheckOwnership(n) \/ Stop(n) \/ Delete(n) \/ DeleteReplay(n)

StageDownStep == DownAll \/ Purge \/ Remove

ClearStep == \/ SlotTaken \/ SlotForced \/ SlotEmpty \/ StopTemplate
             \/ DeleteTemplate \/ DeleteTemplateReplay

BuildStep == \/ ClearStep \/ CreateTemplate \/ BootTemplate \/ InstallTemplate
             \/ ShutdownTemplate \/ ConvertTemplate

\* Every step is one of these.
LEMMA StepKinds ==
    ASSUME [Next]_vars
    PROVE  \/ StartStep \/ StageUpStep \/ StageDownStep \/ BuildStep \/ Killed
           \/ \E n \in Nodes : NodeUpStep(n) \/ NodeDownStep(n)
           \/ \E n \in Slots : Others(n) \/ Vanish(n)
           \/ UNCHANGED vars
BY DEF Next, StartStep, StageUpStep, StageDownStep, BuildStep, ClearStep, NodeUpStep,
       NodeDownStep, Spent

\* A node is a slot, and slot 0 is no node.
LEMMA SlotFacts ==
    /\ Nodes \subseteq Slots /\ 0 \in Slots /\ 0 \notin Nodes
    /\ Slots = Nodes \cup {0}
BY LabAssumption DEF Nodes, Slots

\* The parts of TypeOK in the form the provers use.
LEMMA TypeFacts ==
    ASSUME TypeOK
    PROVE  /\ vm \in [Slots -> VM] /\ file \in File
           /\ node \in [Nodes -> {"todo", "booted", "stop", "delete", "ok", "err"}]
           /\ formed \in BOOLEAN /\ iso \in BOOLEAN /\ env \in BOOLEAN
           /\ harm \subseteq {"found", "late"} /\ clone \in BOOLEAN
           /\ run \in 0..MaxRuns /\ run \in Nat /\ MaxRuns \in Nat
           /\ Absent \in VM /\ NoFile \in File /\ Torn \in File /\ Loaded \in File
           /\ Untouched \in [Nodes -> {"todo", "booted", "stop", "delete", "ok", "err"}]
<1>1. run \in 0..MaxRuns /\ MaxRuns \in Nat /\ 0 \in 0..MaxRuns
  BY LabAssumption DEF TypeOK
<1>2. Absent \in VM /\ NoFile \in File
  BY <1>1 DEF Absent, VM, NoFile, File
<1>3. Torn \in File /\ [NoFile EXCEPT !.kind = "ok", !.born = run] \in File
  BY <1>1, <1>2 DEF Torn, File
<1>4. Loaded \in File
  BY <1>3 DEF Loaded, TypeOK
<1> QED
  BY <1>1, <1>2, <1>3, <1>4 DEF TypeOK, Untouched

-----------------------------------------------------------------------------
(***************************************************************************)
(* Type correctness.                                                       *)
(***************************************************************************)
OuterOK   == vm \in [Slots -> VM] /\ {formed, iso} \subseteq BOOLEAN
FilesOK   == file \in File /\ env \in BOOLEAN
CommandOK == /\ cmd \in {"none", "iso", "template", "up", "down"}
             /\ pc \in Stages \cup {"idle"}
             /\ flags \in SUBSET {"force", "noState", "purge"}
             /\ clone \in BOOLEAN
             /\ node \in [Nodes -> {"todo", "booted", "stop", "delete", "ok", "err"}]
             /\ run \in 0..MaxRuns
             /\ res \in {"none", "failed", "up", "down", "template"}
RestOK    == harm \subseteq {"found", "late"} /\ foreign \in 0..MaxForeign

\* TypeOK is their conjunction.
LEMMA TypeParts ==
    /\ TypeOK <=> OuterOK /\ FilesOK /\ CommandOK /\ RestOK
    /\ TypeOK' <=> OuterOK' /\ FilesOK' /\ CommandOK' /\ RestOK'
BY DEF TypeOK, OuterOK, FilesOK, CommandOK, RestOK

\* Going on to a stage and returning keep the command well typed.
LEMMA GotoOK ==
    ASSUME CommandOK, Untouched \in [Nodes -> {"todo", "booted", "stop", "delete", "ok", "err"}],
           \/ \E s \in Stages : Goto(s)
           \/ \E h \in {"failed", "up", "down", "template"} : Exit(h)
    PROVE  CommandOK'
BY DEF CommandOK, Goto, Exit

\* A node's part of a stage ends with a mark of its own.
LEMMA MarkOK ==
    ASSUME TypeOK, NEW n \in Nodes,
           NEW s \in {"todo", "booted", "stop", "delete", "ok", "err"},
           node' = [node EXCEPT ![n] = s],
           UNCHANGED <<cmd, pc, flags, clone, run, res>>
    PROVE  CommandOK'
BY DEF TypeOK, CommandOK

\* A VM is replaced by another.
LEMMA PutOK ==
    ASSUME TypeOK, NEW n \in Slots, NEW v \in VM, vm' = [vm EXCEPT ![n] = v]
    PROVE  vm' \in [Slots -> VM]
BY DEF TypeOK

\* Its state, or its state and its system, are set.
LEMMA EditOK ==
    ASSUME TypeOK, NEW n \in Slots,
           NEW st \in {"stopped", "up", "ready", "template"},
           \/ vm' = [vm EXCEPT ![n].state = st]
           \/ vm' = [vm EXCEPT ![n].state = st, ![n].system = TRUE]
           \/ vm' = vm
    PROVE  vm' \in [Slots -> VM]
<1>1. vm \in [Slots -> VM] /\ vm[n] \in VM
  BY DEF TypeOK
<1>2. /\ [vm[n] EXCEPT !.state = st] \in VM
      /\ [vm[n] EXCEPT !.state = st, !.system = TRUE] \in VM
  BY <1>1 DEF VM
<1> QED
  BY <1>1, <1>2

\* Starting a command, and a stage of up, keep the types.
LEMMA TypeStart == ASSUME TypeOK, StartStep PROVE TypeOK'
<1>1. OuterOK' /\ FilesOK' /\ RestOK'
  BY TypeFacts DEF TypeOK, OuterOK, FilesOK, RestOK, StartStep, PrepareISO, Up, Down,
     BuildTemplate, outer, files
<1>2. run' \in 0..MaxRuns
  BY TypeFacts DEF StartStep, PrepareISO, Up, Down, BuildTemplate, Begin
<1>3. ASSUME NEW c \in {"iso", "template", "up", "down"},
             NEW s \in {"idle", "check", "down", "slot"},
             NEW fl \in SUBSET {"force", "noState", "purge"}, Begin(c, s, fl)
      PROVE  CommandOK'
  BY <1>2, <1>3, TypeFacts DEF CommandOK, Begin, Stages
<1>4. CommandOK'
  BY <1>3, LabAssumption DEF StartStep, PrepareISO, Up, Down, BuildTemplate
<1> QED
  BY <1>1, <1>4, TypeParts

\* A note in the state file keeps the types.
LEMMA TypeNote ==
    ASSUME TypeOK, NEW f \in File, NEW s \in Stages, UpdateState(f, s)
    PROVE  CommandOK' /\ file' \in File
<1>1. CommandOK'
  BY TypeParts, TypeFacts, GotoOK DEF UpdateState
<1> QED
  BY <1>1 DEF UpdateState, TypeOK

\* A stage of up keeps the types.
LEMMA TypeStageUp == ASSUME TypeOK, StageUpStep PROVE TypeOK'
<1> USE TypeFacts, TypeParts
<1>1. ASSUME UNCHANGED <<outer, foreign, harm>>, CommandOK', FilesOK' PROVE TypeOK'
  BY <1>1 DEF OuterOK, RestOK, outer
<1>2. CASE Check
  <2>1. CommandOK'
    BY <1>2, GotoOK DEF Check, CommandOK, Template, Stages
  <2> QED
    BY <1>1, <1>2, <2>1 DEF Check, FilesOK, files
<1>3. CASE Seed
  BY <1>1, <1>3, TypeNote DEF Seed, FilesOK, Stages
<1>4. CASE MadeAll \/ BootedAll
  <2>1. CommandOK'
    BY <1>4, GotoOK DEF MadeAll, BootedAll, Joined, Stages
  <2> QED
    BY <1>1, <1>4, <2>1 DEF MadeAll, BootedAll, Joined, FilesOK, files
<1>5. CASE NoteMade
  <2>1. [Loaded EXCEPT !.created = Nodes] \in File
    BY DEF File
  <2> QED
    BY <1>1, <1>5, <2>1, TypeNote DEF NoteMade, FilesOK, Stages
<1>6. CASE NoteBooted
  <2>1. [Loaded EXCEPT !.started = Nodes] \in File
    BY DEF File
  <2> QED
    BY <1>1, <1>6, <2>1, TypeNote DEF NoteBooted, FilesOK, Stages
<1>7. CASE AwaitedAll
  BY <1>1, <1>7 DEF AwaitedAll, FilesOK, CommandOK, files, Stages
<1>8. CASE NoteReady
  <2> DEFINE f == [Loaded EXCEPT !.ready = (@ \ At("err")) \cup At("ok"),
                                 !.started = IF clone THEN @ \cup At("ok") ELSE @]
  <2>1. f \in File
    BY DEF File, At
  <2>2. CASE file.kind = "torn" \/ At("err") # {}
    <3>1. Exit("failed") /\ file' \in {file, f}
      BY <1>8, <2>2 DEF NoteReady
    <3>2. CommandOK'
      BY <3>1, GotoOK
    <3> QED
      BY <1>1, <1>8, <2>1, <3>1, <3>2 DEF NoteReady, FilesOK
  <2>3. CASE ~ (file.kind = "torn" \/ At("err") # {})
    <3>1. UpdateState(f, "form")
      BY <1>8, <2>3 DEF NoteReady
    <3> QED
      BY <1>1, <1>8, <2>1, <3>1, TypeNote DEF NoteReady, FilesOK, Stages
  <2> QED
    BY <2>2, <2>3
<1>9. CASE Form
  <2>1. CommandOK'
    BY <1>9, GotoOK DEF Form, Stages
  <2>2. OuterOK' /\ FilesOK' /\ RestOK'
    BY <1>9 DEF Form, OuterOK, FilesOK, RestOK, files
  <2> QED
    BY <2>1, <2>2
<1>10. CASE NoteFormed
  <2>1. [Loaded EXCEPT !.clustered = TRUE] \in File
    BY DEF File
  <2> QED
    BY <1>1, <1>10, <2>1, TypeNote DEF NoteFormed, FilesOK, Stages
<1>11. CASE WriteEnvFile
  <2>1. CommandOK'
    BY <1>11, GotoOK DEF WriteEnvFile
  <2> QED
    BY <1>1, <1>11, <2>1 DEF WriteEnvFile, FilesOK
<1> QED
  BY <1>2, <1>3, <1>4, <1>5, <1>6, <1>7, <1>8, <1>9, <1>10, <1>11 DEF StageUpStep

\* A node's part of a stage of up keeps the types.
LEMMA TypeNodeUp == ASSUME TypeOK, NEW n \in Nodes, NodeUpStep(n) PROVE TypeOK'
<1> USE TypeFacts, TypeParts
<1>1. /\ UNCHANGED <<formed, iso, files, cmd, pc, flags, clone, run, res, foreign, harm>>
      /\ \E s \in {"booted", "ok", "err"} : node' = [node EXCEPT ![n] = s]
  BY DEF NodeUpStep, Make, Boot, Await, BootClone, Reidentify
<1>2. n \in Slots
  BY SlotFacts
<1>3. vm' \in [Slots -> VM]
  <2>1. CASE Make(n)
    <3>1. vm[0].system \in BOOLEAN
      BY SlotFacts DEF VM
    <3>2. Made \in VM
      BY <3>1 DEF Made, VM
    <3> QED
      BY <1>2, <2>1, <3>2, PutOK DEF Make
  <2>2. CASE Boot(n) \/ BootClone(n)
    BY <1>2, <2>2, EditOK DEF Boot, BootClone
  <2>3. CASE Await(n) \/ Reidentify(n)
    BY <1>2, <2>3, EditOK DEF Await, Reidentify
  <2> QED
    BY <2>1, <2>2, <2>3 DEF NodeUpStep
<1>4. CommandOK'
  BY <1>1, MarkOK
<1> QED
  BY <1>1, <1>3, <1>4 DEF OuterOK, FilesOK, RestOK, files

\* So do the steps of down.
LEMMA TypeNodeDown == ASSUME TypeOK, NEW n \in Nodes, NodeDownStep(n) PROVE TypeOK'
<1> USE TypeFacts, TypeParts
<1>1. /\ UNCHANGED <<iso, files, cmd, pc, flags, clone, run, res, foreign>>
      /\ node' = node \/ \E s \in {"stop", "delete", "ok", "err"} : Part(n, s)
  BY DEF NodeDownStep, CheckOwnership, Stop, Delete, DeleteReplay, GoneIs, Teardown
<1>2. n \in Slots
  BY SlotFacts
<1>3. CommandOK'
  <2>1. CASE node' = node
    BY <1>1, <2>1 DEF CommandOK
  <2> QED
    BY <1>1, <2>1, MarkOK DEF Part
<1>4. /\ formed' = formed \/ Gone(n)
      /\ harm' = harm \/ Touch(n)
  BY DEF NodeDownStep, CheckOwnership, Stop, Delete, DeleteReplay, Erase
<1>5. formed' \in BOOLEAN /\ harm' \subseteq {"found", "late"}
  BY <1>4 DEF Gone, Touch
<1>6. vm' \in [Slots -> VM]
  <2>1. CASE CheckOwnership(n) \/ Stop(n)
    BY <1>2, <2>1, EditOK DEF CheckOwnership, Stop
  <2>2. CASE Delete(n) \/ DeleteReplay(n)
    BY <1>2, <2>2, PutOK DEF Delete, DeleteReplay, Erase, Gone
  <2> QED
    BY <2>1, <2>2 DEF NodeDownStep
<1> QED
  BY <1>1, <1>3, <1>5, <1>6 DEF OuterOK, FilesOK, RestOK, files

\* The stages of down, and the end of a killed command.
LEMMA TypeStageDown == ASSUME TypeOK, StageDownStep \/ Killed PROVE TypeOK'
<1> USE TypeFacts, TypeParts
<1>1. CASE DownAll
  BY <1>1 DEF DownAll, OuterOK, FilesOK, CommandOK, RestOK, outer, files, Stages
<1>2. CASE Purge
  <2>1. CommandOK'
    BY <1>2, GotoOK DEF Purge, Stages
  <2>2. iso' \in BOOLEAN
    BY <1>2 DEF Purge
  <2> QED
    BY <1>2, <2>1, <2>2 DEF Purge, OuterOK, FilesOK, RestOK, files
<1>3. CASE Remove \/ Killed
  <2>1. CommandOK'
    BY <1>3, GotoOK DEF Remove, Killed
  <2> QED
    BY <1>3, <2>1 DEF Remove, Killed, OuterOK, FilesOK, RestOK, outer
<1> QED
  BY <1>1, <1>2, <1>3 DEF StageDownStep

\* The steps of template build.
LEMMA TypeBuild == ASSUME TypeOK, BuildStep PROVE TypeOK'
<1> USE TypeFacts, TypeParts, SlotFacts
<1>1. vm[0] \in VM
  OBVIOUS
<1>2. vm' \in [Slots -> VM]
  <2>1. CASE SlotTaken \/ SlotForced \/ SlotEmpty
    BY <2>1 DEF SlotTaken, SlotForced, SlotEmpty
  <2>2. CASE StopTemplate \/ ConvertTemplate
    BY <2>2, EditOK DEF StopTemplate, ConvertTemplate
  <2>3. CASE DeleteTemplate \/ DeleteTemplateReplay
    BY <2>3, PutOK DEF DeleteTemplate, DeleteTemplateReplay, Erase, Gone
  <2>4. ASSUME NEW v \in VM, vm' = [vm EXCEPT ![0] = v] \/ vm' = vm
        PROVE  vm' \in [Slots -> VM]
    BY <2>4, PutOK
  <2>5. CASE CreateTemplate
    <3>1. vm[0].system \in BOOLEAN
      BY <1>1 DEF VM
    <3>2. Made \in VM
      BY <3>1 DEF Made, VM
    <3> QED
      BY <2>4, <2>5, <3>2 DEF CreateTemplate, Operate
  <2>6. CASE BootTemplate
    <3>1. [vm[0] EXCEPT !.state = "up"] \in VM
      BY <1>1 DEF VM
    <3> QED
      BY <2>4, <2>6, <3>1 DEF BootTemplate, Operate
  <2>7. CASE InstallTemplate
    <3>1. [vm[0] EXCEPT !.state = "ready", !.system = TRUE] \in VM
      BY <1>1 DEF VM
    <3> QED
      BY <2>4, <2>7, <3>1 DEF InstallTemplate, Operate
  <2>8. CASE ShutdownTemplate
    <3>1. [vm[0] EXCEPT !.state = "stopped"] \in VM
      BY <1>1 DEF VM
    <3> QED
      BY <2>4, <2>8, <3>1 DEF ShutdownTemplate, Operate
  <2> QED
    BY <2>1, <2>2, <2>3, <2>5, <2>6, <2>7, <2>8 DEF BuildStep, ClearStep
<1>3. CommandOK'
  <2>1. \/ \E s \in Stages : Goto(s)
        \/ \E h \in {"failed", "template"} : Exit(h)
        \/ UNCHANGED command
    BY DEF BuildStep, ClearStep, SlotTaken, SlotForced, StopTemplate, DeleteTemplate,
           DeleteTemplateReplay, SlotEmpty, SlotFree, CreateTemplate, BootTemplate,
           InstallTemplate, ShutdownTemplate, ConvertTemplate, Operate, Stages
  <2> QED
    BY <2>1, GotoOK DEF command, CommandOK
<1>4. /\ UNCHANGED <<iso, files, foreign>>
      /\ formed' = formed \/ Gone(0)
      /\ harm' = harm \/ Touch(0)
  BY DEF BuildStep, ClearStep, SlotTaken, SlotForced, StopTemplate, DeleteTemplate,
         DeleteTemplateReplay, SlotEmpty, CreateTemplate, BootTemplate,
         InstallTemplate, ShutdownTemplate, ConvertTemplate, Operate, Build, Erase
<1>5. formed' \in BOOLEAN /\ harm' \subseteq {"found", "late"}
  BY <1>4 DEF Gone, Touch
<1> QED
  BY <1>2, <1>3, <1>4, <1>5 DEF OuterOK, FilesOK, RestOK, files

\* Every step keeps the types.
LEMMA TypeNext == ASSUME TypeOK, [Next]_vars PROVE TypeOK'
<1>1. CASE UNCHANGED vars
  BY <1>1 DEF TypeOK, vars, outer, files, command
<1>2. ASSUME NEW n \in Slots, Others(n) PROVE TypeOK'
  <2>1. ASSUME NEW who \in {"lab", "foreign"}, NEW k \in 0..MaxRuns
        PROVE  [Absent EXCEPT !.owner = who, !.made = k] \in VM
    BY TypeFacts DEF VM
  <2>2. vm' \in [Slots -> VM]
    <3> DEFINE k == IF Looked(n) THEN run ELSE 0
    <3>1. k \in 0..MaxRuns
      BY TypeFacts
    <3>2. PICK who \in {"lab", "foreign"} :
             vm' = [vm EXCEPT ![n] = [Absent EXCEPT !.owner = who, !.made = k]]
      BY <1>2 DEF Others
    <3> HIDE DEF k
    <3> QED
      BY <2>1, <3>1, <3>2, PutOK
  <2>3. foreign' \in 0..MaxForeign
    BY <1>2, LabAssumption DEF Others, TypeOK
  <2> QED
    BY <1>2, <2>2, <2>3 DEF TypeOK, Others, files, command
<1>3. ASSUME NEW n \in Slots, Vanish(n) PROVE TypeOK'
  <2>1. vm' \in [Slots -> VM] /\ formed' \in BOOLEAN
    BY <1>3, PutOK, TypeFacts DEF Vanish, Gone
  <2> QED
    BY <1>3, <2>1 DEF TypeOK, Vanish, files, command
<1> QED
  BY <1>1, <1>2, <1>3, StepKinds, TypeStart, TypeStageUp, TypeStageDown, TypeBuild,
     TypeNodeUp, TypeNodeDown

\* The lab starts well typed.
LEMMA TypeInit == Init => TypeOK
<1> SUFFICES ASSUME Init PROVE TypeOK
  OBVIOUS
<1>1. 0 \in 0..MaxRuns /\ 0 \in 0..MaxForeign
  BY LabAssumption
<1>2. Absent \in VM /\ NoFile \in File
  BY <1>1 DEF Absent, VM, NoFile, File
<1>3. [Absent EXCEPT !.owner = "ours", !.system = TRUE, !.state = "template"] \in VM
  BY <1>2 DEF VM
<1>4. vm \in [Slots -> VM]
  BY <1>2, <1>3 DEF Init
<1> QED
  BY <1>1, <1>2, <1>4 DEF Init, TypeOK, Untouched

-----------------------------------------------------------------------------
(***************************************************************************)
(* What a step of each kind leaves alone, which is all that the parts of   *)
(* the invariant about the other commands need to know of it.              *)
(***************************************************************************)
UpFrame ==
    /\ pc \in UpStages /\ pc' \in UpStages \cup {"idle"}
    /\ res' \in {res, "failed", "up"} /\ (pc' # "idle" => res' = res)
    /\ UNCHANGED <<cmd, run, harm>>
    /\ vm'[0] = vm[0]
    /\ pc # "check" => clone' = clone
    /\ pc = "check" => pc' = "idle" \/ (pc' = "seed" /\ clone' = Template)

DownFrame ==
    /\ pc \in DownStages /\ pc' \in DownStages \cup {"idle"}
    /\ res' \in {res, "failed", "down"} /\ (pc' # "idle" => res' = res)
    /\ UNCHANGED <<cmd, run, clone>>
    /\ vm'[0] = vm[0]
    /\ \A n \in Nodes :
          \/ vm'[n] \in {vm[n], Absent}
          \/ vm[n].owner # "none" /\ vm'[n] = [vm[n] EXCEPT !.state = "stopped"]
    /\ file' \in {file, NoFile}

BuildFrame ==
    /\ pc \in BuildStages /\ pc' \in BuildStages \cup {"idle"}
    /\ res' \in {res, "failed", "template"} /\ (pc' # "idle" => res' = res)
    /\ UNCHANGED <<cmd, run, clone, file, env, formed>>
    /\ \A n \in Nodes : vm'[n] = vm[n]

StartFrame ==
    /\ pc = "idle" /\ run' = run + 1 /\ res' = "none" /\ node' = Untouched
    /\ <<cmd', pc'>> \in {<<"iso", "idle">>, <<"up", "check">>, <<"down", "down">>,
                          <<"template", "slot">>}
    /\ UNCHANGED <<vm, formed, file, env, harm>>

OthersFrame(n) ==
    /\ vm[n].owner = "none"
    /\ \A m \in Slots : m # n => vm'[m] = vm[m]
    /\ vm'[n].owner \in {"lab", "foreign"}
    /\ ~ vm'[n].cloned /\ vm'[n].state = "stopped"
    /\ Looked(n) => vm'[n].made = run
    /\ UNCHANGED <<formed, iso, file, env, cmd, pc, flags, clone, node, run, res, harm>>

VanishFrame(n) ==
    /\ pc \in {"down", "slotStop", "slotDelete"}
    /\ vm[n].owner = "ours"
    /\ vm[n].state = "template" => \A m \in Nodes : ~ vm[m].cloned
    /\ vm' = [vm EXCEPT ![n] = Absent]
    /\ UNCHANGED <<iso, file, env, cmd, pc, flags, clone, node, run, res, harm>>

KilledFrame ==
    /\ pc # "idle" /\ pc' = "idle" /\ res' = "failed"
    /\ UNCHANGED <<vm, formed, env, harm, cmd, clone, run>>
    /\ file' \in {file, Torn}

StillFrame ==
    UNCHANGED <<vm, formed, iso, file, env, cmd, pc, flags, clone, node, run, res, harm>>

\* The frames of the steps that belong to no node.
LEMMA StartFrames == StartStep => StartFrame
BY DEF StartStep, PrepareISO, Up, Down, BuildTemplate, Begin, StartFrame, outer, files

\* A killed command returns, and at worst leaves a torn state file.
LEMMA KilledFrames == Killed => KilledFrame
BY DEF Killed, KilledFrame, Exit, outer, Writing

\* Others take one free slot and touch nothing else.
LEMMA OthersFrames == ASSUME TypeOK, NEW n \in Slots, Others(n) PROVE OthersFrame(n)
<1> DEFINE v(who) == [Absent EXCEPT !.owner = who,
                                    !.made = IF Looked(n) THEN run ELSE 0]
<1>1. PICK who \in {"lab", "foreign"} : vm' = [vm EXCEPT ![n] = v(who)]
  BY DEF Others
<1>2. /\ v(who).owner = who /\ ~ v(who).cloned /\ v(who).state = "stopped"
      /\ Looked(n) => v(who).made = run
  BY DEF Absent
<1> HIDE DEF v
<1>3. vm'[n] = v(who) /\ \A m \in Slots : m # n => vm'[m] = vm[m]
  BY <1>1, TypeFacts
<1> QED
  BY <1>1, <1>2, <1>3 DEF Others, OthersFrame, files, command

\* Somebody removes one VM of the lab.
LEMMA VanishFrames == ASSUME NEW n \in Slots, Vanish(n) PROVE VanishFrame(n)
BY DEF Vanish, VanishFrame, Gone, files, command

\* A step that changes nothing.
LEMMA StillFrames == UNCHANGED vars => StillFrame
BY DEF vars, outer, files, command, StillFrame

\* An edit of one slot leaves the others alone.
LEMMA OneSlot ==
    ASSUME TypeOK, NEW n \in Slots, NEW m \in Slots, m # n,
           \/ \E v : vm' = [vm EXCEPT ![n] = v]
           \/ \E st : vm' = [vm EXCEPT ![n].state = st]
           \/ \E st : vm' = [vm EXCEPT ![n].state = st, ![n].system = TRUE]
           \/ vm' = vm
    PROVE  vm'[m] = vm[m]
BY DEF TypeOK

\* A step of up leaves slot 0 and the command alone.
LEMMA UpFrames ==
    ASSUME TypeOK, StageUpStep \/ \E n \in Nodes : NodeUpStep(n)
    PROVE  UpFrame
<1>1. ASSUME StageUpStep PROVE UpFrame
  BY <1>1 DEF StageUpStep, Check, Seed, MadeAll, NoteMade, BootedAll, NoteBooted,
     AwaitedAll, NoteReady, Form, NoteFormed, WriteEnvFile, Joined, UpdateState, Goto,
     Exit, UpFrame, UpStages, outer
<1>2. ASSUME NEW n \in Nodes, NodeUpStep(n) PROVE UpFrame
  <2>1. vm'[0] = vm[0]
    BY <1>2, SlotFacts, OneSlot DEF NodeUpStep, Make, Boot, Await, BootClone, Reidentify
  <2> QED
    BY <1>2, <2>1 DEF NodeUpStep, Make, Boot, Await, BootClone, Reidentify, UpFrame,
       UpStages
<1> QED
  BY <1>1, <1>2

\* A step of down only stops and deletes, and at most forgets the state file.
LEMMA DownFrames ==
    ASSUME TypeOK, StageDownStep \/ \E n \in Nodes : NodeDownStep(n)
    PROVE  DownFrame
<1>1. ASSUME StageDownStep PROVE DownFrame
  BY <1>1 DEF StageDownStep, DownAll, Purge, Remove, Goto, Exit, DownFrame, DownStages,
     outer, files
<1>2. ASSUME NEW n \in Nodes, NodeDownStep(n) PROVE DownFrame
  <2>1. \A m \in Slots : m # n => vm'[m] = vm[m]
    BY <1>2, SlotFacts, OneSlot DEF NodeDownStep, CheckOwnership, Stop, Delete,
       DeleteReplay, Erase, Gone
  <2>2. \/ vm'[n] \in {vm[n], Absent}
        \/ vm[n].owner # "none" /\ vm'[n] = [vm[n] EXCEPT !.state = "stopped"]
    BY <1>2, SlotFacts, TypeFacts DEF NodeDownStep, CheckOwnership, Stop, Delete,
       DeleteReplay, Erase, Gone
  <2>3. /\ pc = "down" /\ pc' = pc /\ res' = res
        /\ UNCHANGED <<cmd, run, clone, file>>
    BY <1>2 DEF NodeDownStep, CheckOwnership, Stop, Delete, DeleteReplay, Teardown, files
  <2> QED
    BY <2>1, <2>2, <2>3, SlotFacts DEF DownFrame, DownStages
<1> QED
  BY <1>1, <1>2

\* A step of template build leaves the nodes, the cluster and the files alone.
LEMMA BuildFrames ==
    ASSUME TypeOK, BuildStep
    PROVE  BuildFrame
<1>1. \A n \in Nodes : vm'[n] = vm[n]
  BY SlotFacts, OneSlot DEF BuildStep, ClearStep, SlotTaken, SlotForced, StopTemplate,
     DeleteTemplate, DeleteTemplateReplay, SlotEmpty, CreateTemplate, BootTemplate,
     InstallTemplate, ShutdownTemplate, ConvertTemplate, Operate, Erase, Gone
<1>2. formed' = formed
  <2>1. CASE DeleteTemplate \/ DeleteTemplateReplay
    BY <2>1, TypeFacts DEF DeleteTemplate, DeleteTemplateReplay, Erase, Gone
  <2> QED
    BY <2>1 DEF BuildStep, ClearStep, SlotTaken, SlotForced, StopTemplate, SlotEmpty,
       CreateTemplate, BootTemplate, InstallTemplate, ShutdownTemplate, ConvertTemplate,
       Operate, Build
<1>3. /\ pc \in BuildStages /\ pc' \in BuildStages \cup {"idle"}
      /\ res' \in {res, "failed", "template"} /\ (pc' # "idle" => res' = res)
      /\ UNCHANGED <<cmd, run, clone, file, env>>
  BY DEF BuildStep, ClearStep, SlotTaken, SlotForced, StopTemplate, DeleteTemplate,
     DeleteTemplateReplay, SlotEmpty, SlotFree, CreateTemplate, BootTemplate,
     InstallTemplate, ShutdownTemplate, ConvertTemplate, Operate, Build, Goto, Exit,
     command, files, BuildStages
<1> QED
  BY <1>1, <1>2, <1>3 DEF BuildFrame

\* One of the frames describes every step.
LEMMA Frames ==
    ASSUME TypeOK, [Next]_vars
    PROVE  \/ StartFrame \/ UpFrame \/ DownFrame \/ BuildFrame \/ KilledFrame
           \/ \E n \in Slots : OthersFrame(n) \/ VanishFrame(n)
           \/ StillFrame
BY StepKinds, StartFrames, KilledFrames, OthersFrames, VanishFrames, StillFrames,
   UpFrames, DownFrames, BuildFrames

-----------------------------------------------------------------------------
\* Nothing is left of a VM in a slot that is free.
LEMMA FreeStaysFree ==
    ASSUME TypeOK, Commands, BuildInv, [Next]_vars, NEW n \in Slots,
           vm'[n].owner = "none"
    PROVE  vm'[n] = Absent
<1> USE SlotFacts, TypeFacts
<1>1. vm[n] \in VM /\ (vm[n].owner = "none" => vm[n] = Absent)
  BY DEF Commands
<1>2. Absent.state = "stopped" /\ Absent.owner = "none"
  BY DEF Absent
<1>3. CASE vm'[n] = vm[n]
  BY <1>1, <1>3
<1>4. ASSUME NEW m \in Nodes, NodeUpStep(m) PROVE vm'[n] = Absent
  <2>1. CASE n # m
    BY <1>3, <1>4, <2>1, OneSlot DEF NodeUpStep, Make, Boot, Await, BootClone, Reidentify
  <2>2. CASE n = m /\ Make(m)
    BY <1>3, <2>2 DEF Make, Made
  <2>3. CASE n = m /\ (Boot(m) \/ BootClone(m))
    BY <1>1, <1>3, <2>3 DEF Boot, BootClone, VM
  <2>4. CASE n = m /\ (Await(m) \/ Reidentify(m))
    <3>1. vm[n].state = "up" => vm[n].owner # "none"
      BY <1>1, <1>2
    <3> QED
      BY <1>1, <1>3, <2>4, <3>1 DEF Await, Reidentify, VM
  <2> QED
    BY <1>4, <2>1, <2>2, <2>3, <2>4 DEF NodeUpStep
<1>5. ASSUME DownFrame PROVE vm'[n] = Absent
  <2>1. CASE n = 0
    BY <1>1, <1>5, <2>1 DEF DownFrame
  <2>2. CASE n \in Nodes
    <3>1. vm[n].owner # "none" => [vm[n] EXCEPT !.state = "stopped"].owner # "none"
      BY <1>1 DEF VM
    <3> QED
      BY <1>1, <1>5, <2>2, <3>1 DEF DownFrame
  <2> QED
    BY <2>1, <2>2
<1>6. ASSUME BuildStep PROVE vm'[n] = Absent
  <2>1. CASE n \in Nodes
    BY <1>3, <1>6, <2>1, BuildFrames DEF BuildFrame
  <2>2. CASE n = 0 /\ (SlotTaken \/ SlotForced \/ SlotEmpty)
    BY <1>3, <2>2 DEF SlotTaken, SlotForced, SlotEmpty
  <2>3. CASE n = 0 /\ (StopTemplate \/ DeleteTemplate \/ DeleteTemplateReplay)
    BY <1>1, <1>3, <2>3 DEF StopTemplate, DeleteTemplate, DeleteTemplateReplay, Erase,
       Gone, VM
  <2>4. CASE n = 0 /\ CreateTemplate
    BY <1>3, <2>4 DEF CreateTemplate, Operate, Made
  <2>5. CASE n = 0 /\ (BootTemplate \/ InstallTemplate \/ ShutdownTemplate)
    <3>1. vm[n].owner = "ours"
      BY <2>5 DEF BuildInv, Building, BootTemplate, InstallTemplate, ShutdownTemplate,
         Operate
    <3>2. vm'[n].owner = "ours"
      <4>1. /\ [vm[n] EXCEPT !.state = "up"].owner = "ours"
            /\ [vm[n] EXCEPT !.state = "ready", !.system = TRUE].owner = "ours"
            /\ [vm[n] EXCEPT !.state = "stopped"].owner = "ours"
        BY <1>1, <3>1 DEF VM
      <4> QED
        BY <2>5, <3>1, <4>1 DEF BootTemplate, InstallTemplate, ShutdownTemplate, Operate
    <3> QED
      BY <3>2
  <2>6. CASE n = 0 /\ ConvertTemplate
    <3>1. vm[n].owner = "ours"
      BY <2>6 DEF BuildInv, Building, ConvertTemplate
    <3>2. vm'[n].owner = "ours"
      BY <1>1, <2>6, <3>1 DEF ConvertTemplate, VM
    <3> QED
      BY <3>2
  <2> QED
    BY <1>6, <2>1, <2>2, <2>3, <2>4, <2>5, <2>6 DEF BuildStep, ClearStep
<1>7. ASSUME NEW m \in Slots, OthersFrame(m) \/ VanishFrame(m) PROVE vm'[n] = Absent
  BY <1>3, <1>7 DEF OthersFrame, VanishFrame
<1>8. ASSUME StageUpStep PROVE vm'[n] = Absent
  BY <1>3, <1>8 DEF StageUpStep, Check, Seed, MadeAll, NoteMade, BootedAll, NoteBooted,
     AwaitedAll, NoteReady, Form, NoteFormed, WriteEnvFile, Joined, outer
<1>9. ASSUME StartFrame \/ KilledFrame \/ StillFrame PROVE vm'[n] = Absent
  BY <1>3, <1>9 DEF StartFrame, KilledFrame, StillFrame
<1> QED
  BY <1>4, <1>5, <1>6, <1>7, <1>8, <1>9, StepKinds, StartFrames, KilledFrames,
     OthersFrames, VanishFrames, StillFrames, DownFrames

\* Stages keep to their command.
LEMMA CommandsNext ==
    ASSUME TypeOK, TypeOK', Commands, BuildInv, [Next]_vars
    PROVE  Commands'
<1>1. \A n \in Slots : vm'[n].owner = "none" => vm'[n] = Absent
  BY FreeStaysFree
<1>2. run \in Nat /\ file.born \in Nat /\ file.born <= run
  BY TypeFacts DEF Commands, File
<1>3. NoFile.born = 0 /\ Torn.born = 0
  BY DEF NoFile, Torn
<1>4. ASSUME StageUpStep \/ \E n \in Nodes : NodeUpStep(n)
      PROVE  /\ file'.born <= run
             /\ pc' \in {"check", "seed"} => file'.born < run
  <2>1. Loaded.born <= run
    BY <1>2 DEF Loaded, NoFile
  <2> QED
    BY <1>2, <1>4, <2>1, TypeFacts DEF StageUpStep, NodeUpStep, Check, Seed, MadeAll,
       NoteMade, BootedAll, NoteBooted, AwaitedAll, NoteReady, Form, NoteFormed,
       WriteEnvFile, Joined, UpdateState, Goto, Exit, Make, Boot, Await, BootClone,
       Reidentify, files, File, Commands
<1>5. CASE UpFrame /\ (StageUpStep \/ \E n \in Nodes : NodeUpStep(n))
  BY <1>1, <1>4, <1>5 DEF Commands, UpFrame, UpStages, DownStages, BuildStages
<1>6. CASE DownFrame
  BY <1>1, <1>2, <1>3, <1>6 DEF Commands, DownFrame, UpStages, DownStages, BuildStages
<1>7. CASE BuildFrame
  BY <1>1, <1>2, <1>7 DEF Commands, BuildFrame, UpStages, DownStages, BuildStages
<1>8. CASE StartFrame
  BY <1>1, <1>2, <1>8 DEF Commands, StartFrame, UpStages, DownStages, BuildStages
<1>9. CASE KilledFrame
  BY <1>1, <1>2, <1>3, <1>9 DEF Commands, KilledFrame, UpStages, DownStages, BuildStages
<1>10. CASE StillFrame \/ \E n \in Slots : OthersFrame(n) \/ VanishFrame(n)
  BY <1>1, <1>10 DEF Commands, StillFrame, OthersFrame, VanishFrame
<1> QED
  BY <1>5, <1>6, <1>7, <1>8, <1>9, <1>10, StepKinds, StartFrames, KilledFrames,
     OthersFrames, VanishFrames, StillFrames, UpFrames, DownFrames, BuildFrames

-----------------------------------------------------------------------------
(***************************************************************************)
(* down.                                                                   *)
(***************************************************************************)
\* What a node's part of down does to that node and to the others.
LEMMA NodeDownFacts ==
    ASSUME TypeOK, NEW n \in Nodes, NodeDownStep(n)
    PROVE  /\ pc = "down" /\ pc' = "down" /\ res' = res
           /\ \A m \in Nodes : m # n => vm'[m] = vm[m] /\ node'[m] = node[m]
<1>1. /\ pc = "down" /\ pc' = "down" /\ res' = res
      /\ node' = node \/ \E s : node' = [node EXCEPT ![n] = s]
  BY DEF NodeDownStep, CheckOwnership, Stop, Delete, DeleteReplay, GoneIs, Part, Teardown
<1>2. \A m \in Nodes : m # n => vm'[m] = vm[m]
  BY SlotFacts, OneSlot DEF NodeDownStep, CheckOwnership, Stop, Delete, DeleteReplay,
     Erase, Gone
<1> QED
  BY <1>1, <1>2, TypeFacts

\* The node itself.
LEMMA NodeDownKeeps ==
    ASSUME TypeOK, Commands, DownInv, NEW n \in Nodes, NodeDownStep(n)
    PROVE  DownAt(n)'
<1>1. /\ n \in Slots /\ vm[n] \in VM /\ res = "none" /\ DownAt(n)
      /\ pc = "down" /\ pc' = "down" /\ res' = res /\ Absent.owner = "none"
  BY SlotFacts, TypeFacts, NodeDownFacts DEF Commands, DownInv, Absent
<1>2. CASE CheckOwnership(n)
  <2>1. vm' = vm
    BY <1>2 DEF CheckOwnership
  <2>2. vm[n].owner = "none" \/ node'[n] \in {"stop", "err"}
    BY <1>2, TypeFacts DEF CheckOwnership, GoneIs, Part
  <2> QED
    BY <1>1, <2>1, <2>2 DEF DownAt
<1>3. CASE Stop(n)
  <2>1. node'[n] = "delete"
    BY <1>3, TypeFacts DEF Stop, Part
  <2> QED
    BY <1>1, <2>1 DEF DownAt
<1>4. Erase(n) => vm'[n] = Absent
  BY <1>1, TypeFacts DEF Erase, Gone
<1>5. CASE Delete(n)
  <2>1. \/ Erase(n)
        \/ vm[n].owner = "none" /\ vm' = vm
        \/ node'[n] = "err"
    BY <1>5, TypeFacts DEF Delete, Part
  <2> QED
    BY <1>1, <1>4, <2>1 DEF DownAt
<1>6. CASE DeleteReplay(n)
  BY <1>1, <1>4, <1>6 DEF DownAt, DeleteReplay
<1> QED
  BY <1>2, <1>3, <1>5, <1>6 DEF NodeDownStep

\* Every step keeps what is known of down.
LEMMA DownNext ==
    ASSUME TypeOK, TypeOK', Commands, DownInv, [Next]_vars
    PROVE  DownInv'
<1>1. ASSUME NEW n \in Nodes, NodeDownStep(n) PROVE DownInv'
  <2>1. ASSUME NEW m \in Nodes, m # n PROVE DownAt(m)'
    BY <1>1, <2>1, NodeDownFacts DEF DownInv, DownAt
  <2> QED
    BY <1>1, <2>1, NodeDownKeeps DEF DownInv
<1>2. CASE DownAll
  <2>1. /\ pc = "down" /\ pc' = "purge"
        /\ UNCHANGED <<vm, node, res>> /\ \A n \in Nodes : node[n] \in {"ok", "err"}
    BY <1>2 DEF DownAll, outer, At
  <2> QED
    BY <2>1 DEF DownInv, DownAt, Commands
<1>3. CASE Purge
  <2>1. /\ pc = "purge" /\ vm' = vm
        /\ \/ pc' = "idle" /\ res' = "failed"
           \/ At("err") = {} /\ pc' = "idle" /\ res' = "down"
           \/ At("err") = {} /\ pc' = "remove" /\ res' = res
    BY <1>3 DEF Purge, Exit, Goto
  <2>2. At("err") = {} => \A n \in Nodes : vm[n].owner # "ours"
    BY <2>1 DEF DownInv, DownAt, At
  <2> QED
    BY <2>1, <2>2 DEF DownInv, DownAt, Commands
<1>4. CASE Remove
  <2>1. pc = "remove" /\ pc' = "idle" /\ res' = "down" /\ vm' = vm
    BY <1>4 DEF Remove, Exit, outer
  <2> QED
    BY <2>1 DEF DownInv, DownAt
<1>5. CASE UpFrame
  BY <1>5 DEF UpFrame, DownInv, DownAt, Commands, UpStages
<1>6. CASE BuildFrame
  BY <1>6 DEF BuildFrame, DownInv, DownAt, Commands, BuildStages
<1>7. CASE StartFrame
  BY <1>7 DEF StartFrame, DownInv, DownAt, Untouched
<1>8. CASE KilledFrame
  BY <1>8 DEF KilledFrame, DownInv, DownAt
<1>9. ASSUME NEW m \in Slots, OthersFrame(m) \/ VanishFrame(m) PROVE DownInv'
  <2>1. \A n \in Nodes : vm'[n] = vm[n] \/ vm'[n].owner # "ours"
    BY <1>9, SlotFacts, TypeFacts DEF OthersFrame, VanishFrame, Absent
  <2>2. UNCHANGED <<pc, node, res>>
    BY <1>9 DEF OthersFrame, VanishFrame
  <2> QED
    BY <2>1, <2>2 DEF DownInv, DownAt
<1>10. CASE StillFrame
  BY <1>10 DEF StillFrame, DownInv, DownAt
<1> QED
  BY <1>1, <1>2, <1>3, <1>4, <1>5, <1>6, <1>7, <1>8, <1>9, <1>10, StepKinds, StartFrames,
     KilledFrames, OthersFrames, VanishFrames, StillFrames, UpFrames, BuildFrames
     DEF StageDownStep

-----------------------------------------------------------------------------
(***************************************************************************)
(* The blast radius.                                                       *)
(***************************************************************************)
\* Stopping or deleting what is condemned hits nothing that was found.
LEMMA TouchSpares ==
    ASSUME SpareInv, NEW n \in Slots, Condemned(n), Touch(n)
    PROVE  SparesWhatItFound'
BY DEF SpareInv, SpareAt, SparesWhatItFound, Touch

\* A stopped VM keeps its owner and its maker.
LEMMA StoppedIs ==
    ASSUME TypeOK, NEW n \in Slots, vm' = [vm EXCEPT ![n].state = "stopped"]
    PROVE  vm'[n].owner = vm[n].owner /\ vm'[n].made = vm[n].made
<1>1. vm[n] \in VM /\ vm'[n] = [vm[n] EXCEPT !.state = "stopped"]
  BY TypeFacts
<1> QED
  BY <1>1 DEF VM

\* A node's part of down condemns only what it has just checked.
LEMMA SpareNodeDown ==
    ASSUME TypeOK, SpareInv, NEW n \in Nodes, NodeDownStep(n)
    PROVE  SpareInv'
<1>1. /\ n \in Slots /\ n # 0 /\ Absent.owner = "none" /\ run' = run
      /\ pc = "down" /\ pc' = "down" /\ SpareAt(n) /\ SparesWhatItFound
      /\ \A m \in Nodes : m # n => vm'[m] = vm[m] /\ node'[m] = node[m]
  BY SlotFacts, NodeDownFacts DEF SpareInv, Absent, NodeDownStep, CheckOwnership, Stop,
     Delete, DeleteReplay, Teardown
<1>2. ASSUME NEW m \in Slots, m # n PROVE SpareAt(m)'
  BY <1>1, <1>2, SlotFacts DEF SpareInv, SpareAt, Condemned
<1>3. CASE CheckOwnership(n)
  <2>1. /\ vm' = vm /\ harm' = harm
        /\ node'[n] = "stop" => vm[n].owner \in {"ours", "lab"}
        /\ node'[n] # "delete"
    BY <1>3, TypeFacts DEF CheckOwnership, GoneIs, Part
  <2> QED
    BY <1>1, <1>2, <2>1 DEF SpareInv, SpareAt, Condemned, SparesWhatItFound
<1>4. CASE Stop(n)
  <2>1. /\ Condemned(n) /\ (harm' = harm \/ Touch(n))
        /\ vm' = vm \/ vm' = [vm EXCEPT ![n].state = "stopped"]
    BY <1>1, <1>4 DEF Stop, Condemned
  <2>2. SpareAt(n)'
    BY <1>1, <2>1, StoppedIs DEF SpareAt
  <2>3. SparesWhatItFound'
    BY <1>1, <2>1, TouchSpares DEF SparesWhatItFound
  <2> QED
    BY <1>2, <2>2, <2>3 DEF SpareInv
<1>5. CASE Delete(n) \/ DeleteReplay(n)
  <2>1. Condemned(n) /\ (harm' = harm \/ Touch(n))
    BY <1>1, <1>5 DEF Delete, DeleteReplay, Erase, Condemned
  <2>2. vm'[n] = Absent \/ node'[n] \in {"ok", "err"}
    BY <1>1, <1>5, TypeFacts DEF Delete, DeleteReplay, Erase, Gone, GoneIs, Part
  <2>3. SpareAt(n)'
    BY <1>1, <2>2 DEF SpareAt, Condemned
  <2>4. SparesWhatItFound'
    BY <1>1, <2>1, TouchSpares DEF SparesWhatItFound
  <2> QED
    BY <1>2, <2>3, <2>4 DEF SpareInv
<1> QED
  BY <1>3, <1>4, <1>5 DEF NodeDownStep

\* Clearing the template's slot condemns only what the listing names.
LEMMA SpareClear ==
    ASSUME TypeOK, SpareInv, ClearStep
    PROVE  SpareInv'
<1>1. /\ 0 \in Slots /\ 0 \notin Nodes /\ Absent.owner = "none" /\ run' = run
      /\ pc' # "down" /\ SpareAt(0) /\ SparesWhatItFound
  BY SlotFacts, BuildFrames DEF SpareInv, Absent, BuildStep, BuildFrame, BuildStages
<1>2. ASSUME NEW m \in Slots, m # 0 PROVE SpareAt(m)'
  BY <1>1, <1>2, SlotFacts DEF SpareAt, Condemned
<1>3. CASE SlotTaken \/ SlotForced \/ SlotEmpty
  <2>1. /\ vm' = vm /\ harm' = harm
        /\ pc' \in {"slotStop", "slotDelete"} => vm[0].owner = "ours"
    BY <1>3 DEF SlotTaken, SlotForced, SlotEmpty, SlotFree, Goto, Exit, Build
  <2> QED
    BY <1>1, <1>2, <2>1 DEF SpareInv, SpareAt, Condemned, SparesWhatItFound
<1>4. CASE StopTemplate
  <2>1. /\ Condemned(0) /\ (harm' = harm \/ Touch(0))
        /\ vm' = vm \/ vm' = [vm EXCEPT ![0].state = "stopped"]
    BY <1>4 DEF StopTemplate, Condemned
  <2>2. SpareAt(0)'
    BY <1>1, <2>1, StoppedIs DEF SpareAt
  <2>3. SparesWhatItFound'
    BY <1>1, <2>1, TouchSpares DEF SparesWhatItFound
  <2> QED
    BY <1>2, <2>2, <2>3 DEF SpareInv
<1>5. CASE DeleteTemplate \/ DeleteTemplateReplay
  <2>1. Condemned(0) /\ (harm' = harm \/ Touch(0))
    BY <1>5 DEF DeleteTemplate, DeleteTemplateReplay, Erase, Condemned
  <2>2. vm'[0] = Absent \/ pc' \in {"create", "idle"}
    BY <1>1, <1>5, TypeFacts DEF DeleteTemplate, DeleteTemplateReplay, Erase, Gone,
       SlotFree, Goto, Exit
  <2>3. SpareAt(0)'
    BY <1>1, <2>2 DEF SpareAt, Condemned
  <2>4. SparesWhatItFound'
    BY <1>1, <2>1, TouchSpares DEF SparesWhatItFound
  <2> QED
    BY <1>2, <2>3, <2>4 DEF SpareInv
<1> QED
  BY <1>3, <1>4, <1>5 DEF ClearStep

\* Every step spares what was found: a foreign VM in a condemned slot can only
\* have come there after the look, and others mark it so.
LEMMA SpareNext ==
    ASSUME TypeOK, SpareInv, [Next]_vars
    PROVE  SpareInv'
<1>1. ASSUME harm' = harm, \A n \in Slots : ~ Condemned(n)' PROVE SpareInv'
  BY <1>1 DEF SpareInv, SpareAt, SparesWhatItFound
<1>2. CASE UpFrame
  BY <1>1, <1>2 DEF UpFrame, UpStages, Condemned
<1>3. CASE StageDownStep
  BY <1>1, <1>3 DEF StageDownStep, DownAll, Purge, Remove, Goto, Exit, Condemned
<1>4. CASE CreateTemplate \/ BootTemplate \/ InstallTemplate \/ ShutdownTemplate
           \/ ConvertTemplate
  BY <1>1, <1>4 DEF CreateTemplate, BootTemplate, InstallTemplate, ShutdownTemplate,
     ConvertTemplate, Operate, Build, Goto, Exit, Condemned
<1>5. CASE StartFrame
  BY <1>1, <1>5 DEF StartFrame, Untouched, Condemned
<1>6. CASE KilledFrame
  BY <1>1, <1>6 DEF KilledFrame, Condemned
<1>7. ASSUME NEW m \in Slots, OthersFrame(m) \/ VanishFrame(m) PROVE SpareInv'
  <2>1. UNCHANGED <<pc, node, run, harm>>
    BY <1>7 DEF OthersFrame, VanishFrame
  <2>2. Condemned(m) => Looked(m)
    BY SlotFacts DEF Condemned, Looked
  <2>3. SpareAt(m)'
    <3>1. CASE OthersFrame(m)
      BY <2>1, <2>2, <3>1 DEF OthersFrame, SpareAt, Condemned
    <3>2. CASE VanishFrame(m)
      <4>1. vm'[m].owner = "none"
        BY <3>2, TypeFacts DEF VanishFrame, Absent
      <4> QED
        BY <4>1 DEF SpareAt
    <3> QED
      BY <1>7, <3>1, <3>2
  <2>4. ASSUME NEW n \in Slots, n # m PROVE SpareAt(n)'
    <3>1. vm'[n] = vm[n]
      BY <1>7, <2>4, TypeFacts DEF OthersFrame, VanishFrame
    <3> QED
      BY <2>1, <3>1 DEF SpareInv, SpareAt, Condemned
  <2> QED
    BY <2>1, <2>3, <2>4 DEF SpareInv, SparesWhatItFound
<1>8. CASE StillFrame
  BY <1>8 DEF StillFrame, SpareInv, SpareAt, Condemned, SparesWhatItFound
<1> QED
  BY <1>2, <1>3, <1>4, <1>5, <1>6, <1>7, <1>8, StepKinds, StartFrames, KilledFrames,
     OthersFrames, VanishFrames, StillFrames, UpFrames, SpareNodeDown, SpareClear
     DEF BuildStep

-----------------------------------------------------------------------------
(***************************************************************************)
(* template build.                                                         *)
(***************************************************************************)
\* What a node's part of up does to that node and to the others.
LEMMA NodeUpFacts ==
    ASSUME TypeOK, NEW n \in Nodes, NodeUpStep(n)
    PROVE  /\ \A m \in Nodes : m # n => vm'[m] = vm[m] /\ node'[m] = node[m]
           /\ UNCHANGED <<formed, file, env, cmd, pc, clone, run, res>>
           /\ \/ vm'[n] = Made /\ vm[n].owner = "none" /\ pc = "make"
              \/ /\ vm'[n].owner = vm[n].owner /\ vm'[n].made = vm[n].made
                 /\ vm'[n].cloned = vm[n].cloned
                 /\ vm[n].system => vm'[n].system
<1>1. n \in Slots /\ vm[n] \in VM
  BY SlotFacts, TypeFacts
<1>2. /\ UNCHANGED <<formed, file, env, cmd, pc, clone, run, res>>
      /\ \E s : node' = [node EXCEPT ![n] = s]
  BY DEF NodeUpStep, Make, Boot, Await, BootClone, Reidentify, files
<1>3. \A m \in Nodes : m # n => vm'[m] = vm[m]
  BY SlotFacts, OneSlot DEF NodeUpStep, Make, Boot, Await, BootClone, Reidentify
<1>4. \/ vm'[n] = Made /\ vm[n].owner = "none" /\ pc = "make"
      \/ /\ vm'[n].owner = vm[n].owner /\ vm'[n].made = vm[n].made
         /\ vm'[n].cloned = vm[n].cloned
         /\ vm[n].system => vm'[n].system
  <2>1. CASE Make(n)
    BY <1>1, <2>1, TypeFacts DEF Make
  <2>2. CASE Boot(n) \/ BootClone(n)
    BY <1>1, <2>2, TypeFacts DEF Boot, BootClone, VM
  <2>3. CASE Await(n) \/ Reidentify(n)
    BY <1>1, <2>3, TypeFacts DEF Await, Reidentify, VM
  <2> QED
    BY <2>1, <2>2, <2>3 DEF NodeUpStep
<1> QED
  BY <1>2, <1>3, <1>4, TypeFacts

\* The slot's own steps.
LEMMA SlotNext ==
    ASSUME TypeOK, BuildInv, BuildStep
    PROVE  BuildInv'
<1> USE SlotFacts, TypeFacts
<1>1. vm[0] \in VM /\ \A n \in Nodes : vm'[n] = vm[n]
  BY BuildFrames DEF BuildFrame
<1>2. pc' \notin UpStages
  BY BuildFrames DEF BuildFrame, BuildStages, UpStages
<1>3. Template <=> vm[0].owner = "ours" /\ vm[0].state = "template"
  BY DEF Template
<1>4. CASE SlotTaken \/ SlotForced \/ SlotEmpty
  <2>1. /\ vm' = vm /\ pc' \in {"slotStop", "slotDelete", "create", "idle"}
        /\ pc' = "slotStop" => vm[0].state # "template"
    BY <1>4 DEF SlotTaken, SlotForced, SlotEmpty, SlotFree, Exit, Goto
  <2> QED
    BY <1>1, <1>2, <2>1 DEF BuildInv, Building, Template
<1>5. CASE StopTemplate
  <2>1. /\ vm[0].state # "template" /\ pc' \in {"slotDelete", "idle"}
        /\ vm'[0].state = "stopped" \/ vm' = vm
    BY <1>1, <1>5 DEF StopTemplate, Goto, Exit, BuildInv, VM
  <2> QED
    BY <1>1, <1>2, <2>1 DEF BuildInv, Building, Template
<1>6. CASE DeleteTemplate \/ DeleteTemplateReplay
  <2>1. /\ pc' \in {"slotDelete", "create", "idle"}
        /\ \/ vm' = vm
           \/ vm'[0] = Absent /\ (vm[0].state = "template" => \A m \in Nodes : ~ vm[m].cloned)
    BY <1>1, <1>6 DEF DeleteTemplate, DeleteTemplateReplay, Erase, Gone, SlotFree, Goto,
       Exit, command
  <2>2. vm[0].state # "template" => ~ Template
    BY DEF Template
  <2>3. Absent.owner = "none"
    BY DEF Absent
  <2> QED
    BY <1>1, <1>2, <2>1, <2>2, <2>3 DEF BuildInv, Building, Template
<1>7. CASE CreateTemplate
  <2>1. Made.owner = "ours" /\ Made.state = "stopped"
    BY DEF Made
  <2>2. \/ vm[0].owner = "none" /\ vm'[0] = Made /\ pc' \in {"install", "idle"}
        \/ vm' = vm /\ pc' = "idle"
    BY <1>7 DEF CreateTemplate, Operate, Goto, Exit
  <2> QED
    BY <1>1, <1>2, <2>1, <2>2 DEF BuildInv, Building, Template
<1>8. CASE BootTemplate
  <2>1. [vm[0] EXCEPT !.state = "up"].owner = vm[0].owner
        /\ [vm[0] EXCEPT !.state = "up"].state = "up"
    BY <1>1 DEF VM
  <2>2. \/ vm'[0] = [vm[0] EXCEPT !.state = "up"] /\ pc' \in {"finish", "idle"}
        \/ vm' = vm /\ pc' = "idle"
    BY <1>8 DEF BootTemplate, Operate, Goto, Exit
  <2>3. pc = "install"
    BY <1>8 DEF BootTemplate, Operate
  <2> QED
    BY <1>1, <1>2, <2>1, <2>2, <2>3 DEF BuildInv, Building, Template
<1>9. CASE InstallTemplate
  <2> DEFINE v == [vm[0] EXCEPT !.state = "ready", !.system = TRUE]
  <2>1. v.owner = vm[0].owner /\ v.state = "ready" /\ v.system
    BY <1>1 DEF VM
  <2>2. \/ vm'[0] = v /\ pc' \in {"halt", "idle"}
        \/ vm' = vm /\ pc' = "idle"
    BY <1>9 DEF InstallTemplate, Operate, Goto, Exit
  <2>3. pc = "finish"
    BY <1>9 DEF InstallTemplate, Operate
  <2> HIDE DEF v
  <2> QED
    BY <1>1, <1>2, <2>1, <2>2, <2>3 DEF BuildInv, Building, Template
<1>10. CASE ShutdownTemplate
  <2> DEFINE v == [vm[0] EXCEPT !.state = "stopped"]
  <2>1. v.owner = vm[0].owner /\ v.state = "stopped" /\ v.system = vm[0].system
    BY <1>1 DEF VM
  <2>2. \/ vm'[0] = v /\ pc' \in {"convert", "idle"}
        \/ vm' = vm /\ pc' = "idle"
    BY <1>10 DEF ShutdownTemplate, Operate, Goto, Exit
  <2>3. pc = "halt"
    BY <1>10 DEF ShutdownTemplate, Operate
  <2> HIDE DEF v
  <2> QED
    BY <1>1, <1>2, <2>1, <2>2, <2>3 DEF BuildInv, Building, Template
<1>11. CASE ConvertTemplate
  <2>1. /\ pc = "convert" /\ pc' = "idle"
        /\ \/ vm' = vm
           \/ /\ vm'[0].owner = vm[0].owner /\ vm'[0].state = "template"
              /\ vm'[0].system = vm[0].system
    BY <1>1, <1>11 DEF ConvertTemplate, Exit, VM
  <2> QED
    BY <1>1, <1>2, <2>1 DEF BuildInv, Building, Template
<1> QED
  BY <1>4, <1>5, <1>6, <1>7, <1>8, <1>9, <1>10, <1>11 DEF BuildStep, ClearStep

\* Every step keeps what is known of the template and its clones.
LEMMA BuildNext ==
    ASSUME TypeOK, TypeOK', BuildInv, [Next]_vars
    PROVE  BuildInv'
<1> USE SlotFacts, TypeFacts
<1>1. ASSUME vm'[0] = vm[0],
             pc' \in BuildStages => pc' = "slot",
             \A n \in Nodes : vm'[n].cloned => Template,
             pc' \in UpStages \ {"check"} /\ clone' => Template
      PROVE  BuildInv'
  BY <1>1 DEF BuildInv, Building, Template, BuildStages
<1>2. ASSUME UpFrame, vm'[0] = vm[0], \A n \in Nodes : vm'[n].cloned => Template
      PROVE  BuildInv'
  <2>1. pc' \in UpStages \ {"check"} /\ clone' => Template
    BY <1>2 DEF UpFrame, BuildInv, UpStages
  <2>2. pc' \notin BuildStages
    BY <1>2 DEF UpFrame, UpStages, BuildStages
  <2> QED
    BY <1>1, <1>2, <2>1, <2>2
<1>3. CASE StageUpStep
  <2>1. vm' = vm
    BY <1>3 DEF StageUpStep, Check, Seed, MadeAll, NoteMade, BootedAll, NoteBooted,
       AwaitedAll, NoteReady, Form, NoteFormed, WriteEnvFile, Joined, outer
  <2> QED
    BY <1>2, <1>3, <2>1, UpFrames DEF BuildInv
<1>4. ASSUME NEW n \in Nodes, NodeUpStep(n) PROVE BuildInv'
  <2>1. UpFrame /\ vm'[0] = vm[0]
    BY <1>4, UpFrames DEF UpFrame
  <2>2. vm'[n].cloned => Template
    <3>1. CASE vm'[n] = Made /\ pc = "make"
      BY <3>1 DEF Made, BuildInv, UpStages
    <3>2. CASE vm'[n].cloned = vm[n].cloned
      BY <3>2 DEF BuildInv
    <3> QED
      BY <1>4, <3>1, <3>2, NodeUpFacts
  <2>3. \A m \in Nodes : vm'[m].cloned => Template
    BY <1>4, <2>2, NodeUpFacts DEF BuildInv
  <2> QED
    BY <1>2, <2>1, <2>3
<1>5. CASE DownFrame
  <2>1. \A n \in Nodes : vm'[n].cloned => vm[n].cloned
    <3> SUFFICES ASSUME NEW n \in Nodes, vm'[n].cloned PROVE vm[n].cloned
      OBVIOUS
    <3>1. vm[n] \in VM /\ ~ Absent.cloned
      BY DEF Absent
    <3>2. [vm[n] EXCEPT !.state = "stopped"].cloned = vm[n].cloned
      BY <3>1 DEF VM
    <3> QED
      BY <1>5, <3>1, <3>2 DEF DownFrame
  <2> QED
    BY <1>1, <1>5, <2>1 DEF DownFrame, DownStages, UpStages, BuildStages, BuildInv
<1>6. CASE StartFrame
  BY <1>1, <1>6 DEF StartFrame, UpStages, BuildStages, BuildInv
<1>7. CASE KilledFrame
  BY <1>1, <1>7 DEF KilledFrame, UpStages, BuildStages, BuildInv
<1>8. ASSUME NEW m \in Slots, OthersFrame(m) PROVE BuildInv'
  <2>1. /\ \/ vm'[0] = vm[0]
           \/ /\ vm[0].owner = "none" /\ vm'[0].owner # "ours"
              /\ vm'[0].state = "stopped"
        /\ \A n \in Nodes : vm'[n] = vm[n] \/ ~ vm'[n].cloned
    BY <1>8 DEF OthersFrame
  <2>2. UNCHANGED <<pc, clone>>
    BY <1>8 DEF OthersFrame
  <2> QED
    BY <2>1, <2>2 DEF BuildInv, Building, Template
<1>9. ASSUME NEW m \in Slots, VanishFrame(m) PROVE BuildInv'
  <2>1. /\ Absent.owner = "none" /\ ~ Absent.cloned /\ Absent.state = "stopped"
        /\ \A n \in Slots : vm'[n] = vm[n] \/ (n = m /\ vm'[n] = Absent)
    BY <1>9 DEF VanishFrame, Absent
  <2>2. /\ pc \in {"down", "slotStop", "slotDelete"} /\ UNCHANGED <<pc, clone>>
        /\ vm[m].owner = "ours"
        /\ vm[m].state = "template" => \A n \in Nodes : ~ vm[n].cloned
    BY <1>9 DEF VanishFrame
  <2>3. \A n \in Nodes : vm'[n].cloned => vm[n].cloned /\ vm'[0] = vm[0]
    BY <2>1, <2>2 DEF BuildInv, Template
  <2> QED
    BY <2>1, <2>2, <2>3 DEF BuildInv, Building, Template, UpStages
<1>10. CASE StillFrame
  BY <1>10 DEF StillFrame, BuildInv, Building, Template
<1> QED
  BY <1>3, <1>4, <1>5, <1>6, <1>7, <1>8, <1>9, <1>10, StepKinds, StartFrames,
     KilledFrames, OthersFrames, VanishFrames, StillFrames, DownFrames, SlotNext

-----------------------------------------------------------------------------
(***************************************************************************)
(* up.                                                                     *)
(***************************************************************************)
\* From stage to stage.
LEMMA StageUpMoves ==
    ASSUME StageUpStep
    PROVE  /\ vm' = vm
           /\ pc \in UpStages
           /\ \/ pc' = "idle"
              \/ pc = "check" /\ pc' = "seed" /\ \A n \in Nodes : vm[n].owner = "none"
              \/ pc = "seed" /\ pc' = "make" /\ node' = Untouched
              \/ pc = "make" /\ pc' = "noteMade" /\ node' = Untouched
              \/ pc = "noteMade" /\ clone /\ pc' = "await" /\ node' = Untouched
              \/ pc = "noteMade" /\ ~ clone /\ pc' = "boot" /\ node' = Untouched
              \/ pc = "boot" /\ pc' = "noteBooted" /\ node' = Untouched
              \/ pc = "noteBooted" /\ pc' = "await" /\ node' = Untouched
              \/ pc = "await" /\ pc' = "noteReady"
              \/ pc = "noteReady" /\ pc' = "form" /\ node' = Untouched
              \/ pc = "form" /\ pc' = "noteFormed" /\ node' = Untouched
              \/ pc = "noteFormed" /\ pc' = "handoff" /\ node' = Untouched
BY DEF StageUpStep, Check, Seed, MadeAll, NoteMade, BootedAll, NoteBooted, AwaitedAll,
   NoteReady, Form, NoteFormed, WriteEnvFile, Joined, UpdateState, Goto, Exit, UpStages,
   outer

\* Outside up nothing comes to the template's address but what was there.
LEMMA CloneOutside ==
    ASSUME CloneInv, pc' \notin UpStages \ {"check"}, \A n \in Nodes : Hot(n)' => Hot(n)
    PROVE  CloneInv'
BY DEF CloneInv, CloneAt, UpStages

\* A stage of up.
LEMMA CloneStage ==
    ASSUME TypeOK, Commands, CloneInv, StageUpStep
    PROVE  CloneInv'
<1>1. \A n \in Nodes : (Hot(n)' <=> Hot(n)) /\ (vm'[n].cloned <=> vm[n].cloned)
  BY StageUpMoves DEF Hot
<1>2. CASE pc' = "idle"
  BY <1>1, <1>2, CloneOutside DEF UpStages
<1>3. CASE pc = "check" /\ pc' = "seed"
  <2>1. \A n \in Nodes : ~ vm[n].cloned
    <3> SUFFICES ASSUME NEW n \in Nodes PROVE ~ vm[n].cloned
      OBVIOUS
    <3>1. vm[n] = Absent
      BY <1>3, StageUpMoves, SlotFacts DEF Commands
    <3> QED
      BY <3>1 DEF Absent
  <2> QED
    BY <1>1, <1>3, <2>1 DEF CloneInv, CloneAt, Hot
<1>4. CASE pc # "check" /\ pc' # "idle"
  <2>1. clone' = clone
    BY <1>4, UpFrames DEF UpFrame
  <2>2. pc' \in {"boot", "noteBooted"} => ~ clone
    BY <1>4, StageUpMoves DEF CloneInv
  <2>3. ASSUME NEW n \in Nodes PROVE CloneAt(n)'
    <3>1. pc' \in {"seed", "make", "noteMade"} => ~ Hot(n)
      BY <1>4, StageUpMoves DEF CloneInv, CloneAt
    <3>2. pc' = "await" /\ clone => node'[n] = "todo" /\ ~ Hot(n)
      BY <1>4, StageUpMoves DEF CloneInv, CloneAt, Untouched
    <3>3. vm[n].cloned => clone
      BY <1>4, StageUpMoves DEF CloneInv, CloneAt
    <3> QED
      BY <1>1, <2>1, <3>1, <3>2, <3>3 DEF CloneAt
  <2> QED
    BY <1>1, <2>1, <2>2, <2>3 DEF CloneInv
<1> QED
  BY <1>2, <1>3, <1>4, StageUpMoves

\* A node's part of up: a clone that boots is the only one at the template's
\* address, because those before it have left it and those after it are down.
LEMMA CloneNode ==
    ASSUME TypeOK, CloneInv, NEW n \in Nodes, NodeUpStep(n)
    PROVE  CloneInv'
<1> USE TypeFacts
<1>1. n \in Slots /\ vm[n] \in VM /\ n \in 1..N /\ N \in Nat /\ Nodes = 1..N
  BY SlotFacts, LabAssumption DEF Nodes
<1>2. /\ \A m \in Nodes : m # n => vm'[m] = vm[m] /\ node'[m] = node[m]
      /\ UNCHANGED <<pc, clone>>
  BY NodeUpFacts
<1>3. \A m \in Nodes : m # n => (Hot(m)' <=> Hot(m)) /\ (vm'[m].cloned <=> vm[m].cloned)
  BY <1>2 DEF Hot
<1>4. CASE Make(n)
  <2>1. pc = "make" /\ (vm'[n] = vm[n] \/ vm'[n] = Made)
    BY <1>1, <1>4 DEF Make
  <2>2. Made.cloned = clone /\ Made.state = "stopped"
    BY DEF Made
  <2>3. ~ Hot(n)' /\ (vm'[n].cloned => clone)
    BY <2>1, <2>2 DEF CloneInv, CloneAt, Hot, UpStages
  <2>4. \A m \in Nodes : CloneAt(m)'
    BY <1>2, <1>3, <2>1, <2>3 DEF CloneInv, CloneAt
  <2>5. \A m \in Nodes : ~ Hot(m)'
    BY <1>3, <2>1, <2>3 DEF CloneInv, CloneAt
  <2> QED
    BY <1>2, <2>1, <2>4, <2>5 DEF CloneInv
<1>5. CASE Boot(n) \/ Await(n)
  <2>1. pc \in {"boot", "await"} /\ ~ clone
    BY <1>5 DEF Boot, Await, CloneInv
  <2>2. \A m \in Nodes : vm'[m].cloned = vm[m].cloned
    BY <1>2, <2>1, NodeUpFacts
  <2>3. \A m \in Nodes : ~ vm'[m].cloned
    BY <2>1, <2>2 DEF CloneInv, CloneAt, UpStages
  <2> QED
    BY <1>2, <2>1, <2>3 DEF CloneInv, CloneAt, Hot
<1>6. ASSUME pc = "await", clone, vm'[n].cloned = vm[n].cloned,
             \A m \in 1..(n - 1) : node[m] = "ok",
             \A m \in Nodes : m > n => node[m] = "todo",
             node'[n] \in {"ok", "booted", "err"},
             node'[n] = "ok" => ~ Hot(n)'
      PROVE  CloneInv'
  <2>1. \A m \in Nodes : m # n => ~ Hot(m)
    <3> SUFFICES ASSUME NEW m \in Nodes, m # n PROVE ~ Hot(m)
      OBVIOUS
    <3>1. CASE m < n
      <4>1. m \in 1..(n - 1)
        BY <1>1, <3>1
      <4> QED
        BY <1>6, <4>1 DEF CloneInv, CloneAt
    <3>2. CASE m > n
      BY <1>6, <3>2 DEF CloneInv, CloneAt
    <3> QED
      BY <1>1, <3>1, <3>2
  <2>2. ASSUME NEW m \in Nodes PROVE CloneAt(m)'
    <3>1. vm'[m].cloned => clone
      BY <1>6
    <3>2. node'[m] # "todo" => \A k \in 1..(m - 1) : node'[k] = "ok"
      <4>1. CASE m = n
        <5>1. \A k \in 1..(n - 1) : k \in Nodes /\ k # n
          BY <1>1
        <5> QED
          BY <1>2, <1>6, <4>1, <5>1
      <4>2. CASE m < n
        <5>1. \A k \in 1..(m - 1) : k \in 1..(n - 1) /\ k \in Nodes /\ k # n
          BY <1>1, <4>2
        <5> QED
          BY <1>2, <1>6, <5>1
      <4>3. CASE m > n
        <5>1. m # n
          BY <1>1, <4>3
        <5> QED
          BY <1>2, <1>6, <4>3, <5>1
      <4> QED
        BY <1>1, <4>1, <4>2, <4>3
    <3>3. node'[m] \in {"todo", "ok"} => ~ Hot(m)'
      BY <1>3, <1>6, <2>1
    <3> QED
      BY <1>2, <1>6, <3>1, <3>2, <3>3 DEF CloneAt
  <2>3. \A m \in Nodes : Hot(m)' => m = n
    BY <1>3, <2>1
  <2> QED
    BY <1>2, <1>6, <2>2, <2>3 DEF CloneInv
<1>7. ASSUME pc = "await", clone, node[n] \in {"todo", "booted"}
      PROVE  \A m \in Nodes : m > n => node[m] = "todo"
  <2> SUFFICES ASSUME NEW m \in Nodes, m > n, node[m] # "todo" PROVE FALSE
    OBVIOUS
  <2>1. n \in 1..(m - 1)
    BY <1>1
  <2> QED
    BY <1>7, <2>1 DEF CloneInv, CloneAt
<1>8. CASE BootClone(n)
  <2>1. /\ pc = "await" /\ clone /\ node[n] = "todo"
        /\ \A m \in 1..(n - 1) : node[m] = "ok"
    BY <1>8 DEF BootClone, NextClone
  <2>2. node'[n] \in {"booted", "err"}
    BY <1>8 DEF BootClone
  <2> QED
    BY <1>6, <1>7, <2>1, <2>2, NodeUpFacts
<1>9. CASE Reidentify(n)
  <2>1. pc = "await" /\ node[n] = "booted"
    BY <1>9 DEF Reidentify
  <2>2. vm'[n].cloned = vm[n].cloned
    BY <2>1, NodeUpFacts
  <2>3. node'[n] \in {"ok", "err"} /\ (node'[n] = "ok" => ~ Hot(n)')
    BY <1>1, <1>9 DEF Reidentify, Hot, VM
  <2>4. CASE clone
    BY <1>6, <1>7, <2>1, <2>2, <2>3, <2>4 DEF CloneInv, CloneAt
  <2>5. CASE ~ clone
    <3>1. \A m \in Nodes : ~ vm'[m].cloned
      BY <1>2, <2>1, <2>2, <2>5 DEF CloneInv, CloneAt, UpStages
    <3> QED
      BY <1>2, <2>1, <2>5, <3>1 DEF CloneInv, CloneAt, Hot
  <2> QED
    BY <2>4, <2>5
<1> QED
  BY <1>4, <1>5, <1>8, <1>9 DEF NodeUpStep

\* Every step keeps what is known of the clones.
LEMMA CloneNext ==
    ASSUME TypeOK, TypeOK', Commands, CloneInv, [Next]_vars
    PROVE  CloneInv'
<1>1. CASE DownFrame
  <2>1. ASSUME NEW n \in Nodes, Hot(n)' PROVE Hot(n)
    <3>1. /\ vm[n] \in VM /\ Absent.state = "stopped"
      BY SlotFacts, TypeFacts DEF Absent
    <3>2. [vm[n] EXCEPT !.state = "stopped"].state = "stopped"
      BY <3>1 DEF VM
    <3> QED
      BY <1>1, <2>1, <3>1, <3>2 DEF DownFrame, Hot
  <2> QED
    BY <1>1, <2>1, CloneOutside DEF DownFrame, DownStages, UpStages
<1>2. CASE BuildFrame
  BY <1>2, CloneOutside DEF BuildFrame, BuildStages, UpStages, Hot
<1>3. CASE StartFrame \/ KilledFrame
  BY <1>3, CloneOutside DEF StartFrame, KilledFrame, UpStages, Hot
<1>4. ASSUME NEW m \in Slots, OthersFrame(m) \/ VanishFrame(m) PROVE CloneInv'
  <2>1. \A n \in Nodes : vm'[n] = vm[n] \/ ~ vm'[n].cloned
    BY <1>4, SlotFacts, TypeFacts DEF OthersFrame, VanishFrame, Absent
  <2>2. UNCHANGED <<pc, node, clone>>
    BY <1>4 DEF OthersFrame, VanishFrame
  <2> QED
    BY <2>1, <2>2 DEF CloneInv, CloneAt, Hot
<1>5. CASE StillFrame
  BY <1>5 DEF StillFrame, CloneInv, CloneAt, Hot
<1> QED
  BY <1>1, <1>2, <1>3, <1>4, <1>5, StepKinds, StartFrames, KilledFrames, OthersFrames,
     VanishFrames, StillFrames, DownFrames, BuildFrames, CloneStage, CloneNode

-----------------------------------------------------------------------------
\* A note in a state file that parses goes through.
LEMMA NoteGoesOn ==
    ASSUME file.kind = "ok", NEW f, NEW s, UpdateState(f, s)
    PROVE  Loaded = file /\ Goto(s) /\ file' = f
BY DEF UpdateState, Loaded

\* The stages of up: what holds of every node and of the state file when one
\* ends is what the next begins with.
LEMMA UpStage ==
    ASSUME TypeOK, Commands, UpInv, StageUpStep
    PROVE  UpInv'
<1> USE TypeFacts
<1>1. /\ vm' = vm /\ run' = run /\ pc \in UpStages /\ res = "none"
      /\ pc # "check" => clone' = clone
  BY StageUpMoves, UpFrames DEF UpFrame, Commands, UpStages
<1>2. \A n \in Nodes : (Mine(n)' <=> Mine(n)) /\ (Live(n)' <=> Live(n))
  BY <1>1 DEF Mine, Live
<1>3. \A n \in Nodes : UpAt(n)
  BY DEF UpInv
<1>4. Noted
  BY DEF UpInv
<1>5. \A n \in Nodes : Untouched[n] = "todo"
  BY DEF Untouched
<1>6. CASE pc' = "idle" /\ res' # "up"
  BY <1>6 DEF UpInv, Noted, UpAt, UpStages, AllMade, Seeded, Measured
<1>7. CASE Check /\ pc' = "seed"
  <2>1. pc = "check" /\ UNCHANGED <<node, res>>
    BY <1>7 DEF Check, Exit
  <2> QED
    BY <1>1, <1>3, <1>7, <2>1 DEF UpInv, Noted, UpAt, UpStages, AllMade, Seeded, Measured
<1>8. CASE Seed /\ pc' = "make"
  <2>1. /\ pc = "seed" /\ node' = Untouched /\ res' = res
        /\ file.kind # "torn" /\ file' = Loaded
    BY <1>8 DEF Seed, UpdateState, Goto, Exit
  <2>2. Loaded.kind = "ok"
    BY <2>1 DEF Loaded, File, NoFile
  <2> QED
    BY <1>1, <1>5, <1>8, <2>1, <2>2 DEF UpInv, Noted, UpAt, UpStages, AllMade, Seeded,
       Measured
<1>9. CASE MadeAll /\ pc' = "noteMade"
  <2>1. /\ pc = "make" /\ node' = Untouched /\ UNCHANGED <<res, file, env, formed>>
        /\ At("todo") = {} /\ At("err") = {}
    BY <1>9 DEF MadeAll, Joined, Goto, Exit, outer, files
  <2>2. \A n \in Nodes : Mine(n)
    BY <1>3, <2>1 DEF UpAt, UpStages, At
  <2>3. \A n \in Nodes : UpAt(n)'
    BY <1>1, <1>2, <1>5, <1>9, <2>1, <2>2 DEF UpAt, UpStages, AllMade, Seeded, Measured
  <2>4. Noted'
    BY <1>1, <1>4, <1>9, <2>1 DEF Noted, UpStages, AllMade, Seeded, Measured
  <2> QED
    BY <2>3, <2>4 DEF UpInv
<1>10. CASE NoteMade /\ pc' # "idle"
  <2>1. pc = "noteMade" /\ file.kind = "ok" /\ \A n \in Nodes : Mine(n)
    BY <1>3, <1>4, <1>10 DEF NoteMade, Noted, UpAt, UpStages, AllMade, Seeded
  <2>2. /\ pc' = (IF clone THEN "await" ELSE "boot") /\ node' = Untouched /\ res' = res
        /\ file' = [file EXCEPT !.created = Nodes]
    BY <1>10, <2>1, NoteGoesOn DEF NoteMade, Goto
  <2>3. file'.kind = "ok" /\ file'.created = Nodes
    BY <2>1, <2>2 DEF File
  <2>4. \A n \in Nodes : UpAt(n)'
    BY <1>1, <1>2, <1>5, <2>1, <2>2 DEF UpAt, UpStages, AllMade, Seeded, Measured
  <2>5. Noted'
    BY <1>1, <2>1, <2>2, <2>3 DEF Noted, UpStages, AllMade, Seeded, Measured
  <2> QED
    BY <2>4, <2>5 DEF UpInv
<1>11. CASE BootedAll /\ pc' = "noteBooted"
  <2>1. /\ pc = "boot" /\ node' = Untouched /\ UNCHANGED <<res, file, env, formed>>
    BY <1>11 DEF BootedAll, Joined, Goto, Exit, outer, files
  <2>2. \A n \in Nodes : Mine(n)
    BY <1>3, <2>1 DEF UpAt, UpStages, AllMade, Seeded
  <2>3. \A n \in Nodes : UpAt(n)'
    BY <1>1, <1>2, <1>5, <1>11, <2>1, <2>2 DEF UpAt, UpStages, AllMade, Seeded, Measured
  <2>4. Noted'
    BY <1>1, <1>4, <1>11, <2>1 DEF Noted, UpStages, AllMade, Seeded, Measured
  <2> QED
    BY <2>3, <2>4 DEF UpInv
<1>12. CASE NoteBooted /\ pc' # "idle"
  <2>1. /\ pc = "noteBooted" /\ file.kind = "ok" /\ file.created = Nodes
        /\ \A n \in Nodes : Mine(n)
    BY <1>3, <1>4, <1>12 DEF NoteBooted, Noted, UpAt, UpStages, AllMade, Seeded
  <2>2. /\ pc' = "await" /\ node' = Untouched /\ res' = res
        /\ file' = [file EXCEPT !.started = Nodes]
    BY <1>12, <2>1, NoteGoesOn DEF NoteBooted, Goto
  <2>3. file'.kind = "ok" /\ file'.created = Nodes /\ file'.started = Nodes
    BY <2>1, <2>2 DEF File
  <2>4. \A n \in Nodes : UpAt(n)'
    BY <1>1, <1>2, <1>5, <2>1, <2>2 DEF UpAt, UpStages, AllMade, Seeded, Measured
  <2>5. Noted'
    BY <1>1, <2>1, <2>2, <2>3 DEF Noted, UpStages, AllMade, Seeded, Measured
  <2> QED
    BY <2>4, <2>5 DEF UpInv
<1>13. CASE AwaitedAll
  <2>1. /\ pc = "await" /\ pc' = "noteReady" /\ UNCHANGED <<node, res, file, env, formed>>
        /\ At("booted") = {} /\ (At("err") # {} \/ At("todo") = {})
    BY <1>13 DEF AwaitedAll, outer, files
  <2>2. At("err")' = At("err")
    BY <2>1 DEF At
  <2>3. ASSUME NEW n \in Nodes PROVE UpAt(n)'
    <3>1. node[n] \in {"ok", "err"} \/ (node[n] = "todo" /\ At("err") # {})
      BY <1>3, <2>1 DEF UpAt, UpStages, At
    <3>2. node[n] = "ok" \/ At("err") # {}
      BY <3>1 DEF At
    <3>3. Mine(n) /\ (node[n] = "ok" => Live(n))
      BY <1>3, <2>1 DEF UpAt, UpStages, AllMade, Seeded
    <3> QED
      BY <1>1, <1>2, <2>1, <2>2, <3>1, <3>2, <3>3 DEF UpAt, UpStages, AllMade, Seeded,
         Measured
  <2>4. Noted'
    BY <1>1, <1>4, <2>1 DEF Noted, UpStages, AllMade, Seeded, Measured
  <2> QED
    BY <2>3, <2>4 DEF UpInv
<1>14. CASE NoteReady /\ pc' # "idle"
  <2>1. /\ pc = "noteReady" /\ file.kind = "ok" /\ file.created = Nodes
        /\ ~ clone => file.started = Nodes
    BY <1>4, <1>14 DEF NoteReady, Noted, UpStages, AllMade, Seeded
  <2>2. At("err") = {}
    BY <1>14 DEF NoteReady, Exit
  <2>3. \A n \in Nodes : node[n] = "ok" /\ Live(n)
    BY <1>3, <2>1, <2>2 DEF UpAt
  <2>4. At("ok") = Nodes
    BY <2>3 DEF At
  <2> DEFINE f == [file EXCEPT !.ready = (@ \ At("err")) \cup At("ok"),
                               !.started = IF clone THEN @ \cup At("ok") ELSE @]
  <2>5. pc' = "form" /\ node' = Untouched /\ res' = res /\ file' = f
    BY <1>14, <2>1, <2>2, NoteGoesOn DEF NoteReady, Goto
  <2>6. /\ f.kind = "ok" /\ f.created = Nodes /\ f.ready = Nodes
        /\ f.started = Nodes
    <3>1. file.ready \subseteq Nodes /\ file.started \subseteq Nodes
      BY DEF File
    <3> QED
      BY <2>1, <2>2, <2>4, <3>1 DEF File
  <2> HIDE DEF f
  <2>7. \A n \in Nodes : Mine(n)
    BY <2>3 DEF Live
  <2>8. \A n \in Nodes : UpAt(n)'
    BY <1>1, <1>2, <1>5, <2>3, <2>5, <2>7 DEF UpAt, UpStages, AllMade, Seeded, Measured
  <2>9. Noted'
    BY <1>1, <2>5, <2>6 DEF Noted, UpStages, AllMade, Seeded, Measured
  <2> QED
    BY <2>8, <2>9 DEF UpInv
<1>15. CASE Form /\ pc' = "noteFormed"
  <2>1. pc = "form" /\ node' = Untouched /\ formed' /\ UNCHANGED <<res, file, env>>
    BY <1>15 DEF Form, Goto, Exit, files
  <2>2. \A n \in Nodes : Mine(n) /\ Live(n)
    BY <1>3, <2>1 DEF UpAt, Measured, Live
  <2>3. \A n \in Nodes : UpAt(n)'
    BY <1>1, <1>2, <1>5, <1>15, <2>1, <2>2 DEF UpAt, UpStages, AllMade, Seeded, Measured
  <2>4. Noted'
    BY <1>1, <1>4, <1>15, <2>1 DEF Noted, UpStages, AllMade, Seeded, Measured
  <2> QED
    BY <2>3, <2>4 DEF UpInv
<1>16. CASE NoteFormed /\ pc' # "idle"
  <2>1. /\ pc = "noteFormed" /\ file.kind = "ok" /\ file.created = Nodes /\ formed
        /\ file.started = Nodes /\ file.ready = Nodes
        /\ \A n \in Nodes : Mine(n) /\ Live(n)
    BY <1>3, <1>4, <1>16 DEF NoteFormed, Noted, UpAt, UpStages, AllMade, Seeded, Measured
  <2>2. /\ pc' = "handoff" /\ node' = Untouched /\ res' = res /\ formed' = formed
        /\ file' = [file EXCEPT !.clustered = TRUE]
    BY <1>16, <2>1, NoteGoesOn DEF NoteFormed, Goto, outer
  <2>3. /\ file'.kind = "ok" /\ file'.created = Nodes /\ file'.started = Nodes
        /\ file'.ready = Nodes /\ file'.clustered
    BY <2>1, <2>2 DEF File
  <2>4. \A n \in Nodes : UpAt(n)'
    BY <1>1, <1>2, <1>5, <2>1, <2>2 DEF UpAt, UpStages, AllMade, Seeded, Measured
  <2>5. Noted'
    BY <1>1, <2>1, <2>2, <2>3 DEF Noted, UpStages, AllMade, Seeded, Measured
  <2> QED
    BY <2>4, <2>5 DEF UpInv
<1>17. CASE WriteEnvFile
  <2>1. /\ pc = "handoff" /\ pc' = "idle" /\ env' /\ UNCHANGED <<file, formed>>
    BY <1>17 DEF WriteEnvFile, Exit, outer
  <2>2. \A n \in Nodes : UpAt(n)'
    BY <1>1, <1>2, <1>3, <2>1 DEF UpAt, UpStages, AllMade, Seeded, Measured
  <2>3. Noted'
    BY <1>1, <1>4, <2>1 DEF Noted, UpStages, AllMade, Seeded, Measured
  <2> QED
    BY <2>2, <2>3 DEF UpInv
<1>18. WriteEnvFile \/ (pc' = "idle" => res' # "up")
  BY <1>1 DEF StageUpStep, Check, Seed, MadeAll, NoteMade, BootedAll, NoteBooted,
     AwaitedAll, NoteReady, Form, NoteFormed, Joined, UpdateState, Goto, Exit
<1> QED
  BY <1>6, <1>7, <1>8, <1>9, <1>10, <1>11, <1>12, <1>13, <1>14, <1>15, <1>16, <1>17, <1>18
     DEF StageUpStep, Check, Seed, MadeAll, BootedAll, Form, Joined, UpdateState, Goto, Exit

\* A node's part of a stage of up.
LEMMA UpNode ==
    ASSUME TypeOK, Commands, UpInv, NEW n \in Nodes, NodeUpStep(n)
    PROVE  UpInv'
<1> USE TypeFacts
<1>1. /\ n \in Slots /\ vm[n] \in VM /\ UpAt(n)
      /\ \A m \in Nodes : m # n => vm'[m] = vm[m] /\ node'[m] = node[m]
      /\ UNCHANGED <<formed, file, env, pc, clone, run, res>>
  BY SlotFacts, NodeUpFacts DEF UpInv
<1>2. pc \in {"make", "boot", "await"} /\ res = "none"
  BY DEF NodeUpStep, Make, Boot, Await, BootClone, Reidentify, Commands
<1>3. Noted'
  BY <1>1, <1>2 DEF UpInv, Noted
<1>4. Mine(n) => Mine(n)'
  BY <1>1, NodeUpFacts DEF Mine
<1>5. ASSUME node'[n] \in {"todo", "booted", "ok", "err"},
             node'[n] = "booted" => pc = "await",
             pc = "make" /\ node'[n] = "ok" => Mine(n)',
             pc = "await" /\ node'[n] = "ok" => Live(n)'
      PROVE  UpAt(n)'
  BY <1>1, <1>2, <1>4, <1>5 DEF UpAt, UpStages, AllMade, Seeded, Measured
<1>6. UpAt(n)'
  <2>1. CASE Make(n)
    <3>1. pc = "make" /\ node'[n] \in {"ok", "err"}
      BY <2>1 DEF Make
    <3>2. node'[n] = "ok" => vm'[n] = Made
      BY <1>1, <2>1 DEF Make
    <3>3. Made.owner = "ours" /\ Made.made = run
      BY DEF Made
    <3>4. node'[n] = "ok" => Mine(n)'
      BY <1>1, <3>2, <3>3 DEF Mine
    <3> QED
      BY <1>5, <3>1, <3>4
  <2>2. CASE Boot(n)
    <3>1. pc = "boot" /\ node'[n] \in {"ok", "err"}
      BY <2>2 DEF Boot
    <3> QED
      BY <1>5, <3>1
  <2>3. CASE BootClone(n)
    <3>1. pc = "await" /\ node'[n] \in {"booted", "err"}
      BY <2>3 DEF BootClone
    <3> QED
      BY <1>5, <3>1
  <2>4. CASE Await(n) \/ Reidentify(n)
    <3>1. pc = "await" /\ node'[n] \in {"ok", "err"}
      BY <2>4 DEF Await, Reidentify
    <3>2. node'[n] = "ok" => vm'[n].state = "ready" /\ vm'[n].system
      BY <1>1, <2>4 DEF Await, Reidentify, VM
    <3>3. Mine(n)'
      BY <1>1, <1>4, <3>1 DEF UpAt, AllMade, Seeded, UpStages
    <3>4. node'[n] = "ok" => Live(n)'
      BY <3>2, <3>3 DEF Live
    <3> QED
      BY <1>5, <3>1, <3>4
  <2> QED
    BY <2>1, <2>2, <2>3, <2>4 DEF NodeUpStep
<1>7. ASSUME NEW m \in Nodes, m # n PROVE UpAt(m)'
  <2>1. (Mine(m)' <=> Mine(m)) /\ (Live(m)' <=> Live(m))
    BY <1>1, <1>7 DEF Mine, Live
  <2>2. UpAt(m)
    BY DEF UpInv
  <2> QED
    BY <1>1, <1>2, <1>7, <2>1, <2>2 DEF UpAt, Measured
<1> QED
  BY <1>3, <1>6, <1>7 DEF UpInv

\* Every step keeps what is known of up.
LEMMA UpNext ==
    ASSUME TypeOK, TypeOK', Commands, UpInv, [Next]_vars
    PROVE  UpInv'
<1>1. ASSUME pc' \notin UpStages, res' # "up" PROVE UpInv'
  BY <1>1 DEF UpInv, Noted, UpAt, UpStages, AllMade, Seeded, Measured
<1>2. CASE DownFrame
  BY <1>1, <1>2 DEF DownFrame, DownStages, UpStages, Commands
<1>3. CASE BuildFrame
  BY <1>1, <1>3 DEF BuildFrame, BuildStages, UpStages, Commands
<1>4. CASE KilledFrame
  BY <1>1, <1>4 DEF KilledFrame, UpStages
<1>5. CASE StartFrame
  <2>1. /\ res' = "none" /\ \A n \in Nodes : node'[n] = "todo"
        /\ pc' \in {"idle", "check", "down", "slot"}
    BY <1>5 DEF StartFrame, Untouched
  <2> QED
    BY <2>1 DEF UpInv, Noted, UpAt, UpStages, AllMade, Seeded, Measured
<1>6. ASSUME NEW m \in Slots, OthersFrame(m) PROVE UpInv'
  <2>1. /\ UNCHANGED <<formed, file, env, pc, clone, node, run, res>>
        /\ vm[m].owner = "none" /\ \A n \in Slots : n # m => vm'[n] = vm[n]
    BY <1>6, TypeFacts DEF OthersFrame
  <2>2. At("err")' = At("err")
    BY <2>1 DEF At
  <2>3. Noted'
    BY <2>1 DEF UpInv, Noted
  <2>4. ASSUME NEW n \in Nodes PROVE UpAt(n)'
    <3>1. (Mine(n) => Mine(n)') /\ (Live(n) => Live(n)')
      BY <2>1, SlotFacts DEF Mine, Live
    <3>2. UpAt(n)
      BY DEF UpInv
    <3> QED
      BY <2>1, <2>2, <3>1, <3>2 DEF UpAt
  <2> QED
    BY <2>3, <2>4 DEF UpInv
<1>7. CASE StillFrame
  <2>1. At("err")' = At("err")
    BY <1>7 DEF At, StillFrame
  <2> QED
    BY <1>7, <2>1 DEF StillFrame, UpInv, Noted, UpAt, Mine, Live
<1>8. ASSUME NEW m \in Slots, VanishFrame(m) PROVE UpInv'
  <2>1. pc' \notin UpStages /\ pc # "idle" /\ res' = res
    BY <1>8 DEF VanishFrame, UpStages
  <2> QED
    BY <1>1, <2>1 DEF Commands
<1> QED
  BY <1>2, <1>3, <1>4, <1>5, <1>6, <1>7, <1>8, StepKinds, StartFrames, KilledFrames,
     OthersFrames, VanishFrames, StillFrames, DownFrames, BuildFrames, UpStage, UpNode

-----------------------------------------------------------------------------
(***************************************************************************)
(* The evidence.                                                           *)
(***************************************************************************)
\* What the state file claims and what protects it, in one place.
Kept == /\ Evidence
        /\ \A n \in file.started \cup file.ready : vm[n].owner = "ours"

\* The claims of a file depend on the VMs and the cluster only.
LEMMA KeptStable ==
    ASSUME Kept, file' = file, vm' = vm, formed => formed'
    PROVE  Kept'
BY DEF Kept, Evidence

\* A stage of up notes what it has just established, and no more.
LEMMA FreshStage ==
    ASSUME TypeOK, Commands, UpInv, FreshInv, StageUpStep
    PROVE  FreshInv'
<1> USE TypeFacts
<1>1. /\ vm' = vm /\ run' = run /\ cmd' = cmd /\ pc \in UpStages /\ res = "none"
      /\ cmd = "up"
  BY StageUpMoves, UpFrames DEF UpFrame, Commands, UpStages
<1>2. \A n \in Nodes : UpAt(n) /\ BootedAt(n)
  BY DEF UpInv, FreshInv
<1>3. Noted
  BY DEF UpInv
<1>4. \A n \in Nodes : BootedAt(n)'
  <2>1. pc' = "noteBooted" => \A n \in Nodes : vm[n].state # "stopped"
    <3> SUFFICES ASSUME pc' = "noteBooted", NEW n \in Nodes PROVE vm[n].state # "stopped"
      OBVIOUS
    <3>1. pc = "boot" /\ At("todo") = {} /\ At("err") = {}
      BY DEF StageUpStep, Check, Seed, MadeAll, NoteMade, BootedAll, NoteBooted,
         AwaitedAll, NoteReady, Form, NoteFormed, WriteEnvFile, Joined, UpdateState,
         Goto, Exit
    <3>2. node[n] = "ok"
      BY <1>2, <3>1 DEF At, UpAt, UpStages
    <3> QED
      BY <1>2, <3>1, <3>2 DEF BootedAt
  <2>2. pc' = "boot" => \A n \in Nodes : node'[n] = "todo"
    BY StageUpMoves DEF Untouched
  <2> QED
    BY <1>1, <2>1, <2>2 DEF BootedAt
<1>5. ASSUME Fresh' => Kept', Fresh' /\ pc' \in Seeded \ Measured => file'.ready = {}
      PROVE  FreshInv'
  BY <1>4, <1>5 DEF FreshInv, Kept
<1>6. ASSUME file' = file, formed => formed',
             pc' \in Seeded \ Measured => pc \in {"check"} \cup (Seeded \ Measured)
      PROVE  FreshInv'
  <2>1. pc # "check" /\ Fresh => Kept /\ (pc \in Seeded \ Measured => file.ready = {})
    BY DEF FreshInv, Kept
  <2>2. Fresh' <=> Fresh
    BY <1>1, <1>6 DEF Fresh
  <2>3. Fresh => pc # "check"
    BY <1>1 DEF Fresh, Commands, File
  <2> QED
    BY <1>1, <1>5, <1>6, <2>1, <2>2, <2>3, KeptStable
<1>7. CASE Check
  BY <1>6, <1>7 DEF Check, outer, files, Exit, Seeded, UpStages, Measured
<1>8. CASE Seed
  <2>1. pc = "seed" /\ (file' = file \/ file' = Loaded)
    BY <1>8 DEF Seed, UpdateState
  <2>2. CASE file.kind = "absent" /\ file' = Loaded
    <3>1. /\ file'.created = {} /\ file'.started = {} /\ file'.ready = {}
          /\ ~ file'.clustered
      BY <2>2 DEF Loaded, NoFile
    <3> QED
      BY <1>5, <3>1 DEF Kept, Evidence
  <2>3. CASE file' = file
    <3>1. ~ Fresh'
      BY <1>1, <2>1, <2>3 DEF Fresh, Commands, File
    <3> QED
      BY <1>5, <3>1
  <2> QED
    BY <2>1, <2>2, <2>3 DEF Loaded
<1>9. CASE MadeAll \/ BootedAll \/ AwaitedAll
  BY <1>6, <1>9 DEF MadeAll, BootedAll, AwaitedAll, Joined, outer, files, Goto, Exit,
     Seeded, UpStages, Measured
<1>10. ASSUME pc \in Seeded, Fresh => Kept', file'.kind = file.kind,
              file'.born = file.born,
              Fresh /\ pc' \in Seeded \ Measured => file'.ready = {}
       PROVE  FreshInv'
  <2>1. Fresh' => Fresh
    BY <1>1, <1>10 DEF Fresh
  <2> QED
    BY <1>5, <1>10, <2>1
<1>11. CASE NoteMade
  <2>1. pc = "noteMade" /\ file.kind = "ok" /\ \A n \in Nodes : Mine(n)
    BY <1>2, <1>3, <1>11 DEF NoteMade, Noted, UpAt, UpStages, AllMade, Seeded
  <2>2. file' = [file EXCEPT !.created = Nodes] /\ formed' = formed
    BY <1>11, <2>1, NoteGoesOn DEF NoteMade, outer
  <2>3. /\ file'.created = Nodes /\ file'.started = file.started /\ file'.kind = file.kind
        /\ file'.ready = file.ready /\ file'.clustered = file.clustered
        /\ file'.born = file.born
    BY <2>2 DEF File
  <2>4. Fresh => Kept /\ file.ready = {}
    BY <2>1 DEF FreshInv, Kept, Seeded, UpStages, Measured
  <2>5. Fresh => Kept'
    BY <1>1, <2>1, <2>2, <2>3, <2>4 DEF Kept, Evidence, Mine
  <2> QED
    BY <1>10, <2>1, <2>3, <2>4, <2>5 DEF Seeded, UpStages
<1>12. CASE NoteBooted
  <2>1. /\ pc = "noteBooted" /\ file.kind = "ok"
        /\ \A n \in Nodes : Mine(n) /\ vm[n].state # "stopped"
    BY <1>2, <1>3, <1>12 DEF NoteBooted, Noted, UpAt, UpStages, AllMade, Seeded, BootedAt
  <2>2. file' = [file EXCEPT !.started = Nodes] /\ formed' = formed
    BY <1>12, <2>1, NoteGoesOn DEF NoteBooted, outer
  <2>3. /\ file'.created = file.created /\ file'.started = Nodes /\ file'.kind = file.kind
        /\ file'.ready = file.ready /\ file'.clustered = file.clustered
        /\ file'.born = file.born
    BY <2>2 DEF File
  <2>4. Fresh => Kept /\ file.ready = {}
    BY <2>1 DEF FreshInv, Kept, Seeded, UpStages, Measured
  <2>5. Fresh => Kept'
    BY <1>1, <2>1, <2>2, <2>3, <2>4 DEF Kept, Evidence, Mine
  <2> QED
    BY <1>10, <2>1, <2>3, <2>4, <2>5 DEF Seeded, UpStages
<1>13. CASE NoteReady
  <2>1. /\ pc = "noteReady" /\ file.kind = "ok"
        /\ \A n \in Nodes : node[n] = "ok" => Live(n)
    BY <1>2, <1>3, <1>13 DEF NoteReady, Noted, UpAt, UpStages, AllMade, Seeded
  <2> DEFINE f == [file EXCEPT !.ready = (@ \ At("err")) \cup At("ok"),
                               !.started = IF clone THEN @ \cup At("ok") ELSE @]
  <2>2. Loaded = file
    BY <2>1 DEF Loaded
  <2>3. file' = f /\ formed' = formed /\ pc' \in {"form", "idle"}
    BY <1>13, <2>1, <2>2 DEF NoteReady, outer, UpdateState, Exit, Goto
  <2>4. /\ f.created = file.created /\ f.kind = file.kind /\ f.clustered = file.clustered
        /\ f.born = file.born /\ f.started \subseteq file.started \cup At("ok")
        /\ f.ready \subseteq file.ready \cup At("ok")
    BY DEF File
  <2> HIDE DEF f
  <2>5. Fresh => Kept /\ file.ready = {}
    BY <2>1 DEF FreshInv, Kept, Seeded, UpStages, Measured
  <2>6. \A n \in At("ok") : vm[n].state = "ready" /\ vm[n].owner = "ours"
    BY <2>1 DEF At, Live, Mine
  <2>7. Fresh => Kept'
    BY <1>1, <2>3, <2>4, <2>5, <2>6 DEF Kept, Evidence
  <2> QED
    BY <1>10, <2>1, <2>3, <2>4, <2>7 DEF Seeded, UpStages, Measured
<1>14. CASE Form \/ WriteEnvFile
  BY <1>6, <1>14 DEF Form, WriteEnvFile, outer, files, Goto, Exit, Seeded, UpStages,
     Measured
<1>15. CASE NoteFormed
  <2>1. pc = "noteFormed" /\ file.kind = "ok" /\ formed
    BY <1>3, <1>15 DEF NoteFormed, Noted, UpStages, AllMade, Seeded
  <2>2. /\ file' = [file EXCEPT !.clustered = TRUE] /\ formed' = formed
        /\ pc' = "handoff"
    BY <1>15, <2>1, NoteGoesOn DEF NoteFormed, outer, Goto
  <2>3. /\ file'.created = file.created /\ file'.started = file.started
        /\ file'.ready = file.ready /\ file'.kind = file.kind /\ file'.born = file.born
    BY <2>2 DEF File
  <2>4. Fresh => Kept
    BY <2>1 DEF FreshInv, Kept
  <2>5. Fresh => Kept'
    BY <1>1, <2>1, <2>2, <2>3, <2>4 DEF Kept, Evidence
  <2> QED
    BY <1>10, <2>1, <2>2, <2>3, <2>5 DEF Seeded, UpStages, Measured
<1> QED
  BY <1>7, <1>8, <1>9, <1>11, <1>12, <1>13, <1>14, <1>15 DEF StageUpStep

\* A node's part of a stage of up undoes no claim of the file.
LEMMA FreshNode ==
    ASSUME TypeOK, FreshInv, NEW n \in Nodes, NodeUpStep(n)
    PROVE  FreshInv'
<1> USE TypeFacts
<1>1. /\ n \in Slots /\ vm[n] \in VM
      /\ \A m \in Nodes : m # n => vm'[m] = vm[m] /\ node'[m] = node[m]
      /\ UNCHANGED <<formed, file, cmd, pc, clone, run, res>>
  BY SlotFacts, NodeUpFacts
<1>2. pc \in {"make", "boot", "await"}
  BY DEF NodeUpStep, Make, Boot, Await, BootClone, Reidentify
<1>3. \A m \in Nodes : BootedAt(m)'
  <2>1. BootedAt(n)'
    <3>1. CASE Boot(n)
      <4>1. pc = "boot" /\ (node'[n] = "ok" => vm'[n].state = "up")
        BY <1>1, <3>1 DEF Boot, VM
      <4> QED
        BY <1>1, <4>1 DEF BootedAt
    <3>2. CASE ~ Boot(n)
      <4>1. pc \in {"make", "await"}
        BY <3>2 DEF NodeUpStep, Make, Await, BootClone, Reidentify
      <4> QED
        BY <1>1, <4>1 DEF BootedAt
    <3> QED
      BY <3>1, <3>2
  <2>2. ASSUME NEW m \in Nodes, m # n PROVE BootedAt(m)'
    BY <1>1, <2>2 DEF FreshInv, BootedAt
  <2> QED
    BY <2>1, <2>2
<1>4. CASE ~ Fresh
  BY <1>1, <1>3, <1>4 DEF FreshInv, Fresh
<1>5. CASE Fresh
  <2>1. /\ Evidence /\ file.ready = {}
        /\ \A m \in file.started : vm[m].owner = "ours"
    BY <1>2, <1>5 DEF FreshInv, Seeded, Measured, UpStages
  <2>2. /\ file.created \subseteq Nodes /\ file.started \subseteq Nodes
    BY DEF File
  <2>3. /\ n \in file.created => vm'[n].owner = "ours"
        /\ n \in file.started => vm'[n].owner = "ours" /\ vm'[n].state # "stopped"
    <3>1. CASE Make(n)
      <4>1. vm'[n] = vm[n] \/ vm[n].owner = "none"
        BY <1>1, <3>1 DEF Make
      <4>2. vm'[n] = vm[n] \/ (n \notin file.created /\ n \notin file.started)
        BY <2>1, <4>1 DEF Evidence
      <4> QED
        BY <2>1, <4>2 DEF Evidence
    <3>2. CASE Boot(n) \/ BootClone(n) \/ Await(n) \/ Reidentify(n)
      <4>1. vm'[n].state \in {vm[n].state, "up", "ready"}
        BY <1>1, <3>2 DEF Boot, BootClone, Await, Reidentify, VM
      <4>2. vm'[n].owner = vm[n].owner
        BY <1>1, <3>2 DEF Boot, BootClone, Await, Reidentify, VM
      <4> QED
        BY <2>1, <4>1, <4>2 DEF Evidence
    <3> QED
      BY <3>1, <3>2 DEF NodeUpStep
  <2>4. Evidence' /\ \A m \in file.started : vm'[m].owner = "ours"
    BY <1>1, <2>1, <2>2, <2>3 DEF Evidence
  <2> QED
    BY <1>1, <1>3, <2>1, <2>4 DEF FreshInv
<1> QED
  BY <1>4, <1>5

\* Every step keeps the evidence true.
LEMMA FreshNext ==
    ASSUME TypeOK, TypeOK', Commands, UpInv, FreshInv, [Next]_vars
    PROVE  FreshInv'
<1> USE TypeFacts
<1>1. ASSUME pc' \notin {"boot", "noteBooted"}, ~ Fresh' PROVE FreshInv'
  BY <1>1 DEF FreshInv, BootedAt
<1>2. CASE DownFrame
  <2>1. cmd' = "down"
    BY <1>2 DEF DownFrame, Commands
  <2> QED
    BY <1>1, <1>2, <2>1 DEF DownFrame, DownStages, Fresh
<1>3. CASE BuildFrame
  <2>1. cmd' = "template"
    BY <1>3 DEF BuildFrame, Commands
  <2> QED
    BY <1>1, <1>3, <2>1 DEF BuildFrame, BuildStages, Fresh
<1>4. CASE StartFrame
  <2>1. file.born \in Nat /\ file.born <= run /\ run' = run + 1 /\ file' = file
    BY <1>4 DEF StartFrame, Commands, File
  <2>2. file'.born # run'
    BY <2>1
  <2> QED
    BY <1>1, <1>4, <2>2 DEF StartFrame, Fresh
<1>5. CASE KilledFrame
  <2>1. Torn.kind = "torn"
    BY DEF Torn, NoFile
  <2>2. CASE file' = file
    <3>1. UNCHANGED <<vm, formed, cmd, run>> /\ pc' = "idle"
      BY <1>5 DEF KilledFrame
    <3> QED
      BY <2>2, <3>1 DEF FreshInv, Fresh, Evidence, BootedAt, Seeded, UpStages
  <2>3. CASE file' = Torn
    BY <1>1, <1>5, <2>1, <2>3 DEF KilledFrame, Fresh
  <2> QED
    BY <1>5, <2>2, <2>3 DEF KilledFrame
<1>6. ASSUME NEW m \in Slots, OthersFrame(m) PROVE FreshInv'
  <2>1. /\ UNCHANGED <<formed, file, cmd, pc, node, run>>
        /\ vm[m].owner = "none" /\ \A n \in Slots : n # m => vm'[n] = vm[n]
    BY <1>6 DEF OthersFrame
  <2>2. \A n \in Nodes : vm[n].owner = "ours" => vm'[n] = vm[n]
    BY <2>1, SlotFacts
  <2>3. ASSUME NEW n \in Nodes PROVE BootedAt(n)'
    <3>1. pc \in {"boot", "noteBooted"} => vm'[n] = vm[n]
      BY <2>2 DEF UpInv, UpAt, AllMade, Seeded, UpStages, Mine
    <3> QED
      BY <2>1, <3>1 DEF FreshInv, BootedAt
  <2>4. CASE Fresh
    <3>1. /\ Evidence /\ \A n \in file.started \cup file.ready : vm[n].owner = "ours"
          /\ pc \in Seeded \ Measured => file.ready = {}
      BY <2>4 DEF FreshInv
    <3>2. /\ file.created \subseteq Nodes /\ file.started \subseteq Nodes
          /\ file.ready \subseteq Nodes
      BY DEF File
    <3>3. \A n \in file.created \cup file.started \cup file.ready : vm'[n] = vm[n]
      BY <2>2, <3>1, <3>2 DEF Evidence
    <3> QED
      BY <2>1, <2>3, <3>1, <3>3 DEF FreshInv, Evidence
  <2>5. CASE ~ Fresh
    BY <2>1, <2>3, <2>5 DEF FreshInv, Fresh
  <2> QED
    BY <2>4, <2>5
<1>7. CASE StillFrame
  BY <1>7 DEF StillFrame, FreshInv, Fresh, Evidence, BootedAt
<1>8. ASSUME NEW m \in Slots, VanishFrame(m) PROVE FreshInv'
  <2>1. pc' \in {"down", "slotStop", "slotDelete"} /\ cmd' \in {"down", "template"}
    BY <1>8 DEF VanishFrame, Commands, DownStages, BuildStages
  <2> QED
    BY <1>1, <2>1 DEF Fresh
<1> QED
  BY <1>2, <1>3, <1>4, <1>5, <1>6, <1>7, <1>8, StepKinds, StartFrames, KilledFrames,
     OthersFrames, VanishFrames, StillFrames, DownFrames, BuildFrames, FreshStage,
     FreshNode

-----------------------------------------------------------------------------
\* The lab starts with nothing done.
LEMMA LabInit == Init => LabInv
<1> SUFFICES ASSUME Init PROVE LabInv
  OBVIOUS
<1>1. TypeOK
  BY TypeInit
<1>2. /\ pc = "idle" /\ res = "none" /\ harm = {} /\ file = NoFile /\ run = 0
      /\ cmd = "none"
  BY DEF Init
<1>3. /\ vm[0] = Absent \/ (vm[0].owner = "ours" /\ vm[0].system)
      /\ \A n \in Nodes : vm[n] = Absent
  <2> DEFINE T == [Absent EXCEPT !.owner = "ours", !.system = TRUE, !.state = "template"]
  <2>1. PICK t \in {Absent, T} : vm = [n \in Slots |-> IF n = 0 THEN t ELSE Absent]
    BY DEF Init
  <2>2. T.owner = "ours" /\ T.system
    BY DEF Absent
  <2> HIDE DEF T
  <2>3. vm[0] = t /\ \A n \in Nodes : vm[n] = Absent
    BY <2>1, SlotFacts
  <2> QED
    BY <2>1, <2>2, <2>3
<1>4. /\ Absent.owner = "none" /\ ~ Absent.cloned /\ NoFile.born = 0
      /\ NoFile.kind = "absent"
  BY DEF Absent, NoFile
<1>5. Commands
  BY <1>2, <1>3, <1>4, SlotFacts DEF Commands, UpStages, DownStages, BuildStages
<1>6. DownInv
  BY <1>2 DEF DownInv, DownAt
<1>7. SpareInv
  BY <1>2 DEF SpareInv, SpareAt, Condemned, SparesWhatItFound
<1>8. BuildInv
  BY <1>2, <1>3, <1>4 DEF BuildInv, Building, Template, UpStages
<1>9. CloneInv
  BY <1>2, <1>3, <1>4 DEF CloneInv, CloneAt, Hot, UpStages
<1>10. UpInv
  BY <1>2 DEF UpInv, Noted, UpAt, UpStages, AllMade, Seeded, Measured
<1>11. FreshInv
  BY <1>2 DEF FreshInv, BootedAt, Fresh
<1> QED
  BY <1>1, <1>5, <1>6, <1>7, <1>8, <1>9, <1>10, <1>11 DEF LabInv

(***************************************************************************)
(* The inductive invariant of the lab holds: whatever commands the         *)
(* operator runs, wherever they fail or are killed, and whatever VMs       *)
(* others make, each command stays within what its stages establish.       *)
(***************************************************************************)
THEOREM LabInvariant == Spec => []LabInv
<1>1. ASSUME LabInv, [Next]_vars PROVE LabInv'
  BY <1>1, TypeNext, CommandsNext, DownNext, SpareNext, BuildNext, CloneNext, UpNext,
     FreshNext DEF LabInv
<1> QED
  BY <1>1, LabInit, PTL DEF Spec

(***************************************************************************)
(* The blast radius of down and of template build, with VMIDs changing     *)
(* hands at any time: a VM without the harness's name that was there when  *)
(* the command looked at its VMID is neither stopped nor deleted.          *)
(***************************************************************************)
THEOREM SparesCorrect == Spec => []SparesWhatItFound
<1>1. LabInv => SparesWhatItFound
  BY DEF LabInv, SpareInv
<1> QED
  BY <1>1, LabInvariant, PTL

(***************************************************************************)
(* down reports success only when no VM of pvelab's is left on a node.     *)
(***************************************************************************)
THEOREM DownCorrect == Spec => []DownMeansGone
<1>1. LabInv => DownMeansGone
  BY DEF LabInv, DownInv, DownAt, DownMeansGone
<1> QED
  BY <1>1, LabInvariant, PTL

(***************************************************************************)
(* up reports a lab only when every node is a VM of this run that answers, *)
(* they form a cluster, and both files are there and say so.               *)
(***************************************************************************)
THEOREM UpCorrect == Spec => []UpMeansLab
<1>1. LabInv => UpMeansLab
  <2> SUFFICES ASSUME LabInv, res = "up" PROVE UpMeansLab
    BY DEF UpMeansLab
  <2>1. \A n \in Nodes : Live(n)
    BY DEF LabInv, UpInv, UpAt
  <2>2. /\ file.kind = "ok" /\ file.created = Nodes /\ file.started = Nodes
        /\ file.ready = Nodes /\ file.clustered /\ formed /\ env
    BY DEF LabInv, UpInv, Noted
  <2>3. file \in File /\ Loaded = file
    BY <2>2 DEF LabInv, TypeOK, Loaded
  <2>4. [Loaded EXCEPT !.born = 0] =
           [kind |-> "ok", born |-> 0, created |-> Nodes, started |-> Nodes,
            ready |-> Nodes, clustered |-> TRUE]
    <3> DEFINE g == [file EXCEPT !.born = 0]
    <3>1. file.clustered = TRUE /\ 0 \in 0..MaxRuns
      BY <2>2, <2>3, LabAssumption DEF File
    <3>2. /\ g \in File /\ g.kind = "ok" /\ g.born = 0 /\ g.created = Nodes
          /\ g.started = Nodes /\ g.ready = Nodes /\ g.clustered = TRUE
      BY <2>2, <2>3, <3>1 DEF File
    <3> HIDE DEF g
    <3>3. g = [kind |-> "ok", born |-> 0, created |-> Nodes, started |-> Nodes,
               ready |-> Nodes, clustered |-> TRUE]
      BY <3>2 DEF File
    <3> QED
      BY <2>3, <3>3 DEF g
  <2> QED
    BY <2>1, <2>2, <2>4 DEF UpMeansLab, Live, Mine
<1> QED
  BY <1>1, LabInvariant, PTL

(***************************************************************************)
(* A state file that the current up began never claims more than is so,    *)
(* at whichever point up is killed.                                        *)
(***************************************************************************)
THEOREM EvidenceCorrect == Spec => []FreshEvidenceTrue
<1>1. LabInv => FreshEvidenceTrue
  BY DEF LabInv, FreshInv, Fresh, FreshEvidenceTrue
<1> QED
  BY <1>1, LabInvariant, PTL

(***************************************************************************)
(* A template is made of a finished installation only.                     *)
(***************************************************************************)
THEOREM TemplateCorrect == Spec => []TemplateInstalled
<1>1. LabInv => TemplateInstalled
  BY DEF LabInv, BuildInv, TemplateInstalled
<1> QED
  BY <1>1, LabInvariant, PTL

(***************************************************************************)
(* At most one VM at a time is up with the template's address, for any     *)
(* number of clones.                                                       *)
(***************************************************************************)
THEOREM AddressCorrect == Spec => []OneAtTemplateAddress
<1>1. ASSUME LabInv PROVE OneAtTemplateAddress
  <2> DEFINE S == {n \in Slots : IF n = 0 THEN vm[n].state \in {"up", "ready"}
                                 ELSE vm[n].cloned /\ vm[n].state = "up"}
  <2>1. \A m, n \in S : m = n
    <3> SUFFICES ASSUME NEW m \in S, NEW n \in S PROVE m = n
      OBVIOUS
    <3>1. CASE m = 0 \/ n = 0
      <4>1. vm[0].state \in {"up", "ready"}
        BY <3>1
      <4>2. \A k \in Nodes : ~ vm[k].cloned
        BY <1>1, <4>1 DEF LabInv, BuildInv, Template
      <4> QED
        BY <3>1, <4>2, SlotFacts
    <3>2. CASE m \in Nodes /\ n \in Nodes
      BY <1>1, <3>2, SlotFacts DEF LabInv, CloneInv, Hot
    <3> QED
      BY <3>1, <3>2, SlotFacts
  <2>2. CASE S = {}
    BY <2>2, FS_EmptySet DEF OneAtTemplateAddress
  <2>3. CASE S # {}
    <3>1. PICK x \in S : TRUE
      BY <2>3
    <3>2. S = {x}
      BY <2>1, <3>1
    <3>3. Cardinality(S) = 1
      BY <3>2, FS_Singleton
    <3> QED
      BY <3>3 DEF OneAtTemplateAddress
  <2> QED
    BY <2>2, <2>3
<1> QED
  BY <1>1, LabInvariant, PTL
=============================================================================
