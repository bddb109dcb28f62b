# Specifications of proxmox-go-sdk

TLA+ modules for the parts of this repository that have behaviour worth
checking: the SDK's transport, its typed services and its task waiter, the
laboratory tool `pvelab`, the mock PVE server the tests run against and the API
coverage tracker. TLC
checks them on small instances; TLAPS proves all but three of the safety
properties for every instance.

`PROJECT.json` is the index: which definition stands for which lines, which
run checks which property, what is expected of it, and what is left out.

    tlc -config Lab.cfg MCLab          # one run
    tlapm LabProofs.tla                # the proofs about one module

## 1. The system

| component | state it keeps | operations | how it meets the others |
|---|---|---|---|
| transport (`proxmox/api/transport.go`, `websocket.go`) | the calls in flight | `DoRequest`, `DoUpload`, `DoWebSocket` | every service calls it; it shares the ring and the credentials between all calls |
| endpoints (`connection.go`) | the ring and its current index | `newConnection`, `baseURL`, `failover` | one mutex, used by every call |
| credentials (`credentials.go`) | ticket, CSRF token, expiry, `mintMu` | `authorize`, `csrfToken`, `needsRefresh`, `refresh` | `refresh` makes a request through the transport it belongs to |
| retry policy (`retry.go`), errors (`pverr`) | none | `delay`, `Classify`, `ClassifyNetError` | decide what `execute` does next |
| tasks (`proxmox/tasks`) | none between calls | `Wait`, `WaitFor`, `Status`, `Log` | polls through the transport while PVE runs the task; `qemu.AgentExecWait` waits the same way for a command in a guest |
| client (`proxmox.go`, `version`) | the capabilities it found when it was made | `NewClient`, the accessors, `Require` | every service carries a copy of the capabilities |
| services (`qemu`, `lxc`, `storage`, `nodes`, ...) | none; what a caller keeps of an answer (a digest, a ticket, a configuration) goes into its next call | some two hundred methods | checks, at most one request through the transport, decoding |
| `pvelab` (`cmd/pvelab`) | state file, env file, VMs on a shared host, the prepared ISO | `iso`, `template build`, `up`, `down`, `status`, `env` | uses the SDK; its VMs install themselves from its answer server; it forms a cluster of them |
| mock PVE server (`proxmox/mockpve`) | everything PVE would keep | one handler per route | the SDK's tests and CI talk to it; handlers run concurrently under one mutex |
| coverage tracker (`cmd/pve-schemadiff`) | committed files | schema diff, coverage report, `-check` | compares PVE's API with the mock's routes |

The behaviours that are hard here:

* **Concurrency in the transport.** Calls share a ring index, a ticket and a
  CSRF token. The ticket and its CSRF token are read under two acquisitions of
  a lock; a refresh holds another lock across a request.
* **Unreliable delivery.** A request can be lost before or after PVE carried
  it out, and `execute` cannot tell. Three loops nest around a send (attempts,
  endpoints, re-authentication).
* **Partial failure and crashes.** `pvelab` works on a host that others use,
  in parallel, with results that may be lost, and can be killed between any
  two steps; only its files survive.
* **Remote asynchrony.** A task goes on while it is polled; a cluster join is
  accepted and may then be lost.
* **Split critical sections.** Handlers of the mock take its mutex several
  times per request.
* **State that travels through the caller.** A digest, a console ticket, a
  node's configuration and the capabilities are read in one call and used in a
  later one; others write in between, the transport repeats calls and changes
  endpoints, and the two ends have parsers and checks of their own.
* **Files edited out of step.** The coverage report, the API dump, the routes
  and the exceptions, or a configuration and the ISO made from it, change
  independently.

`PROJECT.json` lists these at their lines under `hazards`, each with the
properties that would catch it going wrong.

## 2. The modules

| module | models | depends on |
|---|---|---|
| `Pverr` | the error kinds and how a status or a network error becomes one | |
| `Connection` | the ring: construction from addresses, rotation | |
| `Credentials` | the three strategies, the life of a ticket, `mintMu` | |
| `Transport` | calls as processes over the three above | `Pverr`, `Connection`, `Credentials` |
| `Operation` | **abstract**: what a caller may rely on: an operation is performed some number of times and then answered once | |
| `Retry`, `Options` | the delay as a function; how options become a ring and a policy | `Connection` |
| `Startup` | `pvelab` before its work: configuration, answer URL, answer server, installers | `Options` |
| `Tasks` | waiters polling tasks | |
| `FormCluster` | `formCluster` against corosync | |
| `Lab` | the `pvelab` commands over the host and their files | |
| `NodeConfig` | a node's configuration file as the SDK and as the server read and write it | |
| `MockConfig` | the mock's configuration, login and console handlers, one step each | `NodeConfig` |
| `Methods` | tables: what each method of the services checks, sends, asks for and decodes; what the mock's handlers ask for and answer | |
| `Services` | **composition**: clients, the transport's repetitions and the server | `MockConfig`, `Methods` |
| `MockGuests` | the mock's guest and volume handlers, one step per critical section | |
| `Coverage` | the tracker over files that people edit | |
| `TransportProofs`, `TasksProofs`, `FormClusterProofs`, `LabProofs`, `StartupProofs`, `ServicesProofs`, `GuestsProofs`, `CoverageProofs` | the inductive invariant of a module and the theorems about it (section 5) | the module (`GuestsProofs`: `MockGuests`), `TLAPS` |
| `MC*` | the sets and model values that instantiate a module for TLC | the module |

### Transport

A call is a record with a program counter; the points it can be at are the
places where the code takes a lock that another call can take, sends,
receives or sleeps. `Call` is the entry of the three `Do` functions, then:
`RefreshNotNeeded`, `RefreshLock`, `MintSend`, `MintIssue`, `MintDone`,
`MintFail` are `ensureFresh` and `userCreds.refresh`; `Top`, `CtxDone`,
`Authorize`, `Send`, `Receive`, `Backoff`, `Rotate` are `execute`'s loops;
`AfterTransient`, `AfterReply` and `AfterExecute` are its decisions, the last
one the re-authenticate-and-replay of `DoRequest`. PVE and the network are
environment: `Serve` carries a request out, `Lose` loses the request or its
reply, `GiveUp` ends it by the context. `Clock` and `Revokes` make tickets
expire and be revoked. `hist` records what a call has done, `checked` when each
call last looked at the live ticket's expiry and `arrived` when its request
reached PVE; these are only read by properties.

Abstracted: bodies, headers, TLS, the text of errors. A write, a read, an
upload, a websocket and a request that cannot be encoded are the five kinds
of operation.

`Operation` has one variable per call: its phase and how often the
operation was performed. A read may be performed any number of times, an
upload and a websocket at most once; a success needs at least one
performance. `ImplementsOperation` is the refinement from `Transport`.

### Startup and Options

`Options` applies every combination of up to two further endpoints (in eight
spellings of three hosts, one of them invalid) and every small retry policy.
`Startup` continues from the same primary address, since `outer.endpoint` is
handed to `NewClient` as it is: `Validate` is `LoadConfig`, the actions are
the commands as far as configuration and answers are concerned, and
`ServeHTTP` answers an installer. `template build` has two steps, as its answer
server runs before it looks whether there is room for the template and an ISO
(`TemplateBuild`, `TemplateSlot`). Names are sequences of letters so that one
can contain another, and base64 groups letters by three as the encoding does.
The installers' request has an unknown shape; the model assumes that it holds
the serial, raw or encoded, and no other node's name.

### Tasks

A waiter submits or is given a UPID, or starts a command in a guest
(`AgentExec`), polls, sleeps and returns; `Exit` lets PVE end a task at any
time. `Serve` reads the status at PVE and `Receive` acts on it later, so a
status can be old when it is used. How long a waiter sleeps does not matter to
any property and is left out.

### FormCluster

The client's steps are the requests and polls of `formCluster`; `Land`,
`Lose`, `ComeOnline`, `Flap` are the cluster's. A join that arrives while the
cluster has no quorum is accepted and then lost, which is what the comments
in `cluster.go` report of PVE and why there is a gate.

### Lab

One command runs at a time, in stages; `Killed` ends it anywhere. The VM of a
slot is ours, another lab's (its name has the prefix that `checkOwnership`
tests, so `down` takes it for its own), foreign or absent. Creates, boots, stops
and deletes are steps per node, with the outcomes "done", "failed" and "done but
reported as failed". The state file has contents, may be torn by a kill, and
remembers which command began it. `Others` and `Vanish` are the rest of the
world on the host: a VM is made under a free VMID at any time, also between a
command's look at the VMID and its delete, or a VM of the lab is removed by
hand under a command that is about to. `made` and `harm` are history: whether a
foreign VM that was hit was there when the command looked.

Two simplifications. A create that PVE has accepted holds its VMID from then on,
so at a kill its VM counts as there; a request still on the wire at the kill is
taken to arrive before the next command. And since there is one configuration,
the template's name occurs in slot 0 only: that `-force` also deletes a VM of
that name on another VMID (`template.go:163`) is left out.

### MockConfig and MockGuests

In `MockConfig` a handler is a function from a state and a request to a state
and an answer, because each holds the mutex once. The 18 keyed collections
differ in what a create fills in, what an update cannot set and what a delete
takes along, and are described by exactly that; the others have handlers of
their own. Behaviours work on one family of collections that meet.

In `MockGuests` a handler is a process with a program counter, since each
takes the mutex several times: look up, remove, start the task, finish the
task, reply. Containers and virtual machines share the module; a behaviour
has one kind, as their maps never meet. Volumes are the third kind: a create
notes the owner in a section of its own, and the UPIDs of uploads and removals
name the storage only.

### Methods, NodeConfig and Services

`Methods` has a table per source file of the services. A row holds what
`Services!Invoke` needs: the inputs that are checked, the form keys, the keys
that the encoder fills or sets after the caller's `Extra`, the release, and
whether the answer has to be a UPID. `Asks` and `Workers` are the same calls
seen from the mock's handlers, taken from `mockpve` and not from the services.

`NodeConfig` is the codec of `nodes/nodeconfig.go` next to the mock's handler
and its `slotDomain`. A property string is a sequence of parts, so every
order, repetition and omission of them is there.

`Services` runs clients against the server. `Invoke` and `Ask` are a method up
to its request (or its refusal), `Deliver` the handler, `Resend`, `GiveUp` and
`Receive` what the transport makes of a lost or an arriving answer: they are
`execute` of `Transport` seen from a caller, as `Operation` promises it.
`NewClient` takes the capabilities of whichever endpoint answers, `Upgrade`
changes an endpoint's release afterwards. A behaviour works on one family of
state, as in `MockConfig`; `ServeAnyone` serves requests of anybody's shape,
the other families (`datastores`, `methods`, `gates`, `consoles`) have SDK
clients. A client has one credential, an API token or a user's login; the
consoles are the only requests for which the model looks at it (`checkAuth`).

### Coverage

The variables are the five files and what the two modes of the tool said of
them; an edit of any file voids what was said. `Markdown` is the content that
is rendered. Both writes may leave a torn file, the report's (`CoverageWrite`)
and the baseline's (`SchemaUpdate`); a torn baseline cannot be read until it is
written again. The annotations are read with the checks of their loader, the
provenance of the baseline among them.

## 3. The runs

| run | instance | what it shows |
|---|---|---|
| `TransportUser` | 2 concurrent calls, password credentials, tickets that live 1 tick, 3 ticks | a success was carried out (`SuccessMeansServed`); a CSRF token is never older than its ticket (`CsrfNotOlder`); a ticket PVE rejected is not sent again by that call (`RejectedNeverResent`); a request that is sent within the refresh skew of its check meets a ticket that PVE has not let expire (`PromptRequestUnexpired`); the live ticket only gets newer (`TicketNeverOlder`); nobody mints without need (`MintOnlyWhenNeeded`); every call returns (`EveryCallReturns`) |
| `TransportSequential` | all kinds of call, one at a time, 2 endpoints, the first down, 2 attempts, a revocation | `ErrTicketExpired` only after the replay; the number of requests stays in the budget; "all endpoints exhausted" means all were tried; the refinement of `Operation` |
| `Tasks` | 2 waiters, 2 tasks | `Wait`'s verdict is PVE's; a waiter returns when its task or command has exited or its context ends |
| `FormCluster` | 4 nodes, 2 flaps | no join is fired into a cluster without quorum; `nil` means every node is a member; the formation ends |
| `Lab` | 2 nodes, 4 commands, a VM of others | a foreign VM that a command found is neither stopped nor deleted, whatever VMIDs change hands (`SparesWhatItFound`); a successful `up` is a whole lab; a successful `down` leaves nothing; the state file does not claim what is not so; two clones never share the template's address; a template holds a finished installation |
| `Startup` | 8 spellings, 2 more endpoints, 18 configurations, 2 edits | the ring is complete, free of duplicates and in order; delays are capped growth; SSH and API go to one host; an installer gets its own node's answer; node VMs stay out of the template range whatever configurations follow each other |
| `Services` | 2 clients, 2 endpoints, releases up to 9.2, 2 deliveries per call, 2 names, lists of 2, 3 storage writes | an update guarded by a digest is applied at most once and to what its client read, whoever writes in between and however often it is sent (`GuardedAppliedOnce`); a call that needs a release reaches a node without it only after a failover (`GateHolds`); what a method sends after its checks is what its handler wants and what the handler answers is what the method decodes, and a console opens where its ticket was made for (`CallsFit`); reading any node configuration and writing it back changes nothing (`ConfigRoundTrips`); which requests may be served twice (`RepeatHarmless`); fabrics leave no nodes behind (`NoOrphanedNodes`) |
| `MockGuests` | 2 nodes, 2 VMIDs or volumes, 2 requests at once, 2 seconds | a guest has one place; none is lost to another's handler; an acknowledged task is finished |
| `Coverage` | 3 edits over small files | green CI means the report is true and its totals add up; no fabricated route reaches the disk |
| `ReplayedWrite` | 1 write, 2 attempts | **fails**: PVE can carry one write out twice |
| `WebSocketNil` | 1 websocket | **fails**: a 2xx other than 101 gives a nil stream and a nil error |
| `FailoverRace` | 2 calls, 3 endpoints | **fails**: a call gives up as exhausted without having tried every endpoint |

### Why these bounds

* *Two calls* are enough for every race in the transport: the shared state is
  one index, one ticket and one lock, and a third call only repeats what the
  second does to the first. Two endpoints with two attempts each reach every
  nesting of the three loops, the wrap of the index included; `FailoverRace`
  needs three so that a skipped one exists. What must hold for any number of
  calls and endpoints is proved (section 5).
* *Ticket lifetime 1, skew 1, 3 ticks*: a ticket expires while a call holds
  it, is replaced, and expires again.
* *Four nodes* are the smallest cluster with joins before and after a
  majority is more than the first node; two flaps let quorum be lost and
  found again.
* *Four commands* let a lab fail, be torn down in part, be built again and
  be torn down; two nodes let a parallel stage half fail.
* *Two tasks* in `Tasks` let a waiter be told of a task that is not its own;
  two waiters also meet on one.
* *Three edits* in `Coverage` make any three of the files stale at once.
* *Two edits* in `Startup` go from the unfilled example to one configuration
  and to a second one while VMs of the first exist.
* *Three writes of `storage.cfg`* allow a read, a foreign write, the guarded
  update and its repetition; two clients are a reader and somebody else.
* *Two endpoints and releases 8 to 9.2* give every order of old and new for
  each gate (9.1, 9.2); two deliveries are a lost answer and its repetition.
* *Property strings of two parts* out of six kinds reach every precedence
  between a bare, a keyed and an empty domain; slots 0, 00 and 6 are a slot,
  another spelling of it and one that PVE does not have.

`MaxActive`, `MaxRuns`, `MaxEdits`, `MaxTime`, `MaxRevoked`, `MaxRequests`,
`MaxSecond`, `MaxForeign`, `MaxFlaps`, `MaxLength`, `MaxVersion`, `MaxExtras`,
`MaxSends`, `MaxRelease` and `MaxAttempts` bound the model, not the code.

Deadlock is checked everywhere but in `MockGuests`, where the handlers stop
once the bounded number of requests has been served.

## 4. Fairness

* `Transport!FairSpec`: weak fairness of each call's next step. Go grants a
  contended mutex eventually, sleeps end, and `http.Client.Do` returns — with
  an error if the context ends. The last is the caller's to provide: the
  default client has no timeout of its own, so a peer that accepts a
  connection and never answers holds a call (and with it `mintMu`) until its
  context ends. PVE is not assumed to answer; `Lose` is a step too.
* `Tasks!FairSpec`: requests return and timers fire. No task is assumed to
  exit.
* `FormCluster!FairSpec`: the client's requests return and its polls time
  out. Nothing is assumed of the cluster.

The other modules state no fairness and check safety only.

## 5. What is proved

Each proof module states the inductive invariant of its module, proves with one
lemma per action that every step keeps it, and derives the theorems. TLC has
checked each of these invariants on the instance of the module's run. The constants are
arbitrary up to the assumptions at the end of this section.

| module | theorem | states | for every |
|---|---|---|---|
| `TransportProofs` | `TypeCorrect`, `TicketInvariant`, `ServedInvariant`, `LoopInvariant` | the invariants | number of calls, endpoints and attempts, kind of credentials, clock |
| | `CsrfCorrect` | `Spec => []CsrfNotOlder` | |
| | `ReplayCorrect` | `Spec => []RejectedNeverResent` | |
| | `TicketMonotone` | `Spec => TicketNeverOlder` | |
| | `MintCorrect` | `Spec => MintOnlyWhenNeeded` | |
| | `PromptCorrect` | `Spec => []PromptRequestUnexpired` | |
| | `BudgetCorrect` | `Spec => []SendBudget` | |
| | `ReplayedFirst` | `Spec => []ExpiredOnlyAfterReplay` | |
| | `SuccessCorrect` | with at least one attempt, `Spec => []SuccessMeansServed` | |
| | `RefinementCorrect` | with at least one attempt, `Spec => ImplementsOperation` | |
| | `TriedAllCorrect` | with one call at a time, at least one attempt and no password credentials, `Spec => []TransientTriedAll` | |
| `TasksProofs` | `TasksInvariant`, `VerdictCorrect` | `Spec => []VerdictTrue` | number of waiters, tasks and commands |
| `FormClusterProofs` | `FormInvariant`, `FormedCorrect` | `Spec => []FormedIsComplete` | number of nodes and flaps |
| | `NoJoinLostCorrect` | with `FirstOnline`, `Spec => []NoJoinLost` | |
| `LabProofs` | `LabInvariant`, `DownCorrect` | `Spec => []DownMeansGone` | number of nodes, commands, kills and foreign VMs |
| | `SparesCorrect` | `Spec => []SparesWhatItFound` | |
| | `UpCorrect`, `EvidenceCorrect` | `Spec => []UpMeansLab`, `[]FreshEvidenceTrue` | |
| | `TemplateCorrect`, `AddressCorrect` | `Spec => []TemplateInstalled`, `[]OneAtTemplateAddress` | |
| `StartupProofs` | `StartupInvariant`, `TemplateRangeCorrect` | `Spec => []TemplateRangeKept` | set of configurations, number of edits, endpoints and attempts |
| | `RingCorrect`, `OuterHostCorrect` | `Spec => []RingRight`, `[]SameOuterHost` | |
| | `DelayCorrect` | `Spec => []DelayIsCappedGrowth` | |
| | `AnswersCorrect` | `Spec => []InstallerAnswered` | names of nodes without a quote |
| `ServicesProofs` | `ServicesInvariant`, `GuardedCorrect` | `Spec => []GuardedAppliedOnce` | number of clients, endpoints, releases, deliveries, names |
| | `GateCorrect`, `FabricsCorrect` | `Spec => []GateHolds`, `[]NoOrphanedNodes` | |
| | `RepeatCorrect` | `Spec => []RepeatHarmless` | also: lists of any length |
| | `CallsCorrect` | `Spec => []CallsFit` | |
| | `FileRoundTrips`, `RoundTripCorrect` | `RoundTrips(file)` of any file; `Spec => []ConfigRoundTrips` | number of slots, strings of any length |
| `GuestsProofs` | `GuestsInvariant`, `OnePlaceCorrect`, `NoGuestLostCorrect` | `Spec => []OnePlacePerGuest`, `NoGuestLost` | number of handlers, nodes, guests and volumes |
| | `AckedCorrect` | `Spec => []AckedSettled` | |
| `CoverageProofs` | `CoverageInvariant`, `GreenCorrect`, `FabricationCorrect` | `Spec => []GreenMeansTrue`, `NoFabricationOnDisk` | dump, routes, annotations and number of edits |

Along which argument:

* **Transport.** None of the properties is inductive. `TicketInv` adds what
  makes the ones about tickets so: `mintMu` is held exactly by the call that is
  minting, hence at most one new ticket is under way and it is newer than the
  live one; the ticket and its CSRF token are replaced together; what a call
  carries is bounded by what is live; and in a forced replay what was rejected
  is strictly older. `AgeInv` relates what a call carries to the clock: a ticket
  that passed its check at some tick was minted late enough for its life to reach
  a skew beyond that tick. `ServedInv` follows a call's program counter: a call that
  is past a served request has it counted, one that has failed so far has an
  error to return. That second half is where at least one attempt is needed:
  with none, `execute` has no error and reports success (section 6). The
  refinement maps a call to its phase and the number of performances, and
  every step of `Transport` to a step or a stutter of `Operation`.
* **The loops of `execute`.** The steps of a call are first abstracted to
  eleven shapes (a refresh, the begin of an endpoint, a send, a retry, a
  rotation, a replay, an end), and `LoopInv` is proved of the shapes: before
  attempt `a` at the `e`-th endpoint of an execute, at most `e` times
  `Attempts` plus `a - 1` requests have been sent in it; a call in its second
  execute has had one request refused. `TriedInv` says that the endpoints
  the ring has just left are the ones that failed the call, which needs that
  nobody else turns the ring (`FailoverRace` shows what happens otherwise) and that no
  mint fails in between.
* **Tasks.** A status that says "exited" is never stale, since a task exits
  once and a waiter's reference is fixed before its first poll; a verdict is
  given from the status read last.
* **FormCluster.** The nodelist is always an initial segment of the nodes, and
  at most one join is under way (`InOrder`); as long as nothing has dropped
  off, everyone before the node at hand is online (`Gated`).
* **Lab.** One invariant per concern, each over the stages of one command and
  silent about the others: what `down` is done with, what is condemned (`SpareInv`:
  a foreign VM in a slot that passed its check came there since, and carries the
  running command's number), how far a template build has come, which clone may be at the template's address, what `up` has
  made and noted, and what the state file claims. A kill leaves the host as it
  is, so each also says what survives between commands.
* **Startup.** A running `up` has a configuration that was valid when loaded
  and VMs with its own nodes' names, whatever the file says by now. The ring:
  keeping the first of each base URL and ordering by priority is a bijection
  between ranks and positions, so nothing is lost or twice there. The delay:
  the loop with its early exit and the closed form agree by a least
  counterexample. The answers: a body holds its own node's name between quotes,
  a name has no quote in it, so another name that occurs there is shorter and
  the longest match is the node; base64, which groups letters by three, keeps
  names apart and never looks like a raw one.
* **Services.** Per handler, what it leaves alone; then: a digest stands for
  one content of `storage.cfg` (what was read with the current digest is what
  is there), and a guarded update that has been accepted carries a digest below
  the current one, so no later delivery is accepted. For the gates: the
  endpoint that the capabilities came from still has all of them, and a call
  under way needs no more. For the fabrics: handlers in place keep the keys,
  creates ask for the parent and deletes drag the children.
* **Repeated requests.** Each handler is shown to settle: what it does to a
  state that it has just left is nothing. For a handler that overwrites or
  drops keys this is a fact about functions. For those that go through a list
  (access lists, certificates) the loop is a recursive function over positions,
  and what holds of its n-th turn is shown by taking the least turn where it
  does not; that a list stays a list is an invariant of its own (`Lists`).
  A guarded datastore update settles because its own success has moved the
  digest.
* **Calls that fit.** `TablesFit` goes through the tables service by service:
  each method's request is one that its handler takes. `FitInv` says that what
  a client has under way is what some method makes, and that the ticket and
  the credential which a console carries are known to the server and are never
  withdrawn.
* **The node configuration.** A parser's run is described turn by turn: after
  each part, what is in the result is the last part with that key. From this,
  encoding and parsing again is the identity (`DomainReread`, `ACMEReread`),
  whatever order the slots are written in; a write is refused only for a slot
  above 5 or an `acme` value that renders empty. `FileRoundTrips` puts these
  together for any file that is well formed (`FileOK`: finitely many slots,
  each a list of parts, no empty name in a list of domains), and `ConfigKept`
  says that requests leave no other file.
* **MockGuests.** Records carry the number they were made under, which tells
  them apart in the argument as pointers do in the code; a task that a handler
  has started is known, and one whose UPID was reported is finished or about
  to be finished again by a handler at that point.
* **Coverage.** What the tool said holds of the files it said it of, since any
  edit voids it; the totals add up because the rows of the sections partition
  the endpoints, which is proved by counting.

The assumptions, all named in the modules and evaluated by TLC in the runs of
those modules: counts are naturals (at least one endpoint, node, client);
`NoCall` is no call and `Empty` no UPID; kinds of credentials are the three;
the skew is no longer than a ticket's life (`TicketAssumption`);
`FirstOnline` and at least one attempt are stated as hypotheses of
the theorems that need them and are false of the code in the cases of section
6. `Startup`'s `ConfigAssumption` gives configurations their shape and keeps
the quote character, which ends a string in the installers' request, out of
names. `Coverage`'s `DumpAssumption` and `RulesAssumption` give the dump and
the service table their shape. Nothing is assumed of the tables of `Methods`:
what the proofs need of them is the lemma `TablesFit`.

Every invariant and every action property that a passing run checks is thereby
a theorem. Only model-checked is liveness (`EveryCallReturns`, `WaitReturns`,
`FormationEnds`), as fairness is out of the prover's reach.
Four of the theorems need a hypothesis, given in the table; section 6 says
where the code does not meet it.

## 6. Where code and documentation part

Three disagreements are runs that fail as described (`findings` in
`PROJECT.json`): writes are retried when the outcome is unknown, `DoWebSocket`
can return nothing without an error, and concurrent failovers skip endpoints.

Others met while modelling, which no run is spent on:

* `RetryPolicy.Attempts = 0` makes `execute` return nil without having sent
  anything on a single endpoint (`transport.go:288`, `:316`).
* Minting a ticket uses the active endpoint only and never fails over
  (`transport.go:368`), against design 0001, line 225.
* A caller's cancellation in the last attempt counts as the endpoint's
  failure and rotates the ring (`transport.go:316`, comment at
  `connection.go:26`).
* Two calls whose tickets are rejected together mint twice: the forced
  refresh does not look whether the ticket has changed
  (`credentials.go:152`, comment at `:125`).
* The first join of a formation is not behind the quorum gate
  (`cluster.go:106`, comment at `:117`); `FirstOnline` in `FormCluster` is the
  assumption under which it is safe.
* A state file of an earlier lab is picked up by the next `up`, and its
  claims stay when that `up` fails early (`state.go:65`, comment at `:38`);
  `FreshEvidenceTrue` is about files the running `up` began.
* A delete goes by VMID, in requests that may be repeated after the VM is
  gone; a VM that somebody else makes under that VMID in between is deleted
  (`teardown.go:88`, comment at `provision.go:28`), and so under `template build
  -force`. `SparesWhatItFound` states what is left; that `harm` never holds
  "late" is refuted by TLC within four commands.
* The prefix that marks a VM as pvelab's is that of every lab: `down` of one
  configuration deletes a VM of another that is under one of its VMIDs
  (`teardown.go:116`).
* `iso` keeps an ISO that is there, and its name has only the PVE version in
  it: after `answer_url` is edited, running `pvelab iso` again — as the error
  of `CheckAnswerURLLocal` advises (`answerurl.go:86`) — leaves the old URL in
  place (`iso.go:65`). `down -purge-isos` removes it.
* `template build` does not check the answer URL as `up` does.
* An installer left over from an earlier configuration, whose serial contains
  the name of a node of the running one, is answered for that node
  (`answers.go:195`).
* A bare `[::1]` as `outer.endpoint` is a valid API address, but SSH is given
  the brackets (`config.go:531`).
* The handoff files are named after the configuration's base name, so two
  configurations that differ in directory or extension share them
  (`config.go:97`).
* In the mock: a migration to the node the guest is on loses it
  (`qemu.go:556`), as renaming an IPSet to its own name does
  (`firewall.go:302`); a generated backup job id can overwrite a chosen one
  (`pbs.go:112`); ACME plugins and node configurations have constant digests,
  so guarded updates of them are never refused by what others wrote; a guest's
  firewall rules survive it.
* A stub for an endpoint that a route covers is never called stale
  (`report.go:258`).
* Capabilities are read once per client and not again after an upgrade
  (`proxmox.go:54`), and a gated call may reach a node of an older release
  after a failover; `GateHolds` states what is left.
* `CRSSettingsUpdate` says that an empty mode or a nil flag "leaves the mode
  unchanged" (`ha/crs.go:31`), but the whole `crs` string is replaced, so what
  is not given is reset.
* "Keys here win over typed fields" (`storage/datastore.go:68`) does not hold
  for `content`, `nodes` and `delete`, which are set after `Extra`; the same
  goes for the lists of other services. Elsewhere `Extra` can blank a key whose
  presence has just been checked (`svcutil.go:93`).
* An update guarded by a digest whose reply is lost is sent again and refused,
  although it was applied: the caller cannot tell this from a foreign write.
* Firewall rules are addressed by position and carry no digest: a delete that
  is sent twice, or crosses another, removes a rule nobody asked for
  (`firewall/rules.go:67`).
* The mock's `slotDomain` and the SDK's `parseACMEDomain` differ on strings such
  as `plugin=cf,host`, `host,domain=other` and `host,domain=`, against the
  comment at `nodesadmin.go:581`. After the SDK has written the slot they agree,
  which is what `ConfigRoundTrips` says.
* Reading a node configuration drops sub-keys it does not know of a slot that
  it types; a configuration with a slot above 5, or with an `acme` string that
  says nothing the SDK knows, cannot be written back (`nodeconfig.go:190`).
* Two uploads to one node in the same second share a UPID in the mock, and the
  second starts the task again that the first has reported (`qemu.go:783`);
  `AckedSettled` states what is left.
* A delete in the mock removes whatever is under its key when it gets to it, a
  guest created after its look-up included (`qemu.go:458`).
* `template build` serves its answers before it has found that it must refuse,
  so an installer left over can be answered by it (`main.go:452`).

## 7. What is not modelled

* The shared types and the decoding of answers into structures: conversions
  of data that no later step depends on. Where one does (digest, ticket, node
  configuration, UPID) it is modelled.
* Node names, VMIDs and paths of the services' requests, other than the
  console's: a wrong path would show in the mock's tests at once.
* The rendering of disk, NIC and DNS provider strings.
* `status` and `env` of pvelab, logging, flags, YAML and JSON syntax: reads
  and formatting.
* In the mock: handlers that only report (disks, packages, OSDs, terminal and
  SPICE proxies) beyond their answer; seeds other than the ones requests cannot
  make. `AddFabricNode` is left out although it can seed what no request makes,
  a node without its fabric, which its comment rules out.
* The width of durations in `RetryPolicy.delay`: a single product beyond int64.
* The SSH client: the library does the work. The script of re-identification
  and host-key pinning run on the other side of it.
* The ACME stage of `up`, and the preparation of the ISO over ssh.
* The intervals between polls of a task.

## 8. Plan

Written: the transport and its proofs first, as everything else goes through
it; then tasks, formation and laboratory, whose failures cost an operator
most; then the mock, which every test trusts; then the tracker and the start;
then the services as clients of the mock, with their gates, digests, consoles
and configuration codec; then the theorems about each of them.

All safety properties of the runs are proved. What could follow:

1. A model of re-identification's script and of the ACME stage of `up`, which
   section 7 leaves out, with a property about an ISO whose answer URL is stale
   (`iso.go:65`).
2. The rendering and parsing of disk and NIC strings, as `NodeConfig` does for
   the slots of a node configuration.
3. When one of the divergences of section 6 is fixed in the code, the
   hypothesis that stands for it (`FirstOnline`, at least one attempt)
   can go from its theorem.
