------------------------------- MODULE Tasks -------------------------------
(***************************************************************************)
(* The waiters: goroutines that follow PVE's asynchronous tasks            *)
(* (proxmox/tasks) or a command that runs in a guest (AgentExecWait of     *)
(* proxmox/qemu) by polling their status.  Every poll is a DoRequest, so   *)
(* PVE reads the state at one moment and the waiter acts on it at a later  *)
(* one; a poll can also fail, with any error of the transport.  How long a *)
(* waiter sleeps between two polls is left out.                            *)
(***************************************************************************)
EXTENDS Integers, FiniteSets

CONSTANTS Waiters,                  \* goroutines in Wait, WaitFor or AgentExecWait
          Upids,                    \* PVE's tasks and the commands of guests
          Empty                     \* the empty string

ASSUME EmptyAssumption == Empty \notin Upids

VARIABLES task,     \* what PVE knows of each task
          wait      \* each waiter's locals and program counter

vars == <<task, wait>>

(***************************************************************************)
(* A task's status: its State and, once that is "stopped", its ExitStatus. *)
(***************************************************************************)
Exits    == {"OK", "WARNINGS", "error"}
Statuses == {"running"} \cup Exits

DoneOK(st) == st = "OK"             \* mutant: a failed task is not done

Done(st)    == st \in Exits
Running(st) == st = "running"

OKNotRunning(st) == st # "running"  \* mutant: any exit is a success

OK(st) == st \in {"OK", "WARNINGS"}

(***************************************************************************)
(* The string PVE returned for the task, as ParseUPID sees it: how many    *)
(* fields it has, whether it starts with "UPID", whether the three numbers *)
(* are hexadecimal, and the node field, which may be empty.                *)
(***************************************************************************)
Strings == [upid : Upids \cup {Empty}, parts : {1, 7, 8, 9}, prefix : BOOLEAN,
            hex : BOOLEAN, node : {"pve", ""}]

ParseUPID(s) == s.parts >= 8 /\ s.prefix /\ s.hex

NoRef == [node |-> "", upid |-> Empty]

(***************************************************************************)
(* NewRef: the reference, when the string parses.  A Ref built by hand may *)
(* miss either field, and the zero Ref of a synchronous operation misses   *)
(* both.                                                                   *)
(***************************************************************************)
NewRef(s) == [node |-> s.node, upid |-> s.upid]

Valid(r) == r.node # "" /\ r.upid # Empty

-----------------------------------------------------------------------------
(***************************************************************************)
(* cond is the condition of WaitFor; "exit" is Wait itself, WaitFor with   *)
(* Done and a verdict on the exit status, and "agent" is AgentExecWait,    *)
(* which returns once the command has exited, however it did.              *)
(***************************************************************************)
TaskConds == {"exit", "Done", "Running"}
Conds   == TaskConds \cup {"agent"}
Refs    == [node : {"pve", ""}, upid : Upids \cup {Empty}]
Results == {"nil", "taskFailed", "malformed", "incomplete", "failed", "ctx"}

Holds(cond, st) == IF cond = "Running" THEN Running(st) ELSE Done(st)

WaitRecord ==
    [pc        : {"idle", "poll", "reply", "sleep", "log", "done"},
     cond      : Conds,
     ref       : Refs,
     got       : Statuses,          \* the status of the last answered poll
     cancelled : BOOLEAN,
     res       : Results \cup {"pending"}]

NotStarted ==
    [pc |-> "idle", cond |-> "exit", ref |-> NoRef, got |-> "running",
     cancelled |-> FALSE, res |-> "pending"]

Init ==
    /\ task = [u \in Upids |-> "running"]
    /\ wait = [w \in Waiters |-> NotStarted]

Goto(w, r) == wait' = [wait EXCEPT ![w] = r]

Return(r, e) == [r EXCEPT !.pc = "done", !.res = e]

(***************************************************************************)
(* WaitFor and Status refuse an incomplete reference before any request.   *)
(***************************************************************************)
Enter(w, cond, ref) ==
    LET r == [wait[w] EXCEPT !.cond = cond, !.ref = ref]
    IN  Goto(w, IF Valid(ref) THEN [r EXCEPT !.pc = "poll"]
                              ELSE Return(r, "incomplete"))

(***************************************************************************)
(* A service hands the string PVE answered to TaskRef, and the caller      *)
(* waits on what it yields.                                                *)
(***************************************************************************)
Submitted(w, cond, s) ==
    /\ wait[w].pc = "idle"
    /\ s.upid = Empty => s.parts = 1 /\ ~ s.prefix
    /\ IF ParseUPID(s) THEN Enter(w, cond, NewRef(s))
                       ELSE Goto(w, Return(wait[w], "malformed"))
    /\ UNCHANGED task

(***************************************************************************)
(* The caller holds a Ref of its own making, or a zero one.                *)
(***************************************************************************)
Given(w, cond, ref) ==
    /\ wait[w].pc = "idle"
    /\ Enter(w, cond, ref)
    /\ UNCHANGED task

(***************************************************************************)
(* AgentExec: a command with no words is refused; the request for another  *)
(* may fail, and otherwise the answer names the process to poll.           *)
(***************************************************************************)
AgentExec(w) ==
    /\ wait[w].pc = "idle"
    /\ LET r == [wait[w] EXCEPT !.cond = "agent"]
       IN  \/ \E e \in {"incomplete", "failed"} : Goto(w, Return(r, e))
           \/ \E u \in Upids : Goto(w, [r EXCEPT !.pc = "poll", !.ref = [node |-> "pve", upid |-> u]])
    /\ UNCHANGED task

(***************************************************************************)
(* PVE reads the task's status for a poll.  A done context sends none.     *)
(***************************************************************************)
Serve(w) ==
    /\ wait[w].pc = "poll"
    /\ ~ wait[w].cancelled
    /\ wait[w].ref.upid \in Upids
    /\ Goto(w, [wait[w] EXCEPT !.pc = "reply",
                               !.got = task[wait[w].ref.upid]])
    /\ UNCHANGED task

(***************************************************************************)
(* Status returns an error: the first one ends the wait.                   *)
(***************************************************************************)
PollFails(w) ==
    /\ wait[w].pc \in {"poll", "reply"}
    /\ \E e \in {"failed", "ctx"} :
          /\ e = "ctx" => wait[w].cancelled
          /\ Goto(w, Return(wait[w], e))
    /\ UNCHANGED task

(***************************************************************************)
(* The poll is answered: cond on the status, and Wait's verdict.           *)
(***************************************************************************)
Receive(w) ==
    /\ wait[w].pc = "reply"
    /\ LET r == wait[w]
       IN  Goto(w, IF ~ Holds(r.cond, r.got) THEN [r EXCEPT !.pc = "sleep"]
                   ELSE IF r.cond = "exit" /\ ~ OK(r.got)
                   THEN [r EXCEPT !.pc = "log"]
                   ELSE Return(r, "nil"))
    /\ UNCHANGED task

(***************************************************************************)
(* failure: the log is read for its last line, and an error of Log is      *)
(* dropped.                                                                *)
(***************************************************************************)
LogFetched(w) ==
    /\ wait[w].pc = "log"
    /\ Goto(w, Return(wait[w], "taskFailed"))
    /\ UNCHANGED task

(***************************************************************************)
(* sleep, sleepCtx: the timer fires, or ctx is done; when both, either is  *)
(* taken.                                                                  *)
(***************************************************************************)
Wake(w) ==
    /\ wait[w].pc = "sleep"
    /\ Goto(w, [wait[w] EXCEPT !.pc = "poll"])
    /\ UNCHANGED task

SleepCut(w) ==
    /\ wait[w].pc = "sleep"
    /\ wait[w].cancelled
    /\ Goto(w, Return(wait[w], "ctx"))
    /\ UNCHANGED task

Cancel(w) ==
    /\ wait[w].pc \notin {"idle", "done"}
    /\ ~ wait[w].cancelled
    /\ Goto(w, [wait[w] EXCEPT !.cancelled = TRUE])
    /\ UNCHANGED task

(***************************************************************************)
(* External: a task exits, once.                                           *)
(***************************************************************************)
Exit(u, e) ==
    /\ task[u] = "running"
    /\ task' = [task EXCEPT ![u] = e]
    /\ UNCHANGED wait

Finished ==
    /\ \A w \in Waiters : wait[w].pc = "done"
    /\ UNCHANGED vars

Step(w) == \/ Serve(w) \/ PollFails(w) \/ Receive(w) \/ LogFetched(w)
           \/ Wake(w) \/ SleepCut(w)

Start(w) == \/ \E cond \in TaskConds :
                  \/ \E s \in Strings : Submitted(w, cond, s)
                  \/ \E r \in Refs : Given(w, cond, r)
            \/ AgentExec(w)

Next == \/ \E w \in Waiters : Start(w) \/ Step(w) \/ Cancel(w)
        \/ \E u \in Upids, e \in Exits : Exit(u, e)
        \/ Finished

Spec == Init /\ [][Next]_vars

(***************************************************************************)
(* A waiter that can move does: requests return (an error counts) and      *)
(* timers fire.  No task is assumed to exit.                               *)
(***************************************************************************)
FairSpec == Spec /\ \A w \in Waiters : WF_vars(Step(w))

-----------------------------------------------------------------------------
TypeOK == /\ task \in [Upids -> Statuses]
          /\ wait \in [Waiters -> WaitRecord]

Waiting(w) == wait[w].pc \notin {"idle", "done"}

(***************************************************************************)
(* Wait's verdict is PVE's: nil says the task the caller named has exited  *)
(* with OK or with warnings, ErrTaskFailed that it has exited otherwise,   *)
(* although the status was read some time before either is returned and    *)
(* the log fetch in between may have failed.  So no two callers waiting on *)
(* one task are told different things.  WaitFor with Done and AgentExecWait*)
(* return nil only once the task, or the command, has exited.              *)
(***************************************************************************)
VerdictTrue ==
    \A w \in Waiters :
        /\ wait[w].res = "nil" /\ wait[w].cond = "exit"
              => task[wait[w].ref.upid] \in {"OK", "WARNINGS"}
        /\ wait[w].res = "nil" /\ wait[w].cond \in {"Done", "agent"}
              => task[wait[w].ref.upid] \in Exits
        /\ wait[w].res = "taskFailed" => task[wait[w].ref.upid] = "error"

(***************************************************************************)
(* No wait outlives its task (or its command) or its context: once the     *)
(* task has exited or the caller's context is done the waiter returns,     *)
(* whatever the exit status is and whatever the poll in flight had read.   *)
(***************************************************************************)
WaitReturns ==
    \A w \in Waiters :
        /\ (/\ Waiting(w)
             /\ wait[w].cond # "Running"
             /\ task[wait[w].ref.upid] \in Exits) ~> ~ Waiting(w)
        /\ (Waiting(w) /\ wait[w].cancelled) ~> ~ Waiting(w)
=============================================================================
