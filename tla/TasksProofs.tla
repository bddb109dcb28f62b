---------------------------- MODULE TasksProofs ----------------------------
(***************************************************************************)
(* What Wait, WaitFor and AgentExecWait say of a task, for every number of *)
(* waiters and tasks.                                                      *)
(***************************************************************************)
EXTENDS Tasks, TLAPS

(***************************************************************************)
(* An exit status that a waiter has read stays what PVE says of the task   *)
(* its reference names: a task exits once, and the reference is fixed      *)
(* before the first poll.                                                  *)
(***************************************************************************)
ReadIsTrue ==
    \A w \in Waiters :
        wait[w].got \in Exits => /\ wait[w].ref.upid \in Upids
                                 /\ task[wait[w].ref.upid] = wait[w].got

(***************************************************************************)
(* A verdict is given once, from the status read last.                     *)
(***************************************************************************)
Judged(r) ==
    /\ r.pc # "done" => r.res = "pending"
    /\ r.pc = "idle" => r.got = "running"
    /\ r.pc = "log" => r.got = "error"
    /\ r.res = "taskFailed" => r.got = "error"
    /\ r.res = "nil" => /\ Holds(r.cond, r.got)
                        /\ r.cond = "exit" => OK(r.got)

JudgedByRead == \A w \in Waiters : Judged(wait[w])

TasksInv == TypeOK /\ ReadIsTrue /\ JudgedByRead

-----------------------------------------------------------------------------
\* A waiter whose record changes to one that is well typed, judged and true to
\* its task leaves the invariant as it was: the tasks and the other waiters do
\* not move.
LEMMA GotoKeeps ==
    ASSUME TasksInv, NEW w \in Waiters, NEW r \in WaitRecord,
           Goto(w, r), UNCHANGED task, Judged(r),
           r.got \in Exits => r.ref.upid \in Upids /\ task[r.ref.upid] = r.got
    PROVE  TasksInv'
<1> USE DEF TasksInv, TypeOK, Goto
<1>1. TypeOK'
  OBVIOUS
<1>2. \A v \in Waiters : wait'[v] = IF v = w THEN r ELSE wait[v]
  OBVIOUS
<1>3. ReadIsTrue'
  BY <1>2 DEF ReadIsTrue
<1>4. JudgedByRead'
  <2> SUFFICES ASSUME NEW v \in Waiters PROVE Judged(wait'[v])
    BY DEF JudgedByRead, Judged
  <2> QED
    BY <1>2 DEF JudgedByRead
<1> QED
  BY <1>1, <1>3, <1>4

\* Returning any error but a verdict is well typed and judged.
LEMMA ReturnError ==
    ASSUME NEW r \in WaitRecord, Judged(r),
           NEW e \in Results \ {"nil", "taskFailed"}
    PROVE  Return(r, e) \in WaitRecord /\ Judged(Return(r, e))
BY DEF Return, WaitRecord, Judged, Results

\* Whatever reference a caller comes with, WaitFor begins within the
\* invariant.
LEMMA EnterKeeps ==
    ASSUME TasksInv, NEW w \in Waiters, wait[w].pc = "idle",
           NEW cond \in TaskConds, NEW ref \in Refs,
           Enter(w, cond, ref), UNCHANGED task
    PROVE  TasksInv'
<1> DEFINE r == [wait[w] EXCEPT !.cond = cond, !.ref = ref]
<1>1. wait[w] \in WaitRecord /\ Judged(wait[w])
  BY DEF TasksInv, TypeOK, JudgedByRead
<1>2. r \in WaitRecord /\ r.pc = "idle" /\ r.got = "running" /\ r.res = "pending"
  BY <1>1 DEF WaitRecord, Conds, Judged
<1>3. Judged(r)
  BY <1>2 DEF Judged
<1>4. CASE Valid(ref)
  <2>1. Goto(w, [r EXCEPT !.pc = "poll"])
    BY <1>4 DEF Enter
  <2>2. /\ [r EXCEPT !.pc = "poll"] \in WaitRecord
        /\ Judged([r EXCEPT !.pc = "poll"])
        /\ [r EXCEPT !.pc = "poll"].got = "running"
    BY <1>2 DEF WaitRecord, Judged
  <2> QED
    BY <2>1, <2>2, GotoKeeps DEF Exits
<1>5. CASE ~ Valid(ref)
  <2>1. Goto(w, Return(r, "incomplete"))
    BY <1>5 DEF Enter
  <2>2. /\ Return(r, "incomplete") \in WaitRecord
        /\ Judged(Return(r, "incomplete"))
    BY <1>2, <1>3, ReturnError DEF Results
  <2>3. Return(r, "incomplete").got = "running"
    BY <1>2 DEF Return, WaitRecord
  <2> QED
    BY <2>1, <2>2, <2>3, GotoKeeps DEF Exits
<1> QED
  BY <1>4, <1>5

-----------------------------------------------------------------------------
\* Before any wait begins nothing has been read and nothing been judged.
LEMMA TasksInit == Init => TasksInv
<1> SUFFICES ASSUME Init PROVE TasksInv
  OBVIOUS
<1>1. NotStarted \in WaitRecord /\ Judged(NotStarted)
  BY DEF NotStarted, WaitRecord, Conds, TaskConds, Refs, NoRef, Statuses, Judged
<1>2. NotStarted.got = "running"
  BY DEF NotStarted
<1> QED
  BY <1>1, <1>2
  DEF Init, TasksInv, TypeOK, Statuses, ReadIsTrue, JudgedByRead, Exits

\* Beginning a wait keeps the invariant: on the string a service was answered,
\* on a reference the caller made, or on a command sent to a guest.
LEMMA StartKeeps ==
    ASSUME TasksInv, NEW w \in Waiters, Start(w)
    PROVE  TasksInv'
<1>1. wait[w] \in WaitRecord /\ Judged(wait[w])
  BY DEF TasksInv, TypeOK, JudgedByRead
<1>2. ASSUME NEW cond \in TaskConds, NEW s \in Strings, Submitted(w, cond, s)
      PROVE  TasksInv'
  <2>1. CASE ParseUPID(s)
    <3>1. NewRef(s) \in Refs
      BY DEF NewRef, Refs, Strings
    <3> QED
      BY <1>2, <2>1, <3>1, EnterKeeps DEF Submitted
  <2>2. CASE ~ ParseUPID(s)
    <3>1. Goto(w, Return(wait[w], "malformed")) /\ UNCHANGED task
      BY <1>2, <2>2 DEF Submitted
    <3>2. /\ Return(wait[w], "malformed") \in WaitRecord
          /\ Judged(Return(wait[w], "malformed"))
      BY <1>1, ReturnError DEF Results
    <3>3. Return(wait[w], "malformed").got = "running"
      BY <1>1, <1>2 DEF Submitted, Return, WaitRecord, Judged
    <3> QED
      BY <3>1, <3>2, <3>3, GotoKeeps DEF Exits
  <2> QED
    BY <2>1, <2>2
<1>3. ASSUME NEW cond \in TaskConds, NEW r \in Refs, Given(w, cond, r)
      PROVE  TasksInv'
  BY <1>3, EnterKeeps DEF Given
<1>4. ASSUME AgentExec(w) PROVE TasksInv'
  <2> DEFINE r == [wait[w] EXCEPT !.cond = "agent"]
  <2>1. r \in WaitRecord /\ r.got = "running" /\ r.res = "pending" /\ r.pc = "idle"
    BY <1>1, <1>4 DEF AgentExec, WaitRecord, Conds, Judged
  <2>2. Judged(r)
    BY <2>1 DEF Judged
  <2>3. ASSUME NEW e \in {"incomplete", "failed"}, Goto(w, Return(r, e))
        PROVE  TasksInv'
    <3>1. Return(r, e) \in WaitRecord /\ Judged(Return(r, e))
      BY <2>1, <2>2, ReturnError DEF Results
    <3>2. Return(r, e).got = "running"
      BY <2>1 DEF Return, WaitRecord
    <3> QED
      BY <1>4, <2>3, <3>1, <3>2, GotoKeeps DEF AgentExec, Exits
  <2>4. ASSUME NEW u \in Upids,
               Goto(w, [r EXCEPT !.pc = "poll", !.ref = [node |-> "pve", upid |-> u]])
        PROVE  TasksInv'
    <3> DEFINE q == [r EXCEPT !.pc = "poll", !.ref = [node |-> "pve", upid |-> u]]
    <3>1. q \in WaitRecord /\ q.got = "running" /\ q.res = "pending" /\ q.pc = "poll"
      BY <2>1 DEF WaitRecord, Refs
    <3>2. Judged(q)
      BY <3>1 DEF Judged
    <3> QED
      BY <1>4, <2>4, <3>1, <3>2, GotoKeeps DEF AgentExec, Exits
  <2> QED
    BY <1>4, <2>3, <2>4 DEF AgentExec
<1> QED
  BY <1>2, <1>3, <1>4 DEF Start

\* Every step of a wait, and its cancellation, keeps the invariant.
LEMMA WaitStep ==
    ASSUME TasksInv, NEW w \in Waiters, Step(w) \/ Cancel(w)
    PROVE  TasksInv'
<1> DEFINE r == wait[w]
<1>1. r \in WaitRecord /\ Judged(r)
  BY DEF TasksInv, TypeOK, JudgedByRead
<1>2. r.got \in Exits => r.ref.upid \in Upids /\ task[r.ref.upid] = r.got
  BY DEF TasksInv, ReadIsTrue
<1>3. CASE Serve(w)
  <2> DEFINE q == [r EXCEPT !.pc = "reply", !.got = task[r.ref.upid]]
  <2>1. task[r.ref.upid] \in Statuses /\ r.res = "pending"
    BY <1>1, <1>3 DEF Serve, TasksInv, TypeOK, Judged
  <2>2. /\ q \in WaitRecord /\ q.pc = "reply" /\ q.res = "pending"
        /\ q.got = task[r.ref.upid] /\ q.ref = r.ref
    BY <1>1, <2>1 DEF WaitRecord
  <2>3. Judged(q)
    BY <2>2 DEF Judged
  <2> QED
    BY <1>3, <2>2, <2>3, GotoKeeps DEF Serve
<1>4. CASE PollFails(w)
  <2>1. PICK e \in {"failed", "ctx"} : Goto(w, Return(r, e))
    BY <1>4 DEF PollFails
  <2>2. Return(r, e) \in WaitRecord /\ Judged(Return(r, e))
    BY <1>1, ReturnError DEF Results
  <2>3. Return(r, e).got = r.got /\ Return(r, e).ref = r.ref
    BY <1>1 DEF Return, WaitRecord
  <2> QED
    BY <1>2, <1>4, <2>1, <2>2, <2>3, GotoKeeps DEF PollFails
<1>5. CASE Receive(w)
  <2>0. r.pc = "reply" /\ r.res = "pending" /\ UNCHANGED task
    BY <1>1, <1>5 DEF Receive, Judged
  <2>1. CASE ~ Holds(r.cond, r.got)
    <3>1. Goto(w, [r EXCEPT !.pc = "sleep"])
      BY <1>5, <2>1 DEF Receive
    <3>2. [r EXCEPT !.pc = "sleep"] \in WaitRecord /\ Judged([r EXCEPT !.pc = "sleep"])
      BY <1>1, <2>0 DEF WaitRecord, Judged
    <3>3. [r EXCEPT !.pc = "sleep"].got = r.got /\ [r EXCEPT !.pc = "sleep"].ref = r.ref
      BY <1>1 DEF WaitRecord
    <3> QED
      BY <1>2, <2>0, <3>1, <3>2, <3>3, GotoKeeps
  <2>2. CASE Holds(r.cond, r.got) /\ r.cond = "exit" /\ ~ OK(r.got)
    <3>1. Goto(w, [r EXCEPT !.pc = "log"])
      BY <1>5, <2>2 DEF Receive
    <3>2. r.got = "error"
      BY <2>2 DEF Holds, Done, OK, Exits
    <3>3. [r EXCEPT !.pc = "log"] \in WaitRecord /\ Judged([r EXCEPT !.pc = "log"])
      BY <1>1, <2>0, <3>2 DEF WaitRecord, Judged
    <3>4. [r EXCEPT !.pc = "log"].got = r.got /\ [r EXCEPT !.pc = "log"].ref = r.ref
      BY <1>1 DEF WaitRecord
    <3> QED
      BY <1>2, <2>0, <3>1, <3>3, <3>4, GotoKeeps
  <2>3. CASE Holds(r.cond, r.got) /\ (r.cond = "exit" => OK(r.got))
    <3>1. Goto(w, Return(r, "nil"))
      BY <1>5, <2>3 DEF Receive
    <3>2. /\ Return(r, "nil") \in WaitRecord /\ Return(r, "nil").pc = "done"
          /\ Return(r, "nil").res = "nil" /\ Return(r, "nil").got = r.got
          /\ Return(r, "nil").cond = r.cond /\ Return(r, "nil").ref = r.ref
      BY <1>1 DEF Return, WaitRecord, Results
    <3>3. Judged(Return(r, "nil"))
      BY <2>3, <3>2 DEF Judged
    <3> QED
      BY <1>2, <2>0, <3>1, <3>2, <3>3, GotoKeeps
  <2> QED
    BY <2>1, <2>2, <2>3
<1>6. CASE LogFetched(w)
  <2>1. r.got = "error"
    BY <1>1, <1>6 DEF LogFetched, Judged
  <2>2. /\ Return(r, "taskFailed") \in WaitRecord
        /\ Return(r, "taskFailed").pc = "done"
        /\ Return(r, "taskFailed").res = "taskFailed"
        /\ Return(r, "taskFailed").got = r.got
        /\ Return(r, "taskFailed").ref = r.ref
    BY <1>1 DEF Return, WaitRecord, Results
  <2>3. Judged(Return(r, "taskFailed"))
    BY <2>1, <2>2 DEF Judged
  <2> QED
    BY <1>2, <1>6, <2>2, <2>3, GotoKeeps DEF LogFetched
<1>7. CASE Wake(w)
  <2>1. [r EXCEPT !.pc = "poll"] \in WaitRecord /\ Judged([r EXCEPT !.pc = "poll"])
    BY <1>1, <1>7 DEF Wake, WaitRecord, Judged
  <2>2. [r EXCEPT !.pc = "poll"].got = r.got /\ [r EXCEPT !.pc = "poll"].ref = r.ref
    BY <1>1 DEF WaitRecord
  <2> QED
    BY <1>2, <1>7, <2>1, <2>2, GotoKeeps DEF Wake
<1>8. CASE SleepCut(w)
  <2>1. Return(r, "ctx") \in WaitRecord /\ Judged(Return(r, "ctx"))
    BY <1>1, ReturnError DEF Results
  <2>2. Return(r, "ctx").got = r.got /\ Return(r, "ctx").ref = r.ref
    BY <1>1 DEF Return, WaitRecord
  <2> QED
    BY <1>2, <1>8, <2>1, <2>2, GotoKeeps DEF SleepCut
<1>9. CASE Cancel(w)
  <2>1. /\ [r EXCEPT !.cancelled = TRUE] \in WaitRecord
        /\ Judged([r EXCEPT !.cancelled = TRUE])
    BY <1>1 DEF WaitRecord, Judged
  <2>2. /\ [r EXCEPT !.cancelled = TRUE].got = r.got
        /\ [r EXCEPT !.cancelled = TRUE].ref = r.ref
    BY <1>1 DEF WaitRecord
  <2> QED
    BY <1>2, <1>9, <2>1, <2>2, GotoKeeps DEF Cancel
<1> QED
  BY <1>3, <1>4, <1>5, <1>6, <1>7, <1>8, <1>9 DEF Step

\* A task that exits was running until then, so that nobody has read an exit
\* status of it.
LEMMA ExitKeeps ==
    ASSUME TasksInv, NEW u \in Upids, NEW e \in Exits, Exit(u, e)
    PROVE  TasksInv'
<1> USE DEF TasksInv, TypeOK, Exit
<1>1. TypeOK'
  BY DEF Statuses
<1>2. ReadIsTrue'
  <2> SUFFICES ASSUME NEW w \in Waiters, wait[w].got \in Exits
               PROVE  /\ wait[w].ref.upid \in Upids
                      /\ task'[wait[w].ref.upid] = wait[w].got
    BY DEF ReadIsTrue
  <2>1. wait[w].ref.upid \in Upids /\ task[wait[w].ref.upid] = wait[w].got
    BY DEF ReadIsTrue
  <2>2. wait[w].ref.upid # u
    BY <2>1 DEF Exits
  <2> QED
    BY <2>1, <2>2
<1>3. JudgedByRead'
  BY DEF JudgedByRead, Judged
<1> QED
  BY <1>1, <1>2, <1>3

\* The invariant is inductive.
LEMMA TasksNext == TasksInv /\ [Next]_vars => TasksInv'
<1> SUFFICES ASSUME TasksInv, [Next]_vars PROVE TasksInv'
  OBVIOUS
<1>1. CASE UNCHANGED vars
  BY <1>1 DEF vars, TasksInv, TypeOK, ReadIsTrue, JudgedByRead, Judged
<1>2. CASE Finished
  BY <1>1, <1>2 DEF Finished
<1> QED
  BY <1>1, <1>2, StartKeeps, WaitStep, ExitKeeps DEF Next

(***************************************************************************)
(* Every exit status a waiter holds is the one PVE has for its task, and   *)
(* every verdict follows from it.                                          *)
(***************************************************************************)
THEOREM TasksInvariant == Spec => []TasksInv
BY TasksInit, TasksNext, PTL DEF Spec

(***************************************************************************)
(* Wait's verdict is PVE's, for any number of callers waiting on any       *)
(* tasks, although the status is read some time before the verdict is      *)
(* returned.                                                               *)
(***************************************************************************)
THEOREM VerdictCorrect == Spec => []VerdictTrue
<1>1. TasksInv => VerdictTrue
  BY DEF TasksInv, TypeOK, ReadIsTrue, JudgedByRead, Judged, VerdictTrue, Holds,
         Done, OK, Exits, WaitRecord
<1> QED
  BY <1>1, TasksInvariant, PTL
=============================================================================
