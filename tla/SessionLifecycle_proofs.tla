------------------------ MODULE SessionLifecycle_proofs ------------------------
(***************************************************************************)
(* What SessionLifecycle keeps for every set of sessions and processes,     *)
(* every cap and every attempt limit.                                       *)
(***************************************************************************)
EXTENDS SessionLifecycle, FiniteSetTheorems, TLAPS

USE DEF Procs

(* Between two commands a process holds no lock; during one it holds its own *)
(* session's, which is what makes every read under the lock stay true.       *)
LockOwned == \A p \in Procs : ~At(p, "idle") =>
                proc[p].s \in Sessions /\ lock[proc[p].s] = p

(* Every program counter an action names is one of the model's.              *)
LEMMA StepNames ==
    /\ "create" \in Steps /\ "teardown" \in Steps /\ "clean" \in Steps
    /\ "setup" \in Steps /\ "rebuild" \in Steps /\ "markUp" \in Steps
    /\ "recordWake" \in Steps /\ "release" \in Steps /\ "idle" \in Steps
    /\ "snap" \in Steps /\ "reserve" \in Steps /\ "createSleeping" \in Steps
    /\ "queue" \in Steps /\ "queueMark" \in Steps /\ "failed" \in Steps
    /\ "suspend" \in Steps /\ "idleEvent" \in Steps /\ "downMark" \in Steps
    /\ "downClean" \in Steps /\ "destroyClean" \in Steps /\ "destroyMark" \in Steps
    /\ "destroyRelease" \in Steps
BY DEF Steps, UpSteps

(* The two forms every step ends in.                                         *)
LEMMA GotoType ==
    ASSUME TypeOK, NEW p \in Procs, NEW pc \in Steps, Goto(p, pc)
    PROVE  proc' \in [Procs -> Process] /\ lock' = lock
<1>1. [proc[p] EXCEPT !.pc = pc] \in Process
    BY DEF TypeOK, Process
<1>2. proc' = [proc EXCEPT ![p] = [proc[p] EXCEPT !.pc = pc]]
    BY DEF Goto, TypeOK
<1> QED  BY <1>1, <1>2 DEF Goto, TypeOK

(* A step that loads the session again keeps the processes typed.            *)
LEMMA LoadType ==
    ASSUME TypeOK, NEW p \in Procs, NEW pc \in Steps, NEW task \in Task,
           Load(p, pc, task)
    PROVE  proc' \in [Procs -> Process] /\ lock' = lock
<1>1. [proc[p] EXCEPT !.pc = pc, !.saw = task] \in Process
    <2> DEFINE r == [proc[p] EXCEPT !.pc = pc]
    <2>1. r \in Process
        BY DEF TypeOK, Process
    <2> HIDE DEF r
    <2>2. [r EXCEPT !.saw = task] \in Process
        BY <2>1 DEF Process
    <2> QED  BY <2>2 DEF r
<1>2. proc' = [proc EXCEPT ![p] = [proc[p] EXCEPT !.pc = pc, !.saw = task]]
    BY DEF Load, TypeOK
<1> QED  BY <1>1, <1>2 DEF Load, TypeOK

(* A step that fails, as it goes to its release, keeps them typed.           *)
LEMMA FailType ==
    ASSUME TypeOK, NEW p \in Procs, Fail(p)
    PROVE  proc' \in [Procs -> Process] /\ lock' = lock
<1>0. "release" \in Steps
    BY DEF Steps, UpSteps
<1>1. [proc[p] EXCEPT !.pc = "release", !.failed = TRUE] \in Process
    <2> DEFINE r == [proc[p] EXCEPT !.pc = "release"]
    <2>1. r \in Process
        BY <1>0 DEF TypeOK, Process
    <2> HIDE DEF r
    <2>2. [r EXCEPT !.failed = TRUE] \in Process
        BY <2>1 DEF Process
    <2> QED  BY <2>2 DEF r
<1>2. proc' = [proc EXCEPT ![p] = [proc[p] EXCEPT !.pc = "release", !.failed = TRUE]]
    BY DEF Fail, TypeOK
<1> QED  BY <1>1, <1>2 DEF Fail, TypeOK

(* A command that returns leaves its process at rest and its lock free.      *)
LEMMA ReturnType ==
    ASSUME TypeOK, NEW p \in Procs, Return(p)
    PROVE  /\ proc' \in [Procs -> Process]
           /\ lock' \in [Sessions -> Procs \cup {None}]
BY DEF TypeOK, Return, AtRest, Process, Steps, Commands, Task

(* A command that gets its lock has typed locals.                            *)
LEMMA BeginType ==
    ASSUME TypeOK, NEW p \in Procs, NEW cmd \in Commands, NEW c \in Sessions,
           NEW pc \in Steps, Begin(p, cmd, c, pc)
    PROVE  /\ proc' \in [Procs -> Process]
           /\ lock' \in [Sessions -> Procs \cup {None}]
<1>1. sess[c].task \in Task
    BY DEF TypeOK, SessionRow
<1> DEFINE r == [AtRest EXCEPT !.pc = pc, !.op = cmd, !.s = c, !.saw = sess[c].task]
<1>2. r \in Process
    BY <1>1 DEF AtRest, Process
<1>3. proc' = [proc EXCEPT ![p] = r]
    BY DEF Begin
<1> HIDE DEF r
<1> QED  BY <1>2, <1>3 DEF TypeOK, Begin

(* The row updates the steps make.                                           *)
LEMMA RowTypes ==
    ASSUME sess \in [Sessions -> SessionRow], NEW c
    PROVE  /\ \A v \in BOOLEAN : [sess EXCEPT ![c].run = v] \in [Sessions -> SessionRow]
           /\ [sess EXCEPT ![c].run = FALSE] \in [Sessions -> SessionRow]
           /\ \A t \in Nat : [sess EXCEPT ![c].status = "down", ![c].sleep = t]
                  \in [Sessions -> SessionRow]
           /\ \A t \in Nat : [sess EXCEPT ![c].sleep = t, ![c].status = "down"]
                  \in [Sessions -> SessionRow]
BY DEF SessionRow

(* A cleanup, or a setup, with what becomes of the task.                     *)
LEMMA RunTaskType ==
    ASSUME sess \in [Sessions -> SessionRow], NEW c, NEW v \in BOOLEAN, NEW t \in Task
    PROVE  [sess EXCEPT ![c].run = v, ![c].task = t] \in [Sessions -> SessionRow]
<1> DEFINE x == [sess EXCEPT ![c].run = v]
<1>1. x \in [Sessions -> SessionRow]
    BY RowTypes
<1> HIDE DEF x
<1>2. [x EXCEPT ![c].task = t] \in [Sessions -> SessionRow]
    BY <1>1 DEF SessionRow
<1> QED  BY <1>2 DEF x

(* An up after its slot is settled goes to one of three places.              *)
LEMMA AfterAdmissionStep ==
    ASSUME NEW p PROVE AfterAdmission(p) \subseteq Steps
BY StepNames DEF AfterAdmission, Existing

(* The states a setup writes a task in.                                      *)
LEMMA TaskNames == "none" \in Task /\ "open" \in Task
BY DEF Task

(* The task of the copy a command loaded is a task.                          *)
LEMMA SawTask == ASSUME TypeOK, NEW p \in Procs PROVE proc[p].saw \in Task
BY DEF TypeOK, Process

(* What mergeTasks writes, of whatever session.                              *)
LEMMA MergedTypes ==
    ASSUME TypeOK, NEW p \in Procs, NEW v \in BOOLEAN
    PROVE  [sess EXCEPT ![proc[p].s].run = v, ![proc[p].s].task = Merged(p)]
               \in [Sessions -> SessionRow]
<1> DEFINE c == proc[p].s
           t == Merged(p)
<1>1. c \in Sessions => t \in Task
    BY SawTask DEF Merged, TypeOK, SessionRow
<1>2. [sess EXCEPT ![c].run = v, ![c].task = t] \in [Sessions -> SessionRow]
    <2> HIDE DEF c, t
    <2>1. CASE c \in Sessions
        BY <1>1, <2>1, RunTaskType DEF TypeOK
    <2>2. CASE c \notin Sessions
        <3>1. [sess EXCEPT ![c].run = v, ![c].task = t] = sess
            BY <2>2 DEF TypeOK
        <3> QED  BY <3>1 DEF TypeOK
    <2> QED  BY <2>1, <2>2
<1> QED  BY <1>2

(* The steps of up keep every variable typed.                                *)
LEMMA UpTypes ==
    ASSUME TypeOK, NEW p \in Procs,
           \/ Snapshot(p) \/ Admit(p) \/ Refuse(p) \/ Create(p) \/ RetryCreate(p)
           \/ Teardown(p) \/ Clean(p) \/ Invalidate(p) \/ Produce(p)
           \/ SetupFails(p) \/ MarkUp(p) \/ RecordWake(p) \/ ReleaseSlot(p)
    PROVE  TypeOK'
<1>1. CASE Snapshot(p)
    <2>1. CASE sess[proc[p].s].run /\ proc[p].op # "recreate"
        <3>1. PICK pc \in AfterAdmission(p) : Goto(p, pc)
            BY <1>1, <2>1 DEF Snapshot
        <3> QED  BY <1>1, <3>1, AfterAdmissionStep, GotoType DEF Snapshot, TypeOK
    <2>2. CASE ~(sess[proc[p].s].run /\ proc[p].op # "recreate")
        <3> DEFINE q == {d \in Sessions : Queued(d)}
        <3>0. q \in SUBSET Sessions
            OBVIOUS
        <3> HIDE DEF q
        <3>1. [proc[p] EXCEPT !.pc = "reserve", !.seen = q] \in Process
            <4>1. proc[p] \in Process
                BY DEF TypeOK
            <4> DEFINE r == [proc[p] EXCEPT !.pc = "reserve"]
            <4>2. r \in Process
                BY <4>1, StepNames DEF Process
            <4> HIDE DEF r
            <4>3. [r EXCEPT !.seen = q] \in Process
                BY <3>0, <4>2 DEF Process
            <4> QED  BY <4>3 DEF r
        <3>2. proc' = [proc EXCEPT ![p] = [proc[p] EXCEPT !.pc = "reserve", !.seen = q]]
            BY <1>1, <2>2 DEF Snapshot, TypeOK, q
        <3> QED  BY <1>1, <2>2, <3>1, <3>2 DEF Snapshot, TypeOK
    <2> QED  BY <2>1, <2>2
<1>2. CASE Admit(p)
    <2>1. PICK pc \in AfterAdmission(p) : Goto(p, pc)
        BY <1>2 DEF Admit
    <2> QED  BY <1>2, <2>1, AfterAdmissionStep, GotoType DEF Admit, Swept, TypeOK
<1>3. CASE Refuse(p)
    BY <1>3, StepNames, GotoType DEF Refuse, Swept, TypeOK
<1>4. CASE Create(p)
    <2>1. NewRow("open") \in SessionRow /\ NewRow("none") \in SessionRow
              /\ NoLog \in WakeLog
        BY DEF NewRow, NoRow, NoLog, SessionRow, WakeLog, Task
    <2>2. proc' \in [Procs -> Process] /\ lock' = lock
        <3>1. Load(p, "setup", "open") \/ Goto(p, "queue") \/ Fail(p)
            BY <1>4 DEF Create
        <3> QED  BY <3>1, TaskNames, StepNames, LoadType, GotoType, FailType
    <2>3. \/ sess' = [sess EXCEPT ![proc[p].s] = NewRow("open")]
          \/ sess' = [sess EXCEPT ![proc[p].s] = NewRow("none")]
        BY <1>4 DEF Create
    <2>4. sess' \in [Sessions -> SessionRow]
        BY <2>1, <2>3 DEF TypeOK
    <2> QED  BY <1>4, <2>1, <2>2, <2>4 DEF Create, TypeOK
<1>5. CASE Teardown(p)
    BY <1>5, StepNames, GotoType DEF Teardown, TypeOK, SessionRow
<1>6. CASE Clean(p)
    <2>1. proc' \in [Procs -> Process] /\ lock' = lock
        <3>1. Load(p, "setup", "none") \/ Fail(p)
            BY <1>6 DEF Clean
        <3> QED  BY <3>1, TaskNames, StepNames, LoadType, FailType
    <2>2. sess' \in [Sessions -> SessionRow]
        <3> DEFINE c == proc[p].s
        <3>1. \/ sess' = sess
              \/ \E t \in Task : sess' = [sess EXCEPT ![c].run = FALSE, ![c].task = t]
            BY <1>6, TaskNames, SawTask DEF Clean
        <3> HIDE DEF c
        <3>2. ASSUME NEW t \in Task,
                     sess' = [sess EXCEPT ![c].run = FALSE, ![c].task = t]
              PROVE  sess' \in [Sessions -> SessionRow]
            BY <3>2, RunTaskType DEF TypeOK
        <3> QED  BY <3>1, <3>2 DEF TypeOK
    <2> QED  BY <1>6, <2>1, <2>2 DEF Clean, TypeOK
<1>7. CASE Invalidate(p)
    BY <1>7, StepNames, GotoType DEF Invalidate, TypeOK, SessionRow
<1>8. CASE Produce(p)
    <2>1. proc' \in [Procs -> Process] /\ lock' = lock
        BY <1>8, StepNames, GotoType DEF Produce
    <2>2. sess' \in [Sessions -> SessionRow]
        BY <1>8, MergedTypes DEF Produce
    <2> QED  BY <1>8, <2>1, <2>2 DEF Produce, TypeOK
<1>9. CASE SetupFails(p)
    <2>1. proc' \in [Procs -> Process] /\ lock' = lock
        BY <1>9, FailType DEF SetupFails
    <2>2. sess' \in [Sessions -> SessionRow]
        <3>1. CASE sess' = sess
            BY <3>1 DEF TypeOK
        <3>2. ASSUME NEW v \in BOOLEAN,
                     sess' = [sess EXCEPT ![proc[p].s].run = v,
                                          ![proc[p].s].task = Merged(p)]
              PROVE  sess' \in [Sessions -> SessionRow]
            BY <3>2, MergedTypes
        <3> QED  BY <1>9, <3>1, <3>2 DEF SetupFails
    <2> QED  BY <1>9, <2>1, <2>2 DEF SetupFails, TypeOK
<1>10. CASE MarkUp(p)
    BY <1>10, StepNames, GotoType DEF MarkUp, TypeOK, SessionRow
<1>11. CASE RecordWake(p)
    BY <1>11, StepNames, GotoType DEF RecordWake, TypeOK, WakeLog
<1>12. CASE ReleaseSlot(p)
    BY <1>12, StepNames, GotoType, ReturnType DEF ReleaseSlot, TypeOK
<1>13. CASE RetryCreate(p)
    <2> DEFINE c == proc[p].s
    <2>1. PICK t \in Task :
             /\ sess' = [sess EXCEPT ![c].task = t]
             /\ Load(p, Existing(p), t) \/ Goto(p, "queue") \/ Fail(p)
        BY <1>13 DEF RetryCreate
    <2>2. sess' \in [Sessions -> SessionRow]
        BY <2>1 DEF TypeOK, SessionRow
    <2>3. proc' \in [Procs -> Process] /\ lock' = lock
        <3>1. CASE Load(p, Existing(p), t)
            <4>1. Existing(p) \in Steps
                BY StepNames DEF Existing
            <4> QED  BY <3>1, <4>1, LoadType
        <3>2. CASE Goto(p, "queue") \/ Fail(p)
            BY <3>2, StepNames, GotoType, FailType
        <3> QED  BY <2>1, <3>1, <3>2
    <2> QED  BY <1>13, <2>2, <2>3 DEF RetryCreate, TypeOK
<1> QED  BY <1>1, <1>2, <1>3, <1>4, <1>5, <1>6, <1>7, <1>8, <1>9, <1>10,
            <1>11, <1>12, <1>13

(* So do the steps of down, sleep, destroy, wake, and a crash.               *)
LEMMA SleepTypes ==
    ASSUME TypeOK, NEW p \in Procs,
           \/ AcceptSleep(p) \/ MarkAsleep(p)
           \/ RecordIdle(p) \/ MarkDown(p) \/ CleanDown(p)
           \/ CleanDestroy(p) \/ MarkDestroyed(p) \/ DropReservation(p)
           \/ RecordFailure(p) \/ Suspend(p)
    PROVE  TypeOK'
<1>a. Asleep("queue") \in WakeLog /\ Asleep("idle") \in WakeLog
    BY DEF Asleep, WakeLog
<1>b. \A now \in Now : now \in Nat
    BY DEF Now, TypeOK, SessionRow
<1>1. CASE AcceptSleep(p)
    BY <1>1, <1>a, StepNames, GotoType, ReturnType DEF AcceptSleep, TypeOK
<1>2. CASE MarkAsleep(p)
    <2>1. PICK now \in Now : \E at \in 1..now :
             sess' = [sess EXCEPT ![proc[p].s].sleep = at,
                                  ![proc[p].s].status = "down"]
        BY <1>2 DEF MarkAsleep
    <2>2. now \in Nat
        BY <1>b
    <2>3. sess' \in [Sessions -> SessionRow]
        <3> DEFINE c == proc[p].s
        <3>1. PICK at \in 1..now : sess' = [sess EXCEPT ![c].sleep = at, ![c].status = "down"]
            BY <2>1
        <3>2. at \in Nat
            BY <2>2
        <3> HIDE DEF c
        <3> QED  BY <3>1, <3>2, RowTypes DEF TypeOK
    <2> QED  BY <1>2, <2>3, ReturnType DEF MarkAsleep, TypeOK
<1>3. CASE RecordIdle(p)
    BY <1>3, <1>a, StepNames, GotoType DEF RecordIdle, TypeOK
<1>4. CASE MarkDown(p)
    <2>1. PICK now \in Now :
             sess' = [sess EXCEPT
                        ![proc[p].s].status = "down",
                        ![proc[p].s].sleep = IF proc[p].op = "sleep" THEN now ELSE 0]
        BY <1>4 DEF MarkDown
    <2>2. sess' \in [Sessions -> SessionRow]
        BY <2>1, <1>b, RowTypes DEF TypeOK
    <2> QED  BY <1>4, <2>2, StepNames, GotoType DEF MarkDown, TypeOK
<1>5. CASE CleanDown(p)
    <2>1. sess' \in [Sessions -> SessionRow]
        <3> DEFINE c == proc[p].s
        <3>1. \/ sess' = sess
              \/ \E t \in Task : sess' = [sess EXCEPT ![c].run = FALSE, ![c].task = t]
            BY <1>5, TaskNames, SawTask DEF CleanDown
        <3> HIDE DEF c
        <3>2. ASSUME NEW t \in Task,
                     sess' = [sess EXCEPT ![c].run = FALSE, ![c].task = t]
              PROVE  sess' \in [Sessions -> SessionRow]
            BY <3>2, RunTaskType DEF TypeOK
        <3> QED  BY <3>1, <3>2 DEF TypeOK
    <2> QED  BY <1>5, <2>1, ReturnType DEF CleanDown, TypeOK
<1>6. CASE CleanDestroy(p)
    <2>1. /\ proc' \in [Procs -> Process]
          /\ lock' \in [Sessions -> Procs \cup {None}]
        BY <1>6, StepNames, GotoType, ReturnType DEF CleanDestroy, TypeOK
    <2>2. sess' \in [Sessions -> SessionRow]
        <3> DEFINE c == proc[p].s
        <3>1. \/ sess' = sess
              \/ \E t \in Task : sess' = [sess EXCEPT ![c].run = FALSE, ![c].task = t]
            BY <1>6, TaskNames, SawTask DEF CleanDestroy
        <3> HIDE DEF c
        <3>2. ASSUME NEW t \in Task,
                     sess' = [sess EXCEPT ![c].run = FALSE, ![c].task = t]
              PROVE  sess' \in [Sessions -> SessionRow]
            BY <3>2, RunTaskType DEF TypeOK
        <3> QED  BY <3>1, <3>2 DEF TypeOK
    <2> QED  BY <1>6, <2>1, <2>2 DEF CleanDestroy, TypeOK
<1>7. CASE MarkDestroyed(p)
    <2>1. NoRow \in SessionRow /\ NoLog \in WakeLog
        BY DEF NoRow, NoLog, SessionRow, WakeLog, Task
    <2> QED  BY <1>7, <2>1, StepNames, GotoType DEF MarkDestroyed, TypeOK
<1>8. CASE DropReservation(p)
    BY <1>8, ReturnType DEF DropReservation, TypeOK
<1>9. CASE RecordFailure(p)
    <2>1. wlog' \in [Sessions -> WakeLog]
        <3> DEFINE c == proc[p].s
                   n == wlog[c].fails + 1
        <3>1. wlog' = [wlog EXCEPT ![c].fails = n]
            BY <1>9 DEF RecordFailure
        <3>2. c \in Sessions => n \in Nat
            BY DEF TypeOK, WakeLog
        <3> HIDE DEF c, n
        <3> QED  BY <3>1, <3>2 DEF TypeOK, WakeLog
    <2>2. /\ proc' \in [Procs -> Process]
          /\ lock' \in [Sessions -> Procs \cup {None}]
        BY <1>9, StepNames, GotoType, ReturnType DEF RecordFailure, TypeOK
    <2> QED  BY <1>9, <2>1, <2>2 DEF RecordFailure, TypeOK
<1>10. CASE Suspend(p)
    BY <1>10, ReturnType DEF Suspend, TypeOK, WakeLog
<1> QED  BY <1>1, <1>2, <1>3, <1>4, <1>5, <1>6, <1>7, <1>8, <1>9, <1>10

(* Every step that starts a command, and the steps no lock covers.           *)
LEMMA OtherTypes ==
    ASSUME TypeOK,
           \/ \E p \in Procs : Crash(p)
           \/ \E p \in Procs, c \in Sessions :
                 \/ StartUp(p, c) \/ RequestWake(p, c)
                 \/ StartDown(p, c) \/ StartDestroy(p, c)
           \/ \E c \in Sessions : SetUpTask(c) \/ Finalize(c)
           \/ WakeLoop
    PROVE  TypeOK'
<1>1. ASSUME NEW p \in Procs, Crash(p) PROVE TypeOK'
    BY <1>1, ReturnType DEF Crash, TypeOK
<1>2. ASSUME NEW p \in Procs, NEW c \in Sessions,
             \/ StartUp(p, c) \/ RequestWake(p, c)
             \/ StartDown(p, c) \/ StartDestroy(p, c)
      PROVE  TypeOK'
    <2>1. PICK cmd \in Commands, pc \in Steps : Command(p, cmd, c, pc)
        BY <1>2, StepNames DEF StartUp, RequestWake, StartDown, StartDestroy, Commands
    <2>2. wlog' \in [Sessions -> WakeLog]
        <3>1. Asleep("queue") \in WakeLog
            BY DEF Asleep, WakeLog
        <3>2. wlog' = wlog \/ wlog' = [wlog EXCEPT ![c] = Asleep("queue")]
            BY <1>2 DEF StartUp, RequestWake, StartDown, StartDestroy
        <3> QED  BY <3>1, <3>2 DEF TypeOK
    <2> QED  BY <2>1, <2>2, BeginType DEF Command, TypeOK
<1>3. ASSUME NEW c \in Sessions, SetUpTask(c) \/ Finalize(c) PROVE TypeOK'
    <2>1. sess' \in [Sessions -> SessionRow]
        BY <1>3 DEF SetUpTask, Finalize, TypeOK, SessionRow, Task
    <2> QED  BY <1>3, <2>1 DEF SetUpTask, Finalize, TypeOK
<1>4. CASE Scan
    BY <1>4 DEF Scan, TypeOK, SessionRow
<1>5. ASSUME NEW c \in Sessions, Wake(c) PROVE TypeOK'
    <2>1. "wake" \in Commands
        BY DEF Commands
    <2> QED  BY <1>5, <2>1, StepNames, BeginType DEF Wake, NextCandidate, TypeOK
<1>6. ASSUME NEW c \in Sessions, Skip(c) PROVE TypeOK'
    BY <1>6 DEF Skip, NextCandidate, TypeOK
<1> QED  BY <1>1, <1>2, <1>3, <1>4, <1>5, <1>6 DEF WakeLoop

(* An empty store and idle processes are typed.                              *)
LEMMA InitTypeOK == Init => TypeOK
BY DEF Init, TypeOK, SessionRow, WakeLog, NoRow, NoLog, AtRest, Process, Steps,
       UpSteps, Commands, Task

(* Every process, every interleaving: no step writes a value its variable    *)
(* cannot hold.                                                              *)
THEOREM TypeCorrect == Spec => []TypeOK
<1>1. Init => TypeOK
    BY InitTypeOK
<1>2. TypeOK /\ [Next]_vars => TypeOK'
    <2>1. TypeOK /\ UNCHANGED vars => TypeOK'
        BY DEF TypeOK, vars
    <2>2. TypeOK /\ Next => TypeOK'
        BY UpTypes, SleepTypes, OtherTypes DEF Next, Step
    <2> QED  BY <2>1, <2>2
<1> QED  BY <1>1, <1>2, PTL DEF Spec
-------------------------------------------------------------------------------
(* The three ways a step moves a process: on to another step of its command, *)
(* out of it, or into one.                                                   *)
Alone(p)     == \A q \in Procs \ {p} : proc'[q] = proc[q]
Stays(p, pc) == /\ lock' = lock /\ Alone(p)
                /\ proc'[p].pc = pc
                /\ proc'[p].op = proc[p].op /\ proc'[p].s = proc[p].s
Leaves(p)    == /\ Alone(p) /\ proc'[p] = AtRest
                /\ \A c \in Sessions :
                       lock'[c] = IF c = proc[p].s THEN None ELSE lock[c]
Starts(p, c) == /\ At(p, "idle") /\ lock[c] = None
                /\ Alone(p) /\ proc'[p].s = c
                /\ \A d \in Sessions : lock'[d] = IF d = c THEN p ELSE lock[d]
Moves(p)     == Leaves(p) \/ \E pc \in Steps \ {"idle"} : Stays(p, pc)

(* A process that goes on keeps its session, its command and its lock.       *)
LEMMA GotoStays ==
    ASSUME TypeOK, NEW p \in Procs, NEW pc, Goto(p, pc) PROVE Stays(p, pc)
BY DEF Goto, Stays, Alone, TypeOK, Process

(* So does one that loads its session again.                                 *)
LEMMA LoadStays ==
    ASSUME TypeOK, NEW p \in Procs, NEW pc, NEW task, Load(p, pc, task)
    PROVE  Stays(p, pc)
<1>1. proc'[p] = [proc[p] EXCEPT !.pc = pc, !.saw = task]
    BY DEF Load, TypeOK
<1>2. proc[p] \in Process
    BY DEF TypeOK
<1> QED  BY <1>1, <1>2 DEF Load, Stays, Alone, TypeOK, Process

(* So does one whose up has failed: its release is still to come.            *)
LEMMA FailStays ==
    ASSUME TypeOK, NEW p \in Procs, Fail(p) PROVE Stays(p, "release")
<1>1. proc'[p] = [proc[p] EXCEPT !.pc = "release", !.failed = TRUE]
    BY DEF Fail, TypeOK
<1>2. proc[p] \in Process
    BY DEF TypeOK
<1> QED  BY <1>1, <1>2 DEF Fail, Stays, Alone, TypeOK, Process

(* A process that returns frees its own lock and nobody else's.              *)
LEMMA ReturnLeaves ==
    ASSUME TypeOK, NEW p \in Procs, Return(p) PROVE Leaves(p)
BY DEF Return, Leaves, Alone, TypeOK

(* A process that starts takes a lock that was free.                         *)
LEMMA BeginStarts ==
    ASSUME TypeOK, NEW p \in Procs, NEW cmd, NEW c \in Sessions, NEW pc,
           Begin(p, cmd, c, pc)
    PROVE  Starts(p, c) /\ proc'[p].pc = pc /\ proc'[p].op = cmd
BY DEF Begin, Starts, Alone, TypeOK, AtRest

(* The snapshot before a reservation is a step of its process alone.         *)
LEMMA SnapshotStays ==
    ASSUME TypeOK, NEW p \in Procs, Snapshot(p)
    PROVE  \/ Stays(p, "reserve")
           \/ /\ \E pc \in AfterAdmission(p) : Stays(p, pc)
              /\ sess[proc[p].s].run /\ proc[p].op # "recreate"
<1>1. CASE sess[proc[p].s].run /\ proc[p].op # "recreate"
    BY <1>1, GotoStays DEF Snapshot
<1>2. CASE ~(sess[proc[p].s].run /\ proc[p].op # "recreate")
    <2> DEFINE q == {d \in Sessions : Queued(d)}
    <2>1. proc' = [proc EXCEPT ![p].pc = "reserve", ![p].seen = q] /\ lock' = lock
        BY <1>2 DEF Snapshot
    <2> HIDE DEF q
    <2>2. proc'[p] = [proc[p] EXCEPT !.pc = "reserve", !.seen = q]
        BY <2>1 DEF TypeOK
    <2>3. proc[p] \in Process
        BY DEF TypeOK
    <2>4. Alone(p)
        BY <2>1 DEF Alone, TypeOK
    <2>5. /\ proc'[p].pc = "reserve"
          /\ proc'[p].op = proc[p].op /\ proc'[p].s = proc[p].s
        <3> DEFINE r == proc[p]
        <3>1. r \in Process
            BY <2>3
        <3> HIDE DEF r
        <3>2. LET k == [r EXCEPT !.pc = "reserve", !.seen = q]
              IN  k.pc = "reserve" /\ k.op = r.op /\ k.s = r.s
            BY <3>1 DEF Process
        <3>3. proc'[p] = [r EXCEPT !.pc = "reserve", !.seen = q]
            BY <2>2 DEF r
        <3>4. r = proc[p]
            BY DEF r
        <3> QED  BY <3>2, <3>3, <3>4
    <2>6. lock' = lock
        BY <2>1
    <2>7. Stays(p, "reserve")
        BY <2>4, <2>5, <2>6 DEF Stays
    <2> QED  BY <2>7
<1> QED  BY <1>1, <1>2

(* A settled slot is followed by a step of up.                               *)
LEMMA AfterAdmissionUp ==
    ASSUME NEW p
    PROVE  /\ AfterAdmission(p) \subseteq UpSteps \ {"idle"}
           /\ AfterAdmission(p) \subseteq {"create", "teardown", "setup"}
BY DEF AfterAdmission, Existing, UpSteps

(* What the two ownership invariants need of a step of p: it is a move, and  *)
(* no reservation becomes a live process's but p's own, which p's up holds.  *)
Owns(p) == /\ ~At(p, "idle") /\ Moves(p)
           /\ \A c \in Sessions : resv'[c] \in Procs =>
                 resv'[c] = resv[c] \/ (c = proc[p].s /\ resv'[c] = p)
           /\ \A c \in Sessions :
                 resv'[c] = p => \E pc \in UpSteps \ {"idle"} : Stays(p, pc)

(* A step of a process that keeps to its own lock and its own reservation    *)
(* preserves the ownership of both.                                          *)
LEMMA OwnMoves ==
    ASSUME TypeOK, LockOwned, ReservationOwned, NEW p \in Procs, Owns(p)
    PROVE  LockOwned' /\ ReservationOwned'
<1>a. proc[p].s \in Sessions /\ lock[proc[p].s] = p
    BY DEF Owns, LockOwned
<1>b. None \notin Procs
    BY LifecycleAssumption
<1>1. LockOwned'
    <2> SUFFICES ASSUME NEW q \in Procs, ~(proc'[q].pc = "idle")
                 PROVE  proc'[q].s \in Sessions /\ lock'[proc'[q].s] = q
        BY DEF LockOwned, At
    <2>1. CASE q = p
        BY <1>a, <2>1 DEF Owns, Moves, Leaves, Stays, AtRest
    <2>2. CASE q # p
        <3>1. proc'[q] = proc[q]
            BY <2>2 DEF Owns, Moves, Leaves, Stays, Alone
        <3>2. proc[q].s \in Sessions /\ lock[proc[q].s] = q
            BY <3>1 DEF LockOwned, At
        <3>3. proc[q].s # proc[p].s
            BY <1>a, <2>2, <3>2
        <3> QED  BY <3>1, <3>2, <3>3 DEF Owns, Moves, Leaves, Stays
    <2> QED  BY <2>1, <2>2
<1>2. ReservationOwned'
    <2> SUFFICES ASSUME NEW c \in Sessions, resv'[c] \in Procs
                 PROVE  /\ lock'[c] = resv'[c] /\ proc'[resv'[c]].s = c
                        /\ proc'[resv'[c]].pc \in UpSteps
        BY DEF ReservationOwned
    <2>1. CASE resv'[c] = p
        <3>1. PICK pc \in UpSteps \ {"idle"} : Stays(p, pc)
            BY <2>1 DEF Owns
        <3>2. c = proc[p].s
            BY <2>1 DEF Owns, ReservationOwned
        <3> QED  BY <1>a, <2>1, <3>1, <3>2 DEF Stays
    <2>2. CASE resv'[c] # p
        <3> DEFINE q == resv[c]
        <3>1. resv'[c] = q /\ q \in Procs /\ q # p
            BY <2>2 DEF Owns
        <3>2. lock[c] = q /\ proc[q].s = c /\ proc[q].pc \in UpSteps
            BY <3>1 DEF ReservationOwned
        <3>3. proc'[q] = proc[q]
            BY <3>1 DEF Owns, Moves, Leaves, Stays, Alone
        <3>4. c # proc[p].s
            BY <1>a, <3>1, <3>2
        <3>5. lock'[c] = lock[c]
            BY <3>4 DEF Owns, Moves, Leaves, Stays
        <3> QED  BY <3>1, <3>2, <3>3, <3>5
    <2> QED  BY <2>1, <2>2
<1> QED  BY <1>1, <1>2

(* Which program counters belong to up, with a reservation, and which do not.*)
LEMMA StepKinds ==
    /\ "idle" \notin UpSteps /\ UpSteps \subseteq Steps
    /\ {"create", "teardown", "clean", "setup", "rebuild", "markUp", "recordWake",
        "release"} \subseteq UpSteps
    /\ UpSteps \cap {"snap", "reserve", "createSleeping", "queue", "queueMark",
        "failed", "suspend", "idleEvent", "downMark", "downClean", "destroyClean",
        "destroyMark", "destroyRelease"} = {}
BY DEF Steps, UpSteps

(* A step that leaves the reservations alone owns what it did.               *)
LEMMA KeepOwns ==
    ASSUME TypeOK, ReservationOwned, NEW p \in Procs, ~At(p, "idle"), resv' = resv,
           \/ Moves(p) /\ proc[p].pc \notin UpSteps
           \/ \E pc \in UpSteps : Stays(p, pc)
    PROVE  Owns(p)
<1>1. Moves(p)
    BY StepKinds DEF Moves
<1>2. ASSUME NEW c \in Sessions, resv[c] = p
      PROVE  \E pc \in UpSteps \ {"idle"} : Stays(p, pc)
    BY <1>2, StepKinds DEF ReservationOwned
<1> QED  BY <1>1, <1>2 DEF Owns

(* The steps of up touch the reservation of their own session only.          *)
LEMMA UpOwns ==
    ASSUME TypeOK, LockOwned, ReservationOwned, NEW p \in Procs,
           \/ Snapshot(p) \/ Admit(p) \/ Refuse(p) \/ Create(p) \/ RetryCreate(p)
           \/ Teardown(p) \/ Clean(p) \/ Invalidate(p) \/ Produce(p)
           \/ SetupFails(p) \/ MarkUp(p) \/ RecordWake(p) \/ ReleaseSlot(p)
    PROVE  Owns(p)
<1>a. None \notin Procs
    BY LifecycleAssumption
<1>1. CASE Snapshot(p)
    <2>1. proc[p].pc = "snap" /\ resv' = resv
        BY <1>1 DEF Snapshot, At
    <2>2. Moves(p)
        BY <1>1, SnapshotStays, AfterAdmissionUp, AfterAdmissionStep, StepNames DEF Moves
    <2> QED  BY <2>1, <2>2, KeepOwns, StepKinds DEF At
<1>2. CASE Admit(p)
    <2>1. (\E pc \in AfterAdmission(p) : Stays(p, pc)) /\ proc[p].pc = "reserve"
        BY <1>2, GotoStays DEF Admit, At
    <2>2. Moves(p)
        BY <2>1, AfterAdmissionUp, AfterAdmissionStep DEF Moves
    <2>3. ASSUME NEW c \in Sessions, resv'[c] \in Procs
          PROVE  resv'[c] = resv[c] \/ (c = proc[p].s /\ resv'[c] = p)
        BY <1>2, <1>a, <2>3 DEF Admit, Swept, TypeOK
    <2> QED  BY <2>1, <2>2, <2>3, AfterAdmissionUp DEF Owns, At
<1>3. CASE Refuse(p)
    <2>1. proc[p].pc = "reserve"
        BY <1>3 DEF Refuse, At
    <2>2. Stays(p, "queue") \/ Stays(p, "createSleeping")
        BY <1>3, GotoStays DEF Refuse
    <2>3. Moves(p)
        BY <2>2, StepNames DEF Moves
    <2>4. ASSUME NEW c \in Sessions, resv'[c] \in Procs
          PROVE  resv'[c] = resv[c]
        BY <1>3, <1>a, <2>4 DEF Refuse, Swept, TypeOK
    <2>5. \A c \in Sessions : resv[c] # p
        BY <2>1, StepKinds DEF ReservationOwned
    <2> QED  BY <2>1, <2>3, <2>4, <2>5 DEF Owns, At
<1>4. CASE Create(p)
    <2>1. proc[p].pc \in {"create", "createSleeping"} /\ resv' = resv
        BY <1>4 DEF Create, At
    <2>2. CASE proc[p].pc = "create"
        <3>1. Stays(p, "setup") \/ Stays(p, "release")
            BY <1>4, <2>2, LoadStays, FailStays DEF Create, At
        <3> QED  BY <2>1, <2>2, <3>1, KeepOwns, StepKinds DEF At
    <2>3. CASE proc[p].pc = "createSleeping"
        <3>1. Stays(p, "queue") \/ Stays(p, "release")
            BY <1>4, <2>3, GotoStays, FailStays DEF Create, At
        <3>2. Moves(p)
            BY <3>1, StepNames DEF Moves
        <3> QED  BY <2>1, <2>3, <3>2, KeepOwns, StepKinds DEF At
    <2> QED  BY <2>1, <2>2, <2>3
<1>5. CASE Teardown(p)
    BY <1>5, GotoStays, KeepOwns, StepKinds DEF Teardown, At
<1>6. CASE Clean(p)
    BY <1>6, LoadStays, FailStays, KeepOwns, StepKinds DEF Clean, At
<1>7. CASE Invalidate(p)
    BY <1>7, GotoStays, KeepOwns, StepKinds DEF Invalidate, At
<1>8. CASE Produce(p)
    BY <1>8, GotoStays, KeepOwns, StepKinds DEF Produce, At
<1>9. CASE SetupFails(p)
    BY <1>9, FailStays, KeepOwns, StepKinds DEF SetupFails, At
<1>10. CASE MarkUp(p)
    BY <1>10, GotoStays, KeepOwns, StepKinds DEF MarkUp, At
<1>11. CASE RecordWake(p)
    BY <1>11, GotoStays, KeepOwns, StepKinds DEF RecordWake, At
<1>12. CASE ReleaseSlot(p)
    <2>1. proc[p].pc = "release"
        BY <1>12 DEF ReleaseSlot, At
    <2>2. Stays(p, "failed") \/ Leaves(p)
        BY <1>12, GotoStays, ReturnLeaves DEF ReleaseSlot
    <2>3. Moves(p)
        BY <2>2, StepNames DEF Moves
    <2>4. \A c \in Sessions : /\ resv'[c] # p
                              /\ resv'[c] \in Procs => resv'[c] = resv[c]
        BY <1>12, <1>a DEF ReleaseSlot, TypeOK, ReservationOwned
    <2> QED  BY <2>1, <2>3, <2>4 DEF Owns, At
<1>13. CASE RetryCreate(p)
    <2>1. proc[p].pc \in {"create", "createSleeping"} /\ resv' = resv
        BY <1>13 DEF RetryCreate, At
    <2>2. CASE proc[p].pc = "create"
        <3>1. Stays(p, "setup") \/ Stays(p, "teardown") \/ Stays(p, "release")
            BY <1>13, <2>2, LoadStays, FailStays DEF RetryCreate, Existing, At
        <3> QED  BY <2>1, <2>2, <3>1, KeepOwns, StepKinds DEF At
    <2>3. CASE proc[p].pc = "createSleeping"
        <3>1. Stays(p, "queue") \/ Stays(p, "release")
            BY <1>13, <2>3, GotoStays, FailStays DEF RetryCreate, At
        <3>2. Moves(p)
            BY <3>1, StepNames DEF Moves
        <3> QED  BY <2>1, <2>3, <3>2, KeepOwns, StepKinds DEF At
    <2> QED  BY <2>1, <2>2, <2>3
<1> QED  BY <1>1, <1>2, <1>3, <1>4, <1>5, <1>6, <1>7, <1>8, <1>9, <1>10,
            <1>11, <1>12, <1>13

(* So do the steps of down, sleep, destroy and wake.                         *)
LEMMA SleepOwns ==
    ASSUME TypeOK, LockOwned, ReservationOwned, NEW p \in Procs,
           \/ AcceptSleep(p) \/ MarkAsleep(p)
           \/ RecordIdle(p) \/ MarkDown(p) \/ CleanDown(p)
           \/ CleanDestroy(p) \/ MarkDestroyed(p) \/ DropReservation(p)
           \/ RecordFailure(p) \/ Suspend(p)
    PROVE  Owns(p)
<1>a. None \notin Procs
    BY LifecycleAssumption
<1>1. CASE DropReservation(p)
    <2>1. Moves(p) /\ proc[p].pc = "destroyRelease"
        BY <1>1, ReturnLeaves DEF DropReservation, Moves, At
    <2>2. \A c \in Sessions : /\ resv'[c] # p
                              /\ resv'[c] \in Procs => resv'[c] = resv[c]
        BY <1>1, <1>a, <2>1, StepKinds DEF DropReservation, TypeOK, ReservationOwned
    <2> QED  BY <2>1, <2>2 DEF Owns, At
<1>2. ASSUME \/ AcceptSleep(p) \/ MarkAsleep(p) \/ RecordIdle(p) \/ MarkDown(p)
             \/ CleanDown(p) \/ CleanDestroy(p) \/ MarkDestroyed(p)
             \/ RecordFailure(p) \/ Suspend(p)
      PROVE  Owns(p)
    <2>1. resv' = resv
        BY <1>2 DEF AcceptSleep, MarkAsleep, RecordIdle, MarkDown, CleanDown,
                    CleanDestroy, MarkDestroyed, RecordFailure, Suspend
    <2>2. proc[p].pc \in {"queue", "queueMark", "idleEvent", "downMark", "downClean",
                          "destroyClean", "destroyMark", "failed", "suspend"}
        BY <1>2 DEF AcceptSleep, MarkAsleep, RecordIdle, MarkDown, CleanDown,
                    CleanDestroy, MarkDestroyed, RecordFailure, Suspend, At
    <2>3. \/ Return(p)
          \/ \E pc \in {"queueMark", "downMark", "downClean", "destroyMark",
                        "destroyRelease", "suspend"} : Goto(p, pc)
        BY <1>2 DEF AcceptSleep, MarkAsleep, RecordIdle, MarkDown, CleanDown,
                    CleanDestroy, MarkDestroyed, RecordFailure, Suspend
    <2>4. Moves(p)
        BY <2>3, GotoStays, ReturnLeaves, StepNames DEF Moves
    <2> QED  BY <2>1, <2>2, <2>4, KeepOwns, StepKinds DEF At
<1> QED  BY <1>1, <1>2

(* A dead process gives up its lock, and its reservations count as dead.     *)
LEMMA CrashOwns ==
    ASSUME TypeOK, LockOwned, ReservationOwned, NEW p \in Procs, Crash(p)
    PROVE  Owns(p)
<1>1. Dead \notin Procs
    BY LifecycleAssumption
<1>2. \A c \in Sessions : /\ resv'[c] # p
                          /\ resv'[c] \in Procs => resv'[c] = resv[c]
    BY <1>1 DEF Crash, TypeOK
<1> QED  BY <1>2, ReturnLeaves DEF Owns, Moves, Crash

(* A new command takes a lock nobody holds, so no reservation is behind it.  *)
LEMMA StartOwns ==
    ASSUME TypeOK, LockOwned, ReservationOwned, NEW p \in Procs, NEW c \in Sessions,
           Starts(p, c), resv' = resv
    PROVE  LockOwned' /\ ReservationOwned'
<1>1. None \notin Procs
    BY LifecycleAssumption
<1>2. LockOwned'
    <2> SUFFICES ASSUME NEW q \in Procs, ~(proc'[q].pc = "idle")
                 PROVE  proc'[q].s \in Sessions /\ lock'[proc'[q].s] = q
        BY DEF LockOwned, At
    <2>1. CASE q = p
        BY <2>1 DEF Starts
    <2>2. CASE q # p
        <3>1. proc'[q] = proc[q]
            BY <2>2 DEF Starts, Alone
        <3>2. proc[q].s \in Sessions /\ lock[proc[q].s] = q
            BY <3>1 DEF LockOwned, At
        <3>3. proc[q].s # c
            BY <1>1, <3>2 DEF Starts
        <3> QED  BY <3>1, <3>2, <3>3 DEF Starts
    <2> QED  BY <2>1, <2>2
<1>3. ReservationOwned'
    <2> SUFFICES ASSUME NEW d \in Sessions, resv[d] \in Procs
                 PROVE  /\ lock'[d] = resv[d] /\ proc'[resv[d]].s = d
                        /\ proc'[resv[d]].pc \in UpSteps
        BY DEF ReservationOwned
    <2>1. lock[d] = resv[d] /\ proc[resv[d]].s = d /\ proc[resv[d]].pc \in UpSteps
        BY DEF ReservationOwned
    <2>2. d # c
        BY <1>1, <2>1 DEF Starts
    <2>3. resv[d] # p
        BY <2>1, StepKinds DEF Starts, At
    <2>4. proc'[resv[d]] = proc[resv[d]]
        BY <2>3 DEF Starts, Alone
    <2> QED  BY <2>1, <2>2, <2>4 DEF Starts
<1> QED  BY <1>2, <1>3

(* The steps that start a command.                                           *)
Starting == \/ \E p \in Procs, c \in Sessions :
                  \/ StartUp(p, c) \/ RequestWake(p, c)
                  \/ StartDown(p, c) \/ StartDestroy(p, c)
            \/ \E c \in Sessions : Wake(c)

FirstSteps == {"snap", "queueMark", "downMark", "idleEvent", "destroyClean"}

(* A command starts with a lock and without a reservation.                   *)
LEMMA StartingStarts ==
    ASSUME TypeOK, Starting
    PROVE  /\ \E p \in Procs, c \in Sessions :
                 Starts(p, c) /\ proc'[p].pc \in FirstSteps
           /\ sess' = sess /\ resv' = resv
<1>1. ASSUME NEW p \in Procs, NEW c \in Sessions,
             \/ StartUp(p, c) \/ RequestWake(p, c)
             \/ StartDown(p, c) \/ StartDestroy(p, c)
      PROVE  /\ Starts(p, c) /\ proc'[p].pc \in FirstSteps
             /\ sess' = sess /\ resv' = resv
    <2>1. \E pc \in FirstSteps : \E cmd : Command(p, cmd, c, pc)
        <3>1. \/ \E cmd : Command(p, cmd, c, "snap")
              \/ \E cmd : Command(p, cmd, c, "queueMark")
              \/ \E cmd : Command(p, cmd, c, "downMark")
              \/ \E cmd : Command(p, cmd, c, "idleEvent")
              \/ \E cmd : Command(p, cmd, c, "destroyClean")
            BY <1>1 DEF StartUp, RequestWake, StartDown, StartDestroy
        <3> QED  BY <3>1 DEF FirstSteps
    <2> QED  BY <2>1, BeginStarts DEF Command
<1>2. ASSUME NEW c \in Sessions, Wake(c)
      PROVE  /\ Starts(Daemon, c) /\ proc'[Daemon].pc \in FirstSteps
             /\ sess' = sess /\ resv' = resv
    BY <1>2, BeginStarts DEF Wake, NextCandidate, FirstSteps
<1> QED  BY <1>1, <1>2 DEF Starting

(* Every step of Next, seen from the processes.                              *)
LEMMA NextKinds ==
    ASSUME Next
    PROVE  \/ \E p \in Procs : Step(p) \/ Crash(p)
           \/ Starting
           \/ \E c \in Sessions : SetUpTask(c) \/ Finalize(c) \/ Skip(c)
           \/ Scan
BY DEF Next, WakeLoop, Starting

(* No step of the system takes a reservation from under its lock.            *)
LEMMA OwnershipStep ==
    ASSUME TypeOK, LockOwned, ReservationOwned, [Next]_vars
    PROVE  LockOwned' /\ ReservationOwned'
<1>1. CASE UNCHANGED vars
    BY <1>1 DEF vars, LockOwned, ReservationOwned, At
<1>2. ASSUME NEW p \in Procs, Step(p) \/ Crash(p)
      PROVE  LockOwned' /\ ReservationOwned'
    BY <1>2, UpOwns, SleepOwns, CrashOwns, OwnMoves DEF Step
<1>3. CASE Starting
    BY <1>3, StartingStarts, StartOwns
<1>4. CASE (\E c \in Sessions : SetUpTask(c) \/ Finalize(c) \/ Skip(c)) \/ Scan
    <2>1. UNCHANGED <<lock, resv, proc>>
        BY <1>4 DEF SetUpTask, Finalize, Skip, NextCandidate, Scan
    <2> QED  BY <2>1 DEF LockOwned, ReservationOwned, At
<1> QED  BY <1>1, <1>2, <1>3, <1>4, NextKinds

(* Nobody releases, or ever contests, the reservation of an up in progress:  *)
(* it stands exactly under the lifecycle lock of the process that made it.   *)
THEOREM ReservationsOwned == Spec => []ReservationOwned
<1>1. Init => LockOwned /\ ReservationOwned
    BY LifecycleAssumption DEF Init, LockOwned, ReservationOwned, At, AtRest
<1>2. TypeOK /\ LockOwned /\ ReservationOwned /\ [Next]_vars
        => LockOwned' /\ ReservationOwned'
    BY OwnershipStep
<1> QED  BY <1>1, <1>2, TypeCorrect, PTL DEF Spec
-------------------------------------------------------------------------------
(* The cap.  A row that has produced a run node is live; an up past its      *)
(* admission holds the reservation, or found the session up already, until   *)
(* its setup is over.  The last needs nodes whose alive probe never fails:   *)
(* a dead node's session stops filling its slot while the repair runs.       *)
RowsLive == \A c \in Sessions : sess[c].run => Live(c)
Works(p) == LET c == proc[p].s
            IN /\ proc[p].pc \in {"clean", "setup"} => Live(c)
               /\ proc[p].pc \in {"teardown", "clean"} => resv[c] = p
               /\ proc[p].pc = "setup" => resv[c] = p \/ sess[c].run
               /\ proc[p].pc = "create"
                      => resv[c] = p \/ (sess[c].run /\ proc[p].op # "recreate")
               /\ proc[p].pc # "rebuild"
Covered == \A p \in Procs : Works(p)
SlotInv == TypeOK /\ LockOwned /\ ReservationOwned /\ RowsLive /\ Covered

(* A step under the lock of session c changes no other session's row, and of *)
(* the other reservations only a dead process's.                             *)
Touches(c) == \A d \in Sessions \ {c} :
                 /\ sess'[d] = sess[d]
                 /\ resv'[d] = resv[d] \/ (resv[d] = Dead /\ resv'[d] = None)
Sets(c, run, status) ==
    /\ sess'[c].run = run /\ sess'[c].status = status
    /\ \A d \in Sessions \ {c} : sess'[d] = sess[d]

(* What each update of a row does to the slot it fills.                      *)
LEMMA RowSets ==
    ASSUME TypeOK, NEW c \in Sessions
    PROVE  /\ \A v \in BOOLEAN : sess' = [sess EXCEPT ![c].run = v]
                                    => Sets(c, v, sess[c].status)
           /\ sess' = [sess EXCEPT ![c].status = "down"]
                                    => Sets(c, sess[c].run, "down")
           /\ sess' = [sess EXCEPT ![c].status = "up", ![c].sleep = 0]
                                    => Sets(c, sess[c].run, "up")
           /\ \A t : sess' = [sess EXCEPT ![c].status = "down", ![c].sleep = t]
                                    => Sets(c, sess[c].run, "down")
           /\ \A t : sess' = [sess EXCEPT ![c].sleep = t, ![c].status = "down"]
                                    => Sets(c, sess[c].run, "down")
           /\ \A t : sess' = [sess EXCEPT ![c] = NewRow(t)] => Sets(c, FALSE, "down")
           /\ sess' = [sess EXCEPT ![c] = NoRow] => Sets(c, FALSE, "none")
           /\ sess' = sess => Sets(c, sess[c].run, sess[c].status)
<1>1. \A t : NewRow(t).run = FALSE /\ NewRow(t).status = "down"
    BY DEF NewRow, NoRow
<1>2. NoRow.run = FALSE /\ NoRow.status = "none"
    BY DEF NoRow
<1>3. sess \in [Sessions -> SessionRow]
    BY DEF TypeOK
<1> QED  BY <1>1, <1>2, <1>3 DEF SessionRow, Sets

(* The cleanup's and the setup's update of run and task does the same.       *)
LEMMA RunTaskSets ==
    ASSUME TypeOK, NEW c \in Sessions, NEW v \in BOOLEAN, NEW t,
           sess' = [sess EXCEPT ![c].run = v, ![c].task = t]
    PROVE  Sets(c, v, sess[c].status)
<1>1. sess'[c] = [[sess[c] EXCEPT !.run = v] EXCEPT !.task = t]
    BY DEF TypeOK
<1>2. sess[c] \in SessionRow
    BY DEF TypeOK
<1>3. sess'[c].run = v /\ sess'[c].status = sess[c].status
    BY <1>1, <1>2 DEF SessionRow
<1>4. \A d \in Sessions \ {c} : sess'[d] = sess[d]
    BY DEF TypeOK
<1> QED  BY <1>3, <1>4 DEF Sets

(* So does an update of the task alone.                                      *)
LEMMA TaskSets ==
    ASSUME TypeOK, NEW c \in Sessions, NEW t, sess' = [sess EXCEPT ![c].task = t]
    PROVE  Sets(c, sess[c].run, sess[c].status)
BY DEF TypeOK, SessionRow, Sets

(* What the cap needs of a step of p other than Admit.                       *)
Keeps(p) == LET c == proc[p].s
            IN /\ Touches(c) /\ Works(p)'
               /\ sess'[c].run => sess'[c].status # "none"
               /\ sess'[c].run \/ resv'[c] \in Procs => Fills(c)

(* Past its setup, or not yet admitted, a process claims no slot.            *)
LEMMA NoClaim ==
    ASSUME NEW p \in Procs,
           \/ Leaves(p)
           \/ \E pc \in Steps \ {"create", "teardown", "clean", "setup", "rebuild"} :
                 Stays(p, pc)
    PROVE  Works(p)'
BY DEF Works, Leaves, Stays, AtRest

(* After its admission, up fills no slot but the one it reserved.            *)
LEMMA UpKeeps ==
    ASSUME SlotInv, NodesMayDie = FALSE, NEW p \in Procs,
           \/ Snapshot(p) \/ Refuse(p) \/ Create(p) \/ RetryCreate(p)
           \/ Teardown(p) \/ Clean(p) \/ Invalidate(p) \/ Produce(p)
           \/ SetupFails(p) \/ MarkUp(p) \/ RecordWake(p) \/ ReleaseSlot(p)
    PROVE  Keeps(p)
<1> DEFINE c == proc[p].s
<1>a. TypeOK
    BY DEF SlotInv
<1>b. None \notin Procs /\ Dead \notin Procs
    BY LifecycleAssumption
<1>c. ~At(p, "idle")
    BY DEF Snapshot, Refuse, Create, RetryCreate, Teardown, Clean, Invalidate,
           Produce, SetupFails, MarkUp, RecordWake, ReleaseSlot, At
<1>d. c \in Sessions
    BY <1>c DEF SlotInv, LockOwned
<1>e. Works(p)
    BY DEF SlotInv, Covered
<1>f. sess[c].run => sess[c].status # "none"
    BY <1>d DEF SlotInv, RowsLive, Live
<1>1. CASE Snapshot(p)
    <2>1. sess' = sess /\ resv' = resv
        BY <1>1 DEF Snapshot
    <2>2. CASE Stays(p, "reserve")
        BY <1>f, <2>1, <2>2, NoClaim, StepNames DEF Keeps, Touches, Fills
    <2>3. CASE /\ sess[c].run /\ proc[p].op # "recreate"
               /\ \E pc \in AfterAdmission(p) : Stays(p, pc)
        <3>1. Stays(p, "setup") \/ Stays(p, "create")
            BY <1>f, <2>3 DEF AfterAdmission, Existing, Live
        <3>2. Works(p)'
            BY <1>f, <2>1, <2>3, <3>1 DEF Works, Stays, Live
        <3> QED  BY <1>f, <2>1, <3>2 DEF Keeps, Touches, Fills
    <2> QED  BY <1>1, <1>a, <2>2, <2>3, SnapshotStays
<1>2. CASE Refuse(p)
    <2>1. Stays(p, "queue") \/ Stays(p, "createSleeping")
        BY <1>2, <1>a, GotoStays DEF Refuse
    <2>2. Works(p)'
        BY <2>1, NoClaim, StepNames
    <2>3. sess' = sess /\ \A d \in Sessions : resv'[d] = resv[d]
                                \/ (resv[d] = Dead /\ resv'[d] = None)
        BY <1>2 DEF Refuse, Swept
    <2> QED  BY <1>b, <1>d, <1>f, <2>2, <2>3 DEF Keeps, Touches, Fills
<1>3. CASE Create(p)
    <2>1. Sets(c, FALSE, "down") /\ resv' = resv
        BY <1>3, <1>a, <1>d, RowSets DEF Create
    <2>2. CASE Stays(p, "setup") /\ proc[p].pc = "create"
        <3>1. ~sess[c].run
            BY <1>3, <1>f DEF Create, Live
        <3> QED  BY <1>e, <2>1, <2>2, <3>1
                 DEF Keeps, Touches, Sets, Fills, Works, Stays, Live
    <2>3. CASE Stays(p, "queue") \/ Stays(p, "release")
        BY <2>1, <2>3, NoClaim, StepNames DEF Keeps, Touches, Sets, Fills
    <2> QED  BY <1>3, <1>a, <2>2, <2>3, LoadStays, GotoStays, FailStays DEF Create, At
<1>4. CASE Teardown(p)
    <2>1. Sets(c, sess[c].run, "down") /\ resv' = resv
        <3>1. sess' = [sess EXCEPT ![c].status = "down"] /\ resv' = resv
            BY <1>4 DEF Teardown
        <3> HIDE DEF c
        <3> QED  BY <1>a, <1>d, <3>1, RowSets
    <2>2. Stays(p, "clean") /\ proc[p].pc = "teardown"
        BY <1>4, <1>a, GotoStays DEF Teardown, At
    <2> QED  BY <1>e, <2>1, <2>2 DEF Keeps, Touches, Sets, Fills, Works, Stays, Live
<1>5. CASE Clean(p)
    <2>1. proc[p].pc = "clean" /\ resv' = resv
        BY <1>5 DEF Clean, At
    <2>2. \/ Sets(c, FALSE, sess[c].status) \/ Sets(c, sess[c].run, sess[c].status)
        <3>1. \/ \E t : sess' = [sess EXCEPT ![c].run = FALSE, ![c].task = t]
              \/ sess' = sess
            BY <1>5 DEF Clean
        <3> HIDE DEF c
        <3> QED  BY <1>a, <1>d, <3>1, RowSets, RunTaskSets
    <2>3. CASE Stays(p, "setup")
        BY <1>e, <1>f, <2>1, <2>2, <2>3
           DEF Keeps, Touches, Sets, Fills, Works, Stays, Live
    <2>4. CASE Stays(p, "release")
        BY <1>f, <2>1, <2>2, <2>4, NoClaim, StepNames DEF Keeps, Touches, Sets, Fills
    <2> QED  BY <1>5, <1>a, <2>3, <2>4, LoadStays, FailStays DEF Clean
<1>6. CASE Invalidate(p)
    BY <1>6 DEF Invalidate
<1>7. CASE Produce(p) \/ SetupFails(p)
    <2>1. proc[p].pc = "setup" /\ resv' = resv
        BY <1>7, <1>e DEF Produce, SetupFails, Works, At
    <2>2. \E v : Sets(c, v, sess[c].status)
        <3>1. \/ \E v \in BOOLEAN : \E t :
                     sess' = [sess EXCEPT ![c].run = v, ![c].task = t]
              \/ sess' = sess
            BY <1>7 DEF Produce, SetupFails
        <3> HIDE DEF c
        <3> QED  BY <1>a, <1>d, <3>1, RunTaskSets, RowSets
    <2>3. Stays(p, "markUp") \/ Stays(p, "release")
        BY <1>7, <1>a, GotoStays, FailStays DEF Produce, SetupFails
    <2>4. Works(p)'
        BY <2>3, NoClaim, StepNames
    <2>5. Fills(c) /\ sess[c].status # "none"
        BY <1>e, <2>1 DEF Works, Live, Fills
    <2> QED  BY <2>1, <2>2, <2>4, <2>5 DEF Keeps, Touches, Sets
<1>8. CASE MarkUp(p)
    <2>1. Sets(c, sess[c].run, "up") /\ resv' = resv
        <3>1. /\ sess' = [sess EXCEPT ![c].status = "up", ![c].sleep = 0]
              /\ resv' = resv
            BY <1>8 DEF MarkUp
        <3> HIDE DEF c
        <3> QED  BY <1>a, <1>d, <3>1, RowSets
    <2>2. Works(p)'
        BY <1>8, <1>a, GotoStays, NoClaim, StepNames DEF MarkUp
    <2> QED  BY <2>1, <2>2 DEF Keeps, Touches, Sets, Fills
<1>9. CASE RecordWake(p)
    <2>1. sess' = sess /\ resv' = resv
        BY <1>9 DEF RecordWake
    <2>2. Works(p)'
        BY <1>9, <1>a, GotoStays, NoClaim, StepNames DEF RecordWake
    <2> QED  BY <1>f, <2>1, <2>2 DEF Keeps, Touches, Fills
<1>10. CASE ReleaseSlot(p)
    <2>1. Works(p)'
        BY <1>10, <1>a, GotoStays, ReturnLeaves, NoClaim, StepNames DEF ReleaseSlot
    <2>2. /\ sess' = sess
          /\ \A d \in Sessions \ {c} : resv'[d] = resv[d]
          /\ resv'[c] = resv[c] \/ resv'[c] = None
        BY <1>10, <1>a, <1>d DEF ReleaseSlot, TypeOK
    <2> QED  BY <1>b, <1>f, <2>1, <2>2 DEF Keeps, Touches, Fills
<1>11. CASE RetryCreate(p)
    <2>1. Sets(c, sess[c].run, sess[c].status) /\ resv' = resv
        <3>1. (\E t : sess' = [sess EXCEPT ![c].task = t]) /\ resv' = resv
            BY <1>11 DEF RetryCreate
        <3> HIDE DEF c
        <3> QED  BY <1>a, <1>d, <3>1, TaskSets
    <2>2. CASE Stays(p, Existing(p)) /\ proc[p].pc = "create"
        <3>1. Live(c)
            BY <1>11 DEF RetryCreate
        <3> QED  BY <1>e, <2>1, <2>2, <3>1
                 DEF Keeps, Touches, Sets, Fills, Works, Stays, Existing, Live
    <2>3. CASE Stays(p, "queue") \/ Stays(p, "release")
        BY <1>f, <2>1, <2>3, NoClaim, StepNames DEF Keeps, Touches, Sets, Fills
    <2> QED  BY <1>11, <1>a, <2>2, <2>3, LoadStays, GotoStays, FailStays, StepNames
                DEF RetryCreate, Existing, At
<1> QED  BY <1>1, <1>2, <1>3, <1>4, <1>5, <1>6, <1>7, <1>8, <1>9, <1>10, <1>11

(* Down, sleep, destroy and the wake loop's bookkeeping fill no slot.        *)
LEMMA SleepKeeps ==
    ASSUME SlotInv, NEW p \in Procs,
           \/ AcceptSleep(p) \/ MarkAsleep(p)
           \/ RecordIdle(p) \/ MarkDown(p) \/ CleanDown(p)
           \/ CleanDestroy(p) \/ MarkDestroyed(p) \/ DropReservation(p)
           \/ RecordFailure(p) \/ Suspend(p)
    PROVE  Keeps(p)
<1> DEFINE c == proc[p].s
<1>a. TypeOK
    BY DEF SlotInv
<1>b. None \notin Procs
    BY LifecycleAssumption
<1>c. ~At(p, "idle")
    BY DEF AcceptSleep, MarkAsleep, RecordIdle, MarkDown, CleanDown, CleanDestroy,
           MarkDestroyed, DropReservation, RecordFailure, Suspend, At
<1>d. c \in Sessions
    BY <1>c DEF SlotInv, LockOwned
<1>e. sess[c].run => sess[c].status # "none"
    BY <1>d DEF SlotInv, RowsLive, Live
<1>f. Works(p)'
    <2>1. \/ Return(p)
          \/ \E pc \in {"queueMark", "downMark", "downClean", "destroyMark",
                        "destroyRelease", "suspend"} : Goto(p, pc)
        BY DEF AcceptSleep, MarkAsleep, RecordIdle, MarkDown, CleanDown,
               CleanDestroy, MarkDestroyed, DropReservation, RecordFailure, Suspend
    <2>2. \/ Leaves(p)
          \/ \E pc \in Steps \ {"create", "teardown", "clean", "setup", "rebuild"} :
                Stays(p, pc)
        BY <1>a, <2>1, GotoStays, ReturnLeaves, StepNames
    <2> QED  BY <2>2, NoClaim
<1>g. /\ \A d \in Sessions \ {c} : resv'[d] = resv[d]
      /\ resv'[c] = resv[c] \/ resv'[c] = None
    BY <1>a, <1>d DEF AcceptSleep, MarkAsleep, RecordIdle, MarkDown, CleanDown,
           CleanDestroy, MarkDestroyed, DropReservation, RecordFailure, Suspend, TypeOK
<1>1. \/ Sets(c, sess[c].run, sess[c].status)
      \/ Sets(c, FALSE, sess[c].status)
      \/ Sets(c, FALSE, "none")
      \/ Sets(c, sess[c].run, "down")
    <2>1. \/ sess' = sess
          \/ \E t : sess' = [sess EXCEPT ![c].run = FALSE, ![c].task = t]
          \/ sess' = [sess EXCEPT ![c] = NoRow]
          \/ \E t : sess' = [sess EXCEPT ![c].sleep = t, ![c].status = "down"]
          \/ \E t : sess' = [sess EXCEPT ![c].status = "down", ![c].sleep = t]
        BY DEF AcceptSleep, MarkAsleep, RecordIdle, MarkDown, CleanDown,
               CleanDestroy, MarkDestroyed, DropReservation, RecordFailure, Suspend
    <2> HIDE DEF c
    <2> QED  BY <1>a, <1>d, <2>1, RowSets, RunTaskSets
<1>2. Touches(c) /\ (resv'[c] \in Procs => resv[c] \in Procs)
    BY <1>b, <1>g, <1>1 DEF Touches, Sets
<1>3. /\ sess'[c].run => sess[c].run
      /\ sess'[c].run => sess'[c].status # "none"
    BY <1>e, <1>1 DEF Sets
<1> QED  BY <1>f, <1>2, <1>3 DEF Keeps, Fills

(* Neither does a crash.                                                     *)
LEMMA CrashKeeps ==
    ASSUME SlotInv, NEW p \in Procs, Crash(p)
    PROVE  Keeps(p)
<1> DEFINE c == proc[p].s
<1>a. TypeOK /\ LockOwned /\ ReservationOwned
    BY DEF SlotInv
<1>b. Dead \notin Procs
    BY LifecycleAssumption
<1>c. c \in Sessions
    BY <1>a DEF Crash, LockOwned
<1>1. Works(p)'
    BY <1>a, ReturnLeaves, NoClaim DEF Crash
<1>2. sess' = sess /\ \A d \in Sessions : resv'[d] = IF resv[d] = p THEN Dead ELSE resv[d]
    BY DEF Crash
<1>3. \A d \in Sessions \ {c} : resv[d] # p
    BY <1>a DEF ReservationOwned
<1>4. sess[c].run => sess[c].status # "none"
    BY <1>c DEF SlotInv, RowsLive, Live
<1> QED  BY <1>b, <1>c, <1>1, <1>2, <1>3, <1>4 DEF Keeps, Touches, Fills

(* An admission reserves the slot of its own session and no other.           *)
LEMMA AdmitClaims ==
    ASSUME SlotInv, NEW p \in Procs, Admit(p)
    PROVE  LET c == proc[p].s
           IN /\ c \in Sessions /\ Touches(c) /\ Works(p)'
              /\ sess' = sess /\ resv'[c] = p
<1> DEFINE c == proc[p].s
<1>a. TypeOK
    BY DEF SlotInv
<1>1. c \in Sessions
    BY DEF SlotInv, LockOwned, Admit, At
<1>2. /\ sess' = sess /\ resv'[c] = p
      /\ \A d \in Sessions \ {c} :
            resv'[d] = resv[d] \/ (resv[d] = Dead /\ resv'[d] = None)
    BY <1>1 DEF Admit, Swept
<1>3. PICK pc \in AfterAdmission(p) : Stays(p, pc)
    BY <1>a, GotoStays DEF Admit
<1>4. Works(p)'
    BY <1>2, <1>3, AfterAdmissionUp DEF Works, Stays, AfterAdmission, Existing, Live
<1> QED  BY <1>1, <1>2, <1>4 DEF Touches

(* The lock keeps every other process's claim standing through p's step.     *)
LEMMA ClaimsStand ==
    ASSUME SlotInv, NEW p \in Procs, ~At(p, "idle"), Moves(p),
           Touches(proc[p].s), Works(p)',
           sess'[proc[p].s].run => sess'[proc[p].s].status # "none"
    PROVE  RowsLive' /\ Covered'
<1> DEFINE c == proc[p].s
<1>a. TypeOK /\ LockOwned
    BY DEF SlotInv
<1>b. c \in Sessions /\ lock[c] = p
    BY <1>a DEF LockOwned
<1>c. Dead \notin Procs
    BY LifecycleAssumption
<1>1. RowsLive'
    BY <1>b DEF SlotInv, RowsLive, Live, Touches
<1>2. ASSUME NEW q \in Procs \ {p} PROVE Works(q)'
    <2> DEFINE d == proc[q].s
    <2>1. proc'[q] = proc[q]
        BY DEF Moves, Leaves, Stays, Alone
    <2>2. CASE At(q, "idle")
        BY <2>1, <2>2 DEF Works, At
    <2>3. CASE ~At(q, "idle")
        <3>1. d \in Sessions /\ d # c
            BY <1>a, <1>b, <2>3 DEF LockOwned
        <3>2. sess'[d] = sess[d] /\ (resv[d] = q => resv'[d] = q)
            BY <1>c, <3>1 DEF Touches
        <3>3. Works(q)
            BY DEF SlotInv, Covered
        <3> QED  BY <2>1, <3>2, <3>3 DEF Works, Live
    <2> QED  BY <2>2, <2>3
<1> QED  BY <1>1, <1>2 DEF Covered

(* Every step, and a crash, is a move of the process that takes it.          *)
LEMMA StepMoves ==
    ASSUME TypeOK, LockOwned, ReservationOwned, NEW p \in Procs, Step(p) \/ Crash(p)
    PROVE  ~At(p, "idle") /\ Moves(p)
BY UpOwns, SleepOwns, CrashOwns DEF Step, Owns

(* A run node stands on a live row, and a setup in progress is covered by a  *)
(* slot it holds, after every step.                                          *)
LEMMA CoverStep ==
    ASSUME SlotInv, NodesMayDie = FALSE, [Next]_vars
    PROVE  RowsLive' /\ Covered'
<1>a. TypeOK /\ LockOwned /\ ReservationOwned
    BY DEF SlotInv
<1>1. CASE UNCHANGED vars
    BY <1>1 DEF vars, SlotInv, RowsLive, Covered, Works, Live
<1>2. ASSUME NEW p \in Procs, Step(p) \/ Crash(p)
      PROVE  RowsLive' /\ Covered'
    <2>1. ~At(p, "idle") /\ Moves(p)
        BY <1>2, <1>a, StepMoves
    <2>2. CASE Admit(p)
        <3>1. sess[proc[p].s].run => sess[proc[p].s].status # "none"
            BY <2>2, AdmitClaims DEF SlotInv, RowsLive, Live
        <3> QED  BY <2>1, <2>2, <3>1, AdmitClaims, ClaimsStand
    <2>3. CASE ~Admit(p)
        <3>1. Keeps(p)
            BY <1>2, <2>3, UpKeeps, SleepKeeps, CrashKeeps DEF Step
        <3> QED  BY <2>1, <3>1, ClaimsStand DEF Keeps
    <2> QED  BY <2>2, <2>3
<1>3. CASE Starting
    <2>1. PICK p \in Procs, c \in Sessions : Starts(p, c) /\ proc'[p].pc \in FirstSteps
        BY <1>3, <1>a, StartingStarts
    <2>2. sess' = sess /\ resv' = resv
        BY <1>3, <1>a, StartingStarts
    <2>3. RowsLive'
        BY <2>2 DEF SlotInv, RowsLive, Live
    <2>4. Works(p)'
        BY <2>1 DEF Works, FirstSteps
    <2>5. ASSUME NEW q \in Procs \ {p} PROVE Works(q)'
        BY <2>1, <2>2 DEF SlotInv, Covered, Works, Live, Starts, Alone
    <2> QED  BY <2>3, <2>4, <2>5 DEF Covered
<1>4. ASSUME NEW c \in Sessions, SetUpTask(c) \/ Finalize(c) PROVE RowsLive' /\ Covered'
    <2>1. /\ proc' = proc /\ resv' = resv
          /\ \A d : sess'[d].run = sess[d].run /\ sess'[d].status = sess[d].status
        <3>1. CASE SetUpTask(c)
            BY <1>a, <3>1 DEF SetUpTask, TypeOK, SessionRow
        <3>2. CASE Finalize(c)
            BY <1>a, <3>2 DEF Finalize, TypeOK, SessionRow
        <3> QED  BY <1>4, <3>1, <3>2
    <2> QED  BY <2>1 DEF SlotInv, RowsLive, Covered, Works, Live
<1>5. CASE (\E c \in Sessions : Skip(c)) \/ Scan
    <2>1. UNCHANGED <<sess, resv, proc>>
        BY <1>5 DEF Skip, NextCandidate, Scan
    <2> QED  BY <2>1 DEF SlotInv, RowsLive, Covered, Works, Live
<1> QED  BY <1>1, <1>2, <1>3, <1>4, <1>5, NextKinds

(* The abstract step each step of the lifecycle is: an admission of a child  *)
(* that held no slot acquires one, and every other step gives at most its    *)
(* own session's slot back.                                                  *)
LEMMA SlotsCardinality == \A S : Slots!Cardinality(S) = Cardinality(S)
BY DEF Slots!Cardinality, Cardinality

(* Every step of the lifecycle is a step of the slot pool or a stutter.      *)
LEMMA SlotStep ==
    ASSUME SlotInv, NodesMayDie = FALSE, [Next]_vars
    PROVE  [Slots!Next]_Holding
<1>a. TypeOK /\ LockOwned /\ ReservationOwned
    BY DEF SlotInv
<1>b. None \notin Procs /\ Dead \notin Procs
    BY LifecycleAssumption
<1>1. ASSUME UNCHANGED <<sess, resv>> PROVE Holding' = Holding
    BY <1>1 DEF Holding, Fills
<1>2. ASSUME NEW p \in Procs, Admit(p) PROVE [Slots!Next]_Holding
    <2> DEFINE c == proc[p].s
    <2>1. c \in Sessions /\ Touches(c) /\ sess' = sess /\ resv'[c] = p
        BY <1>2, AdmitClaims
    <2>2. Cardinality(Siblings(c)) < Limit
        BY <1>2 DEF Admit, SlotFree
    <2>3. Holding' = Holding \cup {c}
        BY <1>b, <2>1 DEF Holding, Fills, Touches
    <2>4. CASE c \in Holding
        BY <2>3, <2>4
    <2>5. CASE c \notin Holding
        <3>1. Siblings(c) = Holding
            BY <2>5 DEF Siblings, Holding
        <3> QED  BY <2>1, <2>2, <2>3, <2>5, <3>1, SlotsCardinality DEF Slots!Next, Slots!Acquire
    <2> QED  BY <2>4, <2>5
<1>3. ASSUME NEW p \in Procs, Step(p) \/ Crash(p), ~Admit(p)
      PROVE  [Slots!Next]_Holding
    <2> DEFINE c == proc[p].s
    <2>1. Keeps(p)
        BY <1>3, UpKeeps, SleepKeeps, CrashKeeps DEF Step
    <2>2. c \in Sessions
        BY <1>3, <1>a, StepMoves DEF LockOwned
    <2>3. \A d \in Sessions \ {c} : d \in Holding' <=> d \in Holding
        BY <1>b, <2>1 DEF Keeps, Touches, Holding, Fills
    <2>4. c \in Holding' => c \in Holding
        BY <2>1, <2>2 DEF Keeps, Holding, Fills
    <2>5. Holding \subseteq Sessions /\ Holding' \subseteq Sessions
        BY DEF Holding
    <2>6. Holding' = Holding \/ Holding' = Holding \ {c}
        BY <2>3, <2>4, <2>5
    <2> QED  BY <2>2, <2>6 DEF Slots!Next, Slots!Release
<1>4. ASSUME NEW c \in Sessions, SetUpTask(c) \/ Finalize(c) PROVE Holding' = Holding
    <2>1. resv' = resv /\ \A d : sess'[d].run = sess[d].run
        <3>1. CASE SetUpTask(c)
            BY <1>a, <3>1 DEF SetUpTask, TypeOK, SessionRow
        <3>2. CASE Finalize(c)
            BY <1>a, <3>2 DEF Finalize, TypeOK, SessionRow
        <3> QED  BY <1>4, <3>1, <3>2
    <2> QED  BY <2>1 DEF Holding, Fills
<1>5. CASE Starting \/ Scan \/ (\E c \in Sessions : Skip(c)) \/ UNCHANGED vars
    <2>1. UNCHANGED <<sess, resv>>
        BY <1>5, <1>a, StartingStarts DEF Scan, Skip, NextCandidate, vars
    <2> QED  BY <1>1, <2>1
<1> QED  BY <1>2, <1>3, <1>4, <1>5, NextKinds

(* The strengthened invariant the refinement rests on.                       *)
LEMMA SlotInvariant ==
    ASSUME NodesMayDie = FALSE PROVE Spec => []SlotInv
<1>1. Init => SlotInv
    <2>1. Init => TypeOK
        BY InitTypeOK
    <2> QED  BY <2>1, LifecycleAssumption DEF Init, SlotInv, LockOwned,
                ReservationOwned, RowsLive, Covered, Works, Live, At, AtRest, NoRow
<1>2. SlotInv /\ TypeOK' /\ [Next]_vars => SlotInv'
    BY OwnershipStep, CoverStep DEF SlotInv
<1> QED  BY <1>1, <1>2, TypeCorrect, PTL DEF Spec

(* While no node dies on its own, the commands, the wake loop and their      *)
(* crashes implement the pool of Limit slots, whatever they interleave.      *)
THEOREM SlotsImplemented ==
    ASSUME NodesMayDie = FALSE PROVE Spec => ImplementsCapSlots
<1>1. Init => Slots!Init
    BY LifecycleAssumption DEF Init, Slots!Init, Holding, Fills, NoRow
<1>2. SlotInv /\ [Next]_vars => [Slots!Next]_Holding
    BY SlotStep
<1> QED  BY <1>1, <1>2, SlotInvariant, PTL DEF Spec, ImplementsCapSlots, Slots!Spec

(* A pool of slots is never overdrawn, so neither is the cap.                *)
THEOREM CapNeverExceeded ==
    ASSUME NodesMayDie = FALSE PROVE Spec => []CapRespected
<1>a. Limit \in Nat /\ IsFiniteSet(Sessions)
    BY LifecycleAssumption
<1>b. IsFiniteSet(Holding) /\ Cardinality(Holding) \in Nat
    BY <1>a, FS_Subset, FS_CardinalityType DEF Holding
<1>1. Init => CapRespected
    <2>1. Init => Holding = {}
        BY LifecycleAssumption DEF Init, Holding, Fills, NoRow
    <2> QED  BY <1>a, <2>1, FS_EmptySet DEF CapRespected
<1>2. CapRespected /\ [Slots!Next]_Holding => CapRespected'
    <2> SUFFICES ASSUME CapRespected, [Slots!Next]_Holding
                 PROVE  Cardinality(Holding') <= Limit
        BY DEF CapRespected
    <2>1. CASE Holding' = Holding
        BY <2>1 DEF CapRespected
    <2>2. ASSUME NEW c \in Sessions, Slots!Acquire(c)
          PROVE  Cardinality(Holding') <= Limit
        <3>1. /\ Holding' = Holding \cup {c} /\ c \notin Holding
              /\ Cardinality(Holding) < Limit
            BY <2>2, SlotsCardinality DEF Slots!Acquire
        <3>2. Cardinality(Holding \cup {c}) = Cardinality(Holding) + 1
            BY <1>b, <3>1, FS_AddElement
        <3> QED  BY <1>a, <1>b, <3>1, <3>2
    <2>3. ASSUME NEW c \in Sessions, Slots!Release(c)
          PROVE  Cardinality(Holding') <= Limit
        <3>1. Holding' = Holding \ {c}
            BY <2>3 DEF Slots!Release
        <3>2. /\ Cardinality(Holding \ {c}) \in Nat
              /\ Cardinality(Holding \ {c}) <= Cardinality(Holding)
            BY <1>b, FS_Subset, FS_CardinalityType
        <3> QED  BY <1>a, <1>b, <3>1, <3>2 DEF CapRespected
    <2> QED  BY <2>1, <2>2, <2>3 DEF Slots!Next
<1>3. SlotInv /\ [Next]_vars => [Slots!Next]_Holding
    BY SlotStep
<1> QED  BY <1>1, <1>2, <1>3, SlotInvariant, PTL DEF Spec
-------------------------------------------------------------------------------
(* The attempt budget.  The wake loop starts an attempt only below the limit *)
(* and, holding the lock, is the only one to add to the count until it ends. *)
Tries(p)  == /\ At(p, "failed") => proc[p].op = "wake"
             /\ proc[p].op = "wake" /\ ~At(p, "idle") /\ ~At(p, "suspend")
                   => wlog[proc[p].s].fails < AttemptLimit
TriesInv  == TypeOK /\ LockOwned /\ ReservationOwned /\ AttemptsBounded
             /\ \A p \in Procs : Tries(p)

(* What a step of p does to the counts.                                      *)
Counts(p) == LET c == proc[p].s
             IN /\ \A d \in Sessions \ {c} : wlog'[d] = wlog[d]
                /\ \/ wlog'[c].fails = wlog[c].fails \/ wlog'[c].fails = 0
                   \/ /\ At(p, "failed") /\ wlog'[c].fails = wlog[c].fails + 1
                      /\ Leaves(p) \/ Stays(p, "suspend")
                /\ Stays(p, "failed") => proc[p].op = "wake"
                /\ At(p, "suspend") => Leaves(p)

(* What each update of the log does to the count of failed wakes.            *)
LEMMA LogSets ==
    ASSUME TypeOK, NEW c \in Sessions
    PROVE  /\ wlog' = wlog => wlog'[c].fails = wlog[c].fails
           /\ wlog' = [wlog EXCEPT ![c] = NoLog] => wlog'[c].fails = 0
           /\ \A r : wlog' = [wlog EXCEPT ![c] = Asleep(r)] => wlog'[c].fails = 0
           /\ wlog' = [wlog EXCEPT ![c].susp = TRUE]
                  => wlog'[c].fails = wlog[c].fails
           /\ wlog' = [wlog EXCEPT ![c].susp = FALSE]
                  => wlog'[c].fails = wlog[c].fails
           /\ wlog' = [wlog EXCEPT ![c].fails = @ + 1]
                  => wlog'[c].fails = wlog[c].fails + 1
BY DEF TypeOK, WakeLog, NoLog, Asleep

(* Which steps change the count: the two failure steps and a new sleep.      *)
LEMMA StepCounts ==
    ASSUME TypeOK, LockOwned, ReservationOwned, NEW p \in Procs, Step(p) \/ Crash(p)
    PROVE  Counts(p)
<1> DEFINE c == proc[p].s
<1>a. c \in Sessions
    BY StepMoves DEF LockOwned
<1>b. Stays(p, "failed") => proc[p].op = "wake"
    <2> SUFFICES ASSUME Stays(p, "failed") PROVE proc[p].op = "wake"
        OBVIOUS
    <2>1. ~Return(p) /\ ~Fail(p)
        BY ReturnLeaves, FailStays DEF Stays, Leaves, AtRest
    <2>2. /\ \A pc : Goto(p, pc) => pc = "failed"
          /\ \A pc, task : Load(p, pc, task) => pc = "failed"
        BY GotoStays, LoadStays DEF Stays
    <2>3. ~Snapshot(p) /\ ~Admit(p)
        <3>1. "failed" \notin AfterAdmission(p)
            BY AfterAdmissionUp
        <3>2. ~Snapshot(p)
            BY <3>1, SnapshotStays DEF Stays
        <3> QED  BY <2>2, <3>1, <3>2 DEF Admit
    <2>4. ReleaseSlot(p)
        BY <2>1, <2>2, <2>3 DEF Step, Crash, Refuse, Create, RetryCreate, Existing,
           Teardown, Clean, Invalidate, Produce, SetupFails, MarkUp, RecordWake,
           AcceptSleep,
           MarkAsleep, RecordIdle, MarkDown, CleanDown, CleanDestroy,
           MarkDestroyed, DropReservation, RecordFailure, Suspend
    <2> QED  BY <2>1, <2>4 DEF ReleaseSlot
<1>c. At(p, "suspend") => Leaves(p)
    BY ReturnLeaves DEF Step, Crash, Snapshot, Admit, Refuse, Create, RetryCreate,
       Teardown, Clean, Invalidate, Produce, SetupFails, MarkUp, RecordWake, ReleaseSlot,
       AcceptSleep,
       MarkAsleep, RecordIdle, MarkDown, CleanDown, CleanDestroy,
       MarkDestroyed, DropReservation, RecordFailure, Suspend, At
<1>d. CASE RecordFailure(p)
    <2>1. At(p, "failed") /\ wlog' = [wlog EXCEPT ![c].fails = @ + 1]
        BY <1>d DEF RecordFailure
    <2>2. Leaves(p) \/ Stays(p, "suspend")
        BY <1>d, ReturnLeaves, GotoStays DEF RecordFailure
    <2>3. \A d \in Sessions \ {c} : wlog'[d] = wlog[d]
        BY <1>a, <2>1 DEF TypeOK
    <2>4. wlog'[c].fails = wlog[c].fails + 1
        <3> HIDE DEF c
        <3> QED  BY <1>a, <2>1, LogSets
    <2> QED  BY <1>b, <1>c, <2>1, <2>2, <2>3, <2>4 DEF Counts
<1>e. CASE ~RecordFailure(p)
    <2>1. \/ wlog' = wlog
          \/ wlog' = [wlog EXCEPT ![c] = NoLog]
          \/ \E r : wlog' = [wlog EXCEPT ![c] = Asleep(r)]
          \/ wlog' = [wlog EXCEPT ![c].susp = TRUE]
          \/ wlog' = [wlog EXCEPT ![c].susp = FALSE]
        <3>1. \/ wlog' = wlog \/ Create(p) \/ RecordWake(p) \/ AcceptSleep(p)
              \/ RecordIdle(p) \/ MarkDestroyed(p) \/ Suspend(p)
            BY <1>e DEF Step, Crash, Snapshot, Admit, Refuse, RetryCreate,
               Teardown, Clean, Invalidate, Produce, SetupFails, MarkUp, ReleaseSlot,
               MarkAsleep,
               MarkDown, CleanDown, CleanDestroy, DropReservation
        <3> QED  BY <3>1 DEF Create, RecordWake, AcceptSleep, RecordIdle,
                             MarkDestroyed, Suspend
    <2>2. \A d \in Sessions \ {c} : wlog'[d] = wlog[d]
        BY <1>a, <2>1 DEF TypeOK
    <2>3. wlog'[c].fails = wlog[c].fails \/ wlog'[c].fails = 0
        <3> HIDE DEF c
        <3> QED  BY <1>a, <2>1, LogSets
    <2> QED  BY <1>b, <1>c, <2>2, <2>3 DEF Counts
<1> QED  BY <1>d, <1>e

(* A wake under way has an attempt left, whatever anybody else does.         *)
LEMMA TriesStep ==
    ASSUME TriesInv, [Next]_vars
    PROVE  AttemptsBounded' /\ \A p \in Procs : Tries(p)'
<1>a. TypeOK /\ LockOwned /\ ReservationOwned
    BY DEF TriesInv
<1>b. AttemptLimit \in Nat \ {0} /\ None \notin Procs
    BY LifecycleAssumption
<1>c. \A c \in Sessions : wlog[c].fails \in Nat /\ wlog[c].fails <= AttemptLimit
    BY <1>a DEF TypeOK, WakeLog, TriesInv, AttemptsBounded
<1>1. ASSUME UNCHANGED <<wlog, proc>>
      PROVE  AttemptsBounded' /\ \A p \in Procs : Tries(p)'
    BY <1>1 DEF TriesInv, AttemptsBounded, Tries, At
<1>2. ASSUME NEW p \in Procs, Step(p) \/ Crash(p)
      PROVE  AttemptsBounded' /\ \A q \in Procs : Tries(q)'
    <2> DEFINE c == proc[p].s
    <2>1. Counts(p) /\ ~At(p, "idle") /\ Moves(p) /\ Tries(p)
        BY <1>2, <1>a, StepCounts, StepMoves DEF TriesInv
    <2>2. c \in Sessions /\ lock[c] = p
        BY <1>a, <2>1 DEF LockOwned
    <2>3. At(p, "failed") => wlog[c].fails < AttemptLimit
        BY <2>1 DEF Tries, At
    <2>4. wlog'[c].fails <= AttemptLimit
        BY <1>b, <1>c, <2>1, <2>2, <2>3 DEF Counts
    <2>5. AttemptsBounded'
        <3>1. ASSUME NEW d \in Sessions, d # c PROVE wlog'[d].fails <= AttemptLimit
            BY <1>c, <2>1, <3>1 DEF Counts
        <3> QED  BY <2>4, <3>1 DEF AttemptsBounded
    <2>6. Tries(p)'
        <3>1. CASE Leaves(p)
            BY <3>1 DEF Tries, Leaves, AtRest, At
        <3>2. ASSUME NEW pc \in Steps \ {"idle"}, Stays(p, pc) PROVE Tries(p)'
            <4>1. proc'[p].pc = pc /\ proc'[p].op = proc[p].op /\ proc'[p].s = c
                BY <3>2 DEF Stays
            <4>2. ~At(p, "suspend")
                BY <2>1, <3>2 DEF Counts, Leaves, Stays, AtRest
            <4>3. pc = "suspend" \/ wlog'[c].fails = wlog[c].fails \/ wlog'[c].fails = 0
                BY <2>1, <3>2 DEF Counts, Leaves, Stays, AtRest
            <4>4. pc = "failed" => proc[p].op = "wake"
                BY <2>1, <3>2 DEF Counts
            <4> QED  BY <1>b, <2>1, <4>1, <4>2, <4>3, <4>4 DEF Tries, At
        <3> QED  BY <2>1, <3>1, <3>2 DEF Moves
    <2>7. ASSUME NEW q \in Procs \ {p} PROVE Tries(q)'
        <3>1. proc'[q] = proc[q]
            BY <2>1 DEF Moves, Leaves, Stays, Alone
        <3>2. Tries(q)
            BY DEF TriesInv
        <3>3. ~At(q, "idle") => proc[q].s \in Sessions \ {c}
            BY <1>a, <2>2 DEF LockOwned
        <3> QED  BY <2>1, <3>1, <3>2, <3>3 DEF Tries, At, Counts
    <2> QED  BY <2>5, <2>6, <2>7
<1>3. ASSUME NEW p \in Procs, NEW c \in Sessions, Starts(p, c),
             proc'[p].pc \notin {"failed", "suspend"},
             proc'[p].op = "wake" => wlog[c].fails < AttemptLimit,
             wlog' = wlog \/ wlog' = [wlog EXCEPT ![c] = Asleep("queue")]
      PROVE  AttemptsBounded' /\ \A q \in Procs : Tries(q)'
    <2>1. wlog'[c].fails = wlog[c].fails \/ wlog'[c].fails = 0
        BY <1>3, <1>a, LogSets
    <2>2. \A d \in Sessions \ {c} : wlog'[d] = wlog[d]
        BY <1>3, <1>a DEF TypeOK
    <2>3. AttemptsBounded'
        <3>1. wlog'[c].fails <= AttemptLimit
            BY <1>b, <1>c, <2>1
        <3>2. ASSUME NEW d \in Sessions, d # c PROVE wlog'[d].fails <= AttemptLimit
            BY <1>c, <2>2, <3>2
        <3> QED  BY <3>1, <3>2 DEF AttemptsBounded
    <2>4. Tries(p)'
        BY <1>3, <1>b, <2>1 DEF Tries, Starts, At
    <2>5. ASSUME NEW q \in Procs \ {p} PROVE Tries(q)'
        <3>1. proc'[q] = proc[q] /\ Tries(q)
            BY <1>3 DEF Starts, Alone, TriesInv
        <3>2. ~At(q, "idle") => proc[q].s \in Sessions \ {c}
            BY <1>3, <1>a, <1>b DEF LockOwned, Starts
        <3> QED  BY <2>2, <3>1, <3>2 DEF Tries, At
    <2> QED  BY <2>3, <2>4, <2>5
<1>4. CASE Starting
    <2>1. ASSUME NEW p \in Procs, NEW c \in Sessions, NEW cmd \in Commands \ {"wake"},
                 NEW pc \in FirstSteps, Command(p, cmd, c, pc),
                 wlog' = wlog \/ wlog' = [wlog EXCEPT ![c] = Asleep("queue")]
          PROVE  AttemptsBounded' /\ \A q \in Procs : Tries(q)'
        <3>1. Starts(p, c) /\ proc'[p].pc = pc /\ proc'[p].op = cmd
            BY <2>1, <1>a, BeginStarts DEF Command
        <3>2. pc \notin {"failed", "suspend"} /\ cmd # "wake"
            BY DEF FirstSteps
        <3> QED  BY <2>1, <3>1, <3>2, <1>3
    <2>2. {"up", "recreate", "down", "sleep", "destroy", "request"}
              \subseteq Commands \ {"wake"}
        BY DEF Commands
    <2>3. {"snap", "queueMark", "downMark", "idleEvent", "destroyClean"}
              \subseteq FirstSteps
        BY DEF FirstSteps
    <2>4. ASSUME NEW p \in Procs, NEW c \in Sessions, StartUp(p, c)
          PROVE  AttemptsBounded' /\ \A q \in Procs : Tries(q)'
        BY <2>1, <2>2, <2>3, <2>4 DEF StartUp
    <2>5. ASSUME NEW p \in Procs, NEW c \in Sessions, RequestWake(p, c)
          PROVE  AttemptsBounded' /\ \A q \in Procs : Tries(q)'
        BY <2>1, <2>2, <2>3, <2>5 DEF RequestWake
    <2>6. ASSUME NEW p \in Procs, NEW c \in Sessions, StartDown(p, c)
          PROVE  AttemptsBounded' /\ \A q \in Procs : Tries(q)'
        BY <2>1, <2>2, <2>3, <2>6 DEF StartDown
    <2>7. ASSUME NEW p \in Procs, NEW c \in Sessions, StartDestroy(p, c)
          PROVE  AttemptsBounded' /\ \A q \in Procs : Tries(q)'
        BY <2>1, <2>2, <2>3, <2>7 DEF StartDestroy
    <2>8. ASSUME NEW c \in Sessions, Wake(c)
          PROVE  AttemptsBounded' /\ \A q \in Procs : Tries(q)'
        <3>1. Starts(Daemon, c) /\ proc'[Daemon].pc = "snap"
            BY <2>8, <1>a, BeginStarts DEF Wake
        <3>2. wlog' = wlog /\ wlog[c].fails < AttemptLimit
            BY <2>8 DEF Wake, NextCandidate, Queued
        <3> QED  BY <3>1, <3>2, <1>3
    <2> QED  BY <1>4, <2>4, <2>5, <2>6, <2>7, <2>8 DEF Starting
<1>5. CASE (\E c \in Sessions : SetUpTask(c) \/ Finalize(c) \/ Skip(c)) \/ Scan \/ UNCHANGED vars
    BY <1>1, <1>5 DEF SetUpTask, Finalize, Skip, NextCandidate, Scan, vars
<1> QED  BY <1>2, <1>4, <1>5, NextKinds

(* No crash between an attempt and its events, and no interleaving with a    *)
(* command, buys a session a wake beyond wakeAttemptLimit.                   *)
THEOREM AttemptsNeverExceeded == Spec => []AttemptsBounded
<1>1. Init => TriesInv
    <2>1. Init => TypeOK
        BY InitTypeOK
    <2> QED  BY <2>1, LifecycleAssumption DEF Init, TriesInv, LockOwned,
                ReservationOwned, AttemptsBounded, Tries, At, AtRest, NoLog
<1>2. TriesInv /\ TypeOK' /\ [Next]_vars => TriesInv'
    BY OwnershipStep, TriesStep DEF TriesInv
<1>3. TriesInv => AttemptsBounded
    BY DEF TriesInv
<1> QED  BY <1>1, <1>2, <1>3, TypeCorrect, PTL DEF Spec
-------------------------------------------------------------------------------
(* Sleep and wake.  A wake that has not marked its session up works on a     *)
(* sleeper; who is about to mark a session asleep has said why in its log.   *)
Wakes(p) == proc[p].op = "wake" =>
                /\ proc[p].pc \notin {"create", "teardown", "clean"}
                /\ proc[p].pc \in {"snap", "reserve", "setup", "rebuild", "markUp"}
                       => sess[proc[p].s].status # "none" /\ sess[proc[p].s].sleep # 0
MarksAsleep(p) == \/ proc[p].pc = "queueMark"
                  \/ proc[p].pc = "downMark" /\ proc[p].op = "sleep"
Says(p) == MarksAsleep(p) => wlog[proc[p].s].reason # "none"
SleepInv == TypeOK /\ LockOwned /\ ReservationOwned /\ SleepHasReason
            /\ \A p \in Procs : Wakes(p) /\ Says(p)

(* What an update of a row leaves of its sleep, and of the other rows.       *)
Sleeps(c, since) == /\ sess'[c].sleep = since
                    /\ \A d \in Sessions \ {c} : sess'[d] = sess[d]
LEMMA SleepSets ==
    ASSUME TypeOK, NEW c \in Sessions
    PROVE  /\ \A v : sess' = [sess EXCEPT ![c].run = v]
                        => Sleeps(c, sess[c].sleep) /\ sess'[c].status = sess[c].status
           /\ \A v : sess' = [sess EXCEPT ![c].task = v]
                        => Sleeps(c, sess[c].sleep) /\ sess'[c].status = sess[c].status
           /\ sess' = [sess EXCEPT ![c].status = "down"] => Sleeps(c, sess[c].sleep)
           /\ \A t : sess' = [sess EXCEPT ![c] = NewRow(t)] => Sleeps(c, 0)
           /\ sess' = [sess EXCEPT ![c] = NoRow] => Sleeps(c, 0)
           /\ sess' = sess => Sleeps(c, sess[c].sleep)
<1>1. \A t : NewRow(t).sleep = 0
    BY DEF NewRow, NoRow
<1>2. NoRow.sleep = 0
    BY DEF NoRow
<1>3. sess \in [Sessions -> SessionRow]
    BY DEF TypeOK
<1> QED  BY <1>1, <1>2, <1>3 DEF SessionRow, Sleeps

(* The updates of two fields of a row.                                       *)
LEMMA SleepSetsTwo ==
    ASSUME TypeOK, NEW c \in Sessions, NEW v, NEW t
    PROVE  /\ sess' = [sess EXCEPT ![c].run = v, ![c].task = t]
                  => Sleeps(c, sess[c].sleep) /\ sess'[c].status = sess[c].status
           /\ sess' = [sess EXCEPT ![c].status = v, ![c].sleep = t] => Sleeps(c, t)
           /\ sess' = [sess EXCEPT ![c].sleep = t, ![c].status = v] => Sleeps(c, t)
<1> DEFINE r == sess[c]
<1>1. r \in SessionRow /\ sess \in [Sessions -> SessionRow]
    BY DEF TypeOK
<1>2. ASSUME sess' = [sess EXCEPT ![c].run = v, ![c].task = t]
      PROVE  Sleeps(c, sess[c].sleep) /\ sess'[c].status = sess[c].status
    <2>1. sess'[c] = [[r EXCEPT !.run = v] EXCEPT !.task = t]
        BY <1>1, <1>2
    <2>2. \A d \in Sessions \ {c} : sess'[d] = sess[d]
        BY <1>1, <1>2
    <2> HIDE DEF r
    <2>3. sess'[c].sleep = r.sleep /\ sess'[c].status = r.status
        BY <1>1, <2>1 DEF SessionRow
    <2> QED  BY <2>2, <2>3 DEF Sleeps, r
<1>3. ASSUME sess' = [sess EXCEPT ![c].status = v, ![c].sleep = t] PROVE Sleeps(c, t)
    <2>1. sess'[c] = [[r EXCEPT !.status = v] EXCEPT !.sleep = t]
        BY <1>1, <1>3
    <2>2. \A d \in Sessions \ {c} : sess'[d] = sess[d]
        BY <1>1, <1>3
    <2> HIDE DEF r
    <2>3. sess'[c].sleep = t
        BY <1>1, <2>1 DEF SessionRow
    <2> QED  BY <2>2, <2>3 DEF Sleeps
<1>4. ASSUME sess' = [sess EXCEPT ![c].sleep = t, ![c].status = v] PROVE Sleeps(c, t)
    <2>1. sess'[c] = [[r EXCEPT !.sleep = t] EXCEPT !.status = v]
        BY <1>1, <1>4
    <2>2. \A d \in Sessions \ {c} : sess'[d] = sess[d]
        BY <1>1, <1>4
    <2> HIDE DEF r
    <2>3. sess'[c].sleep = t
        BY <1>1, <2>1 DEF SessionRow
    <2> QED  BY <2>2, <2>3 DEF Sleeps
<1> QED  BY <1>2, <1>3, <1>4

(* What an update of a log leaves of the reason.                             *)
LEMMA ReasonSets ==
    ASSUME TypeOK, NEW c \in Sessions
    PROVE  /\ wlog' = [wlog EXCEPT ![c] = Asleep("queue")] => wlog'[c].reason # "none"
           /\ wlog' = [wlog EXCEPT ![c] = Asleep("idle")] => wlog'[c].reason # "none"
           /\ wlog' = [wlog EXCEPT ![c].susp = TRUE] => wlog'[c].reason = wlog[c].reason
           /\ wlog' = [wlog EXCEPT ![c].susp = FALSE] => wlog'[c].reason = wlog[c].reason
           /\ wlog' = [wlog EXCEPT ![c].fails = @ + 1] => wlog'[c].reason = wlog[c].reason
BY DEF TypeOK, WakeLog, Asleep

(* What a process that goes on or leaves still has to show.                  *)
Plain == {"recordWake", "release", "queue", "failed", "suspend", "downClean",
          "destroyMark", "destroyRelease"}
LEMMA PlainNaps ==
    ASSUME NEW p \in Procs, Leaves(p) \/ \E pc \in Plain : Stays(p, pc)
    PROVE  Wakes(p)' /\ Says(p)'
BY DEF Wakes, Says, MarksAsleep, Leaves, Stays, AtRest, Plain

(* What a step of p does to sleeps and reasons.                              *)
Named(c) == sess[c].sleep # 0 => wlog[c].reason # "none"
Naps(p) == LET c == proc[p].s
           IN /\ Wakes(p)' /\ Says(p)'
              /\ sess'[c].sleep # 0 => wlog'[c].reason # "none"
              /\ \A d \in Sessions \ {c} : sess'[d] = sess[d]

(* An up, up to its setup.                                                   *)
LEMMA AdmissionNaps ==
    ASSUME TypeOK, NEW p \in Procs, proc[p].s \in Sessions,
           Wakes(p), Says(p), Named(proc[p].s),
           Snapshot(p) \/ Admit(p) \/ Refuse(p)
    PROVE  Naps(p)
<1> DEFINE c == proc[p].s
<1>1. sess' = sess /\ wlog' = wlog /\ proc[p].pc \in {"snap", "reserve"}
    BY DEF Snapshot, Admit, Refuse, At
<1>2. \E pc \in AfterAdmission(p) \cup {"reserve", "queue", "createSleeping"} :
          Stays(p, pc) /\ (pc = "createSleeping" => proc[p].op # "wake")
    <2>1. ASSUME Snapshot(p) PROVE \E pc \in AfterAdmission(p) \cup {"reserve"} : Stays(p, pc)
        BY <2>1, SnapshotStays
    <2>2. ASSUME NEW pc, Goto(p, pc) PROVE Stays(p, pc)
        BY <2>2, GotoStays
    <2>3. CASE Admit(p)
        BY <2>2, <2>3, AfterAdmissionUp DEF Admit, UpSteps
    <2>4. CASE Refuse(p)
        BY <2>2, <2>4 DEF Refuse
    <2>5. CASE Snapshot(p)
        BY <2>1, <2>5, AfterAdmissionUp DEF UpSteps
    <2> QED  BY <2>3, <2>4, <2>5
<1>3. proc[p].op = "wake" => AfterAdmission(p) = {"setup"}
    BY <1>1 DEF Wakes, AfterAdmission, Live
<1>4. \A pc \in AfterAdmission(p) : pc \in {"create", "teardown", "setup"}
    BY DEF AfterAdmission, Existing
<1>5. PICK pc \in AfterAdmission(p) \cup {"reserve", "queue", "createSleeping"} :
          Stays(p, pc) /\ (pc = "createSleeping" => proc[p].op # "wake")
    BY <1>2
<1>6. proc'[p].pc = pc /\ proc'[p].op = proc[p].op /\ proc'[p].s = c
    BY <1>5 DEF Stays
<1>7. Wakes(p)'
    BY <1>1, <1>3, <1>5, <1>6 DEF Wakes
<1>8. Says(p)'
    BY <1>4, <1>5, <1>6 DEF Says, MarksAsleep
<1> QED  BY <1>1, <1>7, <1>8 DEF Naps, Named

LEMMA CreateNaps ==
    ASSUME TypeOK, NEW p \in Procs, proc[p].s \in Sessions,
           Wakes(p), Says(p), Named(proc[p].s),
           Create(p) \/ RetryCreate(p)
    PROVE  Naps(p)
<1> DEFINE c == proc[p].s
<1>1. proc[p].pc = "create" => proc[p].op # "wake"
    BY DEF Wakes
<1>2. \/ \E pc \in Plain : Stays(p, pc)
      \/ proc[p].op # "wake" /\ \E pc \in {"setup", "teardown"} : Stays(p, pc)
    <2>1. \/ Fail(p) \/ Goto(p, "queue")
          \/ proc[p].pc = "create" /\ \E pc \in {"setup", "teardown"} : \E task : Load(p, pc, task)
        BY DEF Create, RetryCreate, Existing, At
    <2> QED  BY <1>1, <2>1, FailStays, GotoStays, LoadStays DEF Plain
<1>3. Wakes(p)' /\ Says(p)'
    <2>1. CASE \E pc \in Plain : Stays(p, pc)
        BY <2>1, PlainNaps
    <2>2. CASE proc[p].op # "wake" /\ \E pc \in {"setup", "teardown"} : Stays(p, pc)
        BY <2>2 DEF Wakes, Says, MarksAsleep, Stays
    <2> QED  BY <1>2, <2>1, <2>2
<1>4. /\ sess'[c].sleep # 0 => wlog'[c].reason # "none"
      /\ \A d \in Sessions \ {c} : sess'[d] = sess[d]
    <2>1. CASE Create(p)
        <3>1. \E t : sess' = [sess EXCEPT ![c] = NewRow(t)]
            BY <2>1 DEF Create
        <3>2. Sleeps(c, 0)
            <4> HIDE DEF c
            <4> QED  BY <3>1, SleepSets DEF c
        <3> QED  BY <3>2 DEF Sleeps
    <2>2. CASE RetryCreate(p)
        <3>1. (\E t : sess' = [sess EXCEPT ![c].task = t]) /\ wlog' = wlog
            BY <2>2 DEF RetryCreate
        <3>2. Sleeps(c, sess[c].sleep)
            <4> HIDE DEF c
            <4> QED  BY <3>1, SleepSets DEF c
        <3> QED  BY <3>1, <3>2 DEF Sleeps, Named
    <2> QED  BY <2>1, <2>2
<1> QED  BY <1>3, <1>4 DEF Naps

LEMMA SetupNaps ==
    ASSUME TypeOK, NEW p \in Procs, proc[p].s \in Sessions,
           Wakes(p), Says(p), Named(proc[p].s),
           Teardown(p) \/ Clean(p) \/ Invalidate(p) \/ Produce(p) \/ SetupFails(p)
    PROVE  Naps(p)
<1> DEFINE c == proc[p].s
<1>0. wlog' = wlog /\ c \in Sessions
    BY DEF Teardown, Clean, Invalidate, Produce, SetupFails
<1>1. Sleeps(c, sess[c].sleep)
    <2>1. \/ \E v : sess' = [sess EXCEPT ![c].run = v]
          \/ \E v, t : sess' = [sess EXCEPT ![c].run = v, ![c].task = t]
          \/ sess' = [sess EXCEPT ![c].status = "down"]
          \/ sess' = sess
        BY DEF Teardown, Clean, Invalidate, Produce, SetupFails
    <2> HIDE DEF c
    <2>2. CASE \E v, t : sess' = [sess EXCEPT ![c].run = v, ![c].task = t]
        <3>1. PICK v, t : sess' = [sess EXCEPT ![c].run = v, ![c].task = t]
            BY <2>2
        <3> QED  BY <1>0, <3>1, SleepSetsTwo
    <2>3. CASE ~\E v, t : sess' = [sess EXCEPT ![c].run = v, ![c].task = t]
        BY <1>0, <2>1, <2>3, SleepSets
    <2> QED  BY <2>2, <2>3
<1>2. /\ sess'[c].sleep # 0 => wlog'[c].reason # "none"
      /\ \A d \in Sessions \ {c} : sess'[d] = sess[d]
    BY <1>0, <1>1 DEF Sleeps, Named
<1>3. CASE Teardown(p) \/ Clean(p)
    <2>1. proc[p].op # "wake"
        BY <1>3 DEF Wakes, Teardown, Clean, At
    <2>2. \E pc \in {"clean", "setup", "release"} : Stays(p, pc)
        BY <1>3, FailStays, GotoStays, LoadStays DEF Teardown, Clean
    <2>3. Wakes(p)' /\ Says(p)'
        BY <2>1, <2>2 DEF Wakes, Says, MarksAsleep, Stays
    <2> QED  BY <1>2, <2>3 DEF Naps
<1>4. CASE Invalidate(p) \/ Produce(p)
    <2>1. \E pc \in {"rebuild", "markUp"} : Stays(p, pc)
        BY <1>4, GotoStays DEF Invalidate, Produce
    <2>2. proc[p].pc \in {"setup", "rebuild"}
        BY <1>4 DEF Invalidate, Produce, At
    <2>3. sess'[c].status = sess[c].status
        <3>1. \/ \E v : sess' = [sess EXCEPT ![c].run = v]
              \/ \E v, t : sess' = [sess EXCEPT ![c].run = v, ![c].task = t]
            BY <1>4 DEF Invalidate, Produce
        <3> HIDE DEF c
        <3>2. CASE \E v, t : sess' = [sess EXCEPT ![c].run = v, ![c].task = t]
            <4>1. PICK v, t : sess' = [sess EXCEPT ![c].run = v, ![c].task = t]
                BY <3>2
            <4> QED  BY <1>0, <4>1, SleepSetsTwo
        <3>3. CASE \E v : sess' = [sess EXCEPT ![c].run = v]
            BY <1>0, <3>3, SleepSets
        <3> QED  BY <3>1, <3>2, <3>3
    <2>4. proc[p].op = "wake" => sess'[c].status # "none" /\ sess'[c].sleep # 0
        BY <1>1, <2>2, <2>3 DEF Wakes, Sleeps
    <2>5. Wakes(p)' /\ Says(p)'
        BY <2>1, <2>4 DEF Wakes, Says, MarksAsleep, Stays
    <2> QED  BY <1>2, <2>5 DEF Naps
<1>5. CASE SetupFails(p)
    <2>1. Stays(p, "release")
        BY <1>5, FailStays DEF SetupFails
    <2>2. Wakes(p)' /\ Says(p)'
        BY <2>1, PlainNaps DEF Plain
    <2> QED  BY <1>2, <2>2 DEF Naps
<1> QED  BY <1>3, <1>4, <1>5

(* The end of an up, and a failed wake's record.                             *)
LEMMA EndNaps ==
    ASSUME TypeOK, NEW p \in Procs, proc[p].s \in Sessions,
           Wakes(p), Says(p), Named(proc[p].s),
           \/ MarkUp(p) \/ RecordWake(p) \/ ReleaseSlot(p) \/ RecordFailure(p) \/ Suspend(p)
           \/ DropReservation(p) \/ Crash(p)
    PROVE  Naps(p)
<1> DEFINE c == proc[p].s
<1>1. Leaves(p) \/ \E pc \in Plain : Stays(p, pc)
    <2>1. Return(p) \/ \E pc \in Plain : Goto(p, pc)
        BY DEF MarkUp, RecordWake, ReleaseSlot, RecordFailure, Suspend, DropReservation, Crash, Plain
    <2> QED  BY <2>1, ReturnLeaves, GotoStays
<1>2. Wakes(p)' /\ Says(p)'
    BY <1>1, PlainNaps
<1>3. CASE MarkUp(p)
    <2>1. sess' = [sess EXCEPT ![c].status = "up", ![c].sleep = 0]
        BY <1>3 DEF MarkUp
    <2>2. Sleeps(c, 0)
        <3> HIDE DEF c
        <3> QED  BY <2>1, SleepSetsTwo DEF c
    <2> QED  BY <1>2, <2>2 DEF Naps, Sleeps
<1>4. CASE ~MarkUp(p)
    <2>1. sess' = sess
        BY <1>4 DEF RecordWake, ReleaseSlot, RecordFailure, Suspend, DropReservation, Crash
    <2>2. wlog'[c].reason = wlog[c].reason
        <3>1. \/ wlog' = wlog
              \/ wlog' = [wlog EXCEPT ![c].susp = TRUE]
              \/ wlog' = [wlog EXCEPT ![c].susp = FALSE]
              \/ wlog' = [wlog EXCEPT ![c].fails = @ + 1]
            BY <1>4 DEF RecordWake, ReleaseSlot, RecordFailure, Suspend, DropReservation, Crash
        <3> HIDE DEF c
        <3> QED  BY <3>1, ReasonSets DEF c
    <2> QED  BY <1>2, <2>1, <2>2 DEF Naps, Named
<1> QED  BY <1>3, <1>4

(* The steps of sleep, down and destroy.                                     *)
LEMMA SleepNaps ==
    ASSUME TypeOK, NEW p \in Procs, proc[p].s \in Sessions,
           Wakes(p), Says(p), Named(proc[p].s),
           AcceptSleep(p) \/ RecordIdle(p) \/ MarkAsleep(p) \/ MarkDown(p)
    PROVE  Naps(p)
<1> DEFINE c == proc[p].s
<1>1. CASE AcceptSleep(p) \/ RecordIdle(p)
    <2>1. sess' = sess
        BY <1>1 DEF AcceptSleep, RecordIdle
    <2>2. \/ wlog' = wlog /\ Return(p)
          \/ wlog' = [wlog EXCEPT ![c] = Asleep("queue")] /\ Goto(p, "queueMark")
          \/ wlog' = [wlog EXCEPT ![c] = Asleep("idle")] /\ Goto(p, "downMark")
        BY <1>1 DEF AcceptSleep, RecordIdle
    <2>3. CASE wlog' = wlog /\ Return(p)
        <3>1. Wakes(p)' /\ Says(p)'
            BY <2>3, ReturnLeaves, PlainNaps
        <3> QED  BY <2>1, <2>3, <3>1 DEF Naps, Named
    <2>4. CASE ~(wlog' = wlog /\ Return(p))
        <3>1. wlog'[c].reason # "none"
            <4> HIDE DEF c
            <4> QED  BY <2>2, <2>4, ReasonSets DEF c
        <3>2. \E pc \in {"queueMark", "downMark"} : Stays(p, pc)
            BY <2>2, <2>4, GotoStays
        <3>3. Wakes(p)' /\ Says(p)'
            BY <3>1, <3>2 DEF Wakes, Says, MarksAsleep, Stays
        <3> QED  BY <2>1, <3>1, <3>3 DEF Naps
    <2> QED  BY <2>3, <2>4
<1>2. CASE MarkAsleep(p) \/ MarkDown(p)
    <2>1. wlog' = wlog
        BY <1>2 DEF MarkAsleep, MarkDown
    <2>2. Return(p) \/ Goto(p, "downClean")
        BY <1>2 DEF MarkAsleep, MarkDown
    <2>3. Wakes(p)' /\ Says(p)'
        BY <2>2, ReturnLeaves, GotoStays, PlainNaps DEF Plain
    <2>4. \E t : /\ Sleeps(c, t)
                 /\ t # 0 => wlog[c].reason # "none"
        <3>1. CASE MarkAsleep(p)
            <4>1. PICK t : sess' = [sess EXCEPT ![c].sleep = t, ![c].status = "down"]
                BY <3>1 DEF MarkAsleep
            <4>2. wlog[c].reason # "none"
                BY <3>1 DEF MarkAsleep, Says, MarksAsleep, At
            <4>3. Sleeps(c, t)
                <5> HIDE DEF c
                <5> QED  BY <4>1, SleepSetsTwo DEF c
            <4> QED  BY <4>2, <4>3
        <3>2. CASE MarkDown(p)
            <4>1. PICK now : sess' = [sess EXCEPT ![c].status = "down",
                                         ![c].sleep = IF proc[p].op = "sleep" THEN now ELSE 0]
                BY <3>2 DEF MarkDown
            <4> DEFINE t == IF proc[p].op = "sleep" THEN now ELSE 0
            <4>2. sess' = [sess EXCEPT ![c].status = "down", ![c].sleep = t]
                BY <4>1
            <4>3. t # 0 => wlog[c].reason # "none"
                BY <3>2 DEF MarkDown, Says, MarksAsleep, At
            <4>4. Sleeps(c, t)
                <5> HIDE DEF c, t
                <5> QED  BY <4>2, SleepSetsTwo DEF c
            <4> HIDE DEF t
            <4> QED  BY <4>3, <4>4
        <3> QED  BY <1>2, <3>1, <3>2
    <2> QED  BY <2>1, <2>3, <2>4 DEF Naps, Sleeps
<1> QED  BY <1>1, <1>2

LEMMA DownNaps ==
    ASSUME TypeOK, NEW p \in Procs, proc[p].s \in Sessions,
           Wakes(p), Says(p), Named(proc[p].s),
           CleanDown(p) \/ CleanDestroy(p) \/ MarkDestroyed(p)
    PROVE  Naps(p)
<1> DEFINE c == proc[p].s
<1>1. Leaves(p) \/ \E pc \in Plain : Stays(p, pc)
    <2>1. Return(p) \/ Goto(p, "destroyMark") \/ Goto(p, "destroyRelease")
        BY DEF CleanDown, CleanDestroy, MarkDestroyed
    <2> QED  BY <2>1, ReturnLeaves, GotoStays DEF Plain
<1>2. Wakes(p)' /\ Says(p)'
    BY <1>1, PlainNaps
<1>3. CASE MarkDestroyed(p)
    <2>1. sess' = [sess EXCEPT ![c] = NoRow]
        BY <1>3 DEF MarkDestroyed
    <2>2. Sleeps(c, 0)
        <3> HIDE DEF c
        <3> QED  BY <2>1, SleepSets DEF c
    <2> QED  BY <1>2, <2>2 DEF Naps, Sleeps
<1>4. CASE CleanDown(p) \/ CleanDestroy(p)
    <2>1. wlog' = wlog
        BY <1>4 DEF CleanDown, CleanDestroy
    <2>2. \/ \E t : sess' = [sess EXCEPT ![c].run = FALSE, ![c].task = t]
          \/ sess' = sess
        BY <1>4 DEF CleanDown, CleanDestroy
    <2>3. Sleeps(c, sess[c].sleep)
        <3> HIDE DEF c
        <3>1. CASE sess' = sess
            BY <3>1, SleepSets DEF c
        <3>2. CASE \E t : sess' = [sess EXCEPT ![c].run = FALSE, ![c].task = t]
            <4>1. PICK t : sess' = [sess EXCEPT ![c].run = FALSE, ![c].task = t]
                BY <3>2
            <4> QED  BY <4>1, SleepSetsTwo DEF c
        <3> QED  BY <2>2, <3>1, <3>2
    <2> QED  BY <1>2, <2>1, <2>3 DEF Naps, Sleeps, Named
<1> QED  BY <1>3, <1>4

LEMMA StepNaps ==
    ASSUME SleepInv, NEW p \in Procs, Step(p) \/ Crash(p)
    PROVE  Naps(p)
<1>1. /\ TypeOK /\ Wakes(p) /\ Says(p) /\ proc[p].s \in Sessions
    BY StepMoves DEF SleepInv, LockOwned
<1>2. Named(proc[p].s)
    BY <1>1 DEF SleepInv, SleepHasReason, Named
<1> QED  BY <1>1, <1>2, AdmissionNaps, CreateNaps, SetupNaps, EndNaps, SleepNaps, DownNaps
         DEF Step

(* The processes at work on other sessions than c see none of it.            *)
LEMMA OthersNap ==
    ASSUME SleepInv, NEW q \in Procs, proc'[q] = proc[q], NEW c \in Sessions,
           ~At(q, "idle") => proc[q].s \in Sessions \ {c},
           \A d \in Sessions \ {c} : sess'[d] = sess[d] /\ wlog'[d] = wlog[d]
    PROVE  Wakes(q)' /\ Says(q)'
<1>1. Wakes(q) /\ Says(q)
    BY DEF SleepInv
<1>2. CASE At(q, "idle")
    BY <1>2 DEF Wakes, Says, MarksAsleep, At
<1>3. CASE ~At(q, "idle")
    BY <1>1, <1>3 DEF Wakes, Says, MarksAsleep
<1> QED  BY <1>2, <1>3

LEMMA SleepStep ==
    ASSUME SleepInv, [Next]_vars
    PROVE  SleepHasReason' /\ \A p \in Procs : Wakes(p)' /\ Says(p)'
<1>a. TypeOK /\ LockOwned /\ ReservationOwned /\ None \notin Procs
    BY LifecycleAssumption DEF SleepInv
<1>b. \A c \in Sessions : Named(c)
    BY DEF SleepInv, SleepHasReason, Named
<1>1. ASSUME NEW p \in Procs, Step(p) \/ Crash(p)
      PROVE  SleepHasReason' /\ \A q \in Procs : Wakes(q)' /\ Says(q)'
    <2> DEFINE c == proc[p].s
    <2>1. Naps(p) /\ ~At(p, "idle") /\ Moves(p)
        BY <1>a, <1>1, StepMoves, StepNaps
    <2>2. c \in Sessions /\ lock[c] = p
        BY <1>a, <2>1 DEF LockOwned
    <2>3. \A d \in Sessions \ {c} : sess'[d] = sess[d] /\ wlog'[d] = wlog[d]
        BY <1>a, <1>1, <2>1, StepCounts DEF Naps, Counts
    <2>4. SleepHasReason'
        <3> SUFFICES ASSUME NEW d \in Sessions, sess'[d].sleep # 0
                     PROVE  wlog'[d].reason # "none"
            BY DEF SleepHasReason
        <3> QED  BY <1>b, <2>1, <2>3 DEF Naps, Named
    <2>5. ASSUME NEW q \in Procs \ {p} PROVE Wakes(q)' /\ Says(q)'
        <3>1. proc'[q] = proc[q]
            BY <2>1 DEF Moves, Leaves, Stays, Alone
        <3>2. ~At(q, "idle") => proc[q].s \in Sessions \ {c}
            BY <1>a, <2>2 DEF LockOwned
        <3> HIDE DEF c
        <3> QED  BY <2>2, <2>3, <3>1, <3>2, OthersNap
    <2>6. Wakes(p)' /\ Says(p)'
        BY <2>1 DEF Naps
    <2> QED  BY <2>4, <2>5, <2>6
<1>2. ASSUME NEW p \in Procs, NEW c \in Sessions, Starts(p, c), sess' = sess,
             proc'[p].pc \in FirstSteps,
             proc'[p].op = "wake" => Waiting(c) /\ proc'[p].pc = "snap",
             proc'[p].op # "sleep" \/ proc'[p].pc # "downMark",
             \/ wlog' = wlog /\ proc'[p].pc # "queueMark"
             \/ wlog' = [wlog EXCEPT ![c] = Asleep("queue")]
      PROVE  SleepHasReason' /\ \A q \in Procs : Wakes(q)' /\ Says(q)'
    <2>1. \A d \in Sessions \ {c} : wlog'[d] = wlog[d]
        BY <1>2, <1>a DEF TypeOK
    <2>2. wlog' = [wlog EXCEPT ![c] = Asleep("queue")] => wlog'[c].reason # "none"
        BY <1>a, ReasonSets
    <2>3. SleepHasReason'
        <3> SUFFICES ASSUME NEW d \in Sessions, sess'[d].sleep # 0
                     PROVE  wlog'[d].reason # "none"
            BY DEF SleepHasReason
        <3>1. sess[d].sleep # 0
            BY <1>2
        <3> QED  BY <1>2, <1>b, <2>1, <2>2, <3>1 DEF Named
    <2>4. Says(p)'
        BY <1>2, <2>2 DEF Says, MarksAsleep, Starts
    <2>5. Wakes(p)'
        BY <1>2 DEF Wakes, Starts, Waiting
    <2>6. ASSUME NEW q \in Procs \ {p} PROVE Wakes(q)' /\ Says(q)'
        <3>1. proc'[q] = proc[q]
            BY <1>2 DEF Starts, Alone
        <3>2. ~At(q, "idle") => proc[q].s \in Sessions \ {c}
            BY <1>2, <1>a DEF LockOwned, Starts
        <3> QED  BY <1>2, <2>1, <3>1, <3>2, OthersNap
    <2> QED  BY <2>3, <2>4, <2>5, <2>6
<1>3. CASE Starting
    <2>1. ASSUME NEW p \in Procs, NEW c \in Sessions, NEW cmd, NEW pc \in FirstSteps,
                 Command(p, cmd, c, pc), cmd # "wake", cmd # "sleep" \/ pc # "downMark",
                 \/ wlog' = wlog /\ pc # "queueMark"
                 \/ wlog' = [wlog EXCEPT ![c] = Asleep("queue")]
          PROVE  SleepHasReason' /\ \A q \in Procs : Wakes(q)' /\ Says(q)'
        <3>1. Starts(p, c) /\ proc'[p].pc = pc /\ proc'[p].op = cmd /\ sess' = sess
            BY <2>1, <1>a, BeginStarts DEF Command
        <3> QED  BY <2>1, <3>1, <1>2
    <2>2. {"snap", "queueMark", "downMark", "idleEvent", "destroyClean"}
              \subseteq FirstSteps
        BY DEF FirstSteps
    <2>3. ASSUME NEW p \in Procs, NEW c \in Sessions, StartUp(p, c)
          PROVE  SleepHasReason' /\ \A q \in Procs : Wakes(q)' /\ Says(q)'
        BY <2>1, <2>2, <2>3 DEF StartUp
    <2>4. ASSUME NEW p \in Procs, NEW c \in Sessions, RequestWake(p, c)
          PROVE  SleepHasReason' /\ \A q \in Procs : Wakes(q)' /\ Says(q)'
        BY <2>1, <2>2, <2>4 DEF RequestWake
    <2>5. ASSUME NEW p \in Procs, NEW c \in Sessions, StartDown(p, c)
          PROVE  SleepHasReason' /\ \A q \in Procs : Wakes(q)' /\ Says(q)'
        BY <2>1, <2>2, <2>5 DEF StartDown
    <2>6. ASSUME NEW p \in Procs, NEW c \in Sessions, StartDestroy(p, c)
          PROVE  SleepHasReason' /\ \A q \in Procs : Wakes(q)' /\ Says(q)'
        BY <2>1, <2>2, <2>6 DEF StartDestroy
    <2>7. ASSUME NEW c \in Sessions, Wake(c)
          PROVE  SleepHasReason' /\ \A q \in Procs : Wakes(q)' /\ Says(q)'
        <3>1. Starts(Daemon, c) /\ proc'[Daemon].pc = "snap" /\ proc'[Daemon].op = "wake"
            BY <2>7, <1>a, BeginStarts DEF Wake
        <3>2. wlog' = wlog /\ sess' = sess /\ Waiting(c)
            BY <2>7 DEF Wake, NextCandidate, Queued
        <3> QED  BY <2>2, <3>1, <3>2, <1>2
    <2> QED  BY <1>3, <2>3, <2>4, <2>5, <2>6, <2>7 DEF Starting
<1>4. ASSUME NEW c \in Sessions, SetUpTask(c) \/ Finalize(c)
      PROVE  SleepHasReason' /\ \A q \in Procs : Wakes(q)' /\ Says(q)'
    <2>1. UNCHANGED <<wlog, proc>>
        BY <1>4 DEF SetUpTask, Finalize
    <2>2. Sleeps(c, sess[c].sleep) /\ sess'[c].status = sess[c].status
        BY <1>4, <1>a, SleepSets DEF SetUpTask, Finalize
    <2>3. \A d \in Sessions : sess'[d].sleep = sess[d].sleep /\ sess'[d].status = sess[d].status
        BY <2>2 DEF Sleeps
    <2>4. SleepHasReason'
        BY <1>b, <2>1, <2>3 DEF SleepHasReason, Named
    <2>5. ASSUME NEW q \in Procs PROVE Wakes(q)' /\ Says(q)'
        <3>1. Wakes(q) /\ Says(q)
            BY DEF SleepInv
        <3>2. proc[q].pc # "idle" => proc[q].s \in Sessions
            BY <1>a DEF LockOwned, At
        <3> QED  BY <2>1, <2>3, <3>1, <3>2 DEF Wakes, Says, MarksAsleep
    <2> QED  BY <2>4, <2>5
<1>5. CASE (\E c \in Sessions : Skip(c)) \/ Scan \/ UNCHANGED vars
    <2>1. UNCHANGED <<sess, wlog, proc>>
        BY <1>5 DEF Skip, NextCandidate, Scan, vars
    <2> QED  BY <2>1 DEF SleepInv, SleepHasReason, Wakes, Says, MarksAsleep
<1> QED  BY <1>1, <1>3, <1>4, <1>5, NextKinds

LEMMA SleepInvariant == Spec => []SleepInv
<1>1. Init => SleepInv
    <2>1. Init => TypeOK
        BY InitTypeOK
    <2> QED  BY <2>1, LifecycleAssumption DEF Init, SleepInv, LockOwned, ReservationOwned,
                SleepHasReason, Wakes, Says, MarksAsleep, At, AtRest, NoRow
<1>2. SleepInv /\ TypeOK' /\ [Next]_vars => SleepInv'
    BY OwnershipStep, SleepStep DEF SleepInv
<1> QED  BY <1>1, <1>2, TypeCorrect, PTL DEF Spec

(* The wake loop brings up sleepers only: what was stopped, destroyed or     *)
(* brought up since the pass began it leaves alone (WakeQueuedSessions looks *)
(* again under the lock).                                                    *)
THEOREM SleepersOnly == Spec => []WakesSleepersOnly
<1>1. SleepInv => WakesSleepersOnly
    BY DEF SleepInv, Wakes, WakesSleepersOnly, Live
<1> QED  BY <1>1, SleepInvariant, PTL

(* A sleep marker never stands without the event that says what it waits     *)
(* for, wherever a crash cuts queueSleep, RequestWake or Down.               *)
THEOREM SleepIsExplained == Spec => []SleepHasReason
<1>1. SleepInv => SleepHasReason
    BY DEF SleepInv
<1> QED  BY <1>1, SleepInvariant, PTL
===============================================================================
