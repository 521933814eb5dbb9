--------------------------- MODULE SessionLifecycle ---------------------------
(***************************************************************************)
(* The lifecycle of the sessions that share one max_up_children cap: up,    *)
(* up --force-recreate, down, down --sleep, destroy, the wake request an    *)
(* inbound event makes, and the resident process's wake loop.               *)
(*                                                                          *)
(* Every command is its own OS process.  The processes share storage.db     *)
(* (each store call below is one immediate transaction, hence one step) and *)
(* one file lock per session name.  A process may die between any two of    *)
(* its steps: the kernel then drops its file lock, its reservation row      *)
(* stays behind with the pid of a dead process.                             *)
(*                                                                          *)
(* Sessions are numbered in the order of their names, the order the queue   *)
(* falls back to when two sleeps carry the same timestamp.                  *)
(***************************************************************************)
EXTENDS Naturals, FiniteSets

CONSTANTS
    Sessions,      \* session names under one cap parent, in name order
    Clis,          \* processes that run one lifecycle command at a time
    Daemon,        \* the resident process, which runs the wake loop
    None, Dead,    \* no holder; the pid of a process that has died
    Limit,         \* the cap: max_up_children, at least 1
    AttemptLimit,  \* wakeAttemptLimit: failed wakes before suspension
    NodesMayDie,   \* whether a produced node's alive probe may fail
    MaxOps         \* bound on commands and crashes

ASSUME LifecycleAssumption ==
    /\ IsFiniteSet(Sessions) /\ Sessions \subseteq Nat \ {0}
    /\ None \notin Clis /\ Dead \notin Clis /\ Daemon \notin Clis
    /\ None # Daemon /\ Dead # Daemon /\ None # Dead
    /\ Limit \in Nat \ {0}
    /\ AttemptLimit \in Nat \ {0}
    /\ NodesMayDie \in BOOLEAN
    /\ MaxOps \in Nat

Procs == Clis \cup {Daemon}

VARIABLES
    sess,   \* the live session row of each name
    wlog,   \* what the sleep and wake events of that row's log fold to
    lock,   \* lifecycle-locks/<name>.lock: the process that holds it
    resv,   \* up_reservations: the pid recorded for each child
    proc,   \* each process's program counter and locals
    todo,   \* the wake loop's remaining candidates: their timestamp, or 0
    ops     \* commands and crashes so far

vars == <<sess, wlog, lock, resv, proc, todo, ops>>
-------------------------------------------------------------------------------
(* A row: status "none" is no live row, sleep 0 is a NULL sleep_since, run   *)
(* is RunScopeUp (a produced run-scoped node), task is the session's task    *)
(* instance: none that counts, open, or finalized (sessionFinalized).        *)
Task       == {"none", "open", "final"}
SessionRow == [status : {"none", "down", "up"}, sleep : Nat,
               run : BOOLEAN, task : Task]

(* The log: the last sleep event's reason ("queue" for any but "idle"), the  *)
(* failed wakes since it, and whether a suspension is the latest verdict.    *)
WakeLog == [reason : {"none", "idle", "queue"}, fails : Nat, susp : BOOLEAN]

UpSteps == {"create", "teardown", "clean", "setup", "rebuild", "markUp",
            "recordWake", "release"}
Steps == UpSteps \cup {"idle", "snap", "reserve", "createSleeping", "queue",
            "queueMark", "failed", "suspend", "idleEvent", "downMark",
            "downClean", "destroyClean", "destroyMark", "destroyRelease"}
Commands == {"none", "up", "recreate", "wake", "down", "sleep", "destroy",
             "request"}

(* saw is the task in the copy of the session the command loaded, which it   *)
(* writes back after the hooks have run.                                     *)
Process == [pc : Steps, op : Commands, s : Sessions \cup {0},
            seen : SUBSET Sessions, failed : BOOLEAN, saw : Task]

NoRow   == [status |-> "none", sleep |-> 0, run |-> FALSE, task |-> "none"]
CreatingRow(task) == [NoRow EXCEPT !.status = "creating", !.task = task]  \* mutant
NewRow(task)      == [NoRow EXCEPT !.status = "down", !.task = task]
NoLog   == [reason |-> "none", fails |-> 0, susp |-> FALSE]
Asleep(reason) == [reason |-> reason, fails |-> 0, susp |-> FALSE]
AtRest  == [pc |-> "idle", op |-> "none", s |-> 0, seen |-> {},
            failed |-> FALSE, saw |-> "none"]

Live(c) == sess[c].status # "none"

(* queuedForWake: asleep for a slot, neither finalized nor given up on.      *)
Waiting(c) == /\ sess[c].status = "down" /\ sess[c].sleep # 0
              /\ sess[c].task # "final"
QueuedForGood(c) ==                     \* mutant: the failed wakes not counted
    Waiting(c) /\ wlog[c].reason = "queue" /\ ~wlog[c].susp
Queued(c)  == /\ Waiting(c)
              /\ wlog[c].reason = "queue" /\ ~wlog[c].susp
              /\ wlog[c].fails < AttemptLimit

(* The order the queue is served in.                                         *)
EitherFirst(a, c, b, d) == a <= b       \* mutant: no tie-break by name
Earlier(a, c, b, d) == a < b \/ (a = b /\ c < d)

(* time.Now() as a timestamp just later than any a row carries; an inbound   *)
(* event's own time may fall anywhere before that.                           *)
Now == {t \in {sess[c].sleep + 1 : c \in Sessions} :
            \A c \in Sessions : sess[c].sleep < t}

(* The siblings that fill a slot: up, or admitted by a live process.         *)
Fills(c)     == sess[c].run \/ resv[c] \in Procs
UpSiblings(c) == {d \in Sessions \ {c} : sess[d].run}  \* mutant: no reservations
Siblings(c)  == {d \in Sessions \ {c} : Fills(d)}
Holding      == {c \in Sessions : Fills(c)}

Init == /\ sess = [c \in Sessions |-> NoRow]
        /\ wlog = [c \in Sessions |-> NoLog]
        /\ lock = [c \in Sessions |-> None]
        /\ resv = [c \in Sessions |-> None]
        /\ proc = [p \in Procs |-> AtRest]
        /\ todo = [c \in Sessions |-> 0]
        /\ ops  = 0
-------------------------------------------------------------------------------
(* Locals of a step: process p goes on at pc, or returns from its command,   *)
(* which closes the lock file.                                               *)
At(p, pc)   == proc[p].pc = pc
Goto(p, pc) == /\ proc' = [proc EXCEPT ![p].pc = pc]
               /\ UNCHANGED lock
Load(p, pc, task) == /\ proc' = [proc EXCEPT ![p].pc = pc, ![p].saw = task]
                     /\ UNCHANGED lock
Fail(p)     == /\ proc' = [proc EXCEPT ![p].pc = "release", ![p].failed = TRUE]
               /\ UNCHANGED lock
Return(p)   == /\ proc' = [proc EXCEPT ![p] = AtRest]
               /\ lock' = [lock EXCEPT ![proc[p].s] = None]

(* A command that gets the lock.  up's LOCK_NB gives up at once when it is   *)
(* held and changes nothing; the others block until it is free.  What the    *)
(* command goes by is the session as it loads it then.                       *)
Begin(p, cmd, c, pc) ==
    /\ At(p, "idle") /\ lock[c] = None
    /\ lock' = [lock EXCEPT ![c] = p]
    /\ proc' = [proc EXCEPT ![p] = [AtRest EXCEPT !.pc = pc, !.op = cmd, !.s = c,
                                           !.saw = sess[c].task]]

Command(p, cmd, c, pc) == /\ p \in Clis /\ ops < MaxOps
                          /\ Begin(p, cmd, c, pc)
                          /\ ops' = ops + 1
                          /\ UNCHANGED <<sess, resv, todo>>
-------------------------------------------------------------------------------
(* plect up, on a session or on a resource that has none yet.                *)
StartUp(p, c) == /\ \E cmd \in {"up", "recreate"} : Command(p, cmd, c, "snap")
                 /\ UNCHANGED wlog

(* What upUnlocked does once the slot is settled.  An up of a resource, not  *)
(* of a session by its name, retries a create that was left incomplete.      *)
Existing(p) == IF proc[p].op = "recreate" THEN "teardown" ELSE "setup"
AfterAdmission(p) == IF ~Live(proc[p].s) THEN {"create"}
                     ELSE IF proc[p].op = "wake" THEN {"setup"}
                     ELSE {"create", Existing(p)}

(* Reads the session and, before the reservation's transaction, who is       *)
(* queued.  An up session that is not recreated needs no new slot.           *)
Snapshot(p) ==
    /\ At(p, "snap")
    /\ IF sess[proc[p].s].run /\ proc[p].op # "recreate"
       THEN \E pc \in AfterAdmission(p) : Goto(p, pc)
       ELSE /\ proc' = [proc EXCEPT ![p].pc = "reserve",
                                    ![p].seen = {d \in Sessions : Queued(d)}]
            /\ UNCHANGED lock
    /\ UNCHANGED <<sess, wlog, resv, todo, ops>>

(* Somebody the snapshot saw queued, still asleep, is ahead of p's session.  *)
Outranked(p) ==
    LET c == proc[p].s
        queued == c \in proc[p].seen /\ sess[c].sleep # 0
    IN \E d \in proc[p].seen \ {c} :
          Waiting(d) /\ (queued => Earlier(sess[d].sleep, d, sess[c].sleep, c))

SlotFree(p) == Cardinality(Siblings(proc[p].s)) < Limit

(* The rows of dead processes go in the same transaction, admitted or not.   *)
Swept == [d \in Sessions |-> IF resv[d] = Dead THEN None ELSE resv[d]]

Admit(p) ==
    /\ At(p, "reserve") /\ ~Outranked(p) /\ SlotFree(p)
    /\ resv' = [Swept EXCEPT ![proc[p].s] = p]
    /\ \E pc \in AfterAdmission(p) : Goto(p, pc)
    /\ UNCHANGED <<sess, wlog, todo, ops>>

Refuse(p) ==
    /\ At(p, "reserve") /\ (Outranked(p) \/ ~SlotFree(p))
    /\ resv' = Swept
    /\ \/ Goto(p, "queue") /\ Live(proc[p].s)
       \/ Goto(p, "createSleeping") /\ proc[p].op # "wake"
    /\ UNCHANGED <<sess, wlog, todo, ops>>

(* Create: the row is stored before the workspace setup, which may fail.     *)
(* The last session node dispatches the initial task; up loads the result.   *)
Create(p) ==
    /\ At(p, "create") \/ At(p, "createSleeping")
    /\ ~Live(proc[p].s)
    /\ \/ /\ \/ At(p, "create") /\ Load(p, "setup", "open")
             \/ At(p, "createSleeping") /\ Goto(p, "queue")
          /\ sess' = [sess EXCEPT ![proc[p].s] = NewRow("open")]
       \/ /\ Fail(p)
          /\ \E task \in {"none", "open"} :
                sess' = [sess EXCEPT ![proc[p].s] = NewRow(task)]
    /\ wlog' = [wlog EXCEPT ![proc[p].s] = NoLog]
    /\ UNCHANGED <<resv, todo, ops>>

(* Create of an existing session goes on where the last one failed; a task   *)
(* is new if the node that dispatches it had not been produced.              *)
RetryCreate(p) ==
    LET c == proc[p].s
    IN /\ At(p, "create") \/ At(p, "createSleeping")
       /\ Live(c)
       /\ \E task \in Task :
             /\ task = sess[c].task \/ (task = "open" /\ sess[c].task = "none")
             /\ sess' = [sess EXCEPT ![c].task = task]
             /\ \/ At(p, "create") /\ Load(p, Existing(p), task)
                \/ At(p, "createSleeping") /\ Goto(p, "queue")
                \/ Fail(p)
       /\ UNCHANGED <<wlog, resv, todo, ops>>

(* recreateSessionRuntime: down first, then tear down.  A cleanup that fails *)
(* leaves its node "failed", which is not produced either; an error before   *)
(* the cleanup leaves everything alone.  After the reset the loaded copy has *)
(* no task, and the dispatcher's nested command puts a new one on disk only. *)
Teardown(p) ==
    /\ At(p, "teardown")
    /\ sess' = [sess EXCEPT ![proc[p].s].status = "down"]
    /\ Goto(p, "clean")
    /\ UNCHANGED <<wlog, resv, todo, ops>>

Clean(p) ==
    /\ At(p, "clean")
    /\ \/ /\ sess' = [sess EXCEPT ![proc[p].s].run = FALSE,
                                  ![proc[p].s].task = "open"]
          /\ Load(p, "setup", "none")
       \/ /\ \E task \in {"none", proc[p].saw} :
                sess' = [sess EXCEPT ![proc[p].s].run = FALSE,
                                     ![proc[p].s].task = task]
          /\ Fail(p)
       \/ Fail(p) /\ UNCHANGED sess
    /\ UNCHANGED <<wlog, resv, todo, ops>>

(* A produced node whose alive probe fails is released, and OnRelease stores *)
(* that at once, before the rebuild.                                         *)
Invalidate(p) ==
    /\ At(p, "setup") /\ NodesMayDie /\ sess[proc[p].s].run
    /\ sess' = [sess EXCEPT ![proc[p].s].run = FALSE]
    /\ Goto(p, "rebuild")
    /\ UNCHANGED <<wlog, resv, todo, ops>>

(* mergeTasks: every task of the loaded copy goes back over the stored one.  *)
Merged(p) == IF proc[p].saw = "none" THEN sess[proc[p].s].task ELSE proc[p].saw

(* runNodeSetup and the mergeTasks behind it.                                *)
Produce(p) ==
    /\ At(p, "setup") \/ At(p, "rebuild")
    /\ sess' = [sess EXCEPT ![proc[p].s].run = TRUE,
                            ![proc[p].s].task = Merged(p)]
    /\ Goto(p, "markUp")
    /\ UNCHANGED <<wlog, resv, todo, ops>>

(* Setup stops at the first node that fails; those before it stay produced,  *)
(* as do those an earlier up produced.  An error before it, such as a failed *)
(* cleanup of a node the plan no longer has, merges nothing.                 *)
SetupFails(p) ==
    /\ At(p, "setup") \/ At(p, "rebuild")
    /\ \/ \E partial \in BOOLEAN :
             /\ sess[proc[p].s].run => partial
             /\ sess' = [sess EXCEPT ![proc[p].s].run = partial,
                                     ![proc[p].s].task = Merged(p)]
       \/ At(p, "setup") /\ UNCHANGED sess
    /\ Fail(p)
    /\ UNCHANGED <<wlog, resv, todo, ops>>

MarkUp(p) ==
    /\ At(p, "markUp")
    /\ sess' = [sess EXCEPT ![proc[p].s].status = "up", ![proc[p].s].sleep = 0]
    /\ Goto(p, IF sess[proc[p].s].sleep # 0 THEN "recordWake" ELSE "release")
    /\ UNCHANGED <<wlog, resv, todo, ops>>

RecordWake(p) ==
    /\ At(p, "recordWake")
    /\ wlog' = [wlog EXCEPT ![proc[p].s].susp = FALSE]
    /\ Goto(p, "release")
    /\ UNCHANGED <<sess, resv, todo, ops>>

KeepSlot(p) ==                          \* mutant: the release is forgotten
    /\ At(p, "release")
    /\ IF proc[p].op = "wake" /\ proc[p].failed
       THEN Goto(p, "failed") ELSE Return(p)
    /\ UNCHANGED <<sess, wlog, resv, todo, ops>>

(* The deferred releaseChildCapSlot of an up that reserved.                  *)
ReleaseSlot(p) ==
    /\ At(p, "release")
    /\ resv' = IF resv[proc[p].s] = p
               THEN [resv EXCEPT ![proc[p].s] = None] ELSE resv
    /\ IF proc[p].op = "wake" /\ proc[p].failed
       THEN Goto(p, "failed") ELSE Return(p)
    /\ UNCHANGED <<sess, wlog, todo, ops>>
-------------------------------------------------------------------------------
(* queueSleep: a sleeper already queued keeps its event and its place.       *)
Pending(c) == /\ wlog[c].reason = "queue" /\ ~wlog[c].susp
              /\ sess[c].sleep # 0

AcceptSleep(p) ==
    /\ At(p, "queue")
    /\ IF Pending(proc[p].s)
       THEN Return(p) /\ UNCHANGED wlog
       ELSE /\ wlog' = [wlog EXCEPT ![proc[p].s] = Asleep("queue")]
            /\ Goto(p, "queueMark")
    /\ UNCHANGED <<sess, resv, todo, ops>>

(* RequestWake, for an inbound event of a session that is asleep.            *)
RequestWake(p, c) ==
    /\ Waiting(c) /\ ~Pending(c)
    /\ Command(p, "request", c, "queueMark")
    /\ wlog' = [wlog EXCEPT ![c] = Asleep("queue")]

MarkAsleep(p) ==
    /\ At(p, "queueMark")
    /\ \E now \in Now : \E at \in 1..now :
          /\ proc[p].op = "request" \/ at = now
          /\ sess' = [sess EXCEPT ![proc[p].s].sleep = at,
                                  ![proc[p].s].status = "down"]
    /\ Return(p)
    /\ UNCHANGED <<wlog, resv, todo, ops>>
-------------------------------------------------------------------------------
(* plect down and plect down --sleep: the sleep event, the row, the cleanup. *)
StartDown(p, c) ==
    /\ Live(c)
    /\ Command(p, "down", c, "downMark") \/ Command(p, "sleep", c, "idleEvent")
    /\ UNCHANGED wlog

SkipIdleEvent(p) ==                     \* mutant: the sleep event is not written
    At(p, "idleEvent") /\ Goto(p, "downMark") /\ UNCHANGED <<sess, wlog, resv, todo, ops>>

RecordIdle(p) ==
    /\ At(p, "idleEvent")
    /\ wlog' = [wlog EXCEPT ![proc[p].s] = Asleep("idle")]
    /\ Goto(p, "downMark")
    /\ UNCHANGED <<sess, resv, todo, ops>>

MarkDown(p) ==
    /\ At(p, "downMark")
    /\ \E now \in Now :
          sess' = [sess EXCEPT
                     ![proc[p].s].status = "down",
                     ![proc[p].s].sleep = IF proc[p].op = "sleep" THEN now ELSE 0]
    /\ Goto(p, "downClean")
    /\ UNCHANGED <<wlog, resv, todo, ops>>

(* store.Put: the cleaned copy replaces the row whole, deleting a task set   *)
(* up meanwhile; an error before the cleanup puts nothing.                   *)
CleanDown(p) ==
    /\ At(p, "downClean")
    /\ \/ sess' = [sess EXCEPT ![proc[p].s].run = FALSE,
                               ![proc[p].s].task = proc[p].saw]
       \/ UNCHANGED sess
    /\ Return(p)
    /\ UNCHANGED <<wlog, resv, todo, ops>>

(* plect destroy.  Without --force a failed cleanup keeps the row; with it   *)
(* the row goes whatever failed.                                             *)
StartDestroy(p, c) == /\ Live(c) /\ Command(p, "destroy", c, "destroyClean")
                      /\ UNCHANGED wlog

CleanDestroy(p) ==
    /\ At(p, "destroyClean")
    /\ \/ \E task \in {"none", proc[p].saw} :
             sess' = [sess EXCEPT ![proc[p].s].run = FALSE,
                                  ![proc[p].s].task = task]
       \/ UNCHANGED sess
    /\ Goto(p, "destroyMark") \/ Return(p)
    /\ UNCHANGED <<wlog, resv, todo, ops>>

(* store.Destroy: the row turns into a tombstone in one transaction, its     *)
(* reservation is deleted in a second.                                       *)
MarkDestroyed(p) ==
    /\ At(p, "destroyMark")
    /\ sess' = [sess EXCEPT ![proc[p].s] = NoRow]
    /\ wlog' = [wlog EXCEPT ![proc[p].s] = NoLog]
    /\ Goto(p, "destroyRelease")
    /\ UNCHANGED <<resv, todo, ops>>

DropReservation(p) ==
    /\ At(p, "destroyRelease")
    /\ resv' = [resv EXCEPT ![proc[p].s] = None]
    /\ Return(p)
    /\ UNCHANGED <<sess, wlog, todo, ops>>

(* plect task setup and plect task finalize take no lifecycle lock.          *)
SetUpTask(c) ==
    /\ ops < MaxOps /\ ops' = ops + 1
    /\ Live(c) /\ sess[c].task = "none"
    /\ sess' = [sess EXCEPT ![c].task = "open"]
    /\ UNCHANGED <<wlog, lock, resv, proc, todo>>

Finalize(c) ==
    /\ ops < MaxOps /\ ops' = ops + 1
    /\ Live(c) /\ sess[c].task = "open"
    /\ sess' = [sess EXCEPT ![c].task = "final"]
    /\ UNCHANGED <<wlog, lock, resv, proc, todo>>
-------------------------------------------------------------------------------
(* WakeQueuedSessions: one pass over the queue as it stood when it began.    *)
Scan ==
    /\ At(Daemon, "idle") /\ \A c \in Sessions : todo[c] = 0
    /\ \E c \in Sessions : Queued(c)
    /\ todo' = [c \in Sessions |-> IF Queued(c) THEN sess[c].sleep ELSE 0]
    /\ UNCHANGED <<sess, wlog, lock, resv, proc, ops>>

NextCandidate(c) ==
    /\ At(Daemon, "idle") /\ todo[c] # 0
    /\ \A d \in Sessions \ {c} : todo[d] # 0 => Earlier(todo[c], c, todo[d], d)
    /\ todo' = [todo EXCEPT ![c] = 0]
    /\ UNCHANGED <<sess, wlog, resv, ops>>

WakeUnchecked(c) ==                     \* mutant: no second look under the lock
    NextCandidate(c) /\ Begin(Daemon, "wake", c, "snap")

(* Checked again under the lock; a busy candidate waits for the next pass.   *)
Wake(c) == /\ NextCandidate(c) /\ Queued(c)
           /\ Begin(Daemon, "wake", c, "snap")

Skip(c) == /\ NextCandidate(c) /\ (lock[c] # None \/ ~Queued(c))
           /\ UNCHANGED <<lock, proc>>

RecordFailure(p) ==
    /\ At(p, "failed")
    /\ wlog' = [wlog EXCEPT ![proc[p].s].fails = @ + 1]
    /\ IF wlog[proc[p].s].fails + 1 >= AttemptLimit THEN Goto(p, "suspend")
                                                    ELSE Return(p)
    /\ UNCHANGED <<sess, resv, todo, ops>>

Suspend(p) ==
    /\ At(p, "suspend")
    /\ wlog' = [wlog EXCEPT ![proc[p].s].susp = TRUE]
    /\ Return(p)
    /\ UNCHANGED <<sess, resv, todo, ops>>
-------------------------------------------------------------------------------
(* A process dies; one that had something in progress leaves it as it is.    *)
Crash(p) ==
    /\ ops < MaxOps /\ ops' = ops + 1
    /\ ~At(p, "idle")
    /\ Return(p)
    /\ resv' = [c \in Sessions |-> IF resv[c] = p THEN Dead ELSE resv[c]]
    /\ todo' = IF p = Daemon THEN [c \in Sessions |-> 0] ELSE todo
    /\ UNCHANGED <<sess, wlog>>

Step(p) == \/ Snapshot(p) \/ Admit(p) \/ Refuse(p) \/ Create(p) \/ RetryCreate(p)
           \/ Teardown(p) \/ Clean(p) \/ Invalidate(p) \/ Produce(p)
           \/ SetupFails(p) \/ MarkUp(p) \/ RecordWake(p) \/ ReleaseSlot(p)
           \/ AcceptSleep(p) \/ MarkAsleep(p)
           \/ RecordIdle(p) \/ MarkDown(p) \/ CleanDown(p)
           \/ CleanDestroy(p) \/ MarkDestroyed(p) \/ DropReservation(p)
           \/ RecordFailure(p) \/ Suspend(p)

WakeLoop == Scan \/ \E c \in Sessions : Wake(c) \/ Skip(c)

Next == \/ \E p \in Procs : Step(p) \/ Crash(p)
        \/ \E p \in Procs, c \in Sessions :
              \/ StartUp(p, c) \/ RequestWake(p, c)
              \/ StartDown(p, c) \/ StartDestroy(p, c)
        \/ \E c \in Sessions : SetUpTask(c) \/ Finalize(c)
        \/ WakeLoop

Spec == Init /\ [][Next]_vars

(* Hook scripts end and a running process is scheduled; the resident process *)
(* is up and its wake loop ticks every second.                               *)
Fairness == (\A p \in Procs : WF_vars(Step(p))) /\ WF_vars(WakeLoop)

FairSpec == Spec /\ Fairness
-------------------------------------------------------------------------------
TypeOK == /\ sess \in [Sessions -> SessionRow]
          /\ wlog \in [Sessions -> WakeLog]
          /\ lock \in [Sessions -> Procs \cup {None}]
          /\ resv \in [Sessions -> Procs \cup {None, Dead}]
          /\ proc \in [Procs -> Process]
          /\ todo \in [Sessions -> Nat]
          /\ ops \in Nat

(* The cap itself: however many processes race, die or retry, the children   *)
(* that are up or admitted by a live process never outnumber max_up_children *)
(* (reserveChildCapSlot; docs/language/workflows.md "Concurrency").          *)
CapRespected == Cardinality(Holding) <= Limit

(* A live process's reservation is always covered by that process's file     *)
(* lock and its own unfinished up: nobody else can release it, and ReserveUp *)
(* Slot's ErrUpAlreadyReserved is a backstop no interleaving reaches.        *)
ReservationOwned ==
    \A c \in Sessions : resv[c] \in Procs =>
        lock[c] = resv[c] /\ proc[resv[c]].s = c /\ proc[resv[c]].pc \in UpSteps

(* WakeQueuedSessions counts the failed attempts from the log: no crash      *)
(* between the attempt and its two events buys a session an extra attempt.   *)
AttemptsBounded == \A c \in Sessions : wlog[c].fails <= AttemptLimit

(* The wake loop brings up sleepers only: a session fully stopped (or        *)
(* destroyed, or already up) since the pass began is never restarted by it.  *)
WakesSleepersOnly ==
    \A p \in Procs :
        proc[p].op = "wake" /\ proc[p].pc \in {"snap", "reserve", "setup", "markUp"}
            => Live(proc[p].s) /\ sess[proc[p].s].sleep # 0

(* A sleep marker never stands without the event that says what it waits     *)
(* for, whatever crash separates the two writes of queueSleep and Down.      *)
SleepHasReason ==
    \A c \in Sessions : sess[c].sleep # 0 => wlog[c].reason # "none"

(* A free slot does not keep a queued session waiting for ever: once the     *)
(* commands stop, whoever is still queued waits for a cap that is full.      *)
NoIdleCapacity ==
    <>[](\A c \in Sessions : Queued(c) => Cardinality(Holding) >= Limit)

(* Seen from the cap, the whole lifecycle is a pool of Limit slots.          *)
Slots == INSTANCE CapSlots WITH held <- Holding
ImplementsCapSlots == Slots!Spec

(* docs/adr/2026-11-04-down-and-sleep.md:47-49: wakes that keep failing stop *)
(* and `plect status` reports the reason.  It reads the suspension from the  *)
(* event the wake loop appends after the last failure.                       *)
SuspensionRecorded ==
    \A c \in Sessions :
        lock[c] = None /\ Waiting(c) /\ wlog[c].reason = "queue"
            /\ wlog[c].fails >= AttemptLimit => wlog[c].susp

(* docs/language/resources.md:12 and lifecycle_up.go:267-275: a recorded     *)
(* completion is never turned back by a lifecycle command that runs beside   *)
(* it; only a recreate that resets the session starts the task again.        *)
CompletionKept ==
    [][\A c \in Sessions :
          sess[c].task = "final" /\ sess'[c].task = "open"
              => \E p \in Procs : At(p, "clean") /\ proc[p].s = c]_vars

(* docs/language/workflows.md:351-353: an up past the cap is rejected and    *)
(* does not queue.  In particular it does not put a running child to sleep.  *)
RefusedUpLeavesRunningChild ==
    \A p \in Procs : At(p, "queueMark") /\ proc[p].op \in {"up", "recreate"}
                        => ~sess[proc[p].s].run
===============================================================================
