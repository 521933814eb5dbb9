--------------------------------- MODULE Repair ---------------------------------
(***************************************************************************)
(* The automatic repair of the sessions one serve process looks after.      *)
(* Each session's reactor observes its health and, when a declared probe or *)
(* a node has failed, runs up for it; a sweep of the supervisor does the     *)
(* same for a session that should be up and runs nothing.  How often this    *)
(* was tried is what the session's own log says.  Commands bring sessions up *)
(* and down meanwhile, and the serve process may die at any step.            *)
(*                                                                          *)
(* Every workflow here opts in with the same limit.  A lifecycle lock is a   *)
(* file lock: it is gone with its holder.                                    *)
(***************************************************************************)
EXTENDS Integers, FiniteSets, Sequences

CONSTANTS
    Sessions,   \* the sessions; each one's reactor is a process of its name
    Sweep,      \* the supervisor's sweep over sessions that run nothing
    Clis,       \* command-line processes
    Limit,      \* auto_repair_attempts
    MaxMoves    \* bound on breaks, commands, observers and deaths

ASSUME RepairAssumption ==
    /\ IsFiniteSet(Sessions) /\ IsFiniteSet(Clis)
    /\ Sessions # {} /\ Sweep \notin Sessions \cup Clis /\ Sessions \cap Clis = {}
    /\ "none" \notin Sessions \cup Clis \cup {Sweep}
    /\ Limit \in Nat \ {0} /\ MaxMoves \in Nat

VARIABLES
    world,      \* what a probe of each session's nodes would find
    row,        \* each session's stored row
    log,        \* each session's repair events, without the skipped ones
    lock,       \* who holds each session's lifecycle lock
    gate,       \* who holds the one repair slot of the process
    proc,       \* the processes
    moves       \* bounded moves so far

vars == <<world, row, log, lock, gate, proc, moves>>
-------------------------------------------------------------------------------
Followers == Sessions \cup {Sweep}
Procs     == Followers \cup Clis
None      == "none"
Probes    == {"pass", "exit", "error"}       \* exit: a node or its probe failed
Commands  == {"up", "mcp", "down"}         \* up: by a human, in the CLI or the web UI
Results   == {"started", "succeeded", "failed", "suspended", "reset"}
Row       == [status : {"up", "down"}, live : BOOLEAN, final : BOOLEAN, cycles : 0..3]

(* A process: where it is, the session, what it observed (none: nothing runs *)
(* or nothing was observed), whether the row is still as it stored it,       *)
(* whether a repair has begun since it looked, whether it read the session   *)
(* as one to repair, and a command's name.                                   *)
Steps   == {"idle", "persist", "count", "reset", "gate", "lock", "decide", "up",
            "result", "command"}
Process == [pc : Steps, s : Sessions, rep : Probes \cup {None}, fresh : BOOLEAN,
            begun : BOOLEAN, cand : BOOLEAN, op : Commands]
Idle(s) == [pc |-> "idle", s |-> s, rep |-> None, fresh |-> FALSE, begun |-> FALSE,
            cand |-> FALSE, op |-> "up"]
Resting(p) == Idle(IF p \in Sessions THEN p ELSE CHOOSE s \in Sessions : TRUE)

Init == /\ world = [s \in Sessions |-> "pass"]
        /\ row = [s \in Sessions |->
                     [status |-> "up", live |-> TRUE, final |-> FALSE, cycles |-> 0]]
        /\ log = [s \in Sessions |-> <<>>]
        /\ lock = [s \in Sessions |-> None]
        /\ gate = None
        /\ proc = [p \in Procs |-> Resting(p)]
        /\ moves = 0

At(p, pc) == proc[p].pc = pc
S(p)      == proc[p].s
Counted   == moves < MaxMoves /\ moves' = moves + 1
Free(p)   == lock' = [s \in Sessions |-> IF lock[s] = p THEN None ELSE lock[s]]
Go(p, pc) == proc' = [proc EXCEPT ![p].pc = pc]
End(p)    == proc' = [proc EXCEPT ![p] = Resting(p)]

(* A write stamps the row, so no report that was its last writer still is.   *)
Stamped(f, s) == [p \in Procs |-> IF f[p].s = s THEN [f[p] EXCEPT !.fresh = FALSE] ELSE f[p]]

Outdated(f, s) ==                       \* ghost: who has a probe result of s in hand
    [p \in Procs |-> IF f[p].s = s /\ f[p].pc \in {"persist", "count", "reset"}
                     THEN [f[p] EXCEPT !.begun = TRUE] ELSE f[p]]

(* repairAttemptState over a session's log.                                  *)
AttemptsOfAll(l) ==                     \* mutant: any success starts a new budget
    Cardinality({i \in 1..Len(l) : /\ l[i] = "started"
                                   /\ \A j \in i..Len(l) : l[j] \notin {"reset", "succeeded"}})
Attempts(l) ==
    Cardinality({i \in 1..Len(l) : /\ l[i] = "started"
                                   /\ \A j \in i..Len(l) : l[j] # "reset"})
Suspended(l) ==
    \E i \in 1..Len(l) : /\ l[i] = "suspended"
                         /\ \A j \in i..Len(l) : l[j] \notin {"started", "reset"}

(* repairCandidate for a row and what was observed.                          *)
Candidate(r, rep) == r.status = "up" /\ ~r.final /\ (~r.live \/ rep = "exit")
Observed(s) == IF row[s].live THEN world[s] ELSE None
-------------------------------------------------------------------------------
(* The health cycle of a reactor: EvaluateHealth probes, then stores what it *)
(* found under the time it began at; HealthcheckSession counts the cycles a  *)
(* probe could not be evaluated, and a healthy cycle starts a new budget if  *)
(* the row is still the one it stored.                                       *)
Observe(p) ==
    /\ p \in Sessions /\ At(p, "idle") /\ row[p].live
    /\ proc' = [proc EXCEPT ![p].pc = "persist", ![p].rep = world[p],
                            ![p].cand = row[p].status = "up"]
    /\ UNCHANGED <<world, row, log, lock, gate, moves>>
PersistHealth(p) ==
    /\ At(p, "persist")
    /\ proc' = [Stamped(proc, S(p)) EXCEPT ![p].fresh = TRUE,
                       ![p].pc = IF proc[p].cand THEN "count" ELSE "gate",
                       ![p].begun = proc[p].begun /\ proc[p].cand]
    /\ UNCHANGED <<world, row, log, lock, gate, moves>>
Looked(p) == proc' = [proc EXCEPT ![p].pc = "gate", ![p].begun = FALSE]
CountCycle(p) ==
    /\ At(p, "count")
    /\ row' = [row EXCEPT ![p].cycles =
                   IF proc[p].rep # "error" THEN 0 ELSE IF @ = 3 THEN 3 ELSE @ + 1]
    /\ IF proc[p].rep = "pass" THEN Go(p, "reset") ELSE Looked(p)
    /\ UNCHANGED <<world, log, lock, gate, moves>>

Renewed(s) == IF Attempts(log[s]) = 0 /\ ~Suspended(log[s]) THEN log
              ELSE [log EXCEPT ![s] = Append(@, "reset")]
ResetNever(p) ==                        \* mutant: only a human starts a new budget
    /\ At(p, "reset") /\ lock[p] = None /\ Looked(p)
    /\ UNCHANGED <<world, row, log, lock, gate, moves>>
ResetStreak(p) ==
    /\ At(p, "reset") /\ lock[p] = None /\ Looked(p)
    /\ log' = IF row[p].status = "up" /\ proc[p].fresh THEN Renewed(p) ELSE log
    /\ UNCHANGED <<world, row, lock, gate, moves>>
-------------------------------------------------------------------------------
(* RepairSession, which a reactor calls with its report and the sweep with   *)
(* none: the slot is taken or the cycle passes; the lifecycle lock is waited *)
(* for; the row and its health are read again under the lock.                *)
SweepSession(s) ==
    /\ At(Sweep, "idle") /\ row[s].status = "up" /\ ~row[s].live
    /\ proc' = [proc EXCEPT ![Sweep] = [Idle(s) EXCEPT !.pc = "gate"]]
    /\ UNCHANGED <<world, row, log, lock, gate, moves>>
TakeGate(p) ==
    /\ At(p, "gate")
    /\ IF Candidate(row[S(p)], proc[p].rep) /\ gate = None
       THEN gate' = p /\ Go(p, "lock") ELSE End(p) /\ UNCHANGED gate
    /\ UNCHANGED <<world, row, log, lock, moves>>
TakeLockBlind(p) ==                     \* mutant: what was read before the lock stands
    /\ At(p, "lock") /\ lock[S(p)] = None
    /\ lock' = [lock EXCEPT ![S(p)] = p]
    /\ proc' = [proc EXCEPT ![p].pc = "decide", ![p].cand = TRUE]
    /\ UNCHANGED <<world, row, log, gate, moves>>
TakeLock(p) ==
    /\ At(p, "lock") /\ lock[S(p)] = None
    /\ lock' = [lock EXCEPT ![S(p)] = p]
    /\ proc' = [proc EXCEPT ![p].pc = "decide",
                            ![p].cand = Candidate(row[S(p)], Observed(S(p)))]
    /\ UNCHANGED <<world, row, log, gate, moves>>
ReleaseLock(p) == Free(p) /\ UNCHANGED gate     \* mutant: the slot is kept
Release(p) == Free(p) /\ gate' = None
(* A fresh observation has stamped the row, whatever it leads to.            *)
Decide(p) ==
    LET s == S(p)
        f == IF row[s].live THEN Stamped(proc, s) ELSE proc
        try == proc[p].cand /\ Attempts(log[s]) < Limit
    IN  /\ At(p, "decide")
        /\ log' = IF try THEN [log EXCEPT ![s] = Append(@, "started")]
                  ELSE IF proc[p].cand /\ ~Suspended(log[s])
                  THEN [log EXCEPT ![s] = Append(@, "suspended")] ELSE log
        /\ IF try THEN /\ proc' = [Outdated(f, s) EXCEPT ![p].pc = "up"] /\ UNCHANGED <<lock, gate>>
                  ELSE /\ proc' = [f EXCEPT ![p] = Resting(p)] /\ Release(p)
        /\ UNCHANGED <<world, row, moves>>

(* upUnlocked: everything comes up; or a setup fails and what had come up    *)
(* stays; or the parent has no slot and the session goes to sleep, which is  *)
(* no error; or it fails before it writes anything.                          *)
Outcome(ok, wrote, r, w) == [ok |-> ok, wrote |-> wrote, row |-> r, world |-> w]
UpOutcomes(s) ==
    {Outcome(TRUE, TRUE, [row[s] EXCEPT !.status = "up", !.live = TRUE], "pass"),
     Outcome(FALSE, FALSE, row[s], world[s])}
    \cup {Outcome(FALSE, TRUE, [row[s] EXCEPT !.live = l], "exit") : l \in BOOLEAN}
    \cup {Outcome(TRUE, TRUE, [row[s] EXCEPT !.status = "down"], world[s]) :
             x \in {y \in {1} : ~row[s].live}}
Upped(s, o) == /\ row' = [row EXCEPT ![s] = o.row]
               /\ world' = [world EXCEPT ![s] = o.world]
After(s, o) == IF o.wrote THEN Stamped(proc, s) ELSE proc

RepairUp(p) ==
    /\ At(p, "up")
    /\ \E o \in UpOutcomes(S(p)) :
          /\ Upped(S(p), o)
          /\ proc' = [After(S(p), o) EXCEPT ![p].pc = "result", ![p].cand = o.ok]
    /\ UNCHANGED <<log, lock, gate, moves>>
RecordResult(p) ==
    /\ At(p, "result")
    /\ log' = [log EXCEPT ![S(p)] = Append(@, IF proc[p].cand THEN "succeeded" ELSE "failed")]
    /\ End(p) /\ Release(p)
    /\ UNCHANGED <<world, row, moves>>
-------------------------------------------------------------------------------
(* The commands.  An up does not wait for the lock, a down does.  A wake of  *)
(* the queue is an up no human asked for, as the one of an MCP client is.    *)
Command(p, s, op) ==
    /\ At(p, "idle") /\ lock[s] = None /\ Counted
    /\ lock' = [lock EXCEPT ![s] = p]
    /\ proc' = [proc EXCEPT ![p] = [Idle(s) EXCEPT !.pc = "command", !.op = op]]
    /\ UNCHANGED <<world, row, log, gate>>
CommandUp(p) ==
    /\ At(p, "command") /\ proc[p].op # "down"
    /\ \E o \in UpOutcomes(S(p)) :
          /\ Upped(S(p), o)
          /\ proc' = [After(S(p), o) EXCEPT ![p] = Resting(p)]
          /\ log' = IF o.ok /\ proc[p].op = "up" THEN Renewed(S(p)) ELSE log
    /\ Free(p) /\ UNCHANGED <<gate, moves>>
CommandDown(p) ==
    /\ At(p, "command") /\ proc[p].op = "down"
    /\ row' = [row EXCEPT ![S(p)].status = "down", ![S(p)].live = FALSE]
    /\ proc' = [Stamped(proc, S(p)) EXCEPT ![p] = Resting(p)]
    /\ Free(p) /\ UNCHANGED <<world, log, gate, moves>>
(* A finalize takes no lock; neither does a status or a dispatcher that asks *)
(* whether a repair is due, both of which store the health they find.        *)
Finalize(s) ==
    /\ Counted /\ ~row[s].final
    /\ row' = [row EXCEPT ![s].final = TRUE]
    /\ proc' = Stamped(proc, s) /\ UNCHANGED <<world, log, lock, gate>>
OtherObserver(s) ==
    /\ Counted /\ \E p \in Procs : proc[p].fresh /\ S(p) = s
    /\ proc' = Stamped(proc, s) /\ UNCHANGED <<world, row, log, lock, gate>>
Turn(s) ==
    /\ Counted /\ row[s].live
    /\ \E w \in Probes : w # world[s] /\ world' = [world EXCEPT ![s] = w]
    /\ UNCHANGED <<row, log, lock, gate, proc>>

(* A process dies.  The serve process takes its followers, their locks and   *)
(* the slot with it.                                                         *)
Dies(ps) ==
    /\ Counted /\ \E p \in ps : ~At(p, "idle")
    /\ proc' = [p \in Procs |-> IF p \in ps THEN Resting(p) ELSE proc[p]]
    /\ lock' = [s \in Sessions |-> IF lock[s] \in ps THEN None ELSE lock[s]]
    /\ gate' = IF gate \in ps THEN None ELSE gate
    /\ UNCHANGED <<world, row, log>>
-------------------------------------------------------------------------------
Step(p) == \/ Observe(p) \/ PersistHealth(p) \/ CountCycle(p) \/ ResetStreak(p)
           \/ TakeGate(p) \/ TakeLock(p) \/ Decide(p) \/ RepairUp(p) \/ RecordResult(p)
           \/ CommandUp(p) \/ CommandDown(p)
Next == \/ \E p \in Procs : Step(p)
        \/ \E s \in Sessions : SweepSession(s) \/ Finalize(s) \/ OtherObserver(s) \/ Turn(s)
        \/ \E p \in Clis, s \in Sessions, op \in Commands : Command(p, s, op)
        \/ Dies(Followers) \/ \E p \in Clis : Dies({p})

(* A process goes on; a reactor's health cycle comes again, and each pass of *)
(* the sweep looks at every session.                                         *)
Fairness == /\ \A p \in Procs : WF_vars(Step(p))
            /\ \A s \in Sessions : SF_vars(SweepSession(s))
Spec     == Init /\ [][Next]_vars
FairSpec == Spec /\ Fairness
-------------------------------------------------------------------------------
TypeOK ==
    /\ world \in [Sessions -> Probes]
    /\ row \in [Sessions -> Row]
    /\ log \in [Sessions -> Seq(Results)]
    /\ lock \in [Sessions -> Procs \cup {None}]
    /\ gate \in Followers \cup {None}
    /\ proc \in [Procs -> Process]
    /\ moves \in 0..MaxMoves
    /\ \A p \in Followers : (gate = p) <=> At(p, "lock") \/ (\E s \in Sessions : lock[s] = p)

(* Across deaths and commands, no more than the limit of repairs begin       *)
(* between two resets, and the suspension is said once, after the last one.  *)
BudgetKept ==
    \A s \in Sessions : \A i \in 1..Len(log[s]) :
        LET Tries(j) == {k \in i..j : log[s][k] = "started"}
        IN  (\A k \in i..Len(log[s]) : log[s][k] # "reset") =>
               /\ Cardinality(Tries(Len(log[s]))) <= Limit
               /\ Cardinality({k \in i..Len(log[s]) : log[s][k] = "suspended"}) <= 1
               /\ \A k \in i..Len(log[s]) : log[s][k] = "suspended" => Tries(Len(log[s])) = Tries(k)

(* A repair is never at work on a session somebody stopped, however long it  *)
(* waited for its turn.                                                      *)
StoppedNotRepaired ==
    \A p \in Followers : At(p, "up") => row[S(p)].status = "up"

(* A session that stays failed ends in a suspension and one whose probe      *)
(* stays unevaluable is reported so: no delivery waits for its repair for    *)
(* ever (AwaitingRepair).  Unless the slot is taken for another session      *)
(* again and again, if only to find that its repair is suspended.            *)
AwaitingRepair(s) ==
    /\ Candidate(row[s], Observed(s)) /\ ~Suspended(log[s]) /\ row[s].cycles < 3
Others(s) == gate # None /\ S(gate) # s
Surfaces ==
    \A s \in Sessions :
        \/ <>[](/\ ~AwaitingRepair(s)
                /\ world[s] = "error" /\ row[s].live /\ row[s].status = "up" => row[s].cycles = 3)
        \/ []<>Others(s)

(* A session that stays healthy has its whole budget again.                  *)
BudgetRestored ==
    \A s \in Sessions :
        <>[](row[s].status = "up" /\ row[s].live /\ world[s] = "pass"
             => Attempts(log[s]) = 0 /\ ~Suspended(log[s]))

(* "A successful automatic Up does not by itself reset the budget: a later   *)
(* healthy observation must prove recovery" (the ADR on opt-in repair): a    *)
(* healthy cycle never clears a repair that began after its probe ran.       *)
RecoveryProven ==
    [][\A p \in Sessions :
          At(p, "reset") /\ proc'[p].pc = "gate" /\ log'[p] # log[p] => ~proc[p].begun]_vars
===============================================================================
