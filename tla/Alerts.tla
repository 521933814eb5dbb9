--------------------------------- MODULE Alerts ---------------------------------
(***************************************************************************)
(* How bad news of a session gets to somebody: its reactor reports the       *)
(* session's health and a channel that keeps failing, and a sweep of the     *)
(* supervisor a heartbeat that has stopped.  An alert goes to the nearest    *)
(* ancestor that is well itself, or, if there is none, to the session's own  *)
(* log as undeliverable.  What keeps it from being sent again is a key on    *)
(* the receiving log and a record in the session's row, which are written    *)
(* one after the other and may be cut apart by the death of serve.           *)
(*                                                                          *)
(* All sessions are up and none opts into repair (for that see Repair).  A   *)
(* log is the set of its alerts: no alert is ever put on a log twice.        *)
(***************************************************************************)
EXTENDS Integers

CONSTANTS
    Sessions,
    Parent,     \* a function from sessions to sessions or None, without cycles
    None,
    Sweep,      \* the deadman sweep; every session's reactor bears its name
    MaxMoves,   \* bound on what happens to the sessions
    MaxFaults   \* bound on deaths of serve and failed writes

ASSUME AlertsAssumption ==
    /\ Parent \in [Sessions -> Sessions \cup {None}]
    /\ Sessions # {} /\ None \notin Sessions /\ Sweep \notin Sessions
    /\ MaxMoves \in Nat /\ MaxFaults \in Nat

VARIABLES
    health,     \* what a probe of each session would find
    streak,     \* each session's channel failures, by its dispatcher
    tick,       \* each session's last tick and whether it is overdue
    row,        \* each session's stored health record
    log,        \* the alerts on each session's log
    proc,       \* the reactors and the sweep
    moves, faults

vars == <<health, streak, tick, row, log, proc, moves, faults>>
-------------------------------------------------------------------------------
Bad      == {"unhealthy", "stalled"}
States   == Bad \cup {"healthy"}
Procs    == Sessions \cup {Sweep}
Counts   == 0..(MaxMoves + 1)

(* n: no failure, some, or enough of them or for long enough; since: which   *)
(* episode (FirstFailureAt); told: EscalatedAt.                              *)
Streak   == [since : Counts, n : 0..2, told : BOOLEAN]
Tick     == [last : Counts, overdue : BOOLEAN]
(* told: whether LastNotifiedAt is unset, within the renotify window, older. *)
Row      == [state : States, told : {"never", "recent", "old"}, count : Counts]
(* what an alert says, and from whom; its key is all of that.                *)
Alert    == [from : Sessions, kind : States \cup {"channel", "deadman"}, n : Counts]
Entry    == {"escalate", "dead"} \X Alert

(* A process: where it is, the alert it sends, the session its walk has      *)
(* reached, and the record it read at the start.                             *)
Process  == [pc : {"idle", "probe", "climb", "publish", "local", "record"},
             alert : Alert, at : Sessions, prev : Row]
NewRow   == [state |-> "healthy", told |-> "never", count |-> 0]
SomeOne  == CHOOSE s \in Sessions : TRUE
Rest(p)  == LET s == IF p = Sweep THEN SomeOne ELSE p
            IN  [pc |-> "idle", alert |-> [from |-> s, kind |-> "healthy", n |-> 0],
                 at |-> s, prev |-> NewRow]

Init == /\ health = [s \in Sessions |-> "healthy"]
        /\ streak = [s \in Sessions |-> [since |-> 0, n |-> 0, told |-> FALSE]]
        /\ tick = [s \in Sessions |-> [last |-> 0, overdue |-> FALSE]]
        /\ row = [s \in Sessions |-> NewRow]
        /\ log = [s \in Sessions |-> {}]
        /\ proc = [p \in Procs |-> Rest(p)]
        /\ moves = 0 /\ faults = 0

At(p, pc)  == proc[p].pc = pc
Said(p)    == proc[p].alert
Go(p, pc)  == proc' = [proc EXCEPT ![p].pc = pc]
End(p)     == proc' = [proc EXCEPT ![p] = Rest(p)]
Send(p, s, kind, n) ==
    proc' = [proc EXCEPT ![p] = [Rest(p) EXCEPT !.pc = "climb", !.at = s,
                                     !.alert = [from |-> s, kind |-> kind, n |-> n]]]
(* A probe of a session stores what it found, whoever asked (EvaluateHealth).*)
Stored(s)  == row' = [row EXCEPT ![s].state = health[s]]
-------------------------------------------------------------------------------
(* HealthcheckSession: the record is read, the session is probed, and if it  *)
(* is bad and this is news, or the last word is a window old, it is told.    *)
Healthcheck(s) ==
    /\ At(s, "idle")
    /\ proc' = [proc EXCEPT ![s].pc = "probe", ![s].prev = row[s]]
    /\ UNCHANGED <<health, streak, tick, row, log, moves, faults>>
ShouldNotify(prev, state) == prev.state # state \/ prev.told # "recent"
ProbeTwice(s) ==                        \* mutant: the count goes up twice
    /\ At(s, "probe") /\ Stored(s)
    /\ IF health[s] \in Bad /\ ShouldNotify(proc[s].prev, health[s])
       THEN Send(s, s, health[s], proc[s].prev.count + 2) ELSE End(s)
    /\ UNCHANGED <<health, streak, tick, log, moves, faults>>
Probe(s) ==
    /\ At(s, "probe") /\ Stored(s)
    /\ IF health[s] \in Bad /\ ShouldNotify(proc[s].prev, health[s])
       THEN Send(s, s, health[s], proc[s].prev.count + 1) ELSE End(s)
    /\ UNCHANGED <<health, streak, tick, log, moves, faults>>

(* CheckChannelHealth and the deadman sweep.                                 *)
CheckChannel(s) ==
    /\ At(s, "idle") /\ streak[s].n = 2 /\ ~streak[s].told
    /\ Send(s, s, "channel", streak[s].since)
    /\ UNCHANGED <<health, streak, tick, row, log, moves, faults>>
OutageOnce(s) == 0                      \* mutant: the key forgets which outage
Outage(s) == tick[s].last
CheckDeadman(s) ==
    /\ At(Sweep, "idle") /\ tick[s].overdue
    /\ Send(Sweep, s, "deadman", Outage(s))
    /\ UNCHANGED <<health, streak, tick, row, log, moves, faults>>

(* The walk to a live ancestor probes each one on its way.                   *)
Climb(p) ==
    /\ At(p, "climb")
    /\ LET up == Parent[proc[p].at]
       IN  IF up = None THEN Go(p, "local") /\ UNCHANGED row
           ELSE /\ Stored(up)
                /\ proc' = [proc EXCEPT ![p].at = up,
                                        ![p].pc = IF health[up] \in Bad THEN "climb" ELSE "publish"]
    /\ UNCHANGED <<health, streak, tick, log, moves, faults>>

(* A key that is on the log already counts as no ancestor for an alert of    *)
(* the reactor, and as done for the deadman, which looks for it first.       *)
Publish(p) ==
    LET e == <<"escalate", Said(p)>>
    IN  /\ At(p, "publish")
        /\ log' = [log EXCEPT ![proc[p].at] = @ \cup {e}]
        /\ IF e \in log[proc[p].at] THEN IF p = Sweep THEN End(p) ELSE Go(p, "local")
           ELSE IF p = Sweep THEN End(p) ELSE Go(p, "record")
        /\ UNCHANGED <<health, streak, tick, row, moves, faults>>
LocalLost(p) ==                         \* mutant: nothing is left when nobody hears
    /\ At(p, "local")
    /\ IF p = Sweep THEN End(p) ELSE Go(p, "record")
    /\ UNCHANGED <<health, streak, tick, row, log, moves, faults>>
Local(p) ==
    LET e == <<"dead", Said(p)>>
    IN  /\ At(p, "local")
        /\ log' = [log EXCEPT ![Said(p).from] = @ \cup {e}]
        /\ IF e \in log[Said(p).from] \/ p = Sweep THEN End(p) ELSE Go(p, "record")
        /\ UNCHANGED <<health, streak, tick, row, moves, faults>>

(* persistHealthNotification and persistChannelHealthEscalation: the latter  *)
(* marks the streak that is open by now, if any.                             *)
RecordNothing(s) == End(s) /\ At(s, "record")           \* mutant: not recorded
                    /\ UNCHANGED <<health, streak, tick, row, log, moves, faults>>
Record(s) ==
    /\ At(s, "record") /\ End(s)
    /\ IF Said(s).kind = "channel"
       THEN /\ streak' = [streak EXCEPT ![s].told = streak[s].n > 0] /\ UNCHANGED row
       ELSE /\ row' = [row EXCEPT ![s].told = "recent", ![s].count = Said(s).n]
            /\ UNCHANGED streak
    /\ UNCHANGED <<health, tick, log, moves, faults>>
-------------------------------------------------------------------------------
(* What happens meanwhile: a session turns, the window passes, a channel     *)
(* fails or recovers, ticks stop and start, somebody asks for the status.    *)
Counted == moves < MaxMoves /\ moves' = moves + 1
Turn(s) ==
    /\ Counted /\ \E h \in States : h # health[s] /\ health' = [health EXCEPT ![s] = h]
    /\ UNCHANGED <<streak, tick, row, log, proc, faults>>
WindowEnds(s) ==
    /\ Counted /\ row[s].told = "recent" /\ row' = [row EXCEPT ![s].told = "old"]
    /\ UNCHANGED <<health, streak, tick, log, proc, faults>>
RecordFailure(s) ==
    /\ Counted
    /\ \E n \in {1, 2} :
          /\ n > streak[s].n
          /\ streak' = [streak EXCEPT ![s].n = n,
                                      ![s].since = IF streak[s].n = 0 THEN @ + 1 ELSE @]
    /\ UNCHANGED <<health, tick, row, log, proc, faults>>
RecordSuccess(s) ==
    /\ Counted /\ streak[s].n > 0
    /\ streak' = [streak EXCEPT ![s].n = 0, ![s].told = FALSE]
    /\ UNCHANGED <<health, tick, row, log, proc, faults>>
Ticks(s) ==
    /\ Counted
    /\ tick' = [tick EXCEPT ![s] = IF @.overdue THEN [last |-> @.last + 1, overdue |-> FALSE]
                                   ELSE [@ EXCEPT !.overdue = TRUE]]
    /\ UNCHANGED <<health, streak, row, log, proc, faults>>
Status(s) ==
    /\ row[s].state # health[s] /\ Stored(s)
    /\ UNCHANGED <<health, streak, tick, log, proc, moves, faults>>

(* serve dies, with all that was under way, or one write fails.              *)
Fault(ps) ==
    /\ faults < MaxFaults /\ faults' = faults + 1
    /\ \E p \in ps : ~At(p, "idle")
    /\ proc' = [p \in Procs |-> IF p \in ps THEN Rest(p) ELSE proc[p]]
    /\ UNCHANGED <<health, streak, tick, row, log, moves>>
-------------------------------------------------------------------------------
Step(p) == Climb(p) \/ Publish(p) \/ Local(p)
Reactor(s) == Probe(s) \/ Step(s) \/ Record(s)
Next == \/ \E s \in Sessions : \/ Healthcheck(s) \/ CheckChannel(s) \/ Reactor(s)
                               \/ CheckDeadman(s) \/ Turn(s) \/ WindowEnds(s) \/ Status(s)
                               \/ RecordFailure(s) \/ RecordSuccess(s) \/ Ticks(s)
        \/ Step(Sweep)
        \/ Fault(Procs) \/ \E s \in Sessions : At(s, "record") /\ Fault({s})

(* A reactor goes on, the ticker of its channel check is not put off for     *)
(* ever by its other work, and each pass of the sweep visits every session.  *)
Fairness == /\ \A s \in Sessions : /\ WF_vars(Healthcheck(s) \/ Reactor(s))
                                   /\ SF_vars(CheckChannel(s)) /\ SF_vars(CheckDeadman(s))
            /\ WF_vars(Step(Sweep))
Spec     == Init /\ [][Next]_vars
FairSpec == Spec /\ Fairness
-------------------------------------------------------------------------------
TypeOK ==
    /\ health \in [Sessions -> States]
    /\ streak \in [Sessions -> Streak]
    /\ tick \in [Sessions -> Tick]
    /\ row \in [Sessions -> Row]
    /\ log \in [Sessions -> SUBSET Entry]
    /\ proc \in [Procs -> Process]
    /\ moves \in 0..MaxMoves /\ faults \in 0..MaxFaults
    /\ \A s \in Sessions : Said(s).from = s

Heard(a) == \E s \in Sessions : <<"escalate", a>> \in log[s] \/ <<"dead", a>> \in log[s]
Of(s, kind, n) == [from |-> s, kind |-> kind, n |-> n]

(* Every notification a session's record counts was on some log first.       *)
NotifiedHeard ==
    \A s \in Sessions :
        \A n \in 1..row[s].count : \E b \in Bad : Heard(Of(s, b, n))

(* A session that stays bad is told of again each time a window has passed,  *)
(* as long as nothing failed between a telling and its record.               *)
Silent(s) == health[s] \in Bad /\ row[s].told # "recent"
Renotified == \A s \in Sessions : []<>(~Silent(s) \/ faults > 0)

(* Every episode of a failing channel and every outage of a heartbeat that   *)
(* lasts is told of, whatever fails: no streak waits for ever to be marked   *)
(* and is on no log, and no outage.                                          *)
Unheard(s) ==
    \/ streak[s].n = 2 /\ ~streak[s].told /\ ~Heard(Of(s, "channel", streak[s].since))
    \/ tick[s].overdue /\ ~Heard(Of(s, "deadman", tick[s].last))
Told == \A s \in Sessions : []<>~Unheard(s)

(* "A later success ends its episode; a subsequent failure of that kind      *)
(* starts a new one and is free to escalate again" (CheckChannelHealth): a   *)
(* streak is marked as told of only when that streak was.                    *)
StreakHeard ==
    \A s \in Sessions : streak[s].told => Heard(Of(s, "channel", streak[s].since))

(* The tests say that a bad session is notified again after the window: also *)
(* when a record was lost once.                                              *)
AlwaysRenotified == \A s \in Sessions : []<>~Silent(s)
===============================================================================
