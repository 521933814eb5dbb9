----------------------------- MODULE EventDelivery -----------------------------
(***************************************************************************)
(* The delivery of one session's events to the channels of its workflow:    *)
(* the session's log, the dispatchers that follow it in the resident        *)
(* process, the supervisor that starts and cancels them, and the commands   *)
(* that create, suspend, resume and destroy the session meanwhile.          *)
(*                                                                          *)
(* A session name has one live row at a time.  Destroying it and creating   *)
(* it again makes a new incarnation with a log and a cursor of its own, and *)
(* every store call resolves the name to the row that is live at that call. *)
(* One step is the code between two store calls, or one channel's delivery. *)
(***************************************************************************)
EXTENDS Integers, Sequences

CONSTANTS
    Channels,   \* the workflow's channels, in declaration order
    Relays,     \* those whose include lists name plect.channel.error
    Fragile,    \* those whose receiver may go away
    Slots,      \* dispatcher goroutines that may exist at once
    MaxInc,     \* bound on incarnations of the name
    MaxEvents,  \* bound on events published, the instruction included
    MaxMoves    \* bound on downs, destroys, deaths of serve and breakages

ASSUME DeliveryAssumption ==
    /\ Channels \subseteq Nat \ {0} /\ Relays \subseteq Channels
    /\ Fragile \subseteq Channels
    /\ Slots \subseteq Nat \ {0}
    /\ MaxInc \in Nat \ {0} /\ MaxEvents \in Nat /\ MaxMoves \in Nat

VARIABLES
    inc,     \* incarnations so far; the last one is live unless row is "none"
    row,     \* how far the live row's create has come, and its run scope
    log,     \* each incarnation's events
    cursor,  \* each incarnation's cursor of kind "delivery"
    born,    \* history: where the creator seeded it
    aged,    \* each incarnation's events older than repairHoldLimit
    failing, \* ChannelDeliveryHealth: a delivery streak is open
    disp,    \* the dispatcher goroutines
    active,  \* the supervisor's entry for the name
    broken,  \* the channels whose delivery fails now
    cuts,    \* history: dispatchers cancelled or killed
    sent,    \* events published so far
    moves    \* bounded moves so far

rowVars  == <<inc, row, born>>
logVars  == <<log, cursor, aged, failing>>
envVars  == <<broken, sent, moves>>
vars == <<rowVars, logVars, disp, active, envVars, cuts>>
-------------------------------------------------------------------------------
Incs   == 1..MaxInc
Absent == -1
Nobody == 0

(* "put" is the row of a create that has not seeded the cursor, "seeded" one *)
(* whose setup still runs; "down" and "up" are the run scope of a made row.  *)
Rows == {"none", "put", "seeded", "down", "up"}

(* An event: the channel a plect.channel.error is about (Nobody for any other *)
(* event), whether the failed event was an error itself, and two histories:  *)
(* how often each channel took it, and the channels whose failure is logged. *)
Event == [about : Channels \cup {Nobody}, nested : BOOLEAN, first : BOOLEAN,
          took : [Channels -> Nat], told : SUBSET Channels]
Message(first) == [about |-> Nobody, nested |-> FALSE, first |-> first,
                   took |-> [c \in Channels |-> 0], told |-> {}]
ErrorAbout(c, e) ==
    [Message(FALSE) EXCEPT !.about = c, !.nested = e.about # Nobody]
TakenBy(c, e)  == [e EXCEPT !.took[c] = @ + 1]
ToldOf(c, e)   == [e EXCEPT !.told = @ \cup {c}]

(* channelMatches and the two guards of processEvent: an error is not sent   *)
(* back to the channel it is about, an error about an error to nobody.       *)
Targets(e) == IF e.nested THEN {}
              ELSE IF e.about = Nobody THEN Channels
              ELSE Relays \ {e.about}

Live    == row # "none"
LogEnd(n) == IF log[n] = <<>> THEN 0 ELSE Len(log[n]) + 1   \* List's next, from 0
Start(n) == IF cursor[n] = Absent THEN 0 ELSE cursor[n]   \* ReadCursor

(* A dispatcher: pc, whether its context is cancelled, startGen, the position *)
(* it read, the batch it drains (events i..upto of incarnation b), what came  *)
(* of event i, whether a failure came before any attempt, and the held event. *)
Steps == {"off", "seed", "seedList", "seedCommit", "gen", "check", "rotate",
          "reset", "read", "list", "deliver", "report", "streak", "clear",
          "commit", "wait"}
Goroutine == [pc : Steps, gone : BOOLEAN, gen : Incs \cup {0}, cur : Nat,
              b : Incs \cup {0}, i : Nat, upto : Nat, ok : SUBSET Channels,
              bad : SUBSET Channels, unsent : BOOLEAN,
              held : [b : Incs \cup {0}, i : Nat, ok : SUBSET Channels]]
NotHeld == [b |-> 0, i |-> 0, ok |-> {}]
Off == [pc |-> "off", gone |-> FALSE, gen |-> 0, cur |-> 0, b |-> 0, i |-> 0,
        upto |-> 0, ok |-> {}, bad |-> {}, unsent |-> FALSE, held |-> NotHeld]

Running(d) == disp[d].pc # "off"
At(d, pc)  == disp[d].pc = pc
Current(d) == log[disp[d].b][disp[d].i]     \* the event d works on

Init == /\ inc = 0 /\ row = "none"
        /\ log = [n \in Incs |-> <<>>]
        /\ cursor = [n \in Incs |-> Absent]
        /\ born = [n \in Incs |-> Absent]
        /\ aged = [n \in Incs |-> 0]
        /\ failing = [n \in Incs |-> FALSE]
        /\ disp = [d \in Slots |-> Off]
        /\ active = Nobody
        /\ broken = {}
        /\ cuts = 0 /\ sent = 0 /\ moves = 0
-------------------------------------------------------------------------------
(* The commands.  Create puts the row, seeds the cursor at the tail of the   *)
(* log, runs the setup (whose initial task publishes the instruction) and    *)
(* leaves the session down.                                                  *)
CreateUnminted ==                       \* mutant: the row without an id of its own
          /\ row = "none" /\ inc < MaxInc
          /\ inc' = inc /\ row' = "put"
          /\ UNCHANGED <<born, logVars, disp, active, envVars, cuts>>
Create == /\ row = "none" /\ inc < MaxInc
          /\ inc' = inc + 1 /\ row' = "put"
          /\ UNCHANGED <<born, logVars, disp, active, envVars, cuts>>

SeedBirth == /\ row = "put"
             /\ cursor' = [cursor EXCEPT ![inc] = IF @ = Absent THEN LogEnd(inc) ELSE @]
             /\ born' = [born EXCEPT ![inc] = cursor'[inc]]
             /\ row' = "seeded"
             /\ UNCHANGED <<inc, log, aged, failing, disp, active, envVars, cuts>>

(* The creator died between the two: the next create finds the row there     *)
(* before its own Put and does not seed.                                     *)
RetryCreate == /\ row = "put"
               /\ row' = "seeded"
               /\ UNCHANGED <<inc, born, logVars, disp, active, envVars, cuts>>

(* AppendEvent, by name: nothing is appended when no row is live.            *)
AppendEvent(e) == log' = [log EXCEPT ![inc] = Append(@, e)]

Instruct == /\ row = "seeded" /\ sent < MaxEvents
            /\ AppendEvent(Message(TRUE))
            /\ sent' = sent + 1 /\ row' = "down"
            /\ UNCHANGED <<inc, born, cursor, aged, failing, disp, active,
                           broken, moves, cuts>>

Publish == /\ Live /\ sent < MaxEvents
           /\ AppendEvent(Message(FALSE))
           /\ sent' = sent + 1
           /\ UNCHANGED <<rowVars, cursor, aged, failing, disp, active,
                          broken, moves, cuts>>

Up == /\ row = "down" /\ row' = "up"
      /\ UNCHANGED <<inc, born, logVars, disp, active, envVars, cuts>>

Move == moves < MaxMoves /\ moves' = moves + 1

Down == /\ row = "up" /\ row' = "down" /\ Move
        /\ UNCHANGED <<inc, born, logVars, disp, active, broken, sent, cuts>>

Destroy == /\ Live /\ row # "up" /\ row' = "none" /\ Move
           /\ UNCHANGED <<inc, born, logVars, disp, active, broken, sent, cuts>>

(* The world: a channel's receiver goes away or comes back, and an event that *)
(* is held grows older than repairHoldLimit, with all before it.             *)
Break(c) == /\ c \notin broken /\ broken' = broken \cup {c} /\ Move
            /\ UNCHANGED <<rowVars, logVars, disp, active, sent, cuts>>

Mend(c) == /\ c \in broken /\ broken' = broken \ {c}
           /\ UNCHANGED <<rowVars, logVars, disp, active, sent, moves, cuts>>

Age == /\ \E d \in Slots :
              LET h == disp[d].held
              IN  /\ h # NotHeld /\ aged[h.b] < h.i
                  /\ aged' = [aged EXCEPT ![h.b] = h.i]
       /\ UNCHANGED <<rowVars, log, cursor, failing, disp, active, envVars, cuts>>
-------------------------------------------------------------------------------
(* Supervisor.reconcile: one goroutine per name whose run scope is up, known *)
(* by its entry in active; a cancelled one is forgotten, not waited for.     *)
StartDispatcher(d) ==
    /\ active = Nobody /\ row = "up" /\ ~Running(d)
    /\ disp' = [disp EXCEPT ![d] = [Off EXCEPT !.pc = "seed"]]
    /\ active' = d
    /\ UNCHANGED <<rowVars, logVars, envVars, cuts>>

ForgetDispatcher ==                     \* mutant: forgets without cancelling
    /\ active # Nobody /\ row # "up"
    /\ active' = Nobody
    /\ UNCHANGED <<rowVars, logVars, disp, envVars, cuts>>
CancelDispatcher ==
    /\ active # Nobody /\ row # "up"
    /\ active' = Nobody
    /\ IF Running(active)
       THEN /\ disp' = [disp EXCEPT ![active].gone = TRUE]
            /\ cuts' = cuts + 1
       ELSE UNCHANGED <<disp, cuts>>
    /\ UNCHANGED <<rowVars, logVars, envVars>>

(* serve dies with everything it held in memory, and starts again.           *)
ServeDies == /\ \E d \in Slots : Running(d)
             /\ Move
             /\ disp' = [d \in Slots |-> Off] /\ active' = Nobody
             /\ cuts' = cuts + 1
             /\ UNCHANGED <<rowVars, logVars, broken, sent>>
-------------------------------------------------------------------------------
(* sessionDispatcher.run, step by step.  In each step d goes on as goroutine *)
(* g; the exit of a goroutine frees its slot.                                *)
Becomes(d, g) == /\ disp' = [disp EXCEPT ![d] = g]
                 /\ UNCHANGED <<rowVars, active, envVars, cuts>>
Goes(d, pc)   == Becomes(d, [disp[d] EXCEPT !.pc = pc])
Idle(d)       == [Off EXCEPT !.pc = "wait", !.gone = disp[d].gone,
                             !.gen = disp[d].gen, !.held = disp[d].held]

(* CommitCursor, by name: it fails, and is only logged, without a live row.  *)
CommitCursor(pos) ==
    cursor' = IF Live THEN [cursor EXCEPT ![inc] = pos] ELSE cursor

(* SeedCursor: HasCursor, List, CommitCursor.                                *)
SeedCheck(d) == /\ At(d, "seed")
                /\ Goes(d, IF Live /\ cursor[inc] # Absent THEN "gen" ELSE "seedList")
                /\ UNCHANGED logVars

SeedList(d) == /\ At(d, "seedList")
               /\ Becomes(d, [disp[d] EXCEPT !.pc = "seedCommit",
                                             !.cur = IF Live THEN LogEnd(inc) ELSE 0])
               /\ UNCHANGED logVars

SeedCommit(d) == /\ At(d, "seedCommit")
                 /\ CommitCursor(disp[d].cur)
                 /\ Becomes(d, [disp[d] EXCEPT !.pc = "gen", !.cur = 0])
                 /\ UNCHANGED <<log, aged, failing>>

(* startGen: the row's id, or "" without a live row.                         *)
StreamID == IF Live THEN inc ELSE 0

StartGen(d) == /\ At(d, "gen")
               /\ Becomes(d, [disp[d] EXCEPT !.pc = "check", !.gen = StreamID])
               /\ UNCHANGED logVars

(* The head of the loop: a cancelled or destroyed dispatcher returns for     *)
(* good, one whose run scope is down waits.                                  *)
Check(d) == /\ At(d, "check")
            /\ CASE disp[d].gone \/ ~Live -> Becomes(d, Off)
                 [] row = "up" /\ ~disp[d].gone -> Goes(d, "rotate")
                 [] OTHER -> Goes(d, "wait")
            /\ UNCHANGED logVars

(* select: ctx.Done, a wake, or the fallback tick.                           *)
Wake(d) == /\ At(d, "wait")
           /\ IF disp[d].gone THEN Becomes(d, Off) ELSE Goes(d, "check")
           /\ UNCHANGED logVars

(* drain.  Another incarnation than startGen resets the cursor to the head.  *)
Rotate(d) == /\ At(d, "rotate")
             /\ IF disp[d].gen # 0 /\ disp[d].gen # StreamID
                THEN Becomes(d, [disp[d] EXCEPT !.pc = "reset", !.gen = StreamID])
                ELSE Goes(d, "read")
             /\ UNCHANGED logVars

Reset(d) == /\ At(d, "reset")
            /\ CommitCursor(0)
            /\ Goes(d, "read")
            /\ UNCHANGED <<log, aged, failing>>

ReadCursor(d) == /\ At(d, "read")
                 /\ Becomes(d, [disp[d] EXCEPT !.pc = "list",
                                    !.cur = IF Live THEN Start(inc) ELSE 0])
                 /\ UNCHANGED logVars

(* The held event keeps the channels it was delivered to before.             *)
WorkingAfresh(d, n, k, last) ==         \* mutant: they are forgotten
    [disp[d] EXCEPT !.pc = "deliver", !.cur = 0, !.b = n, !.i = k, !.upto = last,
        !.ok = {}, !.bad = {}, !.unsent = FALSE]
Working(d, n, k, last) ==
    [disp[d] EXCEPT !.pc = "deliver", !.cur = 0, !.b = n, !.i = k, !.upto = last,
        !.ok = IF disp[d].held.b = n /\ disp[d].held.i = k
               THEN disp[d].held.ok ELSE {},
        !.bad = {}, !.unsent = FALSE]

ListEvents(d) ==
    /\ At(d, "list")
    /\ LET first == IF disp[d].cur = 0 THEN 1 ELSE disp[d].cur
       IN Becomes(d, IF Live /\ first <= Len(log[inc])
                     THEN IF disp[d].gone THEN Off
                          ELSE Working(d, inc, first, Len(log[inc]))
                     ELSE Idle(d))
    /\ UNCHANGED logVars

(* processEvent: one worker per matching channel not served already, each    *)
(* with its own retries.  A worker may land though the context is cancelled. *)
Pending(d, c) == c \in Targets(Current(d)) \ (disp[d].ok \cup disp[d].bad)

Deliver(d, c) ==
    /\ At(d, "deliver") /\ Pending(d, c) /\ c \notin broken
    /\ log' = [log EXCEPT ![disp[d].b][disp[d].i] = TakenBy(c, Current(d))]
    /\ Becomes(d, [disp[d] EXCEPT !.ok = @ \cup {c}])
    /\ UNCHANGED <<cursor, aged, failing>>

(* The attempts are used up, or the channel's input did not even resolve.    *)
Fail(d, c) ==
    /\ At(d, "deliver") /\ Pending(d, c) /\ c \in broken
    /\ \E unsent \in BOOLEAN :
           Becomes(d, [disp[d] EXCEPT !.bad = @ \cup {c}, !.unsent = @ \/ unsent])
    /\ UNCHANGED logVars

Processed(d) == /\ At(d, "deliver") /\ ~disp[d].gone
                /\ \A c \in Channels : ~Pending(d, c)

(* Every matching channel took it; recordDeliverySuccess if there was one.   *)
AllDelivered(d) ==
    /\ Processed(d) /\ disp[d].bad = {}
    /\ Becomes(d, [disp[d] EXCEPT !.held = NotHeld,
                       !.pc = IF Targets(Current(d)) = {} THEN "commit" ELSE "clear"])
    /\ UNCHANGED logVars

(* shouldHold: automatic repair is expected (the judgement of another        *)
(* package, open here), every failure was an attempt, the event is not old.  *)
HoldForever(d) ==                       \* mutant: no repairHoldLimit
    /\ Processed(d) /\ disp[d].bad # {} /\ ~disp[d].unsent
    /\ Becomes(d, [Idle(d) EXCEPT
           !.held = [b |-> disp[d].b, i |-> disp[d].i, ok |-> disp[d].ok]])
    /\ UNCHANGED logVars
HoldAside(d) ==                         \* mutant: goes on to the next event
    /\ Processed(d) /\ disp[d].bad # {} /\ ~disp[d].unsent
    /\ aged[disp[d].b] < disp[d].i
    /\ Becomes(d, IF disp[d].i < disp[d].upto
                  THEN Working(d, disp[d].b, disp[d].i + 1, disp[d].upto)
                  ELSE Idle(d))
    /\ UNCHANGED logVars
HoldEvent(d) ==
    /\ Processed(d) /\ disp[d].bad # {} /\ ~disp[d].unsent
    /\ aged[disp[d].b] < disp[d].i
    /\ Becomes(d, [Idle(d) EXCEPT
           !.held = [b |-> disp[d].b, i |-> disp[d].i, ok |-> disp[d].ok]])
    /\ UNCHANGED logVars

GiveUp(d) ==
    /\ Processed(d) /\ disp[d].bad # {}
    /\ Becomes(d, [disp[d] EXCEPT !.pc = "report", !.held = NotHeld])
    /\ UNCHANGED logVars

(* recordFailure, once per failed channel in declaration order.              *)
ReportFailure(d, c) ==
    /\ At(d, "report") /\ c \in disp[d].bad
    /\ \A x \in disp[d].bad : c <= x
    /\ IF Live /\ ~disp[d].gone
       THEN log' = LET told == [log EXCEPT ![disp[d].b][disp[d].i] = ToldOf(c, Current(d))]
                   IN  [told EXCEPT ![inc] = Append(@, ErrorAbout(c, Current(d)))]
       ELSE UNCHANGED log
    /\ Becomes(d, [disp[d] EXCEPT !.bad = @ \ {c},
                       !.pc = IF disp[d].bad = {c} THEN "streak" ELSE "report"])
    /\ UNCHANGED <<cursor, aged, failing>>

(* recordDeliveryFailure and recordDeliverySuccess, by name; a drain that has *)
(* been cancelled by now returns.                                            *)
RecordBlindly(d) ==                     \* mutant: no look at the context
    /\ disp[d].pc \in {"streak", "clear"}
    /\ failing' = IF Live THEN [failing EXCEPT ![inc] = At(d, "streak")] ELSE failing
    /\ Goes(d, "commit")
    /\ UNCHANGED <<log, cursor, aged>>
RecordStreak(d) ==
    /\ disp[d].pc \in {"streak", "clear"}
    /\ failing' = IF Live THEN [failing EXCEPT ![inc] = At(d, "streak")] ELSE failing
    /\ IF disp[d].gone THEN Becomes(d, Off) ELSE Goes(d, "commit")
    /\ UNCHANGED <<log, cursor, aged>>

(* The next event of the batch, or back to select.                           *)
Commit(d) ==
    /\ At(d, "commit")
    /\ CommitCursor(disp[d].i + 1)
    /\ Becomes(d, IF disp[d].gone THEN Off
                  ELSE IF disp[d].i < disp[d].upto
                       THEN Working(d, disp[d].b, disp[d].i + 1, disp[d].upto)
                       ELSE Idle(d))
    /\ UNCHANGED <<log, aged, failing>>

(* A drain cancelled before its last look at the context returns without      *)
(* committing; Commit is the case of a later cancellation.                   *)
Abort(d) == /\ disp[d].gone /\ disp[d].pc \in {"deliver", "commit"}
            /\ Becomes(d, Off)
            /\ UNCHANGED logVars

Seed(d)    == SeedCheck(d) \/ SeedList(d) \/ SeedCommit(d) \/ StartGen(d)
Loop(d)    == Check(d) \/ Wake(d)
Drain(d)   == Rotate(d) \/ Reset(d) \/ ReadCursor(d) \/ ListEvents(d) \/ Commit(d)
                \/ Abort(d)
Process(d) == \/ \E c \in Channels : Deliver(d, c) \/ Fail(d, c) \/ ReportFailure(d, c)
              \/ AllDelivered(d) \/ HoldEvent(d) \/ GiveUp(d) \/ RecordStreak(d)
Dispatcher(d) == Seed(d) \/ Loop(d) \/ Drain(d) \/ Process(d)

Commands  == Create \/ SeedBirth \/ RetryCreate \/ Instruct \/ Publish \/ Up
               \/ Down \/ Destroy
World     == Age \/ ServeDies \/ \E c \in Fragile : Break(c) \/ Mend(c)
Reconcile == CancelDispatcher \/ \E d \in Slots : StartDispatcher(d)

Next == Commands \/ World \/ Reconcile \/ \E d \in Slots : Dispatcher(d)

Spec == Init /\ [][Next]_vars

(* serve polls every second, a delivery ends, time passes.  No command and   *)
(* no repair of a channel is forced.                                         *)
Fairness == WF_vars(Reconcile) /\ WF_vars(Age) /\ \A d \in Slots : WF_vars(Dispatcher(d))
FairSpec == Spec /\ Fairness
-------------------------------------------------------------------------------
(* Every variable has its type.                                              *)
TypeOK == /\ inc \in 0..MaxInc /\ row \in Rows /\ (Live => inc # 0)
          /\ log \in [Incs -> Seq(Event)]
          /\ cursor \in [Incs -> Nat \cup {Absent}]
          /\ born \in [Incs -> Nat \cup {Absent}]
          /\ aged \in [Incs -> Nat]
          /\ failing \in [Incs -> BOOLEAN]
          /\ disp \in [Slots -> Goroutine]
          /\ active \in Slots \cup {Nobody}
          /\ broken \subseteq Channels
          /\ cuts \in Nat /\ sent \in Nat /\ moves \in Nat

(* What the properties below say of the first incarnation of a name whose    *)
(* creator seeded the cursor.                                                *)
Settled(e)   == \A c \in Targets(e) : e.took[c] > 0 \/ c \in e.told
Plain        == Live /\ inc = 1 /\ born[1] # Absent
FromBirth(k) == k \in DOMAIN log[1] /\ born[1] <= k

(* No event the cursor has passed was dropped: every channel it matches took *)
(* it or has its failure in the log (drain commits after processEvent,       *)
(* dispatcher.go), whatever was cancelled, killed, held or retried meanwhile.*)
NothingSkipped ==
    Plain => \A k \in 1..Len(log[1]) :
                 FromBirth(k) /\ k < cursor[1] => Settled(log[1][k])

(* A channel takes an event for the first time only after every earlier one  *)
(* it matches was taken by it or reported: a held event holds those behind.  *)
(* ImplementsQueue, below, says so of every step.                            *)
InOrder ==
    Plain => \A k \in 1..Len(log[1]) : \A j \in 1..(k - 1) : \A c \in Channels :
        /\ FromBirth(j) /\ log[1][k].took[c] > 0 /\ c \in Targets(log[1][j])
        => log[1][j].took[c] > 0 \/ c \in log[1][j].told

(* A channel takes an event again only because a dispatcher was cut off: the *)
(* held event remembers who has it, and the cursor moves event by event.     *)
ReplaysBounded ==
    Plain => \A k \in 1..Len(log[1]) : \A c \in Channels :
                 log[1][k].took[c] <= 1 + cuts

(* "The supervisor owns teardown": a goroutine that is not cancelled is the   *)
(* one the supervisor knows by the name, so there is at most one of them.    *)
OneUncancelled ==
    \A d \in Slots : Running(d) /\ ~disp[d].gone => active = d

(* The promise to the channels: from the birth of the first incarnation to    *)
(* its end, its log is a queue that gives every channel every event that      *)
(* concerns it, at least once or with its failure reported, and in order.    *)
Owed     == IF Plain THEN {k \in 1..Len(log[1]) : FromBirth(k)} ELSE {}
Wanted   == [k \in Owed |-> Targets(log[1][k])]
Answers(e) == {c \in Targets(e) : e.took[c] > 0 \/ c \in e.told}
Answered == [k \in Owed |-> Answers(log[1][k])]
Passed   == {k \in Owed : k < cursor[1]}
Upcoming == IF Plain THEN Len(log[1]) + 1 ELSE 0

Queue == INSTANCE OrderedQueue WITH open <- Plain, next <- Upcoming, wanted <- Wanted,
                                    settled <- Answered, passed <- Passed
ImplementsQueue == Queue!Spec

(* A session that stays up has everything that was published to it delivered *)
(* or reported, broken channels and repairs that never come included, and    *)
(* the dispatcher is past it (NothingSkipped says it was settled on the way).*)
Drained   == /\ cursor[1] # Absent
             /\ \A k \in 1..Len(log[1]) : k < cursor[1]
Delivered == <>[](row = "up" /\ inc = 1) => <>[]Drained

(* Claims of the comments that the code does not keep.                       *)

(* SeedCursor: what is produced after the row was made, "including that      *)
(* first plect.instruction", is delivered once the dispatcher starts.        *)
InstructionDelivered ==
    \A n \in Incs : \A k \in 1..Len(log[n]) :
        Live /\ inc = n /\ log[n][k].first /\ k < cursor[n] => Settled(log[n][k])

(* processEvent: a healthy channel's successes do not starve the streak of a *)
(* permanently broken one.  A channel that has taken nothing, though the     *)
(* cursor is past an event it matches, leaves the streak open.               *)
BrokenChannelKeepsStreak ==
    Plain => \A c \in Channels :
        /\ \E k \in 1..Len(log[1]) : FromBirth(k) /\ k < cursor[1]
                                       /\ c \in Targets(log[1][k])
        /\ \A k \in 1..Len(log[1]) : log[1][k].took[c] = 0
        => failing[1]
===============================================================================
