------------------------------- MODULE Followers -------------------------------
(***************************************************************************)
(* The two followers of one session's log in the resident process: the      *)
(* reactor, which ticks the session while its run scope is up, and the      *)
(* forwarder, which relays inbound events to an ancestor, or asks for a     *)
(* wake, while it is down.  The supervisor starts and cancels them; each    *)
(* new one waits for the one it replaces.  They share two durable cursors.  *)
(*                                                                          *)
(* Destroying the session and creating it again under its name makes a new  *)
(* row with an empty log and no cursors; every store call resolves the name *)
(* to the row that is live at that call.  One step is the code between two  *)
(* store calls that another process can come between.                       *)
(***************************************************************************)
EXTENDS Integers, Sequences, FiniteSets

CONSTANTS
    Slots,      \* follower goroutines that may exist at once
    MaxInc,     \* bound on incarnations of the name
    MaxEvents,  \* bound on the events of an incarnation's log
    MaxMoves,   \* bound on ups, downs, sleeps, deaths and failures
    Window      \* terminalScanLimit: the target's events a dedup check reads

ASSUME FollowersAssumption ==
    /\ Slots \subseteq Nat \ {0}
    /\ MaxInc \in Nat \ {0} /\ MaxEvents \in Nat /\ MaxMoves \in Nat
    /\ Window \in Nat \ {0}

VARIABLES
    inc,        \* incarnations so far; the last one is live unless row is "none"
    row,        \* the live row: its run scope, and whether it sleeps
    log,        \* the live row's events; an event's sequence is its index
    tickCur,    \* the live row's cursor of kind "tick"
    fwdCur,     \* the live row's cursor of kind "forward"
    parent,     \* the ancestor's plect.resource.forwarded events, by their key
    fol,        \* the follower goroutines
    active,     \* the supervisor's entry for the name's reactor
    forwarding, \* the supervisor's entry for the name's forwarder
    fate,       \* history: what has been done with each of the live row's events
    clean,      \* history: no row was made while a follower of another lived
    moves       \* bounded moves so far

rowVars == <<inc, row, log>>
curVars == <<tickCur, fwdCur>>
supVars == <<active, forwarding>>
vars == <<rowVars, curVars, parent, fol, supVars, fate, clean, moves>>
-------------------------------------------------------------------------------
Absent == -1
Nobody == 0
Offsets == 1..MaxEvents
Keys   == (1..MaxInc) \X (1..MaxEvents)      \* an event's id
Noise  == <<0, 0>>                           \* an event of another child's

(* "stopping" is a sleeping session whose stop event is appended while its   *)
(* row still says it sleeps.                                                 *)
Rows == {"none", "up", "asleep", "stopping", "stopped"}

(* An inbound event matches the workflow's declared pattern; "own" is tick's *)
(* own output, "stop" the plect.session.stop of a full stop.                 *)
Kinds == {"in", "own", "stop"}
Fates == {"seeded", "read", "ticked", "cut", "relayed", "dropped", "asked",
          "void", "skipped"}

Live     == row # "none"
IsDown   == Live /\ row # "up"
Sleeping == row \in {"asleep", "stopping"}
LogEndOver == Len(log) + 2              \* mutant: one too far
LogEnd   == IF log = <<>> THEN 0 ELSE Len(log) + 1     \* List's next, from 0
At0(c)   == IF c = Absent THEN 0 ELSE c                \* ReadCursor
Later(a, b) == IF a > b THEN a ELSE b
From(c)  == {o \in DOMAIN log : o >= c}

(* shouldTrigger: what tick itself put out and the marks of the lifecycle do *)
(* not cause a tick.                                                         *)
Triggers(k) == k = "in"

LastStop == LET stops == {o \in DOMAIN log : log[o] = "stop"}
            IN  IF stops = {} THEN 0 ELSE CHOOSE o \in stops : \A p \in stops : p <= o

(* A follower: what it is, how far it is, whether its context is cancelled,  *)
(* the goroutine it waits for, startGen, the position it read, the batch it  *)
(* works on (those of row b's events that ask for something, by offset), the *)
(* position to commit after the last of them, and the last full stop read.   *)
Steps == {"off", "seed", "seedCommit", "await", "loop", "read", "commit",
          "tick", "ticking", "raise", "list", "each", "request", "check", "append",
          "past", "wait"}
Follower == [kind : {"reactor", "forwarder"}, pc : Steps, gone : BOOLEAN,
             pred : Slots \cup {Nobody}, gen : 0..MaxInc, b : 0..MaxInc,
             cur : 0..MaxEvents+1, todo : SUBSET (1..MaxEvents),
             next : 0..MaxEvents+1, stop : 0..MaxEvents]
Off == [kind |-> "reactor", pc |-> "off", gone |-> FALSE, pred |-> Nobody,
        gen |-> 0, b |-> 0, cur |-> 0, todo |-> {}, next |-> 0, stop |-> 0]

At(f, pc)  == fol[f].pc = pc
IsReactor(f) == fol[f].kind = "reactor"
Working(f) == fol[f].pc \notin {"off", "seed", "seedCommit", "await"}
Done(f)    == f \in Slots => At(f, "off")
Free       == {f \in Slots : /\ At(f, "off") /\ f \notin {active, forwarding}
                             /\ \A g \in Slots : ~At(g, "off") => fol[g].pred # f}
Fresh      == CHOOSE f \in Free : \A g \in Free : f <= g
Settled(r) == IF r.pc \in {"wait", "loop", "ticking"}   \* between two drains
              THEN [Off EXCEPT !.kind = r.kind, !.pc = r.pc, !.gone = r.gone,
                               !.gen = r.gen]
              ELSE r
Become(f, r) == fol' = [fol EXCEPT ![f] = Settled(r)]
Go(f, pc)  == Become(f, [fol[f] EXCEPT !.pc = pc])
Exit(f)    == fol' = [fol EXCEPT ![f] = Off]
First(f)   == CHOOSE o \in fol[f].todo : \A p \in fol[f].todo : o <= p
Mark(f, os, what) ==
    fate' = [o \in Offsets |-> IF fol[f].b = inc /\ o \in os
                               THEN fate[o] \cup {what} ELSE fate[o]]
Init == /\ inc = 0 /\ row = "none" /\ log = <<>>
        /\ tickCur = Absent /\ fwdCur = Absent
        /\ parent = <<>>
        /\ fol = [f \in Slots |-> Off]
        /\ active = Nobody /\ forwarding = Nobody
        /\ fate = [o \in Offsets |-> {}]
        /\ clean = TRUE /\ moves = 0
-------------------------------------------------------------------------------
(* The commands and the rest of the world.                                   *)
Counted == moves < MaxMoves /\ moves' = moves + 1
Append1(k) == Len(log) < MaxEvents /\ log' = Append(log, k)

Create == /\ row = "none" /\ inc < MaxInc
          /\ inc' = inc + 1 /\ row' = "stopped" /\ log' = <<>>
          /\ tickCur' = Absent /\ fwdCur' = Absent
          /\ clean' = (clean /\ active = Nobody /\ forwarding = Nobody
                             /\ \A f \in Slots : At(f, "off"))
          /\ fate' = [o \in Offsets |-> {}]
          /\ UNCHANGED <<parent, fol, supVars, moves>>
Destroy == /\ Live /\ row # "stopping" /\ row' = "none" /\ log' = <<>>
           /\ tickCur' = Absent /\ fwdCur' = Absent
           /\ UNCHANGED <<inc, parent, fol, supVars, fate, clean, moves>>
Up == /\ row \in {"asleep", "stopped"} /\ Counted /\ row' = "up"
      /\ UNCHANGED <<inc, log, curVars, parent, fol, supVars, fate, clean>>
Sleep == /\ row = "up" /\ Counted /\ row' = "asleep"
         /\ UNCHANGED <<inc, log, curVars, parent, fol, supVars, fate, clean>>
Stop == /\ row \in {"up", "asleep"} /\ Counted /\ Append1("stop")
        /\ row' = IF row = "up" THEN "stopped" ELSE "stopping"
        /\ UNCHANGED <<inc, curVars, parent, fol, supVars, fate, clean>>
StopRecorded == /\ row = "stopping" /\ row' = "stopped"
                /\ UNCHANGED <<inc, log, curVars, parent, fol, supVars,
                               fate, clean, moves>>
Inbound == /\ Live /\ Append1("in")
           /\ UNCHANGED <<inc, row, curVars, parent, fol, supVars, fate,
                          clean, moves>>
Siblings == /\ Counted /\ parent' = Append(parent, Noise)
            /\ UNCHANGED <<rowVars, curVars, fol, supVars, fate, clean>>

(* The resident process dies with every follower, and starts again.  An      *)
(* event whose tick was due is marked.                                       *)
Crash == /\ Counted
         /\ fol' = [f \in Slots |-> Off]
         /\ active' = Nobody /\ forwarding' = Nobody
         /\ fate' = [o \in Offsets |->
                IF \E f \in Slots : At(f, "tick") /\ fol[f].b = inc /\ o \in fol[f].todo
                THEN fate[o] \cup {"cut"} ELSE fate[o]]
         /\ UNCHANGED <<rowVars, curVars, parent, clean>>
-------------------------------------------------------------------------------
(* Supervisor.reconcile: one pass over the sessions it read.  It starts the  *)
(* follower the row needs behind the one still registered, then cancels and  *)
(* forgets those the row does not need.                                      *)
Started(kind, pred) ==
    [Off EXCEPT !.kind = kind, !.pred = pred,
                !.pc = IF kind = "reactor" THEN "seed" ELSE "await"]
Cancelled(G) == [f \in Slots |-> IF f \in G /\ ~At(f, "off")
                                 THEN [fol[f] EXCEPT !.gone = TRUE] ELSE fol[f]]
Handover(kind, from, pred) ==
    /\ Free # {}
    /\ fol' = [Cancelled({from}) EXCEPT ![Fresh] = Started(kind, pred)]

StartReactor ==
    /\ row = "up" /\ active = Nobody /\ Handover("reactor", forwarding, forwarding)
    /\ active' = Fresh /\ forwarding' = Nobody
StartForwarderBehind(pred) ==
    /\ IsDown /\ forwarding = Nobody /\ Handover("forwarder", active, pred)
    /\ forwarding' = Fresh /\ active' = Nobody
StartForwarderAlone == StartForwarderBehind(Nobody)   \* mutant: it does not wait
StartForwarder      == StartForwarderBehind(active)
CancelBoth ==
    /\ ~Live /\ {active, forwarding} # {Nobody}
    /\ fol' = Cancelled({active, forwarding})
    /\ active' = Nobody /\ forwarding' = Nobody

Reconcile == /\ StartReactor \/ StartForwarder \/ CancelBoth
             /\ UNCHANGED <<rowVars, curVars, parent, fate, clean, moves>>
-------------------------------------------------------------------------------
(* What the two followers' run loops have in common.                         *)
LoopVars == <<rowVars, parent, supVars, clean>>

Awaited(f) ==
    /\ At(f, "await") /\ Done(fol[f].pred)
    /\ IF fol[f].gone THEN Exit(f)
       ELSE Become(f, [fol[f] EXCEPT !.pc = IF IsReactor(f) THEN "wait" ELSE "loop",
                               !.pred = Nobody,
                               !.gen = IF Live THEN inc ELSE 0])
    /\ UNCHANGED <<LoopVars, curVars, fate, moves>>
Loop(f) ==
    /\ At(f, "loop")
    /\ IF fol[f].gone \/ ~Live THEN Exit(f)
       ELSE Go(f, IF IsReactor(f) = (row = "up") THEN "read" ELSE "wait")
    /\ UNCHANGED <<LoopVars, curVars, fate, moves>>
Wait(f) ==
    /\ At(f, "wait")
    /\ IF fol[f].gone THEN Exit(f) ELSE Go(f, "loop")
    /\ UNCHANGED <<LoopVars, curVars, fate, moves>>

(* A store call of a drain fails: the drain ends, to be tried again.         *)
StoreFails(f) ==
    /\ fol[f].pc \in {"read", "raise", "list", "check", "append"} /\ Counted
    /\ Go(f, "wait")
    /\ UNCHANGED <<LoopVars, curVars, fate>>

(* The log is another row's than when the follower began: its cursor goes    *)
(* back to the start.                                                        *)
Rotated(f) == fol[f].gen # 0 /\ Live /\ inc # fol[f].gen
-------------------------------------------------------------------------------
(* The reactor.  seedCursor comes before the wait for its predecessor.       *)
Seed(f) ==
    /\ At(f, "seed")
    /\ Become(f, [fol[f] EXCEPT !.pc = IF tickCur = Absent THEN "seedCommit" ELSE "await",
                          !.b = inc, !.next = LogEnd])
    /\ UNCHANGED <<LoopVars, curVars, fate, moves>>
SeedCommit(f) ==
    /\ At(f, "seedCommit") /\ Go(f, "await")
    /\ tickCur' = IF Live THEN fol[f].next ELSE tickCur
    /\ Mark(f, 1 .. fol[f].next - 1, "seeded")
    /\ UNCHANGED <<LoopVars, fwdCur, moves>>

Read(f) ==
    /\ At(f, "read") /\ IsReactor(f)
    /\ LET cur == IF Rotated(f) THEN 0 ELSE At0(tickCur)
       IN  /\ tickCur' = IF Rotated(f) THEN 0 ELSE tickCur
           /\ Become(f, [fol[f] EXCEPT !.pc = IF From(cur) = {} THEN "wait" ELSE "commit",
                                 !.gen = IF Rotated(f) THEN inc ELSE @,
                                 !.b = inc, !.next = LogEnd,
                                 !.todo = {o \in From(cur) : Triggers(log[o])}])
    /\ UNCHANGED <<LoopVars, fwdCur, fate, moves>>

(* The cursor moves past the whole batch before the tick it asks for.        *)
CommitTo(f, next) ==
    /\ At(f, "commit")
    /\ tickCur' = IF Live THEN next ELSE tickCur
    /\ Mark(f, fol[f].todo, "read")
    /\ Go(f, IF fol[f].todo # {} THEN "tick" ELSE "wait")
    /\ UNCHANGED <<LoopVars, fwdCur, moves>>
CommitToTail(f) == CommitTo(f, LogEnd)  \* mutant: to where the log ends by now
Commit(f)       == CommitTo(f, fol[f].next)

BeginTick(f) ==
    /\ At(f, "tick")
    /\ IF fol[f].gone
       THEN Mark(f, fol[f].todo, "cut") /\ Exit(f)
       ELSE Mark(f, fol[f].todo, "ticked") /\ Go(f, "ticking")
    /\ UNCHANGED <<LoopVars, curVars, moves>>
HeartbeatTick(f) ==
    /\ At(f, "wait") /\ IsReactor(f) /\ ~fol[f].gone /\ row = "up"
    /\ Go(f, "ticking")
    /\ UNCHANGED <<LoopVars, curVars, fate, moves>>

(* TickSession ends; what it announces on the session's own log is tick's    *)
(* own output.                                                               *)
EndTick(f) ==
    /\ At(f, "ticking") /\ Go(f, "loop")
    /\ \/ log' = log
       \/ Live /\ Append1("own")
    /\ UNCHANGED <<inc, row, parent, supVars, clean, curVars, fate, moves>>
-------------------------------------------------------------------------------
(* The forwarder.  Its start never falls behind the reactor's cursor.        *)
ReadForward(f) ==
    /\ At(f, "read") /\ ~IsReactor(f)
    /\ fwdCur' = IF Rotated(f) THEN 0 ELSE fwdCur
    /\ Become(f, [fol[f] EXCEPT !.pc = "raise",
                          !.gen = IF Rotated(f) THEN inc ELSE @,
                          !.cur = IF Rotated(f) THEN 0 ELSE At0(fwdCur)])
    /\ UNCHANGED <<LoopVars, tickCur, fate, moves>>
RaiseTo(f, cur) ==
    /\ At(f, "raise")
    /\ Become(f, [fol[f] EXCEPT !.pc = "list", !.cur = cur])
    /\ fwdCur' = IF Live THEN cur ELSE fwdCur
    /\ UNCHANGED <<LoopVars, tickCur, fate, moves>>
NoRaise(f) == RaiseTo(f, fol[f].cur)    \* mutant: the reactor's cursor is not read
Raise(f)   == RaiseTo(f, Later(fol[f].cur, At0(tickCur)))
List(f) ==
    /\ At(f, "list")
    /\ LET todo == {o \in From(fol[f].cur) : log[o] = "in"}
       IN  Become(f, [fol[f] EXCEPT !.pc = IF todo = {} THEN "wait" ELSE "each",
                              !.todo = todo, !.b = inc, !.stop = LastStop,
                              !.next = Later(fol[f].cur, LogEnd)])
    /\ UNCHANGED <<LoopVars, curVars, fate, moves>>

(* One event: the session is read again, and what it is now decides.         *)
Each(f) ==
    /\ At(f, "each")
    /\ LET o == First(f)
           skip == ~Sleeping /\ o < fol[f].stop
       IN  /\ Go(f, IF fol[f].gone \/ ~Live THEN "wait"
                    ELSE IF skip THEN "past"
                    ELSE IF Sleeping THEN "request" ELSE "check")
           /\ IF skip /\ Live /\ ~fol[f].gone THEN Mark(f, {o}, "skipped")
              ELSE UNCHANGED fate
    /\ UNCHANGED <<LoopVars, curVars, moves>>

(* RequestWake waits for the lifecycle lock a stop holds, and does nothing   *)
(* for a session that does not sleep any more.                               *)
Request(f) ==
    /\ At(f, "request") /\ row # "stopping" /\ Go(f, "past")
    /\ Mark(f, {First(f)}, IF row = "asleep" THEN "asked" ELSE "void")
    /\ UNCHANGED <<LoopVars, curVars, moves>>

(* ForwardDownSessionEvent: without a live ancestor the event is passed;     *)
(* else the target's latest events are scanned for it, and it is appended.   *)
(* Whether resolveLiveAncestor finds one is decided at each call.            *)
Recent == {parent[i] : i \in {j \in DOMAIN parent : j > Len(parent) - Window}}
NoAncestor(f) == /\ At(f, "check") /\ Live /\ Go(f, "past")
                 /\ Mark(f, {First(f)}, "dropped")
                 /\ UNCHANGED <<LoopVars, curVars, moves>>
CheckAgainst(f, seen) ==
    /\ At(f, "check")
    /\ Go(f, IF ~Live THEN "wait"
             ELSE IF <<fol[f].b, First(f)>> \in seen THEN "past" ELSE "append")
    /\ UNCHANGED <<LoopVars, curVars, fate, moves>>
CheckBlind(f) == CheckAgainst(f, {})    \* mutant: no scan of the target's log
Check(f)      == CheckAgainst(f, Recent)
Push(f) ==
    /\ At(f, "append") /\ Go(f, "past")
    /\ parent' = Append(parent, <<fol[f].b, First(f)>>)
    /\ Mark(f, {First(f)}, "relayed")
    /\ UNCHANGED <<rowVars, supVars, clean, curVars, moves>>

(* The cursor moves to the next event of the batch, or past the batch.       *)
PastTo(f, rest, cur) ==
    /\ At(f, "past")
    /\ Become(f, [fol[f] EXCEPT !.pc = IF rest = {} THEN "wait" ELSE "each",
                                !.todo = rest])
    /\ fwdCur' = IF Live THEN cur ELSE fwdCur
    /\ UNCHANGED <<LoopVars, tickCur, fate, moves>>
PastAll(f) ==                           \* mutant: past the batch at its first event
    PastTo(f, fol[f].todo \ {First(f)}, fol[f].next)
Past(f) == LET rest == fol[f].todo \ {First(f)}
           IN  PastTo(f, rest, IF rest = {} THEN fol[f].next
                               ELSE CHOOSE o \in rest : \A p \in rest : o <= p)
-------------------------------------------------------------------------------
FollowerStep(f) ==
    \/ Awaited(f) \/ Loop(f) \/ Wait(f) \/ Seed(f) \/ SeedCommit(f) \/ Read(f)
    \/ Commit(f) \/ BeginTick(f) \/ EndTick(f) \/ ReadForward(f) \/ Raise(f)
    \/ List(f) \/ Each(f) \/ Request(f) \/ NoAncestor(f) \/ Check(f) \/ Push(f) \/ Past(f)
Environment ==
    \/ Create \/ Destroy \/ Up \/ Sleep \/ Stop \/ Inbound \/ Siblings
    \/ Crash
Next == \/ Environment \/ StopRecorded \/ Reconcile
        \/ \E f \in Slots : FollowerStep(f) \/ HeartbeatTick(f) \/ StoreFails(f)

(* serve runs its supervisor and its followers on; a stop that has its event *)
(* records it.  Commands, events, deaths and failures need not come.         *)
Fairness == /\ WF_vars(Reconcile) /\ WF_vars(StopRecorded)
            /\ \A f \in Slots : WF_vars(FollowerStep(f))
Spec     == Init /\ [][Next]_vars
FairSpec == Spec /\ Fairness
-------------------------------------------------------------------------------
TypeOK ==
    /\ inc \in 0..MaxInc /\ row \in Rows
    /\ log \in Seq(Kinds) /\ Len(log) <= MaxEvents
    /\ tickCur \in Absent..MaxEvents+1 /\ fwdCur \in Absent..MaxEvents+1
    /\ parent \in Seq(Keys \cup {Noise})
    /\ fol \in [Slots -> Follower]
    /\ active \in Slots \cup {Nobody} /\ forwarding \in Slots \cup {Nobody}
    /\ fate \in [Offsets -> SUBSET Fates]
    /\ clean \in BOOLEAN /\ moves \in 0..MaxMoves

(* The hand-over is exclusive: however fast the session goes up and down, a  *)
(* follower works only when the one before it has returned (awaitPredecessor).*)
(* It is not across a destroy, whose entries are forgotten before their      *)
(* followers have returned.                                                  *)
Exclusive == clean => \A f, g \in Slots : Working(f) /\ Working(g) => f = g

(* An event the reactor's cursor has passed is not sent to the ancestor      *)
(* afterwards: a later down period does not replay an up period's events as  *)
(* new (sessionForwarder.drain).                                             *)
RelaysUnread ==
    [][clean' => \A o \in Offsets : "relayed" \in fate'[o] \ fate[o]
                                    => "read" \notin fate[o]]_vars

(* The ancestor gets an event twice only when more than Window others came   *)
(* after it, whatever crashes and failures make the forwarder send again.    *)
RelayedOnce ==
    \A i, j \in DOMAIN parent :
        i < j /\ parent[i] = parent[j] /\ parent[i] # Noise => j - i > Window

(* When a session stays up, every event of its log that asks for a tick gets *)
(* one, or was seeded past, or its tick was cut off by the death of serve or *)
(* the reactor's cancellation: the cursor is committed before the tick.      *)
InboundAt(o) == o \in DOMAIN log /\ log[o] = "in"
UpTicks ==
    <>[](row = "up" /\ clean)
    => <>[](\A o \in Offsets : InboundAt(o) =>
              fate[o] \cap {"ticked", "cut", "seeded"} # {})

(* When a session stays down, every inbound event the reactor has not read   *)
(* and no full stop came after is sent on, passed for want of a live         *)
(* ancestor, or used to ask for a wake (void when a stop was under way).     *)
DownRelays ==
    <>[](IsDown /\ clean)
    => <>[](\A o \in Offsets : InboundAt(o) /\ o > LastStop =>
              fate[o] \cap {"relayed", "dropped", "asked", "void", "read",
                                     "seeded"} # {})

(* No event that asks for something is forgotten, in whichever state the     *)
(* session comes to rest.                                                    *)
EventsHandled == UpTicks /\ DownRelays

(* A session that stays up has a reactor at work, whatever became of the     *)
(* name before (Supervisor: it starts one when the run scope comes up).      *)
UpHasReactor ==
    <>[](row = "up")
    => <>[](\E f \in Slots : IsReactor(f) /\ Working(f) /\ ~fol[f].gone)
===============================================================================
