-------------------------------- MODULE GoalLoop --------------------------------
(***************************************************************************)
(* The goal loop of the child sessions of one parent.  A tick observes the  *)
(* resource a task instance is about, evaluates the instance's done_when    *)
(* over what was observed and the reviewer's last verdict, announces what   *)
(* follows from it and records that it did, and fires the chain that asks   *)
(* for a review.  The reactor ticks on events and on heartbeats; anybody    *)
(* may tick, judge and finalize from the command line at the same time.     *)
(*                                                                          *)
(* An instance has one check over its resource and, if Judged, one judge    *)
(* leaf.  One step is the code between two points where another process can *)
(* see or change something: a hook run or one store transaction.  A tick    *)
(* holds no lock.                                                           *)
(***************************************************************************)
EXTENDS Integers, FiniteSets

CONSTANTS
    Children,   \* the sessions; each one's reactor is a process of its name
    Clis,       \* command-line processes
    Judged,     \* whether done_when has a judge leaf
    Budget,     \* heartbeat_budget
    MaxRev,     \* bound on the revisions of a resource
    MaxEscs,    \* bound on the escalations of an instance
    MaxMoves    \* bound on changes, verdicts, events, commands, failures, deaths

ASSUME GoalLoopAssumption ==
    /\ Children # {} /\ Children \cap Clis = {} /\ IsFiniteSet(Children \cup Clis)
    /\ Judged \in BOOLEAN
    /\ Budget \in Nat \ {0} /\ MaxRev \in Nat \ {0}
    /\ MaxEscs \in Nat /\ MaxMoves \in Nat

VARIABLES
    world,      \* the resource of each child
    row,        \* each child's task instance, as stored
    parent,     \* the terminal events on the parent's log
    told,       \* what the child's own log last announced
    reviewer,   \* the reviewer session of the chain, and the kicks on its log
    proc,       \* the processes
    moves       \* bounded moves so far

vars == <<world, row, parent, told, reviewer, proc, moves>>
-------------------------------------------------------------------------------
Procs     == Children \cup Clis
Revs      == 1..MaxRev
Reading   == [rev : 0..MaxRev, green : BOOLEAN]         \* rev 0: none
Unread    == [rev |-> 0, green |-> FALSE]
Verdict   == [rev : 0..MaxRev, act : {"approve", "changes"}]
Unjudged  == [rev |-> 0, act |-> "approve"]
Facts     == [obs : Reading, judge : Verdict]

(* EvaluateTaskDoneWhenWithContext: a judge leaf without a verdict on the    *)
(* revision last observed is pending, as is a check of nothing observed.     *)
CheckLeaf(f) == IF f.obs.rev = 0 THEN "pending"
                ELSE IF f.obs.green THEN "satisfied" ELSE "unsatisfied"
JudgeLeaf(f) == IF f.obs.rev = 0 \/ f.judge.rev # f.obs.rev THEN "pending"
                ELSE IF f.judge.act = "approve" THEN "satisfied" ELSE "unsatisfied"
Leaves(f)  == {CheckLeaf(f)} \cup (IF Judged THEN {JudgeLeaf(f)} ELSE {})
Overall(f) == IF "unsatisfied" \in Leaves(f) THEN "unsatisfied"
              ELSE IF "pending" \in Leaves(f) THEN "pending" ELSE "satisfied"
AwaitsJudge(f) == Judged /\ JudgeLeaf(f) = "pending"

(* checkFingerprint joins every leaf's result.  A judge leaf brings the      *)
(* revision, which is one resource's own; a check alone brings the value.    *)
Prints == [who : Children \cup {"any"}, facts : Facts]
Fingerprint(c, f) ==
    IF Judged THEN [who |-> c, facts |-> f]
    ELSE [who |-> "any",
          facts |-> [f EXCEPT !.obs.rev = IF @ = 0 THEN 0 ELSE 1, !.judge = Unjudged]]

(* checkActionForResult, with repeatsUnchangedState's answer and the chain's *)
(* plan: the revision to review, and whether the reviewer session exists.    *)
Kinds == {"none", "satisfied", "wait", "escalate", "review", "kick"}
Triggers == {"event", "heartbeat", "manual"}
ConsumedByEvents(r, trig) ==            \* mutant: heartbeats are not counted
    r.ticks + (IF trig = "event" THEN 1 ELSE 0)
Consumed(r, trig) == r.ticks + (IF trig = "heartbeat" THEN 1 ELSE 0)
KindLate(f, trig, ticks) ==             \* mutant: one heartbeat too many
    IF Overall(f) = "satisfied" THEN "satisfied"
    ELSE IF trig = "heartbeat" /\ ticks > Budget THEN "escalate" ELSE "review"
Kind(f, trig, ticks) ==
    CASE Overall(f) = "satisfied"                          -> "satisfied"
      [] Overall(f) = "pending" /\ ~AwaitsJudge(f)         -> "wait"
      [] OTHER -> IF trig = "heartbeat" /\ ticks >= Budget THEN "escalate"
                  ELSE IF Overall(f) = "pending" THEN "review" ELSE "kick"
RepeatsKind(r, k, fp, trig)  == r.last = k      \* mutant: whatever it says
RepeatsPrint(r, k, fp, trig) ==
    trig = "event" /\ r.last = k /\ r.print = fp
Repeats(r, k, fp, trig) == IF k = "satisfied" THEN r.last = k
                           ELSE RepeatsPrint(r, k, fp, trig)
Actions == [kind : Kinds, print : Prints, say : BOOLEAN, trig : Triggers,
            ticks : 0..Budget+MaxMoves, esc : 1..MaxEscs+1, rev : 0..MaxRev,
            active : BOOLEAN]
ActionFor(c, r, trig) ==
    LET f  == [obs |-> r.obs, judge |-> r.judge]
        n  == Consumed(r, trig)
        k  == Kind(f, trig, n)
        fp == Fingerprint(c, f)
    IN  [kind |-> k, print |-> fp, say |-> ~Repeats(r, k, fp, trig), trig |-> trig,
         ticks |-> n, esc |-> r.escs + 1, rev |-> IF AwaitsJudge(f) THEN f.obs.rev ELSE 0,
         active |-> reviewer[c].exists]

NoPrint(c) == Fingerprint(c, [obs |-> Unread, judge |-> Unjudged])
NoAction(c) == [kind |-> "none", print |-> NoPrint(c), say |-> FALSE,
                trig |-> "manual", ticks |-> 0, esc |-> 1, rev |-> 0, active |-> FALSE]
Instance == [obs : Reading, judge : Verdict, last : Kinds, print : Prints,
             ticks : 0..Budget+MaxMoves, escs : 0..MaxEscs, final : 0..MaxRev]
NewInstance(c) == [obs |-> Unread, judge |-> Unjudged, last |-> "none",
                   print |-> NoPrint(c), ticks |-> 0, escs |-> 0, final |-> 0]

(* A process: where it is, its child, what it read of the resource, what its *)
(* tick is about to do, and whether a finalize has been alone on the child.   *)
Steps == {"idle", "read", "save", "eval", "publish", "push", "append", "persist",
          "chain", "kick", "confirm", "finish"}
Process == [pc : Steps, op : {"tick", "finalize"}, c : Children, trig : Triggers,
            seen : Reading, act : Actions, alone : BOOLEAN]
Idle(c) == [pc |-> "idle", op |-> "tick", c |-> c, trig |-> "manual",
            seen |-> Unread, act |-> NoAction(c), alone |-> TRUE]
Resting(p) == Idle(IF p \in Children THEN p ELSE CHOOSE c \in Children : TRUE)

Init == /\ world = [c \in Children |-> [rev |-> 1, green |-> FALSE]]
        /\ row = [c \in Children |-> NewInstance(c)]
        /\ parent = {}
        /\ told = [c \in Children |-> NoPrint(c)]
        /\ reviewer = [c \in Children |->
                          [exists |-> FALSE, asked |-> {}, kicks |-> [r \in Revs |-> 0]]]
        /\ proc = [p \in Procs |-> Resting(p)]
        /\ moves = 0

At(p, pc) == proc[p].pc = pc
Become(p, r) == proc' = [proc EXCEPT ![p] = r]
Go(p, pc) == Become(p, [proc[p] EXCEPT !.pc = pc])
End(p)    == Become(p, Resting(p))
Counted   == moves < MaxMoves /\ moves' = moves + 1
-------------------------------------------------------------------------------
(* The world and the commands.  The resource moves and its checks turn; a    *)
(* reviewer records a verdict on the revision it names, or on the one last   *)
(* observed.                                                                 *)
Change(c) ==
    /\ Counted
    /\ \E w \in [rev : {world[c].rev, world[c].rev + 1} \cap Revs, green : BOOLEAN] :
          w # world[c] /\ world' = [world EXCEPT ![c] = w]
    /\ UNCHANGED <<row, parent, told, reviewer, proc>>
RecordJudge(c) ==
    /\ Judged /\ Counted
    /\ \E v \in [rev : 1 .. world[c].rev, act : {"approve", "changes"}] :
          row' = [row EXCEPT ![c].judge = v]
    /\ UNCHANGED <<world, parent, told, reviewer, proc>>

(* A finalize is not alone on its child if another process is at work there, *)
(* or begins before it ends.                                                 *)
Begin(p, c, op, trig) ==
    /\ At(p, "idle")
    /\ LET others == {q \in Procs \ {p} : ~At(q, "idle") /\ proc[q].c = c}
       IN  proc' = [q \in Procs |->
               IF q = p THEN [Idle(c) EXCEPT !.pc = "read", !.op = op, !.trig = trig,
                                             !.alone = op = "tick" \/ others = {}]
               ELSE IF q \in others /\ proc[q].op = "finalize"
                    THEN [proc[q] EXCEPT !.alone = FALSE] ELSE proc[q]]
    /\ UNCHANGED <<world, row, parent, told, reviewer>>

(* Past MaxEscs a heartbeat is a tick that consumes nothing.                 *)
HeartbeatTick(c) ==
    /\ Begin(c, c, "tick", IF row[c].escs < MaxEscs THEN "heartbeat" ELSE "manual")
    /\ UNCHANGED moves
EventTick(c)       == Counted /\ Begin(c, c, "tick", "event")
ManualTick(p, c)   == Counted /\ Begin(p, c, "tick", "manual")
FinalizeTask(p, c) == Counted /\ Begin(p, c, "finalize", "manual")

(* A hook or a store call fails, or the process dies: what is not stored yet *)
(* is lost.  A failed observation ends a finalize and not a tick.            *)
Fails(p) == /\ ~At(p, "idle") /\ Counted /\ End(p)
            /\ UNCHANGED <<world, row, parent, told, reviewer>>
ReadFails(p) == /\ At(p, "read") /\ proc[p].op = "tick" /\ Counted /\ Go(p, "eval")
                /\ UNCHANGED <<world, row, parent, told, reviewer>>
-------------------------------------------------------------------------------
(* ObserveSessionResources: the hook runs unlocked, then the pass is stored, *)
(* whatever was stored meanwhile.                                            *)
ReadResource(p) ==
    /\ At(p, "read")
    /\ Become(p, [proc[p] EXCEPT !.pc = "save", !.seen = world[proc[p].c]])
    /\ UNCHANGED <<world, row, parent, told, reviewer, moves>>
Read(p) == IF proc[p].op = "tick" THEN [proc[p] EXCEPT !.pc = "eval", !.seen = Unread]
           ELSE [proc[p] EXCEPT !.pc = "confirm"]
KeepRevision(p) ==                      \* mutant: the first revision read stays
    /\ At(p, "save")
    /\ row' = [row EXCEPT ![proc[p].c].obs =
                   [proc[p].seen EXCEPT !.rev = IF row[proc[p].c].obs.rev = 0 THEN @
                                                ELSE row[proc[p].c].obs.rev]]
    /\ Become(p, Read(p))
    /\ UNCHANGED <<world, parent, told, reviewer, moves>>
PersistObserved(p) ==
    /\ At(p, "save")
    /\ row' = [row EXCEPT ![proc[p].c].obs = proc[p].seen]
    /\ Become(p, Read(p))
    /\ UNCHANGED <<world, parent, told, reviewer, moves>>

Evaluate(p) ==
    /\ At(p, "eval")
    /\ LET c == proc[p].c
       IN  Become(p, [proc[p] EXCEPT !.pc = "publish",
                                     !.act = ActionFor(c, row[c], proc[p].trig)])
    /\ UNCHANGED <<world, row, parent, told, reviewer, moves>>

(* publishTickAction: first what goes to the session's own log, then the     *)
(* push to the parent.                                                       *)
PublishUnmet(p) ==                      \* mutant: completion is not pushed
    /\ At(p, "publish")
    /\ Go(p, IF proc[p].act.kind = "escalate" THEN "push" ELSE "persist")
    /\ told' = [told EXCEPT ![proc[p].c] = proc[p].act.print]
    /\ UNCHANGED <<world, row, parent, reviewer, moves>>
Publish(p) ==
    LET c == proc[p].c
        a == proc[p].act
    IN  /\ At(p, "publish")
        /\ Go(p, IF a.say /\ a.kind \in {"satisfied", "escalate"} THEN "push" ELSE "persist")
        /\ told' = IF a.say /\ a.kind \in {"escalate", "review", "kick"}
                   THEN [told EXCEPT ![c] = a.print] ELSE told
        /\ UNCHANGED <<world, row, parent, reviewer, moves>>

(* A terminal event on the parent's log: its type and dedup key, who sent it *)
(* and which copy it is.  The key does not name the origin.                  *)
KeyUnnumbered(c, a) ==                          \* mutant: one for all escalations
    <<a.kind, IF a.kind = "escalate" THEN NoPrint(c) ELSE a.print, 0>>
Key(c, a) == IF a.kind = "escalate" THEN <<a.kind, NoPrint(c), a.esc>>
             ELSE <<a.kind, a.print, 0>>
Copies(k) == {e \in parent : e.key = k}
PushAlways(p) ==                        \* mutant: no scan for the key
    /\ At(p, "push") /\ Go(p, "append")
    /\ UNCHANGED <<world, row, parent, told, reviewer, moves>>
Push(p) ==
    /\ At(p, "push")
    /\ Go(p, IF Copies(Key(proc[p].c, proc[p].act)) # {} THEN "persist" ELSE "append")
    /\ UNCHANGED <<world, row, parent, told, reviewer, moves>>
AppendTerminal(p) ==
    LET a == proc[p].act
        k == Key(proc[p].c, a)
    IN  /\ At(p, "append") /\ Go(p, "persist")
        /\ parent' = parent \cup {[key |-> k, from |-> proc[p].c, kind |-> a.kind,
                                   esc |-> IF a.kind = "escalate" THEN a.esc ELSE 0,
                                   copy |-> Cardinality(Copies(k)) + 1]}
        /\ UNCHANGED <<world, row, told, reviewer, moves>>

(* persistTickAction.  The counters come from the row the tick evaluated.    *)
Recorded(r, a) ==
    [r EXCEPT !.last = a.kind, !.print = a.print,
              !.ticks = IF a.kind \in {"satisfied", "escalate"} THEN 0
                        ELSE IF a.trig = "heartbeat" THEN a.ticks ELSE @,
              !.escs = IF a.kind = "escalate" THEN a.esc ELSE @]
PersistAction(p) ==
    /\ At(p, "persist")
    /\ LET c == proc[p].c
           a == proc[p].act
       IN  Become(p, [Idle(c) EXCEPT !.pc = "chain", !.act.rev = a.rev,
                                     !.act.active = a.active])
    /\ row' = [row EXCEPT ![proc[p].c] = Recorded(@, proc[p].act)]
    /\ UNCHANGED <<world, parent, told, reviewer, moves>>
-------------------------------------------------------------------------------
(* The chain whose trigger is a pending judge leaf: it spawns the reviewer   *)
(* session with the revision as its input, or kicks the one that exists,     *)
(* once for each revision.  An up of a session that exists changes nothing.  *)
Kicked(c, rev) == reviewer[c].kicks[rev] > 0
Spawn(p) ==
    LET c == proc[p].c
    IN  /\ At(p, "chain") /\ proc[p].act.rev # 0 /\ ~proc[p].act.active
        /\ End(p)
        /\ reviewer' = IF reviewer[c].exists THEN reviewer
                       ELSE [reviewer EXCEPT ![c].exists = TRUE,
                                             ![c].asked = @ \cup {proc[p].act.rev}]
        /\ UNCHANGED <<world, row, parent, told, moves>>
CheckKick(p) ==
    /\ At(p, "chain") /\ proc[p].act.rev # 0 /\ proc[p].act.active
    /\ IF Kicked(proc[p].c, proc[p].act.rev) THEN End(p) ELSE Go(p, "kick")
    /\ UNCHANGED <<world, row, parent, told, reviewer, moves>>
Kick(p) ==
    LET c == proc[p].c
    IN  /\ At(p, "kick") /\ End(p)
        /\ reviewer' = [reviewer EXCEPT ![c].kicks[proc[p].act.rev] = @ + 1,
                                        ![c].asked = @ \cup {proc[p].act.rev}]
        /\ UNCHANGED <<world, row, parent, told, moves>>
NoChain(p) == /\ At(p, "chain") /\ proc[p].act.rev = 0 /\ End(p)
              /\ UNCHANGED <<world, row, parent, told, reviewer, moves>>

(* FinalizeTask: done_when over the row as it is after the observation, then *)
(* the resource's finalize hook and the mark.                                *)
Confirm(p) ==
    LET r == row[proc[p].c]
    IN  /\ At(p, "confirm")
        /\ IF Overall([obs |-> r.obs, judge |-> r.judge]) = "satisfied"
           THEN Become(p, [proc[p] EXCEPT !.pc = "finish", !.act.rev = r.obs.rev])
           ELSE End(p)
        /\ UNCHANGED <<world, row, parent, told, reviewer, moves>>
Finish(p) ==
    /\ At(p, "finish") /\ End(p)
    /\ row' = [row EXCEPT ![proc[p].c].final = proc[p].act.rev]
    /\ UNCHANGED <<world, parent, told, reviewer, moves>>
-------------------------------------------------------------------------------
Step(p) == \/ ReadResource(p) \/ PersistObserved(p) \/ Evaluate(p) \/ Publish(p)
           \/ Push(p) \/ AppendTerminal(p) \/ PersistAction(p)
           \/ Spawn(p) \/ CheckKick(p) \/ Kick(p) \/ NoChain(p)
           \/ Confirm(p) \/ Finish(p)
Next == \/ \E c \in Children : \/ Change(c) \/ RecordJudge(c)
                               \/ HeartbeatTick(c) \/ EventTick(c)
                               \/ \E p \in Clis : ManualTick(p, c) \/ FinalizeTask(p, c)
        \/ \E p \in Procs : Step(p) \/ Fails(p) \/ ReadFails(p)

(* A process goes on and a heartbeat comes again; nothing else need happen.  *)
Fairness == /\ \A p \in Procs : WF_vars(Step(p))
            /\ \A c \in Children : WF_vars(HeartbeatTick(c))
Spec     == Init /\ [][Next]_vars
FairSpec == Spec /\ Fairness
-------------------------------------------------------------------------------
Keys   == {"satisfied", "escalate"} \X Prints \X (0..MaxEscs)
Events == [key : Keys, from : Children, kind : {"satisfied", "escalate"},
           esc : 0..MaxEscs, copy : 1..Cardinality(Procs)]
TypeOK ==
    /\ world \in [Children -> [rev : Revs, green : BOOLEAN]]
    /\ row \in [Children -> Instance]
    /\ Judged => \A c \in Children : row[c].ticks < Budget
    /\ parent \subseteq Events
    /\ told \in [Children -> Prints]
    /\ reviewer \in [Children -> [exists : BOOLEAN, asked : SUBSET Revs,
                                  kicks : [Revs -> 0..Cardinality(Procs)]]]
    /\ proc \in [Procs -> Process]
    /\ moves \in 0..MaxMoves

(* An instance recorded as satisfied has its done event on the parent's log, *)
(* whatever failed between the push and the record (TickSession publishes    *)
(* before it persists).                                                      *)
DoneAnnounced ==
    \A c \in Children : row[c].last = "satisfied"
                        => \E e \in parent : e.kind = "satisfied" /\ e.from = c

(* The parent has heard of every escalation an instance counts, each number  *)
(* once, although a tick that failed after its push escalates again.         *)
EscalationsHeard ==
    \A c \in Children : \A n \in 1 .. MaxEscs :
        LET heard == {e \in parent : e.kind = "escalate" /\ e.from = c /\ e.esc = n}
        IN  Cardinality(heard) <= 1 /\ (n <= row[c].escs => heard # {})

(* The same done or the same review request is sent more than once only by   *)
(* processes that were at it at the same time.                               *)
SaidOnce ==
    /\ \A e \in parent : e.copy <= 1 + Cardinality(Clis)
    /\ \A c \in Children, r \in Revs : reviewer[c].kicks[r] <= 1 + Cardinality(Clis)

(* A finalize with nothing else at work on the session confirms the revision *)
(* it has just observed, never one it replaced.                              *)
FinalizesWhatItSaw ==
    \A p \in Procs : At(p, "finish") /\ proc[p].alone
                     => proc[p].act.rev = proc[p].seen.rev

(* When resource and verdicts have settled, a satisfied instance is recorded *)
(* as such; what is still unmet is the last thing its own log says, and the  *)
(* reviewer has been asked for the verdict it waits for; and an instance     *)
(* that stays unmet is escalated as often as its budget runs out.            *)
Current(c) == [obs |-> world[c], judge |-> row[c].judge]
Unmet(c)   == Overall(Current(c)) # "satisfied"
DoneReported == \A c \in Children : <>[](~Unmet(c) => row[c].last = "satisfied")
UnmetTold    == \A c \in Children :
    <>[](/\ Unmet(c) => told[c] = Fingerprint(c, Current(c))
         /\ AwaitsJudge(Current(c)) => world[c].rev \in reviewer[c].asked)
Escalates    == \A c \in Children : <>[](Unmet(c) => row[c].escs = MaxEscs)
===============================================================================
