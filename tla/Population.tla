------------------------------- MODULE Population -------------------------------
(***************************************************************************)
(* A population keeps one session per resource its query lists.  One engine *)
(* applies polls and appearances to the stored members and then works       *)
(* through a snapshot of them: it destroys the sessions of absent members   *)
(* and admits the pending ones, those with a session first, making room at  *)
(* the cap by sending an idle member to sleep.  Beside it operators stop,    *)
(* start, destroy and retry, sleepers are woken when there is room, agents   *)
(* and inbound events change what counts as idle, and serve dies and is      *)
(* started again.                                                           *)
(*                                                                          *)
(* The engine is cancelled only between two inputs and its successor waits  *)
(* for it, so a member's generation never changes under an admission: the   *)
(* generation counter is left out.                                          *)
(***************************************************************************)
EXTENDS Integers, FiniteSets

CONSTANTS
    N,          \* the resources are 1..N, in the order of their names
    Cap,        \* sessions of the root that may be up
    Limit,      \* admitFailureLimit
    Policies,   \* the policies a population may be declared with
    MaxMoves    \* bound on polls, appearances, commands, failures and deaths

Resources == 1..N

ASSUME PopulationAssumption ==
    /\ N \in Nat \ {0} /\ Cap \in Nat /\ Limit \in Nat \ {0} /\ MaxMoves \in Nat
    /\ Policies \subseteq [poll : BOOLEAN, destroy : BOOLEAN]

VARIABLES
    policy,     \* whether it uses poll, and its auto_destroy
    member,     \* the stored members
    session,    \* the session each resource's name resolves to
    open,       \* whose session has a task that is not satisfied
    quiet,      \* who had no appearance and no inbound event for expire_after
    eng,        \* the engine
    tries,      \* ghost: failed admissions since the failures were last cleared
    deaths,     \* ghost: deaths of serve
    moves       \* bounded moves so far

vars == <<policy, member, session, open, quiet, eng, tries, deaths, moves>>
-------------------------------------------------------------------------------
(* A session that is down waits for an event (dozing), for a slot (queued),  *)
(* has used up its wakes (spent), was stopped, or its up failed (failed).    *)
States   == {"none", "up", "dozing", "queued", "spent", "stopped", "failed"}
Session  == [st : States, own : BOOLEAN, init : {"none", "produced", "failed"}, idle : BOOLEAN]
NoRow    == [st |-> "none", own |-> FALSE, init |-> "none", idle |-> FALSE]

(* why: the newest admission outcome, as pendingExistingAhead reads it.      *)
Member   == [known : BOOLEAN, session : BOOLEAN, pending : BOOLEAN, tomb : BOOLEAN,
             fails : 0..Limit, suspended : BOOLEAN, later : BOOLEAN,
             why : {"", "capacity", "other"}]
NoMember == [known |-> FALSE, session |-> FALSE, pending |-> FALSE, tomb |-> FALSE,
             fails |-> 0, suspended |-> FALSE, later |-> FALSE, why |-> ""]

(* The engine: its place, the phase of the round, its snapshot, the members  *)
(* still to visit, the one at hand, the idle sessions it may send to sleep,  *)
(* and how the admission at hand ended if it is not up.                      *)
Places == {"idle", "reconcile", "walk", "owner", "remove", "removed", "up", "ahead", "evict",
           "again", "store", "nap", "initial", "clear", "fail"}
Phases == {"expire", "destroy", "admit"}
Kinds  == {"", "capacity", "busy", "error", "permanent", "foreign", "sleeping"}
Engine == [pc : Places, phase : Phases, snap : [Resources -> Member],
           todo : SUBSET Resources, r : Resources, cands : SUBSET Resources, kind : Kinds]
Rest   == [pc |-> "idle", phase |-> "admit", snap |-> [r \in Resources |-> NoMember],
           todo |-> {}, r |-> 1, cands |-> {}, kind |-> ""]

Init == /\ policy \in Policies
        /\ member = [r \in Resources |-> NoMember]
        /\ session = [r \in Resources |-> NoRow]
        /\ open = [r \in Resources |-> FALSE]
        /\ quiet = [r \in Resources |-> FALSE]
        /\ eng = Rest
        /\ tries = [r \in Resources |-> 0]
        /\ deaths = 0
        /\ moves = 0

At(pc)    == eng.pc = pc
Counted   == moves < MaxMoves /\ moves' = moves + 1
Up        == {r \in Resources : session[r].st = "up"}
Room      == Cardinality(Up) < Cap
Cleared(m) == [m EXCEPT !.fails = 0, !.suspended = FALSE, !.later = FALSE]
Go(pc)    == eng' = [eng EXCEPT !.pc = pc]
Failed(k) == eng' = [eng EXCEPT !.pc = "fail", !.kind = k]
Done      == eng' = [eng EXCEPT !.pc = "walk", !.todo = @ \ {eng.r}, !.cands = {}, !.kind = ""]
World     == <<policy, session, open, quiet>>
Ghosts    == <<tries, deaths>>

(* UpdatePopulation on the member at hand, which it skips when it is closed. *)
Update(m) == member' = IF member[eng.r].tomb THEN member
                       ELSE [member EXCEPT ![eng.r] = m]
-------------------------------------------------------------------------------
Listed(m) ==
    LET n == CASE ~m.known -> [NoMember EXCEPT !.known = TRUE, !.pending = TRUE]
               [] m.known /\ m.tomb -> [Cleared(m) EXCEPT !.tomb = FALSE, !.pending = TRUE]
               [] OTHER -> m
    IN  IF n.session THEN n ELSE [n EXCEPT !.pending = TRUE]

Omitted(m) == IF m.known /\ ~m.tomb
              THEN [Cleared(m) EXCEPT !.tomb = TRUE, !.pending = FALSE]
              ELSE m

ApplyPoll(present) ==
    /\ At("idle") /\ policy.poll /\ Counted
    /\ member' = [r \in Resources |-> IF r \in present THEN Listed(member[r])
                                                       ELSE Omitted(member[r])]
    /\ tries' = [r \in Resources |->
                    IF member[r].known /\ (r \in present) # member[r].tomb THEN tries[r] ELSE 0]
    /\ Go("reconcile")
    /\ UNCHANGED <<World, deaths>>

Appeared(m) == IF ~m.known \/ m.tomb
               THEN [NoMember EXCEPT !.known = TRUE, !.pending = TRUE, !.why = m.why]
               ELSE [m EXCEPT !.pending = TRUE]

ApplyAppearance(r) ==
    /\ At("idle") /\ Counted
    /\ ~(member[r].known /\ member[r].tomb /\ policy.poll)
    /\ member' = [member EXCEPT ![r] = Appeared(@)]
    /\ tries' = [tries EXCEPT ![r] = IF member[r].known /\ ~member[r].tomb THEN @ ELSE 0]
    /\ quiet' = [quiet EXCEPT ![r] = FALSE]
    /\ session' = [session EXCEPT ![r].idle = FALSE]
    /\ Go("reconcile")
    /\ UNCHANGED <<policy, open, deaths>>

Walk(phase) == eng' = [Rest EXCEPT !.pc = "walk", !.phase = phase, !.snap = member,
                                   !.todo = {r \in Resources : member[r].known}]

SweepExpiry ==
    /\ At("idle")
    /\ \E r \in Resources : member[r].known
    /\ IF policy.poll THEN Walk("destroy") ELSE Walk("expire")
    /\ UNCHANGED <<World, member, Ghosts, moves>>

Reconcile ==
    /\ At("reconcile")
    /\ Walk("destroy")
    /\ UNCHANGED <<World, member, Ghosts, moves>>

(* A round's phases follow each other; Reconcile after SweepExpiry reads the *)
(* members again, its two loops share one snapshot.                          *)
NextPhase ==
    /\ At("walk") /\ eng.todo = {}
    /\ eng' = CASE eng.phase = "expire" -> [Rest EXCEPT !.pc = "reconcile"]
                [] eng.phase = "destroy" ->
                     [eng EXCEPT !.phase = "admit", !.todo = {r \in Resources : eng.snap[r].known}]
                [] OTHER -> Rest
    /\ UNCHANGED <<World, member, Ghosts, moves>>

Before(a, b) == IF eng.phase = "admit" /\ eng.snap[a].session # eng.snap[b].session
                THEN eng.snap[a].session ELSE a < b
First(r)     == /\ At("walk") /\ r \in eng.todo
                /\ \A q \in eng.todo \ {r} : Before(r, q)
Skip(r)      == eng' = [eng EXCEPT !.todo = @ \ {r}]
Take(r, pc)  == eng' = [eng EXCEPT !.pc = pc, !.r = r]
-------------------------------------------------------------------------------
Doomed(r) == LET m == eng.snap[r]
             IN  /\ m.session
                 /\ IF eng.phase = "expire" THEN ~m.tomb /\ quiet[r] ELSE m.tomb

(* PopulationTaskBlockers: a session that cannot be read counts as blocked.  *)
Blocked(r) == session[r].st = "none" \/ session[r].init = "failed" \/ open[r]

(* decideDestroy: the tasks, the owner, the destruction and its record.      *)
DecideDestroy(r) ==
    /\ First(r) /\ eng.phase # "admit"
    /\ IF Doomed(r) /\ ~Blocked(r) /\ policy.destroy THEN Take(r, "owner") ELSE Skip(r)
    /\ UNCHANGED <<World, member, Ghosts, moves>>

CheckOwner ==
    /\ At("owner")
    /\ IF session[eng.r].st # "none" /\ session[eng.r].own
       THEN Go("remove") /\ UNCHANGED member
       ELSE Done /\ member' = [member EXCEPT ![eng.r] = [@ EXCEPT !.why = "other"]]
    /\ UNCHANGED <<World, Ghosts, moves>>

RemoveAnyway ==                         \* a failed destroy is recorded as one
    /\ At("remove")
    /\ \/ /\ session' = [session EXCEPT ![eng.r] = NoRow]
          /\ open' = [open EXCEPT ![eng.r] = FALSE]
          /\ UNCHANGED moves
       \/ Counted /\ UNCHANGED <<session, open>>
    /\ Go("removed")
    /\ UNCHANGED <<policy, member, quiet, Ghosts>>

Remove ==
    /\ At("remove")
    /\ \/ /\ session[eng.r].st # "none"
          /\ session' = [session EXCEPT ![eng.r] = NoRow]
          /\ open' = [open EXCEPT ![eng.r] = FALSE]
          /\ Go("removed")
          /\ UNCHANGED moves
       \/ Done /\ Counted /\ UNCHANGED <<session, open>>
       \/ session[eng.r].st = "none" /\ Done /\ UNCHANGED <<session, open, moves>>
    /\ UNCHANGED <<policy, member, quiet, Ghosts>>

Removed(m) == [m EXCEPT !.tomb = TRUE, !.session = FALSE, !.pending = FALSE]

RecordRemoved ==
    /\ At("removed")
    /\ member' = [member EXCEPT ![eng.r] = Removed(@)]
    /\ Done
    /\ UNCHANGED <<World, Ghosts, moves>>
-------------------------------------------------------------------------------
AdmissibleOnce(r) ==                    \* a stored session counts as admitted
    LET m == eng.snap[r]
    IN  ~m.tomb /\ m.pending /\ ~m.suspended /\ ~m.later /\ ~m.session

Admissible(r) == LET m == eng.snap[r]
                 IN  /\ ~m.tomb /\ m.pending /\ ~m.suspended /\ ~m.later
                     /\ ~(m.session /\ session[r].st = "stopped")

Admit(r) ==
    /\ First(r) /\ eng.phase = "admit"
    /\ IF ~Admissible(r) THEN Skip(r) /\ UNCHANGED member
       ELSE IF eng.snap[r].session /\ session[r].st = "spent"
       THEN Skip(r) /\ member' = [member EXCEPT ![r] = [@ EXCEPT !.later = TRUE]]
       ELSE Take(r, "up") /\ UNCHANGED member
    /\ UNCHANGED <<World, Ghosts, moves>>

Started(s) == [s EXCEPT !.st = IF s.st = "up" \/ Room THEN "up" ELSE "queued",
                        !.own = @ \/ s.st = "none"]

(* upPopulation: it creates the session or brings it up; at the cap the      *)
(* session is queued.  An up that fails may have made the row already.       *)
UpPopulation(asleep) ==
    LET r == eng.r
    IN  \/ /\ session[r].st = "none" \/ session[r].own
           /\ session' = [session EXCEPT ![r] = Started(@)]
           /\ Go(IF session'[r].st = "queued" THEN asleep ELSE "store")
           /\ UNCHANGED moves
        \/ /\ session[r].st # "none" /\ ~session[r].own
           /\ Failed("foreign")
           /\ UNCHANGED <<session, moves>>
        \/ /\ Counted
           /\ session[r].st = "none" \/ session[r].own
           /\ \E k \in {"error", "busy", "permanent"} : Failed(k)
           /\ \/ UNCHANGED session
              \/ /\ session[r].st = "none" /\ eng'.kind = "error"
                 /\ session' = [session EXCEPT ![r].st = "failed", ![r].own = TRUE]

CountTry ==                             \* ghost: the attempt fails here
    tries' = [tries EXCEPT ![eng.r] =
                 IF eng'.kind \in {"error", "permanent", "foreign"} THEN @ + 1 ELSE @]

TryUp ==
    /\ At("up")
    /\ UpPopulation("ahead")
    /\ CountTry
    /\ UNCHANGED <<policy, member, open, quiet, deaths>>

(* pendingExistingAhead: a newcomer gives way to members with a session.     *)
HasPriority(q) == LET m == member[q]
                  IN  m.pending /\ m.session /\ ~m.tomb /\ m.why # "other"
IdleCandidates == {q \in Resources : /\ session[q].st = "up" /\ session[q].own /\ session[q].idle
                                     /\ member[q].session /\ ~member[q].tomb}

CheckAhead ==
    /\ At("ahead")
    /\ IF ~member[eng.r].session /\ \E q \in Resources : HasPriority(q)
       THEN Failed("capacity")
       ELSE eng' = [eng EXCEPT !.pc = "evict", !.cands = IdleCandidates]
    /\ UNCHANGED <<World, member, Ghosts, moves>>

Evict(c) ==
    /\ At("evict") /\ c \in eng.cands
    /\ session' = IF session[c].st = "up" THEN [session EXCEPT ![c].st = "dozing"] ELSE session
    /\ eng' = [eng EXCEPT !.pc = "again", !.cands = @ \ {c}]
    /\ UNCHANGED <<policy, member, open, quiet, Ghosts, moves>>

NoCandidate ==
    /\ At("evict") /\ eng.cands = {}
    /\ eng' = [eng EXCEPT !.pc = "store", !.kind = "sleeping"]
    /\ UNCHANGED <<World, member, Ghosts, moves>>

TryAgain ==
    /\ At("again")
    /\ UpPopulation("evict")
    /\ CountTry
    /\ UNCHANGED <<policy, member, open, quiet, deaths>>

StoreSession ==
    /\ At("store")
    /\ Update([member[eng.r] EXCEPT !.session = TRUE])
    /\ quiet' = [quiet EXCEPT ![eng.r] = @ /\ member[eng.r].session]
    /\ Go(IF eng.kind = "sleeping" THEN "nap" ELSE "initial")
    /\ UNCHANGED <<policy, session, open, Ghosts, moves>>

WaitForWake ==
    /\ At("nap")
    /\ Update([member[eng.r] EXCEPT !.later = TRUE])
    /\ Done
    /\ UNCHANGED <<World, Ghosts, moves>>

EnsureInitial ==
    /\ At("initial")
    /\ LET s == session[eng.r]
       IN  CASE s.st = "none" -> Failed("error") /\ UNCHANGED <<session, moves>>
             [] s.st # "none" /\ s.init = "failed" ->
                  Failed("permanent") /\ UNCHANGED <<session, moves>>
             [] s.st # "none" /\ s.init = "produced" ->
                  Go("clear") /\ UNCHANGED <<session, moves>>
             [] OTHER -> \/ /\ session' = [session EXCEPT ![eng.r].init = "produced"]
                            /\ Go("clear") /\ UNCHANGED moves
                         \/ /\ session' = [session EXCEPT ![eng.r].init = "failed"]
                            /\ Failed("error") /\ Counted
    /\ CountTry
    /\ UNCHANGED <<policy, member, open, quiet, deaths>>

Settled(m) == [Cleared(m) EXCEPT !.session = TRUE, !.pending = FALSE, !.why = ""]

RecordAdmitted ==
    /\ At("clear")
    /\ Update(Settled(member[eng.r]))
    /\ tries' = [tries EXCEPT ![eng.r] = 0]
    /\ Done
    /\ UNCHANGED <<World, deaths, moves>>

Later(m)   == [m EXCEPT !.later = TRUE]
GiveUp(m)  == [m EXCEPT !.fails = @ + 1, !.suspended = TRUE, !.later = FALSE]
TryLater(m) == [m EXCEPT !.fails = @ + 1, !.later = TRUE]

AfterFailureForever(m) ==               \* the limit is not looked at
    IF eng.kind \in {"busy", "capacity"} THEN Later(m)
    ELSE IF eng.kind \in {"permanent", "foreign"} THEN GiveUp(m) ELSE TryLater(m)

AfterFailureLate(m) ==                  \* one more than the limit
    IF eng.kind \in {"busy", "capacity"} THEN Later(m)
    ELSE IF eng.kind \in {"permanent", "foreign"} \/ m.fails + 1 > Limit
    THEN GiveUp(m) ELSE TryLater(m)

(* failAdmit, and the two ways an admission ends that are no failure.        *)
AfterFailure(m) ==
    IF eng.kind \in {"busy", "capacity"} THEN Later(m)
    ELSE IF eng.kind \in {"permanent", "foreign"} \/ m.fails + 1 >= Limit
    THEN GiveUp(m) ELSE TryLater(m)

Reason(m) == CASE eng.kind = "foreign" \/ (m.session /\ eng.kind \in {"error", "permanent"}) -> "other"
               [] m.session /\ eng.kind = "capacity" -> "capacity"
               [] OTHER -> m.why

FailAdmit ==
    /\ At("fail")
    /\ Update([AfterFailure(member[eng.r]) EXCEPT !.why = Reason(member[eng.r])])
    /\ Done
    /\ UNCHANGED <<World, Ghosts, moves>>
-------------------------------------------------------------------------------
(* What happens beside the engine.                                           *)
Beside == UNCHANGED <<policy, eng, deaths>>

StopByHand(r) ==
    /\ session[r].st \notin {"none", "stopped"} /\ Counted /\ Beside
    /\ session' = [session EXCEPT ![r].st = "stopped"]
    /\ UNCHANGED <<member, open, quiet, tries>>

(* A session made by hand has no provenance and one made by a population     *)
(* keeps its own.                                                            *)
UpByHand(r) ==
    /\ session[r].st # "up" /\ Counted /\ Beside
    /\ session' = [session EXCEPT ![r].st = IF Room THEN "up" ELSE "queued"]
    /\ UNCHANGED <<member, open, quiet, tries>>

DestroyByHand(r) ==
    /\ session[r].st # "none" /\ Counted /\ Beside
    /\ session' = [session EXCEPT ![r] = NoRow]
    /\ open' = [open EXCEPT ![r] = FALSE]
    /\ UNCHANGED <<member, quiet, tries>>

CleanInitial(r) ==                      \* task cleanup initial
    /\ session[r].init = "failed" /\ Counted /\ Beside
    /\ session' = [session EXCEPT ![r].init = "none"]
    /\ UNCHANGED <<member, open, quiet, tries>>

RetryPopulationMember(r) ==
    /\ member[r].known /\ ~member[r].tomb
    /\ member[r].session => session[r].init # "failed"
    /\ member[r].suspended \/ member[r].later
    /\ Counted /\ Beside
    /\ member' = [member EXCEPT ![r] = Cleared(@)]
    /\ tries' = [tries EXCEPT ![r] = 0]
    /\ UNCHANGED <<session, open, quiet>>

(* An inbound event: RequestWake queues a sleeper and lets its admission in. *)
Inbound(r) ==
    /\ session[r].st # "none" /\ Counted /\ Beside
    /\ LET wakes == session[r].st \in {"dozing", "spent"}
       IN  /\ session' = [session EXCEPT ![r].idle = FALSE,
                                         ![r].st = IF wakes THEN "queued" ELSE @]
           /\ member' = IF wakes /\ session[r].own /\ member[r].session /\ member[r].pending
                        THEN [member EXCEPT ![r] = [@ EXCEPT !.later = FALSE]] ELSE member
    /\ quiet' = [quiet EXCEPT ![r] = FALSE]
    /\ UNCHANGED <<open, tries>>

(* The agent clears its status, or its tasks become or stop being satisfied. *)
Report(r) ==
    /\ session[r].st = "up" /\ Counted /\ Beside
    /\ \/ session' = [session EXCEPT ![r].idle = TRUE] /\ UNCHANGED open
       \/ open' = [open EXCEPT ![r] = ~@] /\ UNCHANGED session
    /\ UNCHANGED <<member, quiet, tries>>

(* The waker of sleepers: it has room, or a wake fails for the last time.    *)
Wake(r) ==
    /\ session[r].st = "queued" /\ Room /\ Beside
    /\ \/ session' = [session EXCEPT ![r].st = "up"] /\ UNCHANGED moves
       \/ session' = [session EXCEPT ![r].st = "spent"] /\ Counted
    /\ UNCHANGED <<member, open, quiet, tries>>

RetryDue(r) ==                          \* AdmitRetryAt has passed
    /\ member[r].later /\ Beside
    /\ member' = [member EXCEPT ![r] = [@ EXCEPT !.later = FALSE]]
    /\ UNCHANGED <<session, open, quiet, tries, moves>>

Expire(r) ==                            \* expire_after has passed
    /\ ~policy.poll /\ member[r].session /\ ~quiet[r] /\ Counted /\ Beside
    /\ quiet' = [quiet EXCEPT ![r] = TRUE]
    /\ UNCHANGED <<member, session, open, tries>>

Die ==                                  \* serve dies; the stored members stay
    /\ ~At("idle") /\ Counted
    /\ eng' = Rest
    /\ deaths' = deaths + 1
    /\ UNCHANGED <<World, member, tries>>

Inputs == (\E present \in SUBSET Resources : ApplyPoll(present))
          \/ (\E r \in Resources : ApplyAppearance(r))
Round  == \/ Reconcile \/ NextPhase \/ CheckOwner \/ Remove \/ RecordRemoved
          \/ TryUp \/ CheckAhead \/ NoCandidate \/ TryAgain \/ StoreSession \/ WaitForWake
          \/ EnsureInitial \/ RecordAdmitted \/ FailAdmit
          \/ \E r \in Resources : DecideDestroy(r) \/ Admit(r) \/ Evict(r)
Others == \E r \in Resources :
             \/ StopByHand(r) \/ UpByHand(r) \/ DestroyByHand(r) \/ CleanInitial(r)
             \/ RetryPopulationMember(r) \/ Inbound(r) \/ Report(r) \/ Expire(r)
             \/ Wake(r) \/ RetryDue(r)

Next == Inputs \/ SweepExpiry \/ Round \/ Others \/ Die

Spec == Init /\ [][Next]_vars

(* The evaluator's loop runs on and ticks each second; time passes; the      *)
(* waker visits every sleeper.                                               *)
FairSpec == /\ Spec
            /\ WF_vars(Round) /\ WF_vars(SweepExpiry)
            /\ \A r \in Resources : WF_vars(RetryDue(r)) /\ WF_vars(Wake(r))
-------------------------------------------------------------------------------
(* Every variable keeps its type.                                            *)
TypeOK ==
    /\ policy \in Policies
    /\ member \in [Resources -> Member]
    /\ session \in [Resources -> Session]
    /\ open \in [Resources -> BOOLEAN] /\ quiet \in [Resources -> BOOLEAN]
    /\ eng \in Engine
    /\ tries \in [Resources -> Nat]
    /\ deaths \in Nat /\ moves \in 0..MaxMoves

(* Five failed admissions are the end of it (admitFailureLimit) until an     *)
(* operator's retry or a new appearance of the resource: no restart, wake or *)
(* retry of a due member gets past it, but for the one attempt whose failure *)
(* a death of serve kept from being counted.                                 *)
Budget == \A r \in Resources : tries[r] <= Limit + deaths

(* A member that is to be up is admitted in the end, whatever failed and     *)
(* whenever serve died, unless the population gave it up, an operator        *)
(* stopped it, its wakes are used up, or the root is full of busy sessions   *)
(* or another member with a session stands ahead of it.                      *)
GivenUp(r) == \/ ~member[r].pending \/ member[r].suspended
              \/ session[r].st \in {"stopped", "spent"}
Waits(r)   == \/ session[r].st # "up" /\ ~Room /\ IdleCandidates = {}
              \/ ~member[r].session /\ \E q \in Resources : HasPriority(q)
Admitted == \A r \in Resources :
               member[r].known /\ member[r].pending ~> GivenUp(r) \/ Waits(r)

(* A member no poll lists, or that expired, loses its session in the end,    *)
(* unless the member comes back, a task holds it, an operator took it over   *)
(* or the population only reports what it would do.                          *)
AbsentGone == \A r \in Resources :
    member[r].known /\ member[r].tomb /\ member[r].session /\ policy.destroy
        ~> \/ session[r].st = "none" \/ ~session[r].own
           \/ ~member[r].tomb \/ Blocked(r)

(* The same of every session the population owns, also one whose member     *)
(* does not name it: "An owned resource missing from that snapshot is        *)
(* eligible for destruction".                                                *)
OwnedAbsentGone == \A r \in Resources :
    member[r].known /\ member[r].tomb /\ session[r].own /\ policy.destroy
        ~> \/ session[r].st = "none" \/ ~session[r].own
           \/ ~member[r].tomb \/ Blocked(r)
===============================================================================
