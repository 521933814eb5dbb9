--------------------------- MODULE Population_proofs ---------------------------
(***************************************************************************)
(* What Population keeps for every number of resources, every cap, failure  *)
(* limit and set of policies.                                               *)
(***************************************************************************)
EXTENDS Population, TLAPS

Admitting == {"up", "ahead", "evict", "again", "store", "nap", "initial", "clear", "fail"}
Removing  == {"owner", "remove", "removed"}
Counting  == {"error", "permanent", "foreign"}

(* The member at hand is one the engine may handle: an admission's is open    *)
(* and not suspended, a removal's is absent or has expired, and only a        *)
(* failure has a kind.                                                        *)
AtHand ==
    /\ eng.pc \in Admitting => /\ eng.phase = "admit"
                               /\ ~member[eng.r].suspended /\ ~member[eng.r].tomb
    /\ eng.pc \in Removing => /\ eng.phase # "admit"
                              /\ eng.phase = "destroy" => eng.snap[eng.r].tomb
    /\ eng.pc # "fail" => eng.kind \in {"", "sleeping"}

(* The snapshot is not behind in what ends a member's admissions: one that    *)
(* is suspended or closed now was so when the round began, unless the round   *)
(* is through with it.                                                        *)
SnapshotHolds ==
    eng.pc \notin {"idle", "reconcile"} =>
        \A q \in Resources :
            /\ eng.phase # "admit" \/ q \in eng.todo =>
                  (member[q].suspended => eng.snap[q].suspended)
            /\ eng.phase # "expire" => (member[q].tomb => eng.snap[q].tomb)

(* A failed attempt is in the member's counter, or about to be, or a death    *)
(* kept it out; a counter at the limit belongs to a suspended member.         *)
Pending(r) == IF eng.pc = "fail" /\ eng.r = r /\ eng.kind \in Counting THEN 1 ELSE 0
Tallied ==
    \A r \in Resources :
        /\ member[r].fails = Limit => member[r].suspended
        /\ tries[r] <= member[r].fails + deaths + Pending(r)

Inv == TypeOK /\ AtHand /\ SnapshotHolds /\ Tallied

USE PopulationAssumption

LEMMA ResourcesType == Resources \subseteq Nat /\ 1 \in Resources
BY DEF Resources

-------------------------------------------------------------------------------
(* What the record updates of the model are, field by field.                 *)
LEMMA SessionUpdates ==
    ASSUME NEW s \in Session
    PROVE  /\ \A x \in States : [s EXCEPT !.st = x] \in Session
           /\ \A x \in BOOLEAN : [s EXCEPT !.own = x] \in Session
           /\ \A x \in BOOLEAN : [s EXCEPT !.idle = x] \in Session
           /\ \A x \in {"none", "produced", "failed"} : [s EXCEPT !.init = x] \in Session
BY DEF Session

LEMMA EngineUpdates ==
    ASSUME NEW e \in Engine, NEW x
    PROVE  /\ [e EXCEPT !.pc = x] = [pc |-> x, phase |-> e.phase, snap |-> e.snap,
                  todo |-> e.todo, r |-> e.r, cands |-> e.cands, kind |-> e.kind]
           /\ [e EXCEPT !.phase = x] = [pc |-> e.pc, phase |-> x, snap |-> e.snap,
                  todo |-> e.todo, r |-> e.r, cands |-> e.cands, kind |-> e.kind]
           /\ [e EXCEPT !.todo = x] = [pc |-> e.pc, phase |-> e.phase, snap |-> e.snap,
                  todo |-> x, r |-> e.r, cands |-> e.cands, kind |-> e.kind]
           /\ [e EXCEPT !.r = x] = [pc |-> e.pc, phase |-> e.phase, snap |-> e.snap,
                  todo |-> e.todo, r |-> x, cands |-> e.cands, kind |-> e.kind]
           /\ [e EXCEPT !.cands = x] = [pc |-> e.pc, phase |-> e.phase, snap |-> e.snap,
                  todo |-> e.todo, r |-> e.r, cands |-> x, kind |-> e.kind]
           /\ [e EXCEPT !.kind = x] = [pc |-> e.pc, phase |-> e.phase, snap |-> e.snap,
                  todo |-> e.todo, r |-> e.r, cands |-> e.cands, kind |-> x]
BY DEF Engine

LEMMA EngineType ==
    ASSUME NEW pc \in Places, NEW phase \in Phases, NEW snap \in [Resources -> Member],
           NEW todo \in SUBSET Resources, NEW r \in Resources,
           NEW cands \in SUBSET Resources, NEW kind \in Kinds
    PROVE  [pc |-> pc, phase |-> phase, snap |-> snap, todo |-> todo, r |-> r,
            cands |-> cands, kind |-> kind] \in Engine
BY DEF Engine

LEMMA GoIs ==
    ASSUME TypeOK, NEW x, Go(x)
    PROVE  eng' = [pc |-> x, phase |-> eng.phase, snap |-> eng.snap, todo |-> eng.todo,
                   r |-> eng.r, cands |-> eng.cands, kind |-> eng.kind]
BY EngineUpdates DEF Go, TypeOK

LEMMA FailedIs ==
    ASSUME TypeOK, NEW x \in Kinds, Failed(x)
    PROVE  eng' = [pc |-> "fail", phase |-> eng.phase, snap |-> eng.snap, todo |-> eng.todo,
                   r |-> eng.r, cands |-> eng.cands, kind |-> x]
<1> DEFINE a == [eng EXCEPT !.pc = "fail"]
<1>1. a = [pc |-> "fail", phase |-> eng.phase, snap |-> eng.snap, todo |-> eng.todo,
           r |-> eng.r, cands |-> eng.cands, kind |-> eng.kind]
    BY EngineUpdates DEF TypeOK
<1>2. a \in Engine
    BY <1>1 DEF TypeOK, Engine, Places
<1> HIDE DEF a
<1>3. [a EXCEPT !.kind = x] = [pc |-> a.pc, phase |-> a.phase, snap |-> a.snap,
           todo |-> a.todo, r |-> a.r, cands |-> a.cands, kind |-> x]
    BY <1>2, EngineUpdates
<1>4. eng' = [a EXCEPT !.kind = x]
    BY DEF Failed, a
<1> QED  BY <1>1, <1>3, <1>4

LEMMA DoneIs ==
    ASSUME TypeOK, Done
    PROVE  eng' = [pc |-> "walk", phase |-> eng.phase, snap |-> eng.snap,
                   todo |-> eng.todo \ {eng.r}, r |-> eng.r, cands |-> {}, kind |-> ""]
<1> DEFINE a == [eng EXCEPT !.pc = "walk"]
           b == [a EXCEPT !.todo = eng.todo \ {eng.r}]
           c == [b EXCEPT !.cands = {}]
<1>0. eng' = [c EXCEPT !.kind = ""]
    BY DEF Done, TypeOK, Engine
<1>1. a = [pc |-> "walk", phase |-> eng.phase, snap |-> eng.snap, todo |-> eng.todo,
           r |-> eng.r, cands |-> eng.cands, kind |-> eng.kind]
    BY EngineUpdates DEF TypeOK
<1>2. a \in Engine
    BY DEF TypeOK, Engine, Places
<1> HIDE DEF a
<1>3. b = [pc |-> a.pc, phase |-> a.phase, snap |-> a.snap, todo |-> eng.todo \ {eng.r},
           r |-> a.r, cands |-> a.cands, kind |-> a.kind]
    BY <1>2, EngineUpdates
<1>4. eng.todo \ {eng.r} \in SUBSET Resources
    BY DEF TypeOK, Engine
<1>5. b \in Engine
    BY <1>2, <1>4 DEF Engine
<1> HIDE DEF b
<1>6. c = [pc |-> b.pc, phase |-> b.phase, snap |-> b.snap, todo |-> b.todo,
           r |-> b.r, cands |-> {}, kind |-> b.kind]
    BY <1>5, EngineUpdates
<1>7. c \in Engine
    BY <1>5 DEF Engine
<1> HIDE DEF c
<1>8. [c EXCEPT !.kind = ""] = [pc |-> c.pc, phase |-> c.phase, snap |-> c.snap,
           todo |-> c.todo, r |-> c.r, cands |-> c.cands, kind |-> ""]
    BY <1>7, EngineUpdates
<1> QED  BY <1>0, <1>1, <1>3, <1>6, <1>8

LEMMA TakeIs ==
    ASSUME TypeOK, NEW q \in Resources, NEW x \in Places, Take(q, x)
    PROVE  eng' = [pc |-> x, phase |-> eng.phase, snap |-> eng.snap, todo |-> eng.todo,
                   r |-> q, cands |-> eng.cands, kind |-> eng.kind]
<1> DEFINE a == [eng EXCEPT !.pc = x]
<1>1. a = [pc |-> x, phase |-> eng.phase, snap |-> eng.snap, todo |-> eng.todo,
           r |-> eng.r, cands |-> eng.cands, kind |-> eng.kind]
    BY EngineUpdates DEF TypeOK
<1>4. a \in Engine
    BY DEF TypeOK, Engine
<1>2. eng' = [a EXCEPT !.r = q]
    BY DEF Take
<1> HIDE DEF a
<1>3. [a EXCEPT !.r = q] = [pc |-> a.pc, phase |-> a.phase, snap |-> a.snap, todo |-> a.todo,
           r |-> q, cands |-> a.cands, kind |-> a.kind]
    BY <1>4, EngineUpdates
<1> QED  BY <1>1, <1>2, <1>3

LEMMA SkipIs ==
    ASSUME TypeOK, NEW q \in Resources, Skip(q)
    PROVE  eng' = [pc |-> eng.pc, phase |-> eng.phase, snap |-> eng.snap,
                   todo |-> eng.todo \ {q}, r |-> eng.r, cands |-> eng.cands, kind |-> eng.kind]
BY EngineUpdates DEF Skip, TypeOK, Engine

LEMMA RestType == Rest \in Engine /\ NoMember \in Member
BY ResourcesType DEF Rest, Engine, Places, Phases, Kinds, Member, NoMember

LEMMA WalkIs ==
    ASSUME NEW x, Walk(x)
    PROVE  eng' = [pc |-> "walk", phase |-> x, snap |-> member,
                   todo |-> {q \in Resources : member[q].known}, r |-> 1, cands |-> {}, kind |-> ""]
BY DEF Walk, Rest

LEMMA SetKnown ==
    ASSUME NEW m \in Member, NEW x \in BOOLEAN
    PROVE  /\ [m EXCEPT !.known = x] \in Member
           /\ [m EXCEPT !.known = x].known = x
           /\ [m EXCEPT !.known = x].tomb = m.tomb
           /\ [m EXCEPT !.known = x].fails = m.fails
           /\ [m EXCEPT !.known = x].suspended = m.suspended
BY DEF Member

LEMMA SetSession ==
    ASSUME NEW m \in Member, NEW x \in BOOLEAN
    PROVE  /\ [m EXCEPT !.session = x] \in Member
           /\ [m EXCEPT !.session = x].session = x
           /\ [m EXCEPT !.session = x].known = m.known
           /\ [m EXCEPT !.session = x].tomb = m.tomb
           /\ [m EXCEPT !.session = x].fails = m.fails
           /\ [m EXCEPT !.session = x].suspended = m.suspended
BY DEF Member

LEMMA SetPending ==
    ASSUME NEW m \in Member, NEW x \in BOOLEAN
    PROVE  /\ [m EXCEPT !.pending = x] \in Member
           /\ [m EXCEPT !.pending = x].pending = x
           /\ [m EXCEPT !.pending = x].known = m.known
           /\ [m EXCEPT !.pending = x].tomb = m.tomb
           /\ [m EXCEPT !.pending = x].fails = m.fails
           /\ [m EXCEPT !.pending = x].suspended = m.suspended
BY DEF Member

LEMMA SetTomb ==
    ASSUME NEW m \in Member, NEW x \in BOOLEAN
    PROVE  /\ [m EXCEPT !.tomb = x] \in Member
           /\ [m EXCEPT !.tomb = x].tomb = x
           /\ [m EXCEPT !.tomb = x].known = m.known
           /\ [m EXCEPT !.tomb = x].fails = m.fails
           /\ [m EXCEPT !.tomb = x].suspended = m.suspended
BY DEF Member

LEMMA SetFails ==
    ASSUME NEW m \in Member, NEW x \in 0..Limit
    PROVE  /\ [m EXCEPT !.fails = x] \in Member
           /\ [m EXCEPT !.fails = x].fails = x
           /\ [m EXCEPT !.fails = x].known = m.known
           /\ [m EXCEPT !.fails = x].tomb = m.tomb
           /\ [m EXCEPT !.fails = x].suspended = m.suspended
BY DEF Member

LEMMA SetSuspended ==
    ASSUME NEW m \in Member, NEW x \in BOOLEAN
    PROVE  /\ [m EXCEPT !.suspended = x] \in Member
           /\ [m EXCEPT !.suspended = x].suspended = x
           /\ [m EXCEPT !.suspended = x].known = m.known
           /\ [m EXCEPT !.suspended = x].tomb = m.tomb
           /\ [m EXCEPT !.suspended = x].fails = m.fails
BY DEF Member

LEMMA SetLater ==
    ASSUME NEW m \in Member, NEW x \in BOOLEAN
    PROVE  /\ [m EXCEPT !.later = x] \in Member
           /\ [m EXCEPT !.later = x].later = x
           /\ [m EXCEPT !.later = x].known = m.known
           /\ [m EXCEPT !.later = x].tomb = m.tomb
           /\ [m EXCEPT !.later = x].fails = m.fails
           /\ [m EXCEPT !.later = x].suspended = m.suspended
BY DEF Member

LEMMA SetWhy ==
    ASSUME NEW m \in Member, NEW x \in {"", "capacity", "other"}
    PROVE  /\ [m EXCEPT !.why = x] \in Member
           /\ [m EXCEPT !.why = x].why = x
           /\ [m EXCEPT !.why = x].known = m.known
           /\ [m EXCEPT !.why = x].tomb = m.tomb
           /\ [m EXCEPT !.why = x].fails = m.fails
           /\ [m EXCEPT !.why = x].suspended = m.suspended
BY DEF Member

(* What the operators on members do to what the invariants speak of.         *)
LEMMA ClearedIs ==
    ASSUME NEW m \in Member
    PROVE  /\ Cleared(m) \in Member /\ Cleared(m).fails = 0 /\ Cleared(m).suspended = FALSE
           /\ Cleared(m).known = m.known /\ Cleared(m).tomb = m.tomb
<1> DEFINE a == [m EXCEPT !.fails = 0]
           b == [a EXCEPT !.suspended = FALSE]
<1>0. 0 \in 0..Limit /\ FALSE \in BOOLEAN
    OBVIOUS
<1>1. a \in Member /\ a.fails = 0 /\ a.known = m.known /\ a.tomb = m.tomb
    BY <1>0, SetFails
<1> HIDE DEF a
<1>2. /\ b \in Member /\ b.fails = 0 /\ b.suspended = FALSE
      /\ b.known = m.known /\ b.tomb = m.tomb
    BY <1>0, <1>1, SetSuspended
<1> HIDE DEF b
<1>3. Cleared(m) = [b EXCEPT !.later = FALSE]
    BY DEF Cleared, a, b
<1> QED  BY <1>0, <1>2, <1>3, SetLater

LEMMA SettledIs ==
    ASSUME NEW m \in Member
    PROVE  /\ Settled(m) \in Member /\ Settled(m).fails = 0 /\ Settled(m).suspended = FALSE
           /\ Settled(m).known = m.known /\ Settled(m).tomb = m.tomb
<1> DEFINE c == Cleared(m)
           a == [c EXCEPT !.session = TRUE]
           b == [a EXCEPT !.pending = FALSE]
<1>1. /\ c \in Member /\ c.fails = 0 /\ c.suspended = FALSE
      /\ c.known = m.known /\ c.tomb = m.tomb
    BY ClearedIs
<1> HIDE DEF c
<1>2. /\ a \in Member /\ a.fails = 0 /\ a.suspended = FALSE
      /\ a.known = m.known /\ a.tomb = m.tomb
    BY <1>1, SetSession
<1> HIDE DEF a
<1>3. /\ b \in Member /\ b.fails = 0 /\ b.suspended = FALSE
      /\ b.known = m.known /\ b.tomb = m.tomb
    BY <1>2, SetPending
<1> HIDE DEF b
<1>4. Settled(m) = [b EXCEPT !.why = ""]
    BY DEF Settled, a, b, c
<1>5. LET k == [b EXCEPT !.why = ""]
      IN  k \in Member /\ k.fails = 0 /\ k.suspended = FALSE /\ k.known = m.known /\ k.tomb = m.tomb
    BY <1>3, SetWhy
<1> QED  BY <1>4, <1>5

LEMMA RemovedIs ==
    ASSUME NEW m \in Member
    PROVE  /\ Removed(m) \in Member /\ Removed(m).fails = m.fails
           /\ Removed(m).suspended = m.suspended /\ Removed(m).known = m.known
<1> DEFINE a == [m EXCEPT !.tomb = TRUE]
           b == [a EXCEPT !.session = FALSE]
<1>1. /\ a \in Member /\ a.fails = m.fails /\ a.suspended = m.suspended
      /\ a.known = m.known
    BY SetTomb
<1> HIDE DEF a
<1>2. /\ b \in Member /\ b.fails = m.fails /\ b.suspended = m.suspended
      /\ b.known = m.known
    BY <1>1, SetSession
<1> HIDE DEF b
<1>3. Removed(m) = [b EXCEPT !.pending = FALSE]
    BY DEF Removed, a, b
<1> QED  BY <1>2, <1>3, SetPending

LEMMA OpenedIs ==
    ASSUME NEW m \in Member
    PROVE  LET n == [m EXCEPT !.known = TRUE, !.pending = TRUE]
               k == [m EXCEPT !.tomb = FALSE, !.pending = TRUE]
               c == [m EXCEPT !.tomb = TRUE, !.pending = FALSE]
           IN  /\ n \in Member /\ n.fails = m.fails /\ n.suspended = m.suspended /\ n.known = TRUE
               /\ k \in Member /\ k.fails = m.fails /\ k.suspended = m.suspended
               /\ k.known = m.known
               /\ c \in Member /\ c.fails = m.fails /\ c.suspended = m.suspended
               /\ c.known = m.known
<1> DEFINE n1 == [m EXCEPT !.known = TRUE]
           k1 == [m EXCEPT !.tomb = FALSE]
           c1 == [m EXCEPT !.tomb = TRUE]
<1>1. n1 \in Member /\ n1.fails = m.fails /\ n1.suspended = m.suspended /\ n1.known = TRUE
    BY SetKnown
<1>2. k1 \in Member /\ k1.fails = m.fails /\ k1.suspended = m.suspended /\ k1.known = m.known
    BY SetTomb
<1>3. c1 \in Member /\ c1.fails = m.fails /\ c1.suspended = m.suspended /\ c1.known = m.known
    BY SetTomb
<1>4. /\ [m EXCEPT !.known = TRUE, !.pending = TRUE] = [n1 EXCEPT !.pending = TRUE]
      /\ [m EXCEPT !.tomb = FALSE, !.pending = TRUE] = [k1 EXCEPT !.pending = TRUE]
      /\ [m EXCEPT !.tomb = TRUE, !.pending = FALSE] = [c1 EXCEPT !.pending = FALSE]
    OBVIOUS
<1> HIDE DEF n1, k1, c1
<1>5. LET n == [n1 EXCEPT !.pending = TRUE]
      IN  n \in Member /\ n.fails = m.fails /\ n.suspended = m.suspended /\ n.known = TRUE
    BY <1>1, SetPending
<1>6. LET k == [k1 EXCEPT !.pending = TRUE]
      IN  k \in Member /\ k.fails = m.fails /\ k.suspended = m.suspended /\ k.known = m.known
    BY <1>2, SetPending
<1>7. LET c == [c1 EXCEPT !.pending = FALSE]
      IN  c \in Member /\ c.fails = m.fails /\ c.suspended = m.suspended /\ c.known = m.known
    BY <1>3, SetPending
<1> QED  BY <1>4, <1>5, <1>6, <1>7

LEMMA NoMemberIs == NoMember \in Member /\ NoMember.fails = 0 /\ NoMember.suspended = FALSE
BY DEF NoMember, Member

LEMMA ListedIs ==
    ASSUME NEW m \in Member
    PROVE  /\ Listed(m) \in Member /\ Listed(m).known = TRUE
           /\ m.known /\ ~m.tomb => Listed(m).fails = m.fails /\ Listed(m).suspended = m.suspended
           /\ ~m.known \/ m.tomb => Listed(m).fails = 0 /\ Listed(m).suspended = FALSE
<1> DEFINE n == CASE ~m.known -> [NoMember EXCEPT !.known = TRUE, !.pending = TRUE]
                  [] m.known /\ m.tomb -> [Cleared(m) EXCEPT !.tomb = FALSE, !.pending = TRUE]
                  [] OTHER -> m
<1>0. m.known \in BOOLEAN /\ m.tomb \in BOOLEAN /\ m.session \in BOOLEAN
    BY DEF Member
<1>1. CASE ~m.known
    <2>1. n = [NoMember EXCEPT !.known = TRUE, !.pending = TRUE]
        BY <1>1
    <2>5. LET k == [NoMember EXCEPT !.known = TRUE, !.pending = TRUE]
          IN  k \in Member /\ k.known = TRUE /\ k.fails = 0 /\ k.suspended = FALSE
        BY NoMemberIs, OpenedIs
    <2>2. n \in Member /\ n.known = TRUE /\ n.fails = 0 /\ n.suspended = FALSE
        BY <2>1, <2>5
    <2> HIDE DEF n
    <2>3. LET k == [n EXCEPT !.pending = TRUE]
          IN  k \in Member /\ k.known = TRUE /\ k.fails = 0 /\ k.suspended = FALSE
        BY <2>2, SetPending
    <2>4. Listed(m) = IF n.session THEN n ELSE [n EXCEPT !.pending = TRUE]
        BY DEF Listed, n
    <2> QED  BY <1>0, <1>1, <2>2, <2>3, <2>4
<1>2. CASE m.known /\ m.tomb
    <2>0. Cleared(m) \in Member /\ Cleared(m).fails = 0 /\ Cleared(m).suspended = FALSE
              /\ Cleared(m).known = TRUE
        BY <1>0, <1>2, ClearedIs
    <2>1. n = [Cleared(m) EXCEPT !.tomb = FALSE, !.pending = TRUE]
        BY <1>2
    <2>2. n \in Member /\ n.known = TRUE /\ n.fails = 0 /\ n.suspended = FALSE
        BY <2>0, <2>1, OpenedIs
    <2> HIDE DEF n
    <2>3. LET k == [n EXCEPT !.pending = TRUE]
          IN  k \in Member /\ k.known = TRUE /\ k.fails = 0 /\ k.suspended = FALSE
        BY <2>2, SetPending
    <2>4. Listed(m) = IF n.session THEN n ELSE [n EXCEPT !.pending = TRUE]
        BY DEF Listed, n
    <2> QED  BY <1>0, <1>2, <2>2, <2>3, <2>4
<1>3. CASE m.known /\ ~m.tomb
    <2>1. n = m
        BY <1>3
    <2>2. n \in Member /\ n.known = TRUE /\ n.fails = m.fails /\ n.suspended = m.suspended
        BY <1>0, <1>3, <2>1
    <2> HIDE DEF n
    <2>3. LET k == [n EXCEPT !.pending = TRUE]
          IN  k \in Member /\ k.known = TRUE /\ k.fails = m.fails /\ k.suspended = m.suspended
        BY <2>2, SetPending
    <2>4. Listed(m) = IF n.session THEN n ELSE [n EXCEPT !.pending = TRUE]
        BY DEF Listed, n
    <2> QED  BY <1>0, <1>3, <2>2, <2>3, <2>4
<1> QED  BY <1>0, <1>1, <1>2, <1>3

LEMMA OmittedIs ==
    ASSUME NEW m \in Member
    PROVE  /\ Omitted(m) \in Member /\ Omitted(m).known = m.known
           /\ m.known /\ ~m.tomb => Omitted(m).fails = 0 /\ Omitted(m).suspended = FALSE
           /\ ~m.known \/ m.tomb => Omitted(m) = m
<1>0. m.known \in BOOLEAN /\ m.tomb \in BOOLEAN
    BY DEF Member
<1>1. CASE m.known /\ ~m.tomb
    <2>1. Omitted(m) = [Cleared(m) EXCEPT !.tomb = TRUE, !.pending = FALSE]
        BY <1>1 DEF Omitted
    <2>2. Cleared(m) \in Member /\ Cleared(m).fails = 0 /\ Cleared(m).suspended = FALSE
              /\ Cleared(m).known = m.known
        BY ClearedIs
    <2>3. LET c == [Cleared(m) EXCEPT !.tomb = TRUE, !.pending = FALSE]
          IN  c \in Member /\ c.fails = 0 /\ c.suspended = FALSE /\ c.known = m.known
        BY <2>2, OpenedIs
    <2> QED  BY <1>1, <2>1, <2>3
<1>2. CASE ~(m.known /\ ~m.tomb)
    BY <1>2 DEF Omitted
<1> QED  BY <1>1, <1>2

LEMMA AppearedIs ==
    ASSUME NEW m \in Member
    PROVE  /\ Appeared(m) \in Member /\ Appeared(m).known = TRUE
           /\ m.known /\ ~m.tomb => Appeared(m).fails = m.fails /\ Appeared(m).suspended = m.suspended
           /\ ~m.known \/ m.tomb => Appeared(m).fails = 0 /\ Appeared(m).suspended = FALSE
<1>0. m.known \in BOOLEAN /\ m.tomb \in BOOLEAN /\ m.why \in {"", "capacity", "other"}
    BY DEF Member
<1>1. CASE ~m.known \/ m.tomb
    <2> DEFINE a == [NoMember EXCEPT !.known = TRUE, !.pending = TRUE]
    <2>1. a \in Member /\ a.fails = 0 /\ a.suspended = FALSE /\ a.known = TRUE
        BY NoMemberIs, OpenedIs
    <2>2. Appeared(m) = [a EXCEPT !.why = m.why]
        BY <1>1 DEF Appeared
    <2> HIDE DEF a
    <2>3. LET k == [a EXCEPT !.why = m.why]
          IN  k \in Member /\ k.known = TRUE /\ k.fails = 0 /\ k.suspended = FALSE
        BY <1>0, <2>1, SetWhy
    <2> QED  BY <1>0, <1>1, <2>2, <2>3
<1>2. CASE m.known /\ ~m.tomb
    <2>1. Appeared(m) = [m EXCEPT !.pending = TRUE]
        BY <1>2 DEF Appeared
    <2>2. LET k == [m EXCEPT !.pending = TRUE]
          IN  k \in Member /\ k.known = TRUE /\ k.fails = m.fails /\ k.suspended = m.suspended
        BY <1>0, <1>2, SetPending
    <2> QED  BY <1>2, <2>1, <2>2
<1> QED  BY <1>0, <1>1, <1>2

LEMMA LaterIs ==
    ASSUME NEW m \in Member
    PROVE  /\ Later(m) \in Member /\ Later(m).known = m.known /\ Later(m).tomb = m.tomb
           /\ Later(m).fails = m.fails /\ Later(m).suspended = m.suspended
BY SetLater DEF Later

LEMMA OneMore ==
    ASSUME NEW x \in 0..Limit, x < Limit
    PROVE  x + 1 \in 0..Limit
OBVIOUS

LEMMA GiveUpIs ==
    ASSUME NEW m \in Member, m.fails + 1 \in 0..Limit
    PROVE  /\ GiveUp(m) \in Member /\ GiveUp(m).known = m.known /\ GiveUp(m).tomb = m.tomb
           /\ GiveUp(m).fails = m.fails + 1 /\ GiveUp(m).suspended = TRUE
<1> DEFINE a == [m EXCEPT !.fails = m.fails + 1]
           b == [a EXCEPT !.suspended = TRUE]
<1>1. GiveUp(m) = [b EXCEPT !.later = FALSE]
    BY DEF GiveUp, Member
<1>2. a \in Member /\ a.known = m.known /\ a.tomb = m.tomb /\ a.fails = m.fails + 1
    BY SetFails
<1> HIDE DEF a
<1>3. /\ b \in Member /\ b.known = m.known /\ b.tomb = m.tomb
      /\ b.fails = m.fails + 1 /\ b.suspended = TRUE
    BY <1>2, SetSuspended
<1> HIDE DEF b
<1> QED  BY <1>1, <1>3, SetLater

LEMMA TryLaterIs ==
    ASSUME NEW m \in Member, m.fails + 1 \in 0..Limit
    PROVE  /\ TryLater(m) \in Member /\ TryLater(m).known = m.known /\ TryLater(m).tomb = m.tomb
           /\ TryLater(m).fails = m.fails + 1
<1> DEFINE a == [m EXCEPT !.fails = m.fails + 1]
<1>1. TryLater(m) = [a EXCEPT !.later = TRUE]
    BY DEF TryLater, Member
<1>2. a \in Member /\ a.known = m.known /\ a.tomb = m.tomb /\ a.fails = m.fails + 1
    BY SetFails
<1> HIDE DEF a
<1> QED  BY <1>1, <1>2, SetLater

LEMMA FailedMember ==
    ASSUME NEW m \in Member, m.fails < Limit
    PROVE  LET f == [AfterFailure(m) EXCEPT !.why = Reason(m)]
           IN  /\ f \in Member /\ f.known = m.known /\ f.tomb = m.tomb
               /\ f.fails \in {m.fails, m.fails + 1}
               /\ eng.kind \in Counting => f.fails = m.fails + 1
               /\ f.fails = Limit => f.suspended = TRUE
<1> DEFINE g == AfterFailure(m)
<1>a. m.fails \in 0..Limit
    BY DEF Member
<1>b. m.fails + 1 \in 0..Limit
    BY <1>a, OneMore
<1>1. /\ g \in Member /\ g.known = m.known /\ g.tomb = m.tomb
      /\ g.fails \in {m.fails, m.fails + 1}
      /\ eng.kind \in Counting => g.fails = m.fails + 1
      /\ g.fails = Limit => g.suspended = TRUE
    <2>1. CASE eng.kind \in {"busy", "capacity"}
        <3>1. g = Later(m)
            BY <2>1 DEF AfterFailure
        <3>2. eng.kind \notin Counting
            BY <2>1 DEF Counting
        <3>3. m.fails # Limit
            BY <1>a
        <3> HIDE DEF g
        <3> QED  BY <3>1, <3>2, <3>3, LaterIs
    <2>2. CASE /\ eng.kind \notin {"busy", "capacity"}
               /\ eng.kind \in {"permanent", "foreign"} \/ m.fails + 1 >= Limit
        <3>1. g = GiveUp(m)
            BY <2>2 DEF AfterFailure
        <3> HIDE DEF g
        <3> QED  BY <1>b, <3>1, GiveUpIs
    <2>3. CASE /\ eng.kind \notin {"busy", "capacity"}
               /\ ~(eng.kind \in {"permanent", "foreign"} \/ m.fails + 1 >= Limit)
        <3>1. g = TryLater(m)
            BY <2>3 DEF AfterFailure
        <3>2. m.fails + 1 # Limit
            BY <1>b, <2>3
        <3> HIDE DEF g
        <3> QED  BY <1>b, <3>1, <3>2, TryLaterIs
    <2> QED  BY <2>1, <2>2, <2>3
<1> HIDE DEF g
<1>2. Reason(m) \in {"", "capacity", "other"}
    BY DEF Reason, Member
<1>3. LET f == [g EXCEPT !.why = Reason(m)]
      IN  f \in Member /\ f.known = g.known /\ f.tomb = g.tomb /\ f.fails = g.fails
              /\ f.suspended = g.suspended
    BY <1>1, <1>2, SetWhy
<1>4. [AfterFailure(m) EXCEPT !.why = Reason(m)] = [g EXCEPT !.why = Reason(m)]
    BY DEF g
<1> QED  BY <1>1, <1>3, <1>4

LEMMA EngIs ==                           \* two fields of the engine at once
    ASSUME NEW e \in Engine, NEW p \in Places
    PROVE  /\ \A c : [e EXCEPT !.pc = p, !.cands = c] =
                  [pc |-> p, phase |-> e.phase, snap |-> e.snap, todo |-> e.todo,
                   r |-> e.r, cands |-> c, kind |-> e.kind]
           /\ \A k : [e EXCEPT !.pc = p, !.kind = k] =
                  [pc |-> p, phase |-> e.phase, snap |-> e.snap, todo |-> e.todo,
                   r |-> e.r, cands |-> e.cands, kind |-> k]
           /\ \A f \in Phases : \A t : [e EXCEPT !.phase = f, !.todo = t] =
                  [pc |-> e.pc, phase |-> f, snap |-> e.snap, todo |-> t,
                   r |-> e.r, cands |-> e.cands, kind |-> e.kind]
<1> DEFINE a == [e EXCEPT !.pc = p]
<1>1. a = [pc |-> p, phase |-> e.phase, snap |-> e.snap, todo |-> e.todo,
           r |-> e.r, cands |-> e.cands, kind |-> e.kind]
    BY EngineUpdates
<1>2. a \in Engine
    BY DEF Engine
<1>3. /\ \A c : [e EXCEPT !.pc = p, !.cands = c] = [a EXCEPT !.cands = c]
      /\ \A k : [e EXCEPT !.pc = p, !.kind = k] = [a EXCEPT !.kind = k]
    OBVIOUS
<1> HIDE DEF a
<1>4. ASSUME NEW c
      PROVE  [a EXCEPT !.cands = c] =
                  [pc |-> p, phase |-> e.phase, snap |-> e.snap, todo |-> e.todo,
                   r |-> e.r, cands |-> c, kind |-> e.kind]
    <2>1. [a EXCEPT !.cands = c] = [pc |-> a.pc, phase |-> a.phase, snap |-> a.snap,
              todo |-> a.todo, r |-> a.r, cands |-> c, kind |-> a.kind]
        BY <1>2, EngineUpdates
    <2> QED  BY <1>1, <2>1
<1>5. ASSUME NEW k
      PROVE  [a EXCEPT !.kind = k] =
                  [pc |-> p, phase |-> e.phase, snap |-> e.snap, todo |-> e.todo,
                   r |-> e.r, cands |-> e.cands, kind |-> k]
    <2>1. [a EXCEPT !.kind = k] = [pc |-> a.pc, phase |-> a.phase, snap |-> a.snap,
              todo |-> a.todo, r |-> a.r, cands |-> a.cands, kind |-> k]
        BY <1>2, EngineUpdates
    <2> QED  BY <1>1, <2>1
<1>6. ASSUME NEW f \in Phases, NEW t
      PROVE  [e EXCEPT !.phase = f, !.todo = t] =
                  [pc |-> e.pc, phase |-> f, snap |-> e.snap, todo |-> t,
                   r |-> e.r, cands |-> e.cands, kind |-> e.kind]
    <2> DEFINE b == [e EXCEPT !.phase = f]
    <2>1. b = [pc |-> e.pc, phase |-> f, snap |-> e.snap, todo |-> e.todo,
               r |-> e.r, cands |-> e.cands, kind |-> e.kind]
        BY EngineUpdates
    <2>2. b \in Engine
        BY DEF Engine
    <2>3. [e EXCEPT !.phase = f, !.todo = t] = [b EXCEPT !.todo = t]
        OBVIOUS
    <2> HIDE DEF b
    <2>4. [b EXCEPT !.todo = t] = [pc |-> b.pc, phase |-> b.phase, snap |-> b.snap,
              todo |-> t, r |-> b.r, cands |-> b.cands, kind |-> b.kind]
        BY <2>2, EngineUpdates
    <2> QED  BY <2>1, <2>3, <2>4
<1> QED  BY <1>3, <1>4, <1>5, <1>6

-------------------------------------------------------------------------------
LEMMA NumberTypes ==
    ASSUME TypeOK, NEW r \in Resources
    PROVE  /\ member[r] \in Member /\ member[r].fails \in 0..Limit /\ member[r].fails \in Nat
           /\ deaths \in Nat /\ tries[r] \in Nat /\ eng.r \in Resources
           /\ tries \in [Resources -> Nat] /\ member \in [Resources -> Member]
<1>1. member[r] \in Member /\ member \in [Resources -> Member]
    BY DEF TypeOK
<1>2. member[r].fails \in 0..Limit
    BY <1>1 DEF Member
<1>3. member[r].fails \in Nat
    BY <1>2
<1>4. tries \in [Resources -> Nat] /\ tries[r] \in Nat /\ deaths \in Nat
    BY DEF TypeOK
<1>5. eng.r \in Resources
    BY DEF TypeOK, Engine
<1> QED  BY <1>1, <1>2, <1>3, <1>4, <1>5

LEMMA CountTryIs ==
    ASSUME TypeOK, CountTry, NEW r \in Resources
    PROVE  tries'[r] = IF r = eng.r /\ eng'.kind \in Counting THEN tries[r] + 1 ELSE tries[r]
BY NumberTypes DEF CountTry, Counting

LEMMA TalliedAt ==
    ASSUME Tallied, NEW r \in Resources
    PROVE  /\ tries[r] <= member[r].fails + deaths + Pending(r)
           /\ member[r].fails = Limit => member[r].suspended
BY DEF Tallied

LEMMA OnePending ==
    ASSUME TypeOK, Tallied, NEW r \in Resources, Pending(r) = 0
    PROVE  /\ \A p \in {0, 1} : tries[r] <= member[r].fails + deaths + p
           /\ tries[r] + 1 <= member[r].fails + deaths + 1
<1>1. tries[r] <= member[r].fails + deaths + 0
    BY TalliedAt
<1> QED  BY <1>1, NumberTypes

LEMMA InitInv == Init => Inv
<1> SUFFICES ASSUME Init PROVE Inv
    OBVIOUS
<1>1. eng = Rest /\ Rest \in Engine /\ eng.pc = "idle" /\ eng.kind = ""
    BY RestType DEF Init, Rest
<1>2. TypeOK
    <2>1. member \in [Resources -> Member]
        BY RestType DEF Init
    <2>3. NoRow \in Session
        BY DEF Session, NoRow, States
    <2>2. session \in [Resources -> Session]
        BY <2>3 DEF Init
    <2>4. eng \in Engine
        BY <1>1
    <2> QED  BY <2>1, <2>2, <2>4 DEF Init, TypeOK
<1>3. AtHand /\ SnapshotHolds
    BY <1>1 DEF AtHand, SnapshotHolds, Admitting, Removing
<1>4. Tallied
    <2>1. \A r \in Resources : member[r].fails = 0 /\ tries[r] = 0 /\ Pending(r) = 0
        BY <1>1, NoMemberIs DEF Init, Pending
    <2> QED  BY <2>1 DEF Tallied, Init
<1> QED  BY <1>2, <1>3, <1>4 DEF Inv

(* What leaves the members, the engine and the ghosts alone keeps what the    *)
(* invariant says of them.                                                    *)
LEMMA Aside ==
    ASSUME Inv, UNCHANGED <<member, eng, tries, deaths>>
    PROVE  AtHand' /\ SnapshotHolds' /\ Tallied'
BY DEF Inv, AtHand, SnapshotHolds, Tallied, Pending

(* An admission moves on to its next step, and may count an attempt.          *)
LEMMA AdmissionMoves ==
    ASSUME Inv, UNCHANGED <<member, deaths>>,
           eng.pc \in Admitting \ {"fail"}, eng'.pc \in Admitting,
           eng'.phase = eng.phase, eng'.snap = eng.snap, eng'.todo = eng.todo,
           eng'.r = eng.r, eng'.pc # "fail" => eng'.kind \in {"", "sleeping"},
           eng'.pc = "fail" => eng'.kind \notin {"", "sleeping"},
           tries' = tries \/ eng'.pc = "fail",
           CountTry \/ tries' = tries
    PROVE  AtHand' /\ SnapshotHolds' /\ Tallied'
<1>1. AtHand'
    BY DEF Inv, AtHand, Admitting, Removing
<1>2. SnapshotHolds'
    BY DEF Inv, SnapshotHolds, Admitting
<1>3. Tallied'
    <2> SUFFICES ASSUME NEW r \in Resources
                 PROVE  /\ member[r].fails = Limit => member[r].suspended
                        /\ tries'[r] <= member[r].fails + deaths + Pending(r)'
        BY DEF Tallied
    <2>1. Pending(r) = 0 /\ Pending(r)' \in {0, 1}
        BY DEF Pending, Admitting
    <2>2. /\ \A p \in {0, 1} : tries[r] <= member[r].fails + deaths + p
          /\ tries[r] + 1 <= member[r].fails + deaths + 1
        BY <2>1, OnePending DEF Inv
    <2>3. tries'[r] <= member[r].fails + deaths + Pending(r)'
        <3>1. CASE tries' = tries
            BY <2>1, <2>2, <3>1
        <3>2. CASE CountTry /\ eng'.pc = "fail" /\ r = eng.r /\ eng'.kind \in Counting
            <4>1. Pending(r)' = 1
                BY <3>2 DEF Pending
            <4>2. tries'[r] = tries[r] + 1
                <5>1. TypeOK /\ CountTry
                    BY <3>2 DEF Inv
                <5> QED  BY <3>2, <5>1, CountTryIs
            <4> QED  BY <2>2, <4>1, <4>2
        <3>3. CASE CountTry /\ ~(r = eng.r /\ eng'.kind \in Counting)
            <4>1. tries'[r] = tries[r]
                <5>1. TypeOK /\ CountTry
                    BY <3>3 DEF Inv
                <5> QED  BY <3>3, <5>1, CountTryIs
            <4> QED  BY <2>1, <2>2, <4>1
        <3> QED  BY <3>1, <3>2, <3>3
    <2> QED  BY <2>3, TalliedAt DEF Inv
<1> QED  BY <1>1, <1>2, <1>3

(* The engine goes on without a pending failure, the members unchanged.       *)
LEMMA WalkMoves ==
    ASSUME Inv, UNCHANGED <<member, tries>>, deaths' \in Nat, deaths' >= deaths,
           eng.pc = "fail" => deaths' = deaths + 1
    PROVE  Tallied'
<1> SUFFICES ASSUME NEW r \in Resources
             PROVE  /\ member[r].fails = Limit => member[r].suspended
                    /\ tries[r] <= member[r].fails + deaths' + Pending(r)'
    BY DEF Tallied
<1>0. member[r].fails \in Nat /\ deaths \in Nat /\ tries[r] \in Nat
    BY NumberTypes DEF Inv
<1>1. Pending(r)' \in {0, 1} /\ Pending(r) \in {0, 1} /\ (eng.pc # "fail" => Pending(r) = 0)
    BY DEF Pending
<1>2. tries[r] <= member[r].fails + deaths + Pending(r)
    BY TalliedAt DEF Inv
<1>3. tries[r] <= member[r].fails + deaths' + Pending(r)'
    <2>1. CASE eng.pc = "fail"
        BY <1>0, <1>1, <1>2, <2>1
    <2>2. CASE eng.pc # "fail"
        BY <1>0, <1>1, <1>2, <2>2
    <2> QED  BY <2>1, <2>2
<1> QED  BY <1>3, TalliedAt DEF Inv

-------------------------------------------------------------------------------
(* Where the engine goes.                                                    *)
LEMMA GoFacts ==
    ASSUME TypeOK, NEW x \in Places, Go(x)
    PROVE  /\ eng' \in Engine /\ eng'.pc = x /\ eng'.phase = eng.phase
           /\ eng'.snap = eng.snap /\ eng'.todo = eng.todo /\ eng'.r = eng.r
           /\ eng'.kind = eng.kind
<1>1. /\ eng.phase \in Phases /\ eng.snap \in [Resources -> Member]
      /\ eng.todo \in SUBSET Resources /\ eng.r \in Resources
      /\ eng.cands \in SUBSET Resources /\ eng.kind \in Kinds
    BY DEF TypeOK, Engine
<1>2. eng' = [pc |-> x, phase |-> eng.phase, snap |-> eng.snap, todo |-> eng.todo,
               r |-> eng.r, cands |-> eng.cands, kind |-> eng.kind]
    BY GoIs
<1>3. [pc |-> x, phase |-> eng.phase, snap |-> eng.snap, todo |-> eng.todo,
               r |-> eng.r, cands |-> eng.cands, kind |-> eng.kind] \in Engine
    BY <1>1, EngineType
<1> QED  BY <1>2, <1>3

LEMMA FailedFacts ==
    ASSUME TypeOK, NEW x \in Kinds, Failed(x)
    PROVE  /\ eng' \in Engine /\ eng'.pc = "fail" /\ eng'.phase = eng.phase
           /\ eng'.snap = eng.snap /\ eng'.todo = eng.todo /\ eng'.r = eng.r
           /\ eng'.kind = x
<1>1. /\ eng.phase \in Phases /\ eng.snap \in [Resources -> Member]
      /\ eng.todo \in SUBSET Resources /\ eng.r \in Resources
      /\ eng.cands \in SUBSET Resources /\ "fail" \in Places
    BY DEF TypeOK, Engine, Places
<1>2. eng' = [pc |-> "fail", phase |-> eng.phase, snap |-> eng.snap, todo |-> eng.todo,
               r |-> eng.r, cands |-> eng.cands, kind |-> x]
    BY FailedIs
<1>3. [pc |-> "fail", phase |-> eng.phase, snap |-> eng.snap, todo |-> eng.todo,
               r |-> eng.r, cands |-> eng.cands, kind |-> x] \in Engine
    BY <1>1, EngineType
<1> QED  BY <1>2, <1>3

LEMMA DoneFacts ==
    ASSUME TypeOK, Done
    PROVE  /\ eng' \in Engine /\ eng'.pc = "walk" /\ eng'.phase = eng.phase
           /\ eng'.snap = eng.snap /\ eng'.todo = eng.todo \ {eng.r} /\ eng'.r = eng.r
           /\ eng'.kind = ""
<1>1. /\ eng.phase \in Phases /\ eng.snap \in [Resources -> Member]
      /\ eng.todo \ {eng.r} \in SUBSET Resources /\ eng.r \in Resources
      /\ {} \in SUBSET Resources /\ "walk" \in Places /\ "" \in Kinds
    BY DEF TypeOK, Engine, Places, Kinds
<1>2. eng' = [pc |-> "walk", phase |-> eng.phase, snap |-> eng.snap,
               todo |-> eng.todo \ {eng.r}, r |-> eng.r, cands |-> {}, kind |-> ""]
    BY DoneIs
<1>3. [pc |-> "walk", phase |-> eng.phase, snap |-> eng.snap,
               todo |-> eng.todo \ {eng.r}, r |-> eng.r, cands |-> {}, kind |-> ""] \in Engine
    BY <1>1, EngineType
<1> QED  BY <1>2, <1>3

LEMMA TakeFacts ==
    ASSUME TypeOK, NEW q \in Resources, NEW x \in Places, Take(q, x)
    PROVE  /\ eng' \in Engine /\ eng'.pc = x /\ eng'.phase = eng.phase
           /\ eng'.snap = eng.snap /\ eng'.todo = eng.todo /\ eng'.r = q
           /\ eng'.kind = eng.kind
<1>1. /\ eng.phase \in Phases /\ eng.snap \in [Resources -> Member]
      /\ eng.todo \in SUBSET Resources
      /\ eng.cands \in SUBSET Resources /\ eng.kind \in Kinds
    BY DEF TypeOK, Engine
<1>2. eng' = [pc |-> x, phase |-> eng.phase, snap |-> eng.snap, todo |-> eng.todo,
               r |-> q, cands |-> eng.cands, kind |-> eng.kind]
    BY TakeIs
<1>3. [pc |-> x, phase |-> eng.phase, snap |-> eng.snap, todo |-> eng.todo,
               r |-> q, cands |-> eng.cands, kind |-> eng.kind] \in Engine
    BY <1>1, EngineType
<1> QED  BY <1>2, <1>3

LEMMA SkipFacts ==
    ASSUME TypeOK, NEW q \in Resources, Skip(q)
    PROVE  /\ eng' \in Engine /\ eng'.pc = eng.pc /\ eng'.phase = eng.phase
           /\ eng'.snap = eng.snap /\ eng'.todo = eng.todo \ {q} /\ eng'.r = eng.r
           /\ eng'.kind = eng.kind
<1>1. /\ eng.phase \in Phases /\ eng.snap \in [Resources -> Member] /\ eng.r \in Resources
      /\ eng.todo \ {q} \in SUBSET Resources /\ eng.pc \in Places
      /\ eng.cands \in SUBSET Resources /\ eng.kind \in Kinds
    BY DEF TypeOK, Engine
<1>2. eng' = [pc |-> eng.pc, phase |-> eng.phase, snap |-> eng.snap,
               todo |-> eng.todo \ {q}, r |-> eng.r, cands |-> eng.cands, kind |-> eng.kind]
    BY SkipIs
<1>3. [pc |-> eng.pc, phase |-> eng.phase, snap |-> eng.snap,
               todo |-> eng.todo \ {q}, r |-> eng.r, cands |-> eng.cands, kind |-> eng.kind] \in Engine
    BY <1>1, EngineType
<1> QED  BY <1>2, <1>3

LEMMA WalkFacts ==
    ASSUME TypeOK, NEW x \in Phases, Walk(x)
    PROVE  /\ eng' \in Engine /\ eng'.pc = "walk" /\ eng'.phase = x
           /\ eng'.snap = member /\ eng'.kind = ""
<1>1. /\ member \in [Resources -> Member] /\ 1 \in Resources
      /\ {q \in Resources : member[q].known} \in SUBSET Resources
      /\ {} \in SUBSET Resources /\ "walk" \in Places /\ "" \in Kinds
    BY ResourcesType DEF TypeOK, Places, Kinds
<1>2. eng' = [pc |-> "walk", phase |-> x, snap |-> member,
               todo |-> {q \in Resources : member[q].known}, r |-> 1, cands |-> {}, kind |-> ""]
    BY WalkIs
<1>3. [pc |-> "walk", phase |-> x, snap |-> member,
               todo |-> {q \in Resources : member[q].known}, r |-> 1, cands |-> {}, kind |-> ""] \in Engine
    BY <1>1, EngineType
<1> QED  BY <1>2, <1>3

LEMMA CountedType == TypeOK /\ Counted => moves' \in 0..MaxMoves
BY DEF TypeOK, Counted

LEMMA Put ==
    ASSUME TypeOK, NEW r \in Resources, NEW x \in Member,
           member' = [member EXCEPT ![r] = x]
    PROVE  /\ member' \in [Resources -> Member] /\ member'[r] = x
           /\ \A q \in Resources \ {r} : member'[q] = member[q]
BY DEF TypeOK

LEMMA PutSession ==
    ASSUME TypeOK, NEW r \in Resources, NEW x \in Session,
           session' = [session EXCEPT ![r] = x]
    PROVE  session' \in [Resources -> Session]
BY DEF TypeOK

LEMMA NoRowType == NoRow \in Session
BY DEF NoRow, Session, States

(* A session's status, its row or one of its flags changes.                   *)
LEMMA SessionSteps ==
    ASSUME TypeOK, NEW r \in Resources
    PROVE  /\ session' = [session EXCEPT ![r] = NoRow] => session' \in [Resources -> Session]
           /\ \A x \in States : session' = [session EXCEPT ![r].st = x]
                                   => session' \in [Resources -> Session]
           /\ \A x \in BOOLEAN : session' = [session EXCEPT ![r].idle = x]
                                   => session' \in [Resources -> Session]
           /\ \A x \in {"none", "produced", "failed"} :
                  session' = [session EXCEPT ![r].init = x] => session' \in [Resources -> Session]
<1>1. session[r] \in Session /\ session \in [Resources -> Session]
    BY DEF TypeOK
<1>2. /\ \A x \in States : [session[r] EXCEPT !.st = x] \in Session
      /\ \A x \in BOOLEAN : [session[r] EXCEPT !.idle = x] \in Session
      /\ \A x \in {"none", "produced", "failed"} : [session[r] EXCEPT !.init = x] \in Session
    BY <1>1, SessionUpdates
<1> QED  BY <1>1, <1>2, NoRowType

-------------------------------------------------------------------------------
(* The invariant is kept by every action.                                     *)
LEMMA WalkInv ==
    ASSUME Inv, NEW x \in Phases, Walk(x), UNCHANGED <<World, member, Ghosts, moves>>,
           eng.pc # "fail"
    PROVE  Inv'
<1>1. /\ eng' \in Engine /\ eng'.pc = "walk" /\ eng'.phase = x
      /\ eng'.snap = member /\ eng'.kind = ""
    BY WalkFacts DEF Inv
<1>2. TypeOK'
    BY <1>1 DEF Inv, TypeOK, World, Ghosts
<1>3. AtHand'
    BY <1>1 DEF AtHand, Admitting, Removing
<1>4. SnapshotHolds'
    BY <1>1 DEF SnapshotHolds
<1>5. Tallied'
    <2>1. deaths \in Nat /\ deaths' = deaths /\ deaths' >= deaths
        BY DEF Inv, TypeOK, Ghosts
    <2>2. UNCHANGED <<member, tries>>
        BY DEF Ghosts
    <2> QED  BY <2>1, <2>2, WalkMoves
<1> QED  BY <1>2, <1>3, <1>4, <1>5 DEF Inv

LEMMA SweepExpiryInv == Inv /\ SweepExpiry => Inv'
<1> SUFFICES ASSUME Inv, SweepExpiry PROVE Inv'
    OBVIOUS
<1>1. /\ UNCHANGED <<World, member, Ghosts, moves>> /\ eng.pc # "fail"
      /\ Walk("destroy") \/ Walk("expire")
    BY DEF SweepExpiry, At
<1>2. "destroy" \in Phases /\ "expire" \in Phases
    BY DEF Phases
<1> QED  BY <1>1, <1>2, WalkInv

LEMMA ReconcileInv == Inv /\ Reconcile => Inv'
<1> SUFFICES ASSUME Inv, Reconcile PROVE Inv'
    OBVIOUS
<1>1. UNCHANGED <<World, member, Ghosts, moves>> /\ eng.pc # "fail" /\ Walk("destroy")
    BY DEF Reconcile, At
<1>2. "destroy" \in Phases
    BY DEF Phases
<1> QED  BY <1>1, <1>2, WalkInv

LEMMA NextPhaseInv == Inv /\ NextPhase => Inv'
<1> SUFFICES ASSUME Inv, NextPhase PROVE Inv'
    OBVIOUS
<1>0. /\ eng \in Engine /\ eng.pc = "walk" /\ eng.phase \in Phases /\ eng.kind \in {"", "sleeping"}
      /\ UNCHANGED <<World, member, Ghosts, moves>> /\ Rest \in Engine
    BY RestType DEF NextPhase, At, Inv, TypeOK, Engine, AtHand
<1>1. /\ eng' \in Engine /\ eng'.kind \in {"", "sleeping"}
      /\ \/ eng'.pc \in {"idle", "reconcile"}
         \/ /\ eng'.pc = "walk" /\ eng'.phase = "admit" /\ eng'.snap = eng.snap
            /\ eng.phase = "destroy"
    <2>1. CASE eng.phase = "expire"
        <3>1. eng' = [Rest EXCEPT !.pc = "reconcile"]
            BY <2>1 DEF NextPhase
        <3>2. Rest.pc = "idle" /\ Rest.kind = ""
            BY DEF Rest
        <3>3. [Rest EXCEPT !.pc = "reconcile"] = [pc |-> "reconcile", phase |-> Rest.phase,
                  snap |-> Rest.snap, todo |-> Rest.todo, r |-> Rest.r, cands |-> Rest.cands,
                  kind |-> Rest.kind]
            BY <1>0, EngineUpdates
        <3>4. [Rest EXCEPT !.pc = "reconcile"] \in Engine
            BY <1>0 DEF Engine, Places
        <3> QED  BY <3>1, <3>2, <3>3, <3>4
    <2>2. CASE eng.phase = "destroy"
        <3> DEFINE t == {r \in Resources : eng.snap[r].known}
        <3>1. eng' = [eng EXCEPT !.phase = "admit", !.todo = t]
            BY <2>2 DEF NextPhase
        <3>2. "admit" \in Phases /\ eng.pc \in Places /\ t \in SUBSET Resources
            BY <1>0 DEF Phases, Places
        <3>3. /\ eng.snap \in [Resources -> Member] /\ eng.r \in Resources
              /\ eng.cands \in SUBSET Resources /\ eng.kind \in Kinds
            BY <1>0 DEF Engine
        <3> HIDE DEF t
        <3>4. eng' = [pc |-> eng.pc, phase |-> "admit", snap |-> eng.snap, todo |-> t,
                      r |-> eng.r, cands |-> eng.cands, kind |-> eng.kind]
            BY <1>0, <3>1, <3>2, EngIs
        <3>5. [pc |-> eng.pc, phase |-> "admit", snap |-> eng.snap, todo |-> t,
               r |-> eng.r, cands |-> eng.cands, kind |-> eng.kind] \in Engine
            BY <3>2, <3>3, EngineType
        <3> QED  BY <1>0, <2>2, <3>4, <3>5
    <2>3. CASE eng.phase = "admit"
        <3>1. eng' = Rest
            BY <2>3 DEF NextPhase
        <3> QED  BY <1>0, <3>1 DEF Rest
    <2> QED  BY <1>0, <2>1, <2>2, <2>3 DEF Phases
<1>2. TypeOK'
    BY <1>0, <1>1 DEF Inv, TypeOK, World, Ghosts
<1>3. AtHand'
    BY <1>1 DEF AtHand, Admitting, Removing
<1>4. SnapshotHolds'
    BY <1>0, <1>1 DEF Inv, SnapshotHolds
<1>5. Tallied'
    <2>1. deaths \in Nat
        BY DEF Inv, TypeOK
    <2>2. UNCHANGED <<member, tries>> /\ deaths' = deaths /\ eng.pc # "fail"
        BY <1>0 DEF Ghosts
    <2> QED  BY <2>1, <2>2, WalkMoves
<1> QED  BY <1>2, <1>3, <1>4, <1>5 DEF Inv

LEMMA DieInv == Inv /\ Die => Inv'
<1> SUFFICES ASSUME Inv, Die PROVE Inv'
    OBVIOUS
<1>0. /\ eng' = Rest /\ Rest \in Engine /\ Rest.pc = "idle" /\ Rest.kind = ""
      /\ deaths \in Nat /\ deaths' = deaths + 1 /\ moves' \in 0..MaxMoves
      /\ UNCHANGED <<World, member, tries>>
    BY RestType, CountedType DEF Die, Inv, TypeOK, Rest
<1>a. deaths \in Nat /\ deaths' = deaths + 1
    BY <1>0
<1>b. deaths' \in Nat /\ deaths' >= deaths
    BY <1>a
<1>1. deaths' \in Nat /\ deaths' >= deaths /\ eng' \in Engine
    BY <1>0, <1>b
<1>2. TypeOK'
    <2>1. /\ policy' = policy /\ session' = session /\ open' = open /\ quiet' = quiet
          /\ member' = member /\ tries' = tries
        BY <1>0 DEF World
    <2> QED  BY <1>0, <1>1, <2>1 DEF Inv, TypeOK
<1>3. AtHand' /\ SnapshotHolds'
    BY <1>0 DEF AtHand, SnapshotHolds, Admitting, Removing
<1>5. Tallied'
    BY <1>0, <1>1, WalkMoves
<1> QED  BY <1>2, <1>3, <1>5 DEF Inv

LEMMA TakeInv ==                         \* the engine takes a member or skips it
    ASSUME Inv, NEW q \in Resources, eng.pc = "walk", UNCHANGED <<World, member, Ghosts, moves>>,
           \/ Skip(q)
           \/ /\ Take(q, "owner") /\ eng.phase # "admit"
              /\ eng.phase = "destroy" => eng.snap[q].tomb
           \/ /\ Take(q, "up") /\ eng.phase = "admit" /\ q \in eng.todo
              /\ ~eng.snap[q].suspended /\ ~eng.snap[q].tomb
    PROVE  Inv'
<1>0. /\ eng' \in Engine /\ eng'.phase = eng.phase /\ eng'.snap = eng.snap
      /\ eng'.todo \subseteq eng.todo /\ eng'.kind = eng.kind
      /\ eng'.pc \in {"walk", "owner", "up"}
      /\ eng'.pc = "owner" => /\ eng'.phase # "admit"
                              /\ eng'.phase = "destroy" => eng'.snap[eng'.r].tomb
      /\ eng'.pc = "up" => /\ eng'.phase = "admit" /\ eng'.r \in eng.todo
                           /\ ~eng'.snap[eng'.r].suspended /\ ~eng'.snap[eng'.r].tomb
    <2>0. TypeOK /\ "owner" \in Places /\ "up" \in Places
        BY DEF Inv, Places
    <2>1. CASE Skip(q)
        BY <2>0, <2>1, SkipFacts
    <2>2. CASE Take(q, "owner") /\ eng.phase # "admit"
                  /\ (eng.phase = "destroy" => eng.snap[q].tomb)
        BY <2>0, <2>2, TakeFacts
    <2>3. CASE Take(q, "up") /\ eng.phase = "admit" /\ q \in eng.todo
                  /\ ~eng.snap[q].suspended /\ ~eng.snap[q].tomb
        BY <2>0, <2>3, TakeFacts
    <2> QED  BY <2>1, <2>2, <2>3
<1>1. TypeOK'
    BY <1>0 DEF Inv, TypeOK, World, Ghosts
<1>2. eng.kind \in {"", "sleeping"}
    BY DEF Inv, AtHand
<1>3. SnapshotHolds'
    BY <1>0 DEF Inv, SnapshotHolds
<1>4. AtHand'
    <2>1. CASE eng'.pc = "up"
        <3>1. eng'.r \in Resources
            BY <1>0 DEF Engine
        <3>2. ~member[eng'.r].suspended /\ ~member[eng'.r].tomb
            BY <1>0, <2>1, <3>1 DEF Inv, SnapshotHolds
        <3> QED  BY <1>0, <1>2, <2>1, <3>2 DEF AtHand, Admitting, Removing
    <2>2. CASE eng'.pc = "owner"
        BY <1>0, <1>2, <2>2 DEF AtHand, Admitting, Removing
    <2>3. CASE eng'.pc = "walk"
        BY <1>0, <1>2, <2>3 DEF AtHand, Admitting, Removing
    <2> QED  BY <1>0, <2>1, <2>2, <2>3
<1>5. Tallied'
    <2>1. deaths \in Nat
        BY DEF Inv, TypeOK
    <2>2. UNCHANGED <<member, tries>> /\ deaths' = deaths /\ eng.pc # "fail"
        BY DEF Ghosts
    <2> QED  BY <2>1, <2>2, WalkMoves
<1> QED  BY <1>1, <1>3, <1>4, <1>5 DEF Inv

LEMMA DecideDestroyInv ==
    ASSUME Inv, NEW r \in Resources, DecideDestroy(r)
    PROVE  Inv'
<1>1. eng.pc = "walk" /\ eng.phase # "admit" /\ UNCHANGED <<World, member, Ghosts, moves>>
    BY DEF DecideDestroy, First, At
<1>2. \/ Skip(r)
      \/ /\ Take(r, "owner")
         /\ eng.phase = "destroy" => eng.snap[r].tomb
    BY DEF DecideDestroy, Doomed
<1> QED  BY <1>1, <1>2, TakeInv

(* One member changes and the engine is done with it or goes on: what the    *)
(* new member must satisfy.                                                  *)
LEMMA DoneInv ==
    ASSUME Inv, Done, UNCHANGED <<policy, quiet, deaths>>,
           eng.pc \in Admitting \cup Removing,
           session' \in [Resources -> Session], open' \in [Resources -> BOOLEAN],
           moves' \in 0..MaxMoves, NEW x \in Member,
           member' = [member EXCEPT ![eng.r] = x],
           tries' \in [Resources -> Nat],
           \A q \in Resources \ {eng.r} : tries'[q] = tries[q],
           tries'[eng.r] <= x.fails + deaths,
           x.fails = Limit => x.suspended,
           eng.phase # "admit" => (x.suspended => member[eng.r].suspended),
           eng.phase # "expire" /\ x.tomb => member[eng.r].tomb \/ eng.snap[eng.r].tomb
    PROVE  Inv'
<1>0. /\ TypeOK /\ eng.r \in Resources /\ member \in [Resources -> Member]
    BY DEF Inv, TypeOK, Engine
<1>1. /\ eng' \in Engine /\ eng'.pc = "walk" /\ eng'.phase = eng.phase
      /\ eng'.snap = eng.snap /\ eng'.todo = eng.todo \ {eng.r} /\ eng'.r = eng.r
      /\ eng'.kind = ""
    BY <1>0, DoneFacts
<1>2. /\ member' \in [Resources -> Member] /\ member'[eng.r] = x
      /\ \A q \in Resources \ {eng.r} : member'[q] = member[q]
    BY <1>0, Put
<1>3. TypeOK'
    BY <1>1, <1>2 DEF Inv, TypeOK
<1>4. AtHand'
    BY <1>1 DEF AtHand, Admitting, Removing
<1>5. SnapshotHolds'
    <2> SUFFICES ASSUME NEW q \in Resources
                 PROVE  /\ eng.phase # "admit" \/ q \in eng'.todo =>
                              (member'[q].suspended => eng.snap[q].suspended)
                        /\ eng.phase # "expire" => (member'[q].tomb => eng.snap[q].tomb)
        BY <1>1 DEF SnapshotHolds
    <2>1. /\ eng.phase # "admit" \/ q \in eng.todo =>
                 (member[q].suspended => eng.snap[q].suspended)
          /\ eng.phase # "expire" => (member[q].tomb => eng.snap[q].tomb)
        BY DEF Inv, SnapshotHolds, Admitting, Removing
    <2>2. CASE q = eng.r
        BY <1>1, <1>2, <2>1, <2>2
    <2>3. CASE q # eng.r
        BY <1>1, <1>2, <2>1, <2>3
    <2> QED  BY <2>2, <2>3
<1>6. Tallied'
    <2> SUFFICES ASSUME NEW q \in Resources
                 PROVE  /\ member'[q].fails = Limit => member'[q].suspended
                        /\ tries'[q] <= member'[q].fails + deaths' + Pending(q)'
        BY DEF Tallied
    <2>1. Pending(q)' = 0
        BY <1>1 DEF Pending
    <2>2. CASE q = eng.r
        <3>a. x.fails \in 0..Limit
            BY DEF Member
        <3>b. deaths \in Nat
            BY <1>0 DEF TypeOK
        <3>1. x.fails \in Nat /\ deaths \in Nat /\ tries'[eng.r] \in Nat
            BY <1>0, <3>a, <3>b
        <3>2. tries'[q] <= x.fails + deaths' + 0
            BY <2>2, <3>1
        <3> QED  BY <1>2, <2>1, <2>2, <3>2
    <2>3. CASE q # eng.r
        <3>1. Pending(q) = 0
            BY <2>3 DEF Pending
        <3>2. tries[q] <= member[q].fails + deaths + 0
            BY <1>0, <3>1, OnePending DEF Inv
        <3> QED  BY <1>2, <2>1, <2>3, <3>2, TalliedAt DEF Inv
    <2> QED  BY <2>2, <2>3
<1> QED  BY <1>3, <1>4, <1>5, <1>6 DEF Inv

LEMMA MemberAt ==
    ASSUME Inv
    PROVE  /\ TypeOK /\ eng \in Engine /\ eng.r \in Resources /\ member[eng.r] \in Member
           /\ session \in [Resources -> Session] /\ open \in [Resources -> BOOLEAN]
           /\ quiet \in [Resources -> BOOLEAN]
           /\ tries \in [Resources -> Nat] /\ moves \in 0..MaxMoves /\ deaths \in Nat
           /\ member[eng.r].fails = Limit => member[eng.r].suspended
           /\ eng.pc # "fail" => tries[eng.r] <= member[eng.r].fails + deaths
<1>1. TypeOK
    BY DEF Inv
<1>2. eng.r \in Resources /\ eng \in Engine
    BY <1>1 DEF TypeOK, Engine
<1>3. /\ member[eng.r] \in Member /\ session \in [Resources -> Session]
      /\ open \in [Resources -> BOOLEAN] /\ quiet \in [Resources -> BOOLEAN]
      /\ tries \in [Resources -> Nat] /\ moves \in 0..MaxMoves /\ deaths \in Nat
    BY <1>1, <1>2 DEF TypeOK
<1>4. eng.pc # "fail" => tries[eng.r] <= member[eng.r].fails + deaths
    <2> SUFFICES ASSUME eng.pc # "fail" PROVE tries[eng.r] <= member[eng.r].fails + deaths
        OBVIOUS
    <2>1. Pending(eng.r) = 0
        BY DEF Pending
    <2>2. tries[eng.r] <= member[eng.r].fails + deaths + 0
        BY <1>2, <2>1, OnePending DEF Inv
    <2>3. member[eng.r].fails \in Nat
        BY <1>1, <1>2, NumberTypes
    <2>4. tries[eng.r] \in Nat
        BY <1>2, <1>3
    <2> QED  BY <1>3, <2>2, <2>3, <2>4
<1> QED  BY <1>1, <1>2, <1>3, <1>4, TalliedAt DEF Inv

LEMMA MovesType ==
    ASSUME Inv, Counted \/ moves' = moves
    PROVE  moves' \in 0..MaxMoves
BY CountedType DEF Inv, TypeOK

(* A removal moves on to its next step.                                      *)
LEMMA RemovalMoves ==
    ASSUME Inv, NEW x \in {"remove", "removed"}, Go(x), eng.pc \in {"owner", "remove"},
           UNCHANGED <<policy, member, quiet, Ghosts>>,
           session' \in [Resources -> Session], open' \in [Resources -> BOOLEAN],
           moves' \in 0..MaxMoves
    PROVE  Inv'
<1>0. TypeOK /\ x \in Places
    BY DEF Inv, Places
<1>1. /\ eng' \in Engine /\ eng'.pc = x /\ eng'.phase = eng.phase
      /\ eng'.snap = eng.snap /\ eng'.todo = eng.todo /\ eng'.r = eng.r
      /\ eng'.kind = eng.kind
    BY <1>0, GoFacts
<1>2. TypeOK'
    BY <1>1 DEF Inv, TypeOK, Ghosts
<1>3. AtHand'
    BY <1>1 DEF Inv, AtHand, Admitting, Removing
<1>4. SnapshotHolds'
    BY <1>1 DEF Inv, SnapshotHolds
<1>5. Tallied'
    <2>1. deaths \in Nat
        BY DEF Inv, TypeOK
    <2>2. UNCHANGED <<member, tries>> /\ deaths' = deaths /\ eng.pc # "fail"
        BY DEF Ghosts
    <2> QED  BY <2>1, <2>2, WalkMoves
<1> QED  BY <1>2, <1>3, <1>4, <1>5 DEF Inv

LEMMA SameMember ==                      \* done with a member that is as it was
    ASSUME Inv, Done, UNCHANGED <<policy, member, quiet, Ghosts>>,
           eng.pc \in (Admitting \cup Removing) \ {"fail"},
           session' \in [Resources -> Session], open' \in [Resources -> BOOLEAN],
           moves' \in 0..MaxMoves
    PROVE  Inv'
<1> DEFINE x == member[eng.r]
<1>1. /\ x \in Member /\ tries \in [Resources -> Nat]
      /\ x.fails = Limit => x.suspended
      /\ tries[eng.r] <= x.fails + deaths
    BY MemberAt
<1>2. member' = [member EXCEPT ![eng.r] = x]
    BY DEF Inv, TypeOK
<1>3. UNCHANGED <<policy, quiet, deaths>> /\ tries' = tries
    BY DEF Ghosts
<1> HIDE DEF x
<1>4. eng.phase # "admit" => (x.suspended => member[eng.r].suspended)
    BY DEF x
<1>5. eng.phase # "expire" /\ x.tomb => member[eng.r].tomb \/ eng.snap[eng.r].tomb
    BY DEF x
<1> QED  BY <1>1, <1>2, <1>3, <1>4, <1>5, DoneInv

LEMMA RelabelInv ==                      \* done with a member whose why alone changes
    ASSUME Inv, Done, UNCHANGED <<World, Ghosts, moves>>,
           eng.pc \in (Admitting \cup Removing) \ {"fail"},
           NEW w \in {"", "capacity", "other"},
           member' = [member EXCEPT ![eng.r] = [@ EXCEPT !.why = w]]
    PROVE  Inv'
<1> DEFINE x == [member[eng.r] EXCEPT !.why = w]
<1>0. /\ member[eng.r] \in Member /\ tries \in [Resources -> Nat]
      /\ member[eng.r].fails = Limit => member[eng.r].suspended
      /\ tries[eng.r] <= member[eng.r].fails + deaths
      /\ session \in [Resources -> Session] /\ open \in [Resources -> BOOLEAN]
      /\ moves \in 0..MaxMoves
    BY MemberAt
<1>1. /\ x \in Member /\ x.fails = member[eng.r].fails /\ x.known = member[eng.r].known
      /\ x.suspended = member[eng.r].suspended /\ x.tomb = member[eng.r].tomb
    <2>1. member[eng.r] \in Member
        BY <1>0
    <2> QED  BY <2>1, SetWhy
<1>2. member' = [member EXCEPT ![eng.r] = x]
    BY DEF Inv, TypeOK
<1>3. /\ UNCHANGED <<policy, quiet, deaths>> /\ tries' = tries
      /\ session' = session /\ open' = open /\ moves' = moves
    BY DEF Ghosts, World
<1> HIDE DEF x
<1>4. /\ x.fails = Limit => x.suspended
      /\ tries'[eng.r] <= x.fails + deaths
      /\ eng.phase # "admit" => (x.suspended => member[eng.r].suspended)
      /\ eng.phase # "expire" /\ x.tomb => member[eng.r].tomb \/ eng.snap[eng.r].tomb
    BY <1>0, <1>1, <1>3
<1> QED  BY <1>0, <1>1, <1>2, <1>3, <1>4, DoneInv

LEMMA CheckOwnerInv == Inv /\ CheckOwner => Inv'
<1> SUFFICES ASSUME Inv, CheckOwner PROVE Inv'
    OBVIOUS
<1>0. eng.pc = "owner" /\ UNCHANGED <<World, Ghosts, moves>>
    BY DEF CheckOwner, At
<1>1. CASE Go("remove") /\ UNCHANGED member
    <2>1. /\ session' \in [Resources -> Session] /\ open' \in [Resources -> BOOLEAN]
          /\ moves' \in 0..MaxMoves /\ UNCHANGED <<policy, member, quiet, Ghosts>>
        BY <1>0, <1>1, MemberAt DEF World
    <2> QED  BY <1>0, <1>1, <2>1, RemovalMoves
<1>2. CASE Done /\ member' = [member EXCEPT ![eng.r] = [@ EXCEPT !.why = "other"]]
    <2>1. eng.pc \in (Admitting \cup Removing) \ {"fail"}
        BY <1>0 DEF Removing
    <2> QED  BY <1>0, <1>2, <2>1, RelabelInv
<1> QED  BY <1>1, <1>2 DEF CheckOwner

LEMMA RemoveInv == Inv /\ Remove => Inv'
<1> SUFFICES ASSUME Inv, Remove PROVE Inv'
    OBVIOUS
<1>0. eng.pc = "remove" /\ UNCHANGED <<policy, member, quiet, Ghosts>>
    BY DEF Remove, At
<1>1. eng.pc \in (Admitting \cup Removing) \ {"fail"}
    BY <1>0 DEF Removing
<1>2. /\ TypeOK /\ eng.r \in Resources /\ session \in [Resources -> Session]
      /\ open \in [Resources -> BOOLEAN]
    BY MemberAt
<1>3. CASE /\ session' = [session EXCEPT ![eng.r] = NoRow]
           /\ open' = [open EXCEPT ![eng.r] = FALSE]
           /\ Go("removed") /\ UNCHANGED moves
    <2>1. session' \in [Resources -> Session]
        BY <1>2, <1>3, SessionSteps
    <2>2. open' \in [Resources -> BOOLEAN]
        BY <1>2, <1>3
    <2>3. moves' \in 0..MaxMoves
        BY <1>3, MovesType
    <2> QED  BY <1>0, <1>3, <2>1, <2>2, <2>3, RemovalMoves
<1>4. CASE Done /\ UNCHANGED <<session, open>> /\ (Counted \/ moves' = moves)
    <2>1. session' \in [Resources -> Session] /\ open' \in [Resources -> BOOLEAN]
        BY <1>2, <1>4
    <2>2. moves' \in 0..MaxMoves
        BY <1>4, MovesType
    <2> QED  BY <1>0, <1>1, <1>4, <2>1, <2>2, SameMember
<1> QED  BY <1>3, <1>4 DEF Remove

LEMMA RecordRemovedInv == Inv /\ RecordRemoved => Inv'
<1> SUFFICES ASSUME Inv, RecordRemoved PROVE Inv'
    OBVIOUS
<1> DEFINE x == Removed(member[eng.r])
<1>a. eng.pc = "removed" /\ Done /\ UNCHANGED <<World, Ghosts, moves>>
    BY DEF RecordRemoved, At
<1>b. eng.pc \in Admitting \cup Removing /\ eng.pc \in Removing
    BY <1>a DEF Removing
<1>c. eng.phase # "admit" /\ (eng.phase = "destroy" => eng.snap[eng.r].tomb)
      /\ eng.phase \in Phases
    BY <1>b DEF Inv, AtHand, TypeOK, Engine
<1>0. /\ member[eng.r] \in Member /\ tries \in [Resources -> Nat]
      /\ member[eng.r].fails = Limit => member[eng.r].suspended
      /\ tries[eng.r] <= member[eng.r].fails + deaths
      /\ session \in [Resources -> Session] /\ open \in [Resources -> BOOLEAN]
      /\ moves \in 0..MaxMoves
    BY <1>a, MemberAt
<1>1. /\ x \in Member /\ x.fails = member[eng.r].fails /\ x.known = member[eng.r].known
      /\ x.suspended = member[eng.r].suspended
    BY <1>0, RemovedIs
<1>2. member' = [member EXCEPT ![eng.r] = x]
    BY DEF RecordRemoved
<1>3. /\ UNCHANGED <<policy, quiet, deaths>> /\ tries' = tries
      /\ session' = session /\ open' = open /\ moves' = moves
    BY <1>a DEF Ghosts, World
<1> HIDE DEF x
<1>4. /\ x.fails = Limit => x.suspended
      /\ tries'[eng.r] <= x.fails + deaths
      /\ eng.phase # "admit" => (x.suspended => member[eng.r].suspended)
    BY <1>0, <1>1, <1>3
<1>5. eng.phase # "expire" /\ x.tomb => member[eng.r].tomb \/ eng.snap[eng.r].tomb
    BY <1>c DEF Phases
<1> QED  BY <1>a, <1>b, <1>0, <1>1, <1>2, <1>3, <1>4, <1>5, DoneInv

LEMMA Successor == \A x \in Nat : x + 1 \in Nat
OBVIOUS

LEMMA AdmitInv ==
    ASSUME Inv, NEW r \in Resources, Admit(r)
    PROVE  Inv'
<1>0. /\ eng.pc = "walk" /\ eng.phase = "admit" /\ r \in eng.todo
      /\ UNCHANGED <<World, Ghosts, moves>>
    BY DEF Admit, First, At
<1>1. CASE Skip(r) /\ UNCHANGED member
    BY <1>0, <1>1, TakeInv
<1>2. CASE Take(r, "up") /\ UNCHANGED member /\ Admissible(r)
    <2>1. ~eng.snap[r].suspended /\ ~eng.snap[r].tomb
        BY <1>2 DEF Admissible
    <2> QED  BY <1>0, <1>2, <2>1, TakeInv
<1>3. CASE Skip(r) /\ member' = [member EXCEPT ![r] = [@ EXCEPT !.later = TRUE]]
    <2>0. TypeOK /\ member[r] \in Member /\ TRUE \in BOOLEAN
        BY DEF Inv, TypeOK
    <2> DEFINE x == [member[r] EXCEPT !.later = TRUE]
    <2>1. /\ x \in Member /\ x.known = member[r].known /\ x.tomb = member[r].tomb
          /\ x.fails = member[r].fails /\ x.suspended = member[r].suspended
        BY <2>0, SetLater
    <2>2. member' = [member EXCEPT ![r] = x]
        BY <1>3, <2>0 DEF TypeOK
    <2> HIDE DEF x
    <2>3. /\ member' \in [Resources -> Member]
          /\ \A q \in Resources : /\ member'[q].fails = member[q].fails
                                  /\ member'[q].suspended = member[q].suspended
                                  /\ member'[q].known = member[q].known
                                  /\ member'[q].tomb = member[q].tomb
        BY <2>0, <2>1, <2>2, Put
    <2>4. /\ eng' \in Engine /\ eng'.pc = eng.pc /\ eng'.phase = eng.phase
          /\ eng'.snap = eng.snap /\ eng'.todo = eng.todo \ {r} /\ eng'.r = eng.r
          /\ eng'.kind = eng.kind
        BY <1>3, <2>0, SkipFacts
    <2>5. TypeOK'
        BY <1>0, <2>3, <2>4 DEF Inv, TypeOK, World, Ghosts
    <2>6. AtHand'
        BY <1>0, <2>4 DEF Inv, AtHand, Admitting, Removing
    <2>7. SnapshotHolds'
        BY <1>0, <2>3, <2>4 DEF Inv, SnapshotHolds
    <2>8. Tallied'
        <3> SUFFICES ASSUME NEW q \in Resources
                     PROVE  /\ member'[q].fails = Limit => member'[q].suspended
                            /\ tries'[q] <= member'[q].fails + deaths' + Pending(q)'
            BY DEF Tallied
        <3>1. Pending(q)' = Pending(q) /\ tries' = tries /\ deaths' = deaths
            BY <1>0, <2>4 DEF Pending, Ghosts
        <3>2. /\ tries[q] <= member[q].fails + deaths + Pending(q)
              /\ member[q].fails = Limit => member[q].suspended
            BY TalliedAt DEF Inv
        <3> QED  BY <2>3, <3>1, <3>2
    <2> QED  BY <2>5, <2>6, <2>7, <2>8 DEF Inv
<1> QED  BY <1>1, <1>2, <1>3 DEF Admit

-------------------------------------------------------------------------------
(* One step inside an admission.                                             *)
LEMMA AdmissionInv ==
    ASSUME Inv, UNCHANGED <<policy, member, deaths>>, eng' \in Engine,
           session' \in [Resources -> Session], open' \in [Resources -> BOOLEAN],
           quiet' \in [Resources -> BOOLEAN], moves' \in 0..MaxMoves,
           eng.pc \in Admitting \ {"fail"}, eng'.pc \in Admitting,
           eng'.phase = eng.phase, eng'.snap = eng.snap, eng'.todo = eng.todo,
           eng'.r = eng.r, eng'.pc # "fail" => eng'.kind \in {"", "sleeping"},
           eng'.pc = "fail" => eng'.kind \notin {"", "sleeping"},
           CountTry \/ tries' = tries
    PROVE  Inv'
<1>1. tries' = tries \/ eng'.pc = "fail"
    <2>1. CASE CountTry /\ eng'.pc # "fail"
        <3>1. eng'.kind \notin Counting
            BY <2>1 DEF Counting
        <3>2. tries' = [tries EXCEPT ![eng.r] = tries[eng.r]]
            BY <2>1, <3>1, MemberAt DEF CountTry, Counting
        <3> QED  BY <3>2, MemberAt
    <2> QED  BY <2>1
<1>2. AtHand' /\ SnapshotHolds' /\ Tallied'
    BY <1>1, AdmissionMoves
<1>3. tries' \in [Resources -> Nat]
    <2>1. CASE CountTry
        <3>1. \A q \in Resources : tries'[q] \in Nat
            <4> SUFFICES ASSUME NEW q \in Resources PROVE tries'[q] \in Nat
                OBVIOUS
            <4>a. tries[q] \in Nat
                BY MemberAt
            <4>1. tries[q] \in Nat /\ tries[q] + 1 \in Nat
                BY <4>a, Successor
            <4>2. tries'[q] = IF q = eng.r /\ eng'.kind \in Counting THEN tries[q] + 1 ELSE tries[q]
                BY <2>1, MemberAt, CountTryIs
            <4> QED  BY <4>1, <4>2
        <3>2. tries' = [q \in Resources |-> tries'[q]]
            BY <2>1, MemberAt DEF CountTry
        <3> QED  BY <3>1, <3>2
    <2>2. CASE tries' = tries
        BY <2>2, MemberAt
    <2> QED  BY <2>1, <2>2
<1>4. TypeOK'
    BY <1>3 DEF Inv, TypeOK
<1> QED  BY <1>2, <1>4 DEF Inv

LEMMA StartedType ==
    ASSUME TypeOK, NEW s \in Session
    PROVE  Started(s) \in Session
<1> DEFINE a == [s EXCEPT !.st = IF s.st = "up" \/ Room THEN "up" ELSE "queued"]
<1>1. (IF s.st = "up" \/ Room THEN "up" ELSE "queued") \in States
    BY DEF States
<1>2. a \in Session
    BY <1>1, SessionUpdates
<1>3. a.own = s.own
    BY DEF Session
<1>4. Started(s) = [a EXCEPT !.own = s.own \/ s.st = "none"]
    BY DEF Started, Session
<1>5. (s.own \/ s.st = "none") \in BOOLEAN
    OBVIOUS
<1> HIDE DEF a
<1> QED  BY <1>2, <1>4, <1>5, SessionUpdates

LEMMA UpMoves ==
    ASSUME Inv, NEW asleep \in {"ahead", "evict"}, UpPopulation(asleep), CountTry,
           eng.pc \in {"up", "again"}, UNCHANGED <<policy, member, open, quiet, deaths>>
    PROVE  Inv'
<1>0. /\ TypeOK /\ eng.r \in Resources /\ session \in [Resources -> Session]
      /\ open \in [Resources -> BOOLEAN] /\ quiet \in [Resources -> BOOLEAN]
      /\ session[eng.r] \in Session
      /\ eng.kind \in {"", "sleeping"}
    BY MemberAt DEF Inv, AtHand
<1>1. /\ session' \in [Resources -> Session]
      /\ moves' \in 0..MaxMoves
      /\ \/ Go(asleep) \/ Go("store")
         \/ \E k \in {"foreign", "error", "busy", "permanent"} : Failed(k)
    <2>1. CASE /\ session' = [session EXCEPT ![eng.r] = Started(@)]
               /\ Go(IF session'[eng.r].st = "queued" THEN asleep ELSE "store")
               /\ UNCHANGED moves
        <3>1. Started(session[eng.r]) \in Session
            BY <1>0, StartedType
        <3>2. session' = [session EXCEPT ![eng.r] = Started(session[eng.r])]
            BY <1>0, <2>1
        <3>3. session' \in [Resources -> Session]
            BY <1>0, <3>1, <3>2, PutSession
        <3>4. Go(asleep) \/ Go("store")
            BY <2>1
        <3> QED  BY <2>1, <3>3, <3>4, MovesType
    <2>2. CASE Failed("foreign") /\ UNCHANGED <<session, moves>>
        BY <1>0, <2>2, MovesType
    <2>3. CASE /\ Counted
               /\ \E k \in {"error", "busy", "permanent"} : Failed(k)
               /\ \/ UNCHANGED session
                  \/ session' = [session EXCEPT ![eng.r].st = "failed", ![eng.r].own = TRUE]
        <3>1. session' \in [Resources -> Session]
            <4>1. CASE UNCHANGED session
                BY <1>0, <4>1
            <4>2. CASE session' = [session EXCEPT ![eng.r].st = "failed", ![eng.r].own = TRUE]
                <5> DEFINE a == [session[eng.r] EXCEPT !.st = "failed"]
                           b == [a EXCEPT !.own = TRUE]
                <5>1. "failed" \in States /\ TRUE \in BOOLEAN
                    BY DEF States
                <5>2. a \in Session
                    BY <1>0, <5>1, SessionUpdates
                <5>3. session' = [session EXCEPT ![eng.r] = b]
                    BY <1>0, <4>2
                <5> HIDE DEF a
                <5>4. b \in Session
                    BY <5>1, <5>2, SessionUpdates
                <5> HIDE DEF b
                <5> QED  BY <1>0, <5>3, <5>4, PutSession
            <4> QED  BY <2>3, <4>1, <4>2
        <3> QED  BY <2>3, <3>1, MovesType
    <2> QED  BY <2>1, <2>2, <2>3 DEF UpPopulation
<1>2. /\ eng' \in Engine /\ eng'.pc \in Admitting
      /\ eng'.phase = eng.phase /\ eng'.snap = eng.snap /\ eng'.todo = eng.todo
      /\ eng'.r = eng.r /\ (eng'.pc # "fail" => eng'.kind \in {"", "sleeping"})
      /\ eng'.pc = "fail" => eng'.kind \notin {"", "sleeping"}
    <2>0. /\ asleep \in Places /\ "store" \in Places /\ asleep \in Admitting \ {"fail"}
          /\ "store" \in Admitting \ {"fail"} /\ "fail" \in Admitting
          /\ {"foreign", "error", "busy", "permanent"} \subseteq Kinds
        BY DEF Places, Admitting, Kinds
    <2>1. CASE Go(asleep)
        BY <1>0, <2>0, <2>1, GoFacts
    <2>2. CASE Go("store")
        BY <1>0, <2>0, <2>2, GoFacts
    <2>3. CASE \E k \in {"foreign", "error", "busy", "permanent"} : Failed(k)
        <3>1. PICK k \in {"foreign", "error", "busy", "permanent"} : Failed(k)
            BY <2>3
        <3>2. k \in Kinds /\ k \notin {"", "sleeping"}
            BY <2>0
        <3> QED  BY <1>0, <2>0, <3>1, <3>2, FailedFacts
    <2> QED  BY <1>1, <2>1, <2>2, <2>3
<1>3. eng.pc \in Admitting \ {"fail"}
    BY DEF Admitting
<1> QED  BY <1>0, <1>1, <1>2, <1>3, AdmissionInv

LEMMA TryUpInv == Inv /\ TryUp => Inv'
<1> SUFFICES ASSUME Inv, TryUp PROVE Inv'
    OBVIOUS
<1>1. /\ eng.pc \in {"up", "again"} /\ UpPopulation("ahead") /\ CountTry
      /\ UNCHANGED <<policy, member, open, quiet, deaths>>
    BY DEF TryUp, At
<1>2. "ahead" \in {"ahead", "evict"}
    OBVIOUS
<1> QED  BY <1>1, <1>2, UpMoves

LEMMA TryAgainInv == Inv /\ TryAgain => Inv'
<1> SUFFICES ASSUME Inv, TryAgain PROVE Inv'
    OBVIOUS
<1>1. /\ eng.pc \in {"up", "again"} /\ UpPopulation("evict") /\ CountTry
      /\ UNCHANGED <<policy, member, open, quiet, deaths>>
    BY DEF TryAgain, At
<1>2. "evict" \in {"ahead", "evict"}
    OBVIOUS
<1> QED  BY <1>1, <1>2, UpMoves

LEMMA CheckAheadInv == Inv /\ CheckAhead => Inv'
<1> SUFFICES ASSUME Inv, CheckAhead PROVE Inv'
    OBVIOUS
<1>0. /\ eng.pc = "ahead" /\ UNCHANGED <<World, member, Ghosts, moves>>
      /\ TypeOK /\ eng \in Engine /\ eng.kind \in {"", "sleeping"}
    BY MemberAt DEF CheckAhead, At, Inv, AtHand
<1>1. /\ eng' \in Engine /\ eng'.pc \in Admitting
      /\ eng'.phase = eng.phase /\ eng'.snap = eng.snap /\ eng'.todo = eng.todo
      /\ eng'.r = eng.r /\ (eng'.pc # "fail" => eng'.kind \in {"", "sleeping"})
      /\ eng'.pc = "fail" => eng'.kind \notin {"", "sleeping"}
    <2>1. CASE Failed("capacity")
        <3>1. "capacity" \in Kinds /\ "capacity" \notin {"", "sleeping"} /\ "fail" \in Admitting
            BY DEF Kinds, Admitting
        <3> QED  BY <1>0, <2>1, <3>1, FailedFacts
    <2>2. CASE eng' = [eng EXCEPT !.pc = "evict", !.cands = IdleCandidates]
        <3>1. "evict" \in Places /\ "evict" \in Admitting /\ IdleCandidates \in SUBSET Resources
            BY DEF Places, Admitting, IdleCandidates
        <3>2. /\ eng.snap \in [Resources -> Member] /\ eng.r \in Resources
              /\ eng.todo \in SUBSET Resources /\ eng.kind \in Kinds /\ eng.phase \in Phases
            BY <1>0 DEF Engine
        <3>3. eng' = [pc |-> "evict", phase |-> eng.phase, snap |-> eng.snap, todo |-> eng.todo,
                      r |-> eng.r, cands |-> IdleCandidates, kind |-> eng.kind]
            BY <1>0, <2>2, <3>1, EngIs
        <3>4. [pc |-> "evict", phase |-> eng.phase, snap |-> eng.snap, todo |-> eng.todo,
               r |-> eng.r, cands |-> IdleCandidates, kind |-> eng.kind] \in Engine
            BY <3>1, <3>2, EngineType
        <3> QED  BY <1>0, <3>1, <3>3, <3>4
    <2> QED  BY <2>1, <2>2 DEF CheckAhead
<1>2. /\ session' \in [Resources -> Session] /\ open' \in [Resources -> BOOLEAN]
      /\ quiet' \in [Resources -> BOOLEAN] /\ moves' \in 0..MaxMoves
      /\ UNCHANGED <<policy, member, deaths>> /\ tries' = tries
    BY <1>0, MemberAt DEF World, Ghosts
<1>3. eng.pc \in Admitting \ {"fail"}
    BY <1>0 DEF Admitting
<1> QED  BY <1>1, <1>2, <1>3, AdmissionInv

LEMMA EvictInv ==
    ASSUME Inv, NEW c \in Resources, Evict(c)
    PROVE  Inv'
<1>0. /\ eng.pc = "evict" /\ eng \in Engine /\ eng.kind \in {"", "sleeping"}
      /\ TypeOK /\ UNCHANGED <<policy, member, open, quiet, Ghosts, moves>>
    BY MemberAt DEF Evict, At, Inv, AtHand
<1>1. /\ eng' \in Engine /\ eng'.pc = "again"
      /\ eng'.phase = eng.phase /\ eng'.snap = eng.snap /\ eng'.todo = eng.todo
      /\ eng'.r = eng.r /\ eng'.kind = eng.kind
    <2> DEFINE s == eng.cands \ {c}
    <2>1. "again" \in Places /\ s \in SUBSET Resources
        BY <1>0 DEF Places, Engine
    <2>2. /\ eng.snap \in [Resources -> Member] /\ eng.r \in Resources
          /\ eng.todo \in SUBSET Resources /\ eng.kind \in Kinds /\ eng.phase \in Phases
        BY <1>0 DEF Engine
    <2>3. eng' = [eng EXCEPT !.pc = "again", !.cands = s]
        BY <1>0 DEF Evict, Engine
    <2> HIDE DEF s
    <2>4. eng' = [pc |-> "again", phase |-> eng.phase, snap |-> eng.snap, todo |-> eng.todo,
                  r |-> eng.r, cands |-> s, kind |-> eng.kind]
        BY <1>0, <2>1, <2>3, EngIs
    <2>5. [pc |-> "again", phase |-> eng.phase, snap |-> eng.snap, todo |-> eng.todo,
           r |-> eng.r, cands |-> s, kind |-> eng.kind] \in Engine
        BY <2>1, <2>2, EngineType
    <2> QED  BY <2>4, <2>5
<1>2. session' \in [Resources -> Session]
    <2>1. "dozing" \in States /\ session \in [Resources -> Session]
        BY MemberAt DEF States
    <2>2. CASE session' = [session EXCEPT ![c].st = "dozing"]
        BY <1>0, <2>1, <2>2, SessionSteps
    <2>3. CASE session' = session
        BY <2>1, <2>3
    <2> QED  BY <2>2, <2>3 DEF Evict
<1>3. /\ open' \in [Resources -> BOOLEAN] /\ quiet' \in [Resources -> BOOLEAN]
      /\ moves' \in 0..MaxMoves /\ UNCHANGED <<policy, member, deaths>> /\ tries' = tries
    BY <1>0, MemberAt DEF Ghosts
<1>4. eng.pc \in Admitting \ {"fail"} /\ eng'.pc \in Admitting /\ eng'.pc # "fail"
    BY <1>0, <1>1 DEF Admitting
<1> QED  BY <1>0, <1>1, <1>2, <1>3, <1>4, AdmissionInv

LEMMA NoCandidateInv == Inv /\ NoCandidate => Inv'
<1> SUFFICES ASSUME Inv, NoCandidate PROVE Inv'
    OBVIOUS
<1>0. /\ eng.pc = "evict" /\ eng \in Engine /\ TypeOK
      /\ UNCHANGED <<World, member, Ghosts, moves>>
    BY MemberAt DEF NoCandidate, At
<1>1. /\ eng' \in Engine /\ eng'.pc = "store"
      /\ eng'.phase = eng.phase /\ eng'.snap = eng.snap /\ eng'.todo = eng.todo
      /\ eng'.r = eng.r /\ eng'.kind = "sleeping"
    <2>1. "store" \in Places /\ "sleeping" \in Kinds
        BY DEF Places, Kinds
    <2>2. /\ eng.snap \in [Resources -> Member] /\ eng.r \in Resources
          /\ eng.todo \in SUBSET Resources /\ eng.cands \in SUBSET Resources
          /\ eng.phase \in Phases
        BY <1>0 DEF Engine
    <2>3. eng' = [eng EXCEPT !.pc = "store", !.kind = "sleeping"]
        BY DEF NoCandidate
    <2>4. eng' = [pc |-> "store", phase |-> eng.phase, snap |-> eng.snap, todo |-> eng.todo,
                  r |-> eng.r, cands |-> eng.cands, kind |-> "sleeping"]
        BY <1>0, <2>1, <2>3, EngIs
    <2>5. [pc |-> "store", phase |-> eng.phase, snap |-> eng.snap, todo |-> eng.todo,
           r |-> eng.r, cands |-> eng.cands, kind |-> "sleeping"] \in Engine
        BY <2>1, <2>2, EngineType
    <2> QED  BY <2>4, <2>5
<1>2. /\ session' \in [Resources -> Session] /\ open' \in [Resources -> BOOLEAN]
      /\ quiet' \in [Resources -> BOOLEAN] /\ moves' \in 0..MaxMoves
      /\ UNCHANGED <<policy, member, deaths>> /\ tries' = tries
    BY <1>0, MemberAt DEF World, Ghosts
<1>4. /\ eng.pc \in Admitting \ {"fail"} /\ eng'.pc \in Admitting /\ eng'.pc # "fail"
      /\ eng'.kind \in {"", "sleeping"}
    BY <1>0, <1>1 DEF Admitting
<1> QED  BY <1>1, <1>2, <1>4, AdmissionInv

LEMMA EnsureInitialInv == Inv /\ EnsureInitial => Inv'
<1> SUFFICES ASSUME Inv, EnsureInitial PROVE Inv'
    OBVIOUS
<1>0. /\ eng.pc = "initial" /\ TypeOK /\ eng.r \in Resources
      /\ session \in [Resources -> Session] /\ eng.kind \in {"", "sleeping"}
      /\ CountTry /\ UNCHANGED <<policy, member, open, quiet, deaths>>
    BY MemberAt DEF EnsureInitial, At, Inv, AtHand
<1>1. /\ session' \in [Resources -> Session]
      /\ Counted \/ moves' = moves
      /\ Go("clear") \/ Failed("error") \/ Failed("permanent")
    <2>1. CASE UNCHANGED session
        BY <1>0, <2>1 DEF EnsureInitial
    <2>2. CASE /\ session' = [session EXCEPT ![eng.r].init = "produced"]
               /\ Go("clear") /\ UNCHANGED moves
        BY <1>0, <2>2, SessionSteps
    <2>3. CASE /\ session' = [session EXCEPT ![eng.r].init = "failed"]
               /\ Failed("error") /\ Counted
        BY <1>0, <2>3, SessionSteps
    <2> QED  BY <2>1, <2>2, <2>3 DEF EnsureInitial
<1>2. /\ eng' \in Engine /\ eng'.pc \in Admitting
      /\ eng'.phase = eng.phase /\ eng'.snap = eng.snap /\ eng'.todo = eng.todo
      /\ eng'.r = eng.r /\ (eng'.pc # "fail" => eng'.kind \in {"", "sleeping"})
      /\ eng'.pc = "fail" => eng'.kind \notin {"", "sleeping"}
    <2>0. /\ "clear" \in Places /\ "clear" \in Admitting \ {"fail"} /\ "fail" \in Admitting
          /\ "error" \in Kinds \ {"", "sleeping"} /\ "permanent" \in Kinds \ {"", "sleeping"}
        BY DEF Places, Admitting, Kinds
    <2>1. CASE Go("clear")
        BY <1>0, <2>0, <2>1, GoFacts
    <2>2. CASE Failed("error")
        BY <1>0, <2>0, <2>2, FailedFacts
    <2>3. CASE Failed("permanent")
        BY <1>0, <2>0, <2>3, FailedFacts
    <2> QED  BY <1>1, <2>1, <2>2, <2>3
<1>3. /\ open' \in [Resources -> BOOLEAN] /\ quiet' \in [Resources -> BOOLEAN]
      /\ moves' \in 0..MaxMoves
    BY <1>0, <1>1, MemberAt, MovesType
<1>4. eng.pc \in Admitting \ {"fail"}
    BY <1>0 DEF Admitting
<1> QED  BY <1>0, <1>1, <1>2, <1>3, <1>4, AdmissionInv

LEMMA StoreSessionInv == Inv /\ StoreSession => Inv'
<1> SUFFICES ASSUME Inv, StoreSession PROVE Inv'
    OBVIOUS
<1>0. /\ eng.pc = "store" /\ TypeOK /\ eng.r \in Resources /\ member[eng.r] \in Member
      /\ member \in [Resources -> Member]
      /\ quiet \in [Resources -> BOOLEAN] /\ eng.kind \in {"", "sleeping"}
      /\ UNCHANGED <<policy, session, open, Ghosts, moves>>
      /\ Go(IF eng.kind = "sleeping" THEN "nap" ELSE "initial")
    BY MemberAt DEF StoreSession, At, Inv, AtHand, TypeOK
<1>1. /\ eng' \in Engine /\ eng'.pc \in {"nap", "initial"}
      /\ eng'.phase = eng.phase /\ eng'.snap = eng.snap /\ eng'.todo = eng.todo
      /\ eng'.r = eng.r /\ eng'.kind = eng.kind
    <2>1. "nap" \in Places /\ "initial" \in Places
        BY DEF Places
    <2>2. CASE Go("nap")
        BY <1>0, <2>1, <2>2, GoFacts
    <2>3. CASE Go("initial")
        BY <1>0, <2>1, <2>3, GoFacts
    <2> QED  BY <1>0, <2>2, <2>3
<1> DEFINE x == [member[eng.r] EXCEPT !.session = TRUE]
<1>2. /\ x \in Member /\ x.known = member[eng.r].known /\ x.tomb = member[eng.r].tomb
      /\ x.fails = member[eng.r].fails /\ x.suspended = member[eng.r].suspended
    <2>1. member[eng.r] \in Member /\ TRUE \in BOOLEAN
        BY <1>0
    <2> QED  BY <2>1, SetSession
<1>3. member' = member \/ member' = [member EXCEPT ![eng.r] = x]
    BY DEF StoreSession, Update
<1> HIDE DEF x
<1>4. /\ member' \in [Resources -> Member]
      /\ \A q \in Resources : /\ member'[q].fails = member[q].fails
                              /\ member'[q].suspended = member[q].suspended
                              /\ member'[q].known = member[q].known
                              /\ member'[q].tomb = member[q].tomb
    <2>1. CASE member' = member
        BY <1>0, <2>1
    <2>2. CASE member' = [member EXCEPT ![eng.r] = x]
        BY <1>0, <1>2, <2>2, Put
    <2> QED  BY <1>3, <2>1, <2>2
<1>5. quiet' \in [Resources -> BOOLEAN]
    <2>1. member[eng.r].session \in BOOLEAN
        BY <1>0 DEF Member
    <2> QED  BY <1>0, <2>1 DEF StoreSession
<1>6. TypeOK'
    BY <1>0, <1>1, <1>4, <1>5 DEF Inv, TypeOK, Ghosts
<1>7. AtHand'
    BY <1>0, <1>1, <1>4 DEF Inv, AtHand, Admitting, Removing
<1>8. SnapshotHolds'
    BY <1>0, <1>1, <1>4 DEF Inv, SnapshotHolds
<1>9. Tallied'
    <2> SUFFICES ASSUME NEW q \in Resources
                 PROVE  /\ member'[q].fails = Limit => member'[q].suspended
                        /\ tries'[q] <= member'[q].fails + deaths' + Pending(q)'
        BY DEF Tallied
    <2>1. Pending(q)' = Pending(q) /\ tries' = tries /\ deaths' = deaths
        BY <1>0, <1>1 DEF Pending, Ghosts
    <2>2. /\ tries[q] <= member[q].fails + deaths + Pending(q)
          /\ member[q].fails = Limit => member[q].suspended
        BY TalliedAt DEF Inv
    <2> QED  BY <1>4, <2>1, <2>2
<1> QED  BY <1>6, <1>7, <1>8, <1>9 DEF Inv

(* An admission ends: its member is open, so the update is not skipped.       *)
LEMMA AdmissionEnds ==
    ASSUME Inv, Done, UNCHANGED World, UNCHANGED <<deaths, moves>>, eng.pc \in Admitting,
           NEW x \in Member, Update(x), tries' \in [Resources -> Nat],
           \A q \in Resources \ {eng.r} : tries'[q] = tries[q],
           tries'[eng.r] <= x.fails + deaths, x.known = member[eng.r].known,
           x.tomb = member[eng.r].tomb,
           x.fails = Limit => x.suspended
    PROVE  Inv'
<1>1. ~member[eng.r].tomb /\ eng.phase = "admit"
    BY DEF Inv, AtHand
<1>2. member' = [member EXCEPT ![eng.r] = x]
    BY <1>1 DEF Update
<1>3. /\ session' \in [Resources -> Session] /\ open' \in [Resources -> BOOLEAN]
      /\ moves' \in 0..MaxMoves /\ UNCHANGED <<policy, quiet, deaths>>
    BY MemberAt DEF World
<1>4. /\ eng.phase # "admit" => (x.suspended => member[eng.r].suspended)
      /\ eng.phase # "expire" /\ x.tomb => member[eng.r].tomb \/ eng.snap[eng.r].tomb
    BY <1>1
<1> QED  BY <1>2, <1>3, <1>4, DoneInv

LEMMA WaitForWakeInv == Inv /\ WaitForWake => Inv'
<1> SUFFICES ASSUME Inv, WaitForWake PROVE Inv'
    OBVIOUS
<1> DEFINE x == [member[eng.r] EXCEPT !.later = TRUE]
<1>0. /\ eng.pc = "nap" /\ Update(x) /\ Done /\ UNCHANGED World
      /\ UNCHANGED <<deaths, moves>> /\ tries' = tries
    BY DEF WaitForWake, At, Ghosts
<1>1. /\ member[eng.r] \in Member /\ tries \in [Resources -> Nat]
      /\ member[eng.r].fails = Limit => member[eng.r].suspended
      /\ tries[eng.r] <= member[eng.r].fails + deaths
    BY <1>0, MemberAt
<1>2. /\ x \in Member /\ x.known = member[eng.r].known /\ x.tomb = member[eng.r].tomb
      /\ x.fails = member[eng.r].fails /\ x.suspended = member[eng.r].suspended
    <2>1. member[eng.r] \in Member /\ TRUE \in BOOLEAN
        BY <1>1
    <2> QED  BY <2>1, SetLater
<1> HIDE DEF x
<1>3. eng.pc \in Admitting
    BY <1>0 DEF Admitting
<1>4. /\ x.fails = Limit => x.suspended
      /\ tries'[eng.r] <= x.fails + deaths
    BY <1>0, <1>1, <1>2
<1> QED  BY <1>0, <1>1, <1>2, <1>3, <1>4, AdmissionEnds

LEMMA RecordAdmittedInv == Inv /\ RecordAdmitted => Inv'
<1> SUFFICES ASSUME Inv, RecordAdmitted PROVE Inv'
    OBVIOUS
<1> DEFINE x == Settled(member[eng.r])
<1>0. /\ eng.pc = "clear" /\ Update(x) /\ Done /\ UNCHANGED World
      /\ UNCHANGED <<deaths, moves>> /\ tries' = [tries EXCEPT ![eng.r] = 0]
    BY DEF RecordAdmitted, At
<1>1. /\ member[eng.r] \in Member /\ tries \in [Resources -> Nat] /\ eng.r \in Resources
      /\ deaths \in Nat
    BY MemberAt
<1>2. /\ x \in Member /\ x.known = member[eng.r].known /\ x.tomb = member[eng.r].tomb
      /\ x.fails = 0
    BY <1>1, SettledIs
<1> HIDE DEF x
<1>3. eng.pc \in Admitting
    BY <1>0 DEF Admitting
<1>4. /\ x.fails = Limit => x.suspended
    BY <1>2
<1>5. /\ tries' \in [Resources -> Nat] /\ tries'[eng.r] = 0
      /\ \A q \in Resources \ {eng.r} : tries'[q] = tries[q]
    BY <1>0, <1>1
<1>6. tries'[eng.r] <= x.fails + deaths
    BY <1>1, <1>2, <1>5
<1> QED  BY <1>0, <1>1, <1>2, <1>3, <1>4, <1>5, <1>6, AdmissionEnds

(* The failure that was pending enters the member's counter.                  *)
LEMMA FailAdmitInv == Inv /\ FailAdmit => Inv'
<1> SUFFICES ASSUME Inv, FailAdmit PROVE Inv'
    OBVIOUS
<1> DEFINE m == member[eng.r]
           x == [AfterFailure(m) EXCEPT !.why = Reason(m)]
<1>0. /\ eng.pc = "fail" /\ Update(x) /\ Done /\ UNCHANGED World
      /\ UNCHANGED <<deaths, moves>> /\ tries' = tries
    BY DEF FailAdmit, At, Ghosts
<1>1. /\ m \in Member /\ tries \in [Resources -> Nat] /\ eng.r \in Resources
      /\ deaths \in Nat /\ TypeOK
      /\ m.fails = Limit => m.suspended
    BY MemberAt
<1>2. eng.pc \in Admitting
    BY <1>0 DEF Admitting
<1>3. ~m.suspended
    BY <1>2 DEF Inv, AtHand
<1>4. m.fails \in 0..Limit /\ m.fails \in Nat
    BY <1>1, NumberTypes
<1>5. m.fails < Limit
    BY <1>1, <1>3, <1>4
<1>6. /\ x \in Member /\ x.known = m.known /\ x.tomb = m.tomb
      /\ x.fails \in {m.fails, m.fails + 1}
      /\ eng.kind \in Counting => x.fails = m.fails + 1
      /\ x.fails = Limit => x.suspended = TRUE
    BY <1>1, <1>5, FailedMember
<1>7. tries[eng.r] <= m.fails + deaths + Pending(eng.r)
    BY <1>1, TalliedAt DEF Inv
<1>8. Pending(eng.r) = IF eng.kind \in Counting THEN 1 ELSE 0
    BY <1>0 DEF Pending
<1>9. tries[eng.r] \in Nat
    BY <1>1
<1> HIDE DEF x, m
<1>10. tries[eng.r] <= x.fails + deaths
    <2>1. CASE eng.kind \in Counting
        <3>1. x.fails = m.fails + 1 /\ Pending(eng.r) = 1
            BY <1>6, <1>8, <2>1
        <3> QED  BY <1>1, <1>4, <1>7, <1>9, <3>1
    <2>2. CASE eng.kind \notin Counting
        <3>1. x.fails \in {m.fails, m.fails + 1} /\ Pending(eng.r) = 0
            BY <1>6, <1>8, <2>2
        <3> QED  BY <1>1, <1>4, <1>7, <1>9, <3>1
    <2> QED  BY <2>1, <2>2
<1> QED  BY <1>0, <1>1, <1>2, <1>6, <1>10, AdmissionEnds DEF m

-------------------------------------------------------------------------------
(* The inputs: between rounds nothing is pending and no snapshot is in use.   *)
LEMMA InputInv ==
    ASSUME Inv, eng.pc = "idle", Go("reconcile"), UNCHANGED <<policy, open, deaths>>,
           session' \in [Resources -> Session], quiet' \in [Resources -> BOOLEAN],
           moves' \in 0..MaxMoves, member' \in [Resources -> Member],
           tries' \in [Resources -> Nat],
           \A r \in Resources :
              \/ /\ member'[r].fails = member[r].fails
                 /\ member'[r].suspended = member[r].suspended
                 /\ tries'[r] \in {tries[r], 0}
              \/ member'[r].fails = 0 /\ tries'[r] = 0
    PROVE  Inv'
<1>0. TypeOK /\ "reconcile" \in Places /\ eng.kind \in {"", "sleeping"} /\ deaths \in Nat
    BY DEF Inv, TypeOK, Places, AtHand
<1>a. deaths \in Nat
    BY <1>0
<1>1. eng' \in Engine /\ eng'.pc = "reconcile" /\ eng'.kind = eng.kind
    BY <1>0, GoFacts
<1>2. TypeOK'
    BY <1>1 DEF Inv, TypeOK
<1>3. AtHand' /\ SnapshotHolds'
    BY <1>0, <1>1 DEF AtHand, SnapshotHolds, Admitting, Removing
<1>4. Tallied'
    <2> SUFFICES ASSUME NEW q \in Resources
                 PROVE  /\ member'[q].fails = Limit => member'[q].suspended
                        /\ tries'[q] <= member'[q].fails + deaths' + Pending(q)'
        BY DEF Tallied
    <2>1. Pending(q) = 0 /\ Pending(q)' = 0
        BY <1>1 DEF Pending
    <2>2. CASE /\ member'[q].fails = member[q].fails
               /\ member'[q].suspended = member[q].suspended
               /\ tries'[q] \in {tries[q], 0}
        <3>1. tries[q] <= member[q].fails + deaths + 0
            BY <1>0, <2>1, OnePending DEF Inv
        <3>2. member[q].fails \in Nat
            BY <1>0, NumberTypes
        <3>3. 0 <= member[q].fails + deaths + 0
            BY <1>a, <3>2
        <3> QED  BY <2>1, <2>2, <3>1, <3>3, TalliedAt DEF Inv
    <2>3. CASE member'[q].fails = 0 /\ tries'[q] = 0
        <3>1. 0 <= 0 + deaths + 0
            BY <1>a
        <3> QED  BY <2>1, <2>3, <3>1
    <2> QED  BY <2>2, <2>3
<1> QED  BY <1>2, <1>3, <1>4 DEF Inv

LEMMA ApplyPollInv ==
    ASSUME Inv, NEW present \in SUBSET Resources, ApplyPoll(present)
    PROVE  Inv'
<1>0. /\ eng.pc = "idle" /\ Counted /\ Go("reconcile") /\ UNCHANGED <<World, deaths>>
      /\ member' = [r \in Resources |-> IF r \in present THEN Listed(member[r])
                                                         ELSE Omitted(member[r])]
      /\ tries' = [r \in Resources |->
                     IF member[r].known /\ (r \in present) # member[r].tomb THEN tries[r] ELSE 0]
    BY DEF ApplyPoll, At
<1>1. TypeOK /\ session \in [Resources -> Session] /\ quiet \in [Resources -> BOOLEAN]
      /\ tries \in [Resources -> Nat]
    BY MemberAt
<1>2. moves' \in 0..MaxMoves
    BY <1>0, MovesType
<1>3. ASSUME NEW r \in Resources
      PROVE  /\ member'[r] \in Member /\ tries'[r] \in Nat
             /\ \/ /\ member'[r].fails = member[r].fails
                   /\ member'[r].suspended = member[r].suspended
                   /\ tries'[r] \in {tries[r], 0}
                \/ member'[r].fails = 0 /\ tries'[r] = 0
    <2> DEFINE m == member[r]
    <2>0. m \in Member /\ m.known \in BOOLEAN /\ m.tomb \in BOOLEAN /\ tries[r] \in Nat
        BY <1>1, NumberTypes DEF Member
    <2>1. tries'[r] = IF m.known /\ (r \in present) # m.tomb THEN tries[r] ELSE 0
        BY <1>0
    <2>2. member'[r] = IF r \in present THEN Listed(m) ELSE Omitted(m)
        BY <1>0
    <2> HIDE DEF m
    <2>3. CASE r \in present
        <3>1. CASE m.known /\ ~m.tomb
            <4>1. tries'[r] = tries[r]
                BY <2>0, <2>1, <2>3, <3>1
            <4>2. /\ Listed(m) \in Member /\ Listed(m).fails = m.fails
                  /\ Listed(m).suspended = m.suspended
                BY <2>0, <3>1, ListedIs
            <4> QED  BY <2>0, <2>2, <2>3, <4>1, <4>2 DEF m
        <3>2. CASE ~m.known \/ m.tomb
            <4>1. tries'[r] = 0
                BY <2>0, <2>1, <2>3, <3>2
            <4>2. Listed(m) \in Member /\ Listed(m).fails = 0
                BY <2>0, <3>2, ListedIs
            <4> QED  BY <2>2, <2>3, <4>1, <4>2
        <3> QED  BY <2>0, <3>1, <3>2
    <2>4. CASE r \notin present
        <3>1. CASE m.known /\ ~m.tomb
            <4>1. tries'[r] = 0
                BY <2>0, <2>1, <2>4, <3>1
            <4>2. Omitted(m) \in Member /\ Omitted(m).fails = 0
                BY <2>0, <3>1, OmittedIs
            <4> QED  BY <2>2, <2>4, <4>1, <4>2
        <3>2. CASE m.known /\ m.tomb
            <4>1. tries'[r] = tries[r]
                BY <2>0, <2>1, <2>4, <3>2
            <4>2. Omitted(m) = m
                BY <2>0, <3>2, OmittedIs
            <4> QED  BY <2>0, <2>2, <2>4, <4>1, <4>2 DEF m
        <3>3. CASE ~m.known
            <4>1. tries'[r] = 0
                BY <2>0, <2>1, <2>4, <3>3
            <4>2. Omitted(m) = m
                BY <2>0, <3>3, OmittedIs
            <4> QED  BY <2>0, <2>2, <2>4, <4>1, <4>2 DEF m
        <3> QED  BY <2>0, <3>1, <3>2, <3>3
    <2> QED  BY <2>3, <2>4
<1>4. member' \in [Resources -> Member] /\ tries' \in [Resources -> Nat]
    BY <1>0, <1>3
<1>5. /\ session' \in [Resources -> Session] /\ quiet' \in [Resources -> BOOLEAN]
      /\ UNCHANGED <<policy, open, deaths>>
    BY <1>0, <1>1 DEF World
<1> QED  BY <1>0, <1>2, <1>3, <1>4, <1>5, InputInv

LEMMA ApplyAppearanceInv ==
    ASSUME Inv, NEW r \in Resources, ApplyAppearance(r)
    PROVE  Inv'
<1>0. /\ eng.pc = "idle" /\ Counted /\ Go("reconcile") /\ UNCHANGED <<policy, open, deaths>>
      /\ member' = [member EXCEPT ![r] = Appeared(@)]
      /\ tries' = [tries EXCEPT ![r] = IF member[r].known /\ ~member[r].tomb THEN @ ELSE 0]
      /\ quiet' = [quiet EXCEPT ![r] = FALSE]
      /\ session' = [session EXCEPT ![r].idle = FALSE]
    BY DEF ApplyAppearance, At
<1>1. /\ TypeOK /\ session \in [Resources -> Session] /\ quiet \in [Resources -> BOOLEAN]
      /\ tries \in [Resources -> Nat] /\ member \in [Resources -> Member]
      /\ member[r] \in Member
    BY MemberAt, NumberTypes
<1>2. moves' \in 0..MaxMoves
    BY <1>0, MovesType
<1>3. session' \in [Resources -> Session] /\ quiet' \in [Resources -> BOOLEAN]
    <2>1. FALSE \in BOOLEAN
        OBVIOUS
    <2> QED  BY <1>0, <1>1, <2>1, SessionSteps
<1> DEFINE x == Appeared(member[r])
<1>4. member' = [member EXCEPT ![r] = x]
    BY <1>0, <1>1
<1>5. /\ x \in Member
      /\ member[r].known /\ ~member[r].tomb =>
            x.fails = member[r].fails /\ x.suspended = member[r].suspended
      /\ ~member[r].known \/ member[r].tomb => x.fails = 0
    BY <1>1, AppearedIs
<1> HIDE DEF x
<1>6. /\ member' \in [Resources -> Member] /\ member'[r] = x
      /\ \A q \in Resources \ {r} : member'[q] = member[q]
    BY <1>1, <1>4, <1>5, Put
<1>7. /\ tries' \in [Resources -> Nat]
      /\ tries'[r] = IF member[r].known /\ ~member[r].tomb THEN tries[r] ELSE 0
      /\ \A q \in Resources \ {r} : tries'[q] = tries[q]
    BY <1>0, <1>1
<1>8. ASSUME NEW q \in Resources
      PROVE  \/ /\ member'[q].fails = member[q].fails
                /\ member'[q].suspended = member[q].suspended
                /\ tries'[q] \in {tries[q], 0}
             \/ member'[q].fails = 0 /\ tries'[q] = 0
    <2>1. CASE q # r
        BY <1>6, <1>7, <2>1
    <2>2. CASE q = r /\ member[r].known /\ ~member[r].tomb
        BY <1>5, <1>6, <1>7, <2>2
    <2>3. CASE q = r /\ (~member[r].known \/ member[r].tomb)
        BY <1>5, <1>6, <1>7, <2>3
    <2>4. member[r].known \in BOOLEAN /\ member[r].tomb \in BOOLEAN
        BY <1>1 DEF Member
    <2> QED  BY <2>1, <2>2, <2>3, <2>4
<1> QED  BY <1>0, <1>2, <1>3, <1>6, <1>7, <1>8, InputInv

-------------------------------------------------------------------------------
(* Beside the engine: nothing changes the session's record of an admission,   *)
(* or one member's retry state is cleared, or its retry falls due.            *)
LEMMA AsideInv ==
    ASSUME Inv, Beside, UNCHANGED <<member, tries>>,
           session' \in [Resources -> Session], open' \in [Resources -> BOOLEAN],
           quiet' \in [Resources -> BOOLEAN], moves' \in 0..MaxMoves
    PROVE  Inv'
<1>1. AtHand' /\ SnapshotHolds' /\ Tallied'
    BY Aside DEF Beside
<1>2. TypeOK'
    BY DEF Inv, TypeOK, Beside
<1> QED  BY <1>1, <1>2 DEF Inv

LEMMA MemberAside ==
    ASSUME Inv, Beside, NEW r \in Resources, NEW x \in Member,
           member' = [member EXCEPT ![r] = x],
           session' \in [Resources -> Session], open' \in [Resources -> BOOLEAN],
           quiet' \in [Resources -> BOOLEAN], moves' \in 0..MaxMoves,
           x.tomb = member[r].tomb,
           \/ tries' = tries /\ x.fails = member[r].fails /\ x.suspended = member[r].suspended
           \/ tries' = [tries EXCEPT ![r] = 0] /\ x.fails = 0 /\ x.suspended = FALSE
    PROVE  Inv'
<1>0. /\ TypeOK /\ tries \in [Resources -> Nat] /\ eng.r \in Resources /\ deaths \in Nat
      /\ UNCHANGED <<policy, eng, deaths>>
    BY MemberAt DEF Beside
<1>1. /\ member' \in [Resources -> Member] /\ member'[r] = x
      /\ \A q \in Resources \ {r} : member'[q] = member[q]
    BY <1>0, Put
<1>2. tries' \in [Resources -> Nat]
    BY <1>0
<1>3. TypeOK'
    BY <1>0, <1>1, <1>2 DEF Inv, TypeOK
<1>4. \A q \in Resources : /\ member'[q].tomb = member[q].tomb
                           /\ member'[q].suspended => member[q].suspended
    BY <1>1
<1>5. AtHand'
    BY <1>0, <1>4 DEF Inv, AtHand, Admitting, Removing
<1>6. SnapshotHolds'
    BY <1>0, <1>4 DEF Inv, SnapshotHolds
<1>7. Tallied'
    <2> SUFFICES ASSUME NEW q \in Resources
                 PROVE  /\ member'[q].fails = Limit => member'[q].suspended
                        /\ tries'[q] <= member'[q].fails + deaths + Pending(q)'
        BY <1>0 DEF Tallied
    <2>1. Pending(q)' = Pending(q) /\ Pending(q) \in {0, 1}
        BY <1>0 DEF Pending
    <2>2. /\ tries[q] <= member[q].fails + deaths + Pending(q)
          /\ member[q].fails = Limit => member[q].suspended
        BY TalliedAt DEF Inv
    <2>3. CASE q # r
        <3>1. tries'[q] = tries[q] /\ member'[q] = member[q]
            BY <1>0, <1>1, <2>3
        <3> QED  BY <2>1, <2>2, <3>1
    <2>4. CASE /\ q = r /\ tries' = tries /\ x.fails = member[r].fails
               /\ x.suspended = member[r].suspended
        BY <1>1, <2>1, <2>2, <2>4
    <2>5. CASE q = r /\ tries' = [tries EXCEPT ![r] = 0] /\ x.fails = 0 /\ x.suspended = FALSE
        <3>1. tries'[q] = 0 /\ member'[q].fails = 0
            BY <1>0, <1>1, <2>5
        <3>2. deaths \in Nat
            BY <1>0
        <3>3. \A p \in {0, 1} : 0 <= 0 + deaths + p
            BY <3>2
        <3> QED  BY <2>1, <3>1, <3>3
    <2> QED  BY <2>3, <2>4, <2>5
<1> QED  BY <1>3, <1>5, <1>6, <1>7 DEF Inv

LEMMA SameTypes ==
    ASSUME Inv
    PROVE  /\ session' = session => session' \in [Resources -> Session]
           /\ open' = open => open' \in [Resources -> BOOLEAN]
           /\ quiet' = quiet => quiet' \in [Resources -> BOOLEAN]
           /\ Counted \/ moves' = moves => moves' \in 0..MaxMoves
BY MemberAt, MovesType

LEMMA HandsInv ==                        \* one session's status or row changes
    ASSUME Inv, NEW r \in Resources, Beside, UNCHANGED <<member, quiet, tries>>,
           Counted \/ moves' = moves,
           \/ open' = open
           \/ open' = [open EXCEPT ![r] = FALSE]
           \/ open' = [open EXCEPT ![r] = ~@],
           \/ session' = session
           \/ session' = [session EXCEPT ![r] = NoRow]
           \/ \E x \in States : session' = [session EXCEPT ![r].st = x]
           \/ \E x \in BOOLEAN : session' = [session EXCEPT ![r].idle = x]
           \/ session' = [session EXCEPT ![r].init = "none"]
    PROVE  Inv'
<1>1. session' \in [Resources -> Session]
    BY MemberAt, SessionSteps
<1>2. open' \in [Resources -> BOOLEAN]
    BY MemberAt
<1>3. quiet' \in [Resources -> BOOLEAN] /\ moves' \in 0..MaxMoves
    BY SameTypes
<1> QED  BY <1>1, <1>2, <1>3, AsideInv

LEMMA OperatorInv ==
    ASSUME Inv, NEW r \in Resources,
           \/ StopByHand(r) \/ UpByHand(r) \/ DestroyByHand(r) \/ CleanInitial(r)
           \/ Report(r) \/ Wake(r)
    PROVE  Inv'
<1>0. {"stopped", "up", "queued", "spent"} \subseteq States /\ TRUE \in BOOLEAN
    BY DEF States
<1>1. CASE StopByHand(r)
    <2>1. /\ Beside /\ UNCHANGED <<member, quiet, tries>> /\ Counted /\ open' = open
          /\ session' = [session EXCEPT ![r].st = "stopped"]
        BY <1>1 DEF StopByHand
    <2> QED  BY <1>0, <2>1, HandsInv
<1>2. CASE UpByHand(r)
    <2> DEFINE x == IF Room THEN "up" ELSE "queued"
    <2>1. /\ Beside /\ UNCHANGED <<member, quiet, tries>> /\ Counted /\ open' = open
          /\ session' = [session EXCEPT ![r].st = x]
        BY <1>2 DEF UpByHand
    <2>2. x \in States
        BY <1>0
    <2> HIDE DEF x
    <2> QED  BY <2>1, <2>2, HandsInv
<1>3. CASE DestroyByHand(r)
    <2>1. /\ Beside /\ UNCHANGED <<member, quiet, tries>> /\ Counted
          /\ open' = [open EXCEPT ![r] = FALSE]
          /\ session' = [session EXCEPT ![r] = NoRow]
        BY <1>3 DEF DestroyByHand
    <2> QED  BY <2>1, HandsInv
<1>4. CASE CleanInitial(r)
    <2>1. /\ Beside /\ UNCHANGED <<member, quiet, tries>> /\ Counted /\ open' = open
          /\ session' = [session EXCEPT ![r].init = "none"]
        BY <1>4 DEF CleanInitial
    <2> QED  BY <2>1, HandsInv
<1>5. CASE Report(r)
    <2>1. /\ Beside /\ UNCHANGED <<member, quiet, tries>> /\ Counted
          /\ \/ session' = [session EXCEPT ![r].idle = TRUE] /\ open' = open
             \/ open' = [open EXCEPT ![r] = ~@] /\ session' = session
        BY <1>5 DEF Report
    <2> QED  BY <1>0, <2>1, HandsInv
<1>6. CASE Wake(r)
    <2>1. /\ Beside /\ UNCHANGED <<member, quiet, tries>> /\ open' = open
          /\ \/ session' = [session EXCEPT ![r].st = "up"] /\ moves' = moves
             \/ session' = [session EXCEPT ![r].st = "spent"] /\ Counted
        BY <1>6 DEF Wake
    <2> QED  BY <1>0, <2>1, HandsInv
<1> QED  BY <1>1, <1>2, <1>3, <1>4, <1>5, <1>6

LEMMA ExpireInv ==
    ASSUME Inv, NEW r \in Resources, Expire(r)
    PROVE  Inv'
<1>1. /\ Beside /\ UNCHANGED <<member, session, open, tries>> /\ Counted
      /\ quiet' = [quiet EXCEPT ![r] = TRUE]
    BY DEF Expire
<1>2. quiet' \in [Resources -> BOOLEAN]
    BY <1>1, MemberAt
<1> QED  BY <1>1, <1>2, SameTypes, AsideInv

LEMMA RetryPopulationMemberInv ==
    ASSUME Inv, NEW r \in Resources, RetryPopulationMember(r)
    PROVE  Inv'
<1> DEFINE x == Cleared(member[r])
<1>1. /\ Beside /\ UNCHANGED <<session, open, quiet>> /\ Counted
      /\ member' = [member EXCEPT ![r] = x] /\ tries' = [tries EXCEPT ![r] = 0]
    BY DEF RetryPopulationMember
<1>2. x \in Member /\ x.fails = 0 /\ x.suspended = FALSE /\ x.tomb = member[r].tomb
    BY MemberAt, NumberTypes, ClearedIs
<1>3. /\ session' \in [Resources -> Session] /\ open' \in [Resources -> BOOLEAN]
      /\ quiet' \in [Resources -> BOOLEAN] /\ moves' \in 0..MaxMoves
    BY <1>1, SameTypes
<1> HIDE DEF x
<1> QED  BY <1>1, <1>2, <1>3, MemberAside

LEMMA NotLaterIs ==                      \* the delay of a member's retry is over
    ASSUME Inv, NEW r \in Resources
    PROVE  LET x == [member[r] EXCEPT !.later = FALSE]
           IN  /\ x \in Member /\ x.tomb = member[r].tomb
               /\ x.fails = member[r].fails /\ x.suspended = member[r].suspended
<1>1. member[r] \in Member /\ FALSE \in BOOLEAN
    BY MemberAt, NumberTypes
<1> QED  BY <1>1, SetLater

LEMMA RetryDueInv ==
    ASSUME Inv, NEW r \in Resources, RetryDue(r)
    PROVE  Inv'
<1> DEFINE x == [member[r] EXCEPT !.later = FALSE]
<1>1. /\ Beside /\ UNCHANGED <<session, open, quiet, tries, moves>>
      /\ member' = [member EXCEPT ![r] = x]
    BY MemberAt DEF RetryDue, TypeOK
<1>2. /\ x \in Member /\ x.tomb = member[r].tomb
      /\ x.fails = member[r].fails /\ x.suspended = member[r].suspended
    BY NotLaterIs
<1>3. /\ session' \in [Resources -> Session] /\ open' \in [Resources -> BOOLEAN]
      /\ quiet' \in [Resources -> BOOLEAN] /\ moves' \in 0..MaxMoves
    BY <1>1, SameTypes
<1> HIDE DEF x
<1> QED  BY <1>1, <1>2, <1>3, MemberAside

LEMMA InboundInv ==
    ASSUME Inv, NEW r \in Resources, Inbound(r)
    PROVE  Inv'
<1>0. /\ TypeOK /\ session \in [Resources -> Session] /\ session[r] \in Session
      /\ quiet \in [Resources -> BOOLEAN]
    BY MemberAt
<1> DEFINE wakes == session[r].st \in {"dozing", "spent"}
           x == [member[r] EXCEPT !.later = FALSE]
           a == [session[r] EXCEPT !.idle = FALSE]
           s == [a EXCEPT !.st = IF wakes THEN "queued" ELSE a.st]
<1>1. /\ Beside /\ Counted /\ UNCHANGED <<open, tries>>
      /\ quiet' = [quiet EXCEPT ![r] = FALSE]
    BY DEF Inbound
<1>2. session' = [session EXCEPT ![r] = s]
    BY <1>0 DEF Inbound, Session
<1>3. member' = member \/ member' = [member EXCEPT ![r] = x]
    BY <1>0 DEF Inbound, TypeOK
<1>a. FALSE \in BOOLEAN
    OBVIOUS
<1>b. a \in Session
    BY <1>0, <1>a, SessionUpdates
<1>4. a \in Session /\ a.st \in States /\ "queued" \in States
    BY <1>b DEF Session, States
<1> HIDE DEF a
<1>5. s \in Session
    BY <1>4, SessionUpdates
<1> HIDE DEF s, wakes
<1>6. session' \in [Resources -> Session]
    BY <1>0, <1>2, <1>5, PutSession
<1>7. quiet' \in [Resources -> BOOLEAN]
    BY <1>0, <1>1
<1>8. open' \in [Resources -> BOOLEAN] /\ moves' \in 0..MaxMoves
    BY <1>1, SameTypes
<1>9. CASE member' = member
    BY <1>1, <1>6, <1>7, <1>8, <1>9, AsideInv
<1>10. CASE member' = [member EXCEPT ![r] = x]
    <2>1. /\ x \in Member /\ x.tomb = member[r].tomb
          /\ x.fails = member[r].fails /\ x.suspended = member[r].suspended
        BY NotLaterIs
    <2> HIDE DEF x
    <2> QED  BY <1>1, <1>6, <1>7, <1>8, <1>10, <2>1, MemberAside
<1> QED  BY <1>3, <1>9, <1>10

-------------------------------------------------------------------------------
LEMMA StutterInv == Inv /\ UNCHANGED vars => Inv'
<1> SUFFICES ASSUME Inv, UNCHANGED vars PROVE Inv'
    OBVIOUS
<1>1. Beside /\ UNCHANGED <<member, tries>> /\ session' = session /\ open' = open
      /\ quiet' = quiet /\ moves' = moves
    BY DEF vars, Beside
<1> QED  BY <1>1, SameTypes, AsideInv

LEMMA NextInv == Inv /\ [Next]_vars => Inv'
<1> SUFFICES ASSUME Inv, [Next]_vars PROVE Inv'
    OBVIOUS
<1>1. CASE Inputs
    BY <1>1, ApplyPollInv, ApplyAppearanceInv DEF Inputs
<1>2. CASE SweepExpiry
    BY <1>2, SweepExpiryInv
<1>3. CASE Round
    <2>1. CASE \E r \in Resources : DecideDestroy(r) \/ Admit(r) \/ Evict(r)
        BY <2>1, DecideDestroyInv, AdmitInv, EvictInv
    <2>2. CASE \/ Reconcile \/ NextPhase \/ CheckOwner \/ Remove \/ RecordRemoved
               \/ TryUp \/ CheckAhead \/ NoCandidate \/ TryAgain \/ StoreSession
               \/ WaitForWake \/ EnsureInitial \/ RecordAdmitted \/ FailAdmit
        BY <2>2, ReconcileInv, NextPhaseInv, CheckOwnerInv, RemoveInv, RecordRemovedInv,
           TryUpInv, CheckAheadInv, NoCandidateInv, TryAgainInv, StoreSessionInv,
           WaitForWakeInv, EnsureInitialInv, RecordAdmittedInv, FailAdmitInv
    <2> QED  BY <1>3, <2>1, <2>2 DEF Round
<1>4. CASE Others
    BY <1>4, OperatorInv, RetryPopulationMemberInv, InboundInv, ExpireInv, RetryDueInv
       DEF Others
<1>5. CASE Die
    BY <1>5, DieInv
<1>6. CASE UNCHANGED vars
    BY <1>6, StutterInv
<1> QED  BY <1>1, <1>2, <1>3, <1>4, <1>5, <1>6 DEF Next

(* What the engine relies on between its steps holds in every reachable       *)
(* state.                                                                     *)
THEOREM Invariance == Spec => []Inv
BY InitInv, NextInv, PTL DEF Spec

(* Every variable keeps its type: in particular the stored failure counter    *)
(* never passes admitFailureLimit, whatever the number of restarts.           *)
THEOREM TypeCorrect == Spec => []TypeOK
<1>1. Inv => TypeOK
    BY DEF Inv
<1> QED  BY <1>1, Invariance, PTL

(* No more than admitFailureLimit failed admissions of a member between two    *)
(* clearings of its retry state, but one for each death of serve.             *)
THEOREM BudgetHolds == Spec => []Budget
<1>1. Inv => Budget
    <2> SUFFICES ASSUME Inv, NEW r \in Resources
                 PROVE  tries[r] <= Limit + deaths
        BY DEF Budget
    <2>1. TypeOK /\ Tallied
        BY DEF Inv
    <2>2. /\ member[r].fails \in 0..Limit /\ member[r].fails \in Nat /\ deaths \in Nat
          /\ tries[r] \in Nat
        BY <2>1, NumberTypes
    <2>3. /\ tries[r] <= member[r].fails + deaths + Pending(r)
          /\ member[r].fails = Limit => member[r].suspended
        BY <2>1, TalliedAt
    <2>4. CASE Pending(r) = 0
        <3>1. tries[r] <= member[r].fails + deaths + 0
            BY <2>3, <2>4
        <3> QED  BY <2>2, <3>1
    <2>5. CASE Pending(r) # 0
        <3>1. eng.pc = "fail" /\ eng.r = r /\ Pending(r) = 1
            BY <2>5 DEF Pending
        <3>2. ~member[r].suspended
            BY <3>1 DEF Inv, AtHand, Admitting
        <3>3. member[r].fails # Limit
            BY <2>3, <3>2
        <3>4. tries[r] <= member[r].fails + deaths + 1
            BY <2>3, <3>1
        <3> QED  BY <2>2, <3>3, <3>4
    <2> QED  BY <2>4, <2>5
<1> QED  BY <1>1, Invariance, PTL
===============================================================================
