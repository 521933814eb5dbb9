------------------------- MODULE EventDelivery_proofs -------------------------
(***************************************************************************)
(* What EventDelivery keeps for every workflow's channels, any number of    *)
(* dispatchers, incarnations and events.                                    *)
(***************************************************************************)
EXTENDS EventDelivery, SequenceTheorems, FiniteSetTheorems, TLAPS

(* A goroutine in the middle of an event has it in the log it drains.        *)
Works      == {"deliver", "report", "streak", "clear", "commit"}
WorksOn(d) == disp[d].pc \in Works => /\ disp[d].b \in 1..inc
                                      /\ disp[d].i \in 1..disp[d].upto
                                      /\ disp[d].upto <= Len(log[disp[d].b])
Placed     == \A d \in Slots : WorksOn(d)

(* A log only grows: an event keeps what it is, a channel that took it has   *)
(* taken it, a failure that was told is told, and new events are untouched.  *)
Later(e, f) == /\ f.about = e.about /\ f.nested = e.nested
               /\ \A c \in Channels : e.took[c] <= f.took[c]
               /\ e.told \subseteq f.told
Grows(l, m) == /\ m \in [Incs -> Seq(Event)]
               /\ \A n \in Incs :
                     /\ Len(l[n]) <= Len(m[n])
                     /\ \A k \in 1..Len(l[n]) : Later(l[n][k], m[n][k])
                     /\ \A k \in (Len(l[n]) + 1)..Len(m[n]) :
                            \A c \in Channels : m[n][k].took[c] = 0

(* Rewriting an event as a later one grows a log.                            *)
LEMMA RewriteGrows ==
    ASSUME NEW l \in [Incs -> Seq(Event)], NEW n \in Incs,
           NEW k \in 1..Len(l[n]), NEW e \in Event, Later(l[n][k], e),
           NEW m, m = [l EXCEPT ![n][k] = e]
    PROVE  Grows(l, m) /\ \A x \in Incs : Len(m[x]) = Len(l[x])
<1> DEFINE s == [l[n] EXCEPT ![k] = e]
<1>1. /\ l[n] \in Seq(Event) /\ Len(l[n]) \in Nat
      /\ s \in Seq(Event) /\ Len(s) = Len(l[n])
      /\ \A j \in 1..Len(l[n]) : s[j] = IF j = k THEN e ELSE l[n][j]
    BY ExceptSeq
<1>2. \A x \in Incs : \A j \in 1..Len(l[x]) : l[x][j] \in Event
    OBVIOUS
<1>3. \A f \in Event : Later(f, f)
    BY DEF Later, Event
<1>4. m = [l EXCEPT ![n] = s]
    OBVIOUS
<1> HIDE DEF s
<1>5. m \in [Incs -> Seq(Event)]
    BY <1>1, <1>4
<1>6. ASSUME NEW x \in Incs
      PROVE  /\ Len(l[x]) = Len(m[x]) /\ Len(l[x]) \in Nat
             /\ \A j \in 1..Len(l[x]) : Later(l[x][j], m[x][j])
    <2>1. CASE x = n
        BY <1>1, <1>2, <1>3, <1>4, <2>1
    <2>2. CASE x # n
        <3>1. m[x] = l[x] /\ Len(l[x]) \in Nat
            BY <1>4, <2>2
        <3> QED  BY <1>2, <1>3, <3>1
    <2> QED  BY <2>1, <2>2
<1> QED  BY <1>5, <1>6 DEF Grows

(* Appending an untouched event grows a log.                                *)
LEMMA AppendGrows ==
    ASSUME NEW l \in [Incs -> Seq(Event)], NEW n \in Incs, NEW e \in Event,
           \A c \in Channels : e.took[c] = 0
    PROVE  Grows(l, [l EXCEPT ![n] = Append(@, e)])
<1> DEFINE s == Append(l[n], e)
           m == [l EXCEPT ![n] = s]
<1>1. /\ l[n] \in Seq(Event) /\ Len(l[n]) \in Nat
      /\ s \in Seq(Event) /\ Len(s) = Len(l[n]) + 1
      /\ \A j \in 1..Len(l[n]) : s[j] = l[n][j]
      /\ s[Len(l[n]) + 1] = e
    BY AppendProperties
<1>2. \A x \in Incs : \A j \in 1..Len(l[x]) : l[x][j] \in Event
    OBVIOUS
<1>3. \A f \in Event : Later(f, f)
    BY DEF Later, Event
<1> HIDE DEF s
<1>4. m \in [Incs -> Seq(Event)]
    BY <1>1
<1>5. ASSUME NEW x \in Incs
      PROVE  /\ Len(l[x]) <= Len(m[x])
             /\ \A j \in 1..Len(l[x]) : Later(l[x][j], m[x][j])
             /\ \A j \in (Len(l[x]) + 1)..Len(m[x]) :
                    \A c \in Channels : m[x][j].took[c] = 0
    <2>1. CASE x = n
        <3>1. m[x] = s
            BY <2>1
        <3>2. ASSUME NEW j \in (Len(l[x]) + 1)..Len(m[x]) PROVE m[x][j] = e
            BY <1>1, <2>1, <3>1
        <3> QED  BY <1>1, <1>2, <1>3, <2>1, <3>1, <3>2
    <2>2. CASE x # n
        <3>1. m[x] = l[x] /\ Len(l[x]) \in Nat
            BY <2>2
        <3> QED  BY <1>2, <1>3, <3>1
    <2> QED  BY <2>1, <2>2
<1> QED  BY <1>4, <1>5 DEF Grows, s

(* Rewriting and then appending grows it.                                    *)
LEMMA GrowsAgain ==
    ASSUME NEW l \in [Incs -> Seq(Event)], NEW m, NEW r, Grows(l, m), Grows(m, r),
           \A n \in Incs : Len(m[n]) = Len(l[n])
    PROVE  Grows(l, r)
<1> SUFFICES ASSUME NEW n \in Incs
             PROVE  /\ Len(l[n]) <= Len(r[n])
                    /\ \A k \in 1..Len(l[n]) : Later(l[n][k], r[n][k])
                    /\ \A k \in (Len(l[n]) + 1)..Len(r[n]) :
                           \A c \in Channels : r[n][k].took[c] = 0
    BY DEF Grows
<1>1. Len(l[n]) \in Nat /\ Len(m[n]) \in Nat /\ Len(r[n]) \in Nat
    BY DEF Grows
<1>2. ASSUME NEW k \in 1..Len(l[n]) PROVE Later(l[n][k], r[n][k])
    <2>1. k \in 1..Len(m[n]) /\ k \in 1..Len(r[n])
        BY <1>1 DEF Grows
    <2>2. Later(l[n][k], m[n][k]) /\ Later(m[n][k], r[n][k])
        BY <2>1 DEF Grows
    <2>3. l[n][k] \in Event /\ m[n][k] \in Event /\ r[n][k] \in Event
        BY <2>1 DEF Grows
    <2>4. ASSUME NEW c \in Channels PROVE l[n][k].took[c] <= r[n][k].took[c]
        <3>1. /\ l[n][k].took[c] \in Nat /\ m[n][k].took[c] \in Nat
              /\ r[n][k].took[c] \in Nat
            BY <2>3 DEF Event
        <3> QED  BY <2>2, <3>1 DEF Later
    <2> QED  BY <2>2, <2>4 DEF Later
<1>3. ASSUME NEW k \in (Len(l[n]) + 1)..Len(r[n]), NEW c \in Channels
      PROVE  r[n][k].took[c] = 0
    BY <1>1 DEF Grows
<1>4. Len(l[n]) <= Len(r[n])
    BY <1>1 DEF Grows
<1> QED  BY <1>2, <1>3, <1>4

(* A log grows to itself.                                                   *)
LEMMA SameGrows ==
    ASSUME NEW l \in [Incs -> Seq(Event)] PROVE Grows(l, l)
<1>1. \A n \in Incs : Len(l[n]) \in Nat /\ \A k \in 1..Len(l[n]) : l[n][k] \in Event
    OBVIOUS
<1>2. \A f \in Event : Later(f, f)
    BY DEF Later, Event
<1>3. \A n \in Incs : (Len(l[n]) + 1)..Len(l[n]) = {}
    BY <1>1
<1> QED  BY <1>1, <1>2, <1>3 DEF Grows
-------------------------------------------------------------------------------
(* Type correctness, with the place of the goroutines that work on an event. *)
LEMMA StepNames ==
    /\ "off" \in Steps /\ "seed" \in Steps /\ "seedList" \in Steps
    /\ "seedCommit" \in Steps /\ "gen" \in Steps /\ "check" \in Steps
    /\ "rotate" \in Steps /\ "reset" \in Steps /\ "read" \in Steps
    /\ "list" \in Steps /\ "deliver" \in Steps /\ "report" \in Steps
    /\ "streak" \in Steps /\ "clear" \in Steps /\ "commit" \in Steps
    /\ "wait" \in Steps
BY DEF Steps

(* The goroutine that has exited.                                           *)
LEMMA OffType == /\ Off \in Goroutine /\ Off.pc \notin Works
                 /\ NotHeld \in [b : Incs \cup {0}, i : Nat, ok : SUBSET Channels]
BY DEF Off, NotHeld, Goroutine, Steps, Works

(* Between events a goroutine keeps its context, its id and what it holds.   *)
LEMMA IdleType ==
    ASSUME TypeOK, NEW d \in Slots
    PROVE  Idle(d) \in Goroutine /\ Idle(d).pc = "wait"
BY StepNames DEF Idle, Off, NotHeld, Goroutine, TypeOK

(* Going to another step keeps the rest of a goroutine.                     *)
LEMMA GoesType ==
    ASSUME TypeOK, NEW d \in Slots, NEW pc \in Steps
    PROVE  [disp[d] EXCEPT !.pc = pc] \in Goroutine
BY DEF Goroutine, TypeOK

(* Beginning an event: where the goroutine is.                              *)
LEMMA WorkingType ==
    ASSUME TypeOK, NEW d \in Slots, NEW n \in Incs, NEW k \in Nat, NEW last \in Nat
    PROVE  /\ Working(d, n, k, last) \in Goroutine
           /\ Working(d, n, k, last).pc = "deliver"
           /\ Working(d, n, k, last).b = n
           /\ Working(d, n, k, last).i = k
           /\ Working(d, n, k, last).upto = last
BY StepNames DEF Working, Goroutine, TypeOK

(* A step of dispatcher d that leaves it a well placed goroutine g.          *)
LEMMA Typed ==
    ASSUME TypeOK, Placed, NEW d \in Slots, NEW g \in Goroutine, Becomes(d, g),
           Grows(log, log'), cursor' \in [Incs -> Nat \cup {Absent}],
           aged' \in [Incs -> Nat], failing' \in [Incs -> BOOLEAN],
           g.pc \in Works => /\ g.b \in 1..inc /\ g.i \in 1..g.upto
                             /\ g.upto <= Len(log'[g.b])
    PROVE  TypeOK' /\ Placed'
<1>1. disp' = [disp EXCEPT ![d] = g] /\ UNCHANGED <<rowVars, active, envVars, cuts>>
    BY DEF Becomes
<1>2. TypeOK'
    BY <1>1 DEF TypeOK, Grows, rowVars, envVars, Live
<1>3. ASSUME NEW x \in Slots PROVE WorksOn(x)'
    <2>1. CASE x = d
        BY <1>1, <2>1 DEF WorksOn, TypeOK, rowVars
    <2>2. CASE x # d
        <3>1. disp'[x] = disp[x] /\ inc' = inc /\ inc \in 0..MaxInc
            BY <1>1, <2>2 DEF TypeOK, rowVars
        <3>2. disp[x].pc \in Works => disp[x].b \in Incs
            BY <3>1, DeliveryAssumption DEF Placed, WorksOn, Incs
        <3>3. \A n \in Incs : Len(log[n]) \in Nat /\ Len(log'[n]) \in Nat
                               /\ Len(log[n]) <= Len(log'[n])
            BY DEF Grows, TypeOK
        <3>4. disp[x].upto \in Nat
            BY DEF TypeOK, Goroutine
        <3> QED  BY <3>1, <3>2, <3>3, <3>4 DEF Placed, WorksOn
    <2> QED  BY <2>1, <2>2
<1> QED  BY <1>2, <1>3 DEF Placed

(* CommitCursor keeps the cursors typed.                                     *)
LEMMA CommitType ==
    ASSUME TypeOK, NEW pos \in Nat, CommitCursor(pos)
    PROVE  cursor' \in [Incs -> Nat \cup {Absent}]
BY DEF CommitCursor, TypeOK

(* Where a goroutine starts to look: the end of a log, or its cursor.        *)
LEMMA PositionType ==
    ASSUME TypeOK, Live
    PROVE  /\ inc \in Incs /\ LogEnd(inc) \in Nat /\ Start(inc) \in Nat
           /\ Len(log[inc]) \in Nat
<1>1. inc \in Incs
    BY DeliveryAssumption DEF TypeOK, Incs
<1>2. log[inc] \in Seq(Event) /\ Len(log[inc]) \in Nat
    BY <1>1 DEF TypeOK
<1> QED  BY <1>1, <1>2 DEF TypeOK, LogEnd, Start

(* The steps between events that leave the log alone.                        *)
LEMMA LoopTyped ==
    ASSUME TypeOK, Placed, NEW d \in Slots, Seed(d) \/ Loop(d) \/ Drain(d)
    PROVE  TypeOK' /\ Placed' /\ log' = log
<1> USE StepNames
<1>a. disp[d] \in Goroutine
    BY DEF TypeOK
<1>b. Grows(log, log)
    BY SameGrows DEF TypeOK
<1>c. /\ cursor \in [Incs -> Nat \cup {Absent}] /\ aged \in [Incs -> Nat]
      /\ failing \in [Incs -> BOOLEAN]
    BY DEF TypeOK
<1>d. ASSUME NEW pc \in Steps \ Works PROVE [disp[d] EXCEPT !.pc = pc].pc \notin Works
    BY <1>a DEF Goroutine
<1>e. /\ "gen" \notin Works /\ "seedList" \notin Works /\ "seedCommit" \notin Works
      /\ "check" \notin Works /\ "rotate" \notin Works /\ "wait" \notin Works
      /\ "reset" \notin Works /\ "read" \notin Works /\ "list" \notin Works
    BY DEF Works
<1>f. StreamID \in Incs \cup {0}
    BY PositionType DEF StreamID
<1>1. CASE SeedCheck(d)
    <2>1. PICK pc \in {"gen", "seedList"} : Goes(d, pc) /\ UNCHANGED logVars
        BY <1>1 DEF SeedCheck
    <2> QED  BY <1>a, <1>b, <1>c, <1>d, <1>e, <2>1, GoesType, Typed DEF Goes, logVars
<1>2. CASE SeedList(d)
    <2> DEFINE g == [disp[d] EXCEPT !.pc = "seedCommit",
                                    !.cur = IF Live THEN LogEnd(inc) ELSE 0]
    <2>1. g \in Goroutine /\ g.pc = "seedCommit"
        BY <1>a, PositionType DEF Goroutine
    <2> HIDE DEF g
    <2>2. Becomes(d, g) /\ UNCHANGED logVars
        BY <1>2 DEF SeedList, g
    <2> QED  BY <1>b, <1>c, <1>e, <2>1, <2>2, Typed DEF logVars
<1>3. CASE SeedCommit(d)
    <2> DEFINE g == [disp[d] EXCEPT !.pc = "gen", !.cur = 0]
    <2>1. g \in Goroutine /\ g.pc = "gen" /\ disp[d].cur \in Nat
        BY <1>a DEF Goroutine
    <2> HIDE DEF g
    <2>2. Becomes(d, g) /\ CommitCursor(disp[d].cur) /\ UNCHANGED <<log, aged, failing>>
        BY <1>3 DEF SeedCommit, g
    <2> QED  BY <1>b, <1>c, <1>e, <2>1, <2>2, CommitType, Typed
<1>4. CASE StartGen(d)
    <2> DEFINE g == [disp[d] EXCEPT !.pc = "check", !.gen = StreamID]
    <2>1. g \in Goroutine /\ g.pc = "check"
        BY <1>a, <1>f DEF Goroutine
    <2> HIDE DEF g
    <2>2. Becomes(d, g) /\ UNCHANGED logVars
        BY <1>4 DEF StartGen, g
    <2> QED  BY <1>b, <1>c, <1>e, <2>1, <2>2, Typed DEF logVars
<1>5. CASE Check(d) \/ Wake(d)
    <2>1. UNCHANGED logVars
        BY <1>5 DEF Check, Wake
    <2>2. CASE Becomes(d, Off)
        BY <1>b, <1>c, <2>1, <2>2, OffType, Typed DEF logVars
    <2>3. CASE \E pc \in {"rotate", "wait", "check"} : Goes(d, pc)
        BY <1>a, <1>b, <1>c, <1>d, <1>e, <2>1, <2>3, GoesType, Typed DEF Goes, logVars
    <2> QED  BY <1>5, <2>2, <2>3 DEF Check, Wake
<1>6. CASE Rotate(d)
    <2>1. UNCHANGED logVars
        BY <1>6 DEF Rotate
    <2>2. CASE Goes(d, "read")
        BY <1>a, <1>b, <1>c, <1>d, <1>e, <2>1, <2>2, GoesType, Typed DEF Goes, logVars
    <2> DEFINE g == [disp[d] EXCEPT !.pc = "reset", !.gen = StreamID]
    <2>3. g \in Goroutine /\ g.pc = "reset"
        BY <1>a, <1>f DEF Goroutine
    <2> HIDE DEF g
    <2>4. CASE Becomes(d, g)
        BY <1>b, <1>c, <1>e, <2>1, <2>3, <2>4, Typed DEF logVars
    <2> QED  BY <1>6, <2>2, <2>4 DEF Rotate, g
<1>7. CASE Reset(d)
    <2>1. Goes(d, "read") /\ CommitCursor(0) /\ UNCHANGED <<log, aged, failing>>
        BY <1>7 DEF Reset
    <2>2. cursor' \in [Incs -> Nat \cup {Absent}]
        BY <2>1, CommitType
    <2> QED  BY <1>a, <1>b, <1>c, <1>d, <1>e, <2>1, <2>2, GoesType, Typed DEF Goes
<1>8. CASE ReadCursor(d)
    <2> DEFINE g == [disp[d] EXCEPT !.pc = "list",
                                    !.cur = IF Live THEN Start(inc) ELSE 0]
    <2>1. g \in Goroutine /\ g.pc = "list"
        BY <1>a, PositionType DEF Goroutine
    <2> HIDE DEF g
    <2>2. Becomes(d, g) /\ UNCHANGED logVars
        BY <1>8 DEF ReadCursor, g
    <2> QED  BY <1>b, <1>c, <1>e, <2>1, <2>2, Typed DEF logVars
<1>9. CASE ListEvents(d)
    <2>1. UNCHANGED logVars
        BY <1>9 DEF ListEvents
    <2>2. CASE Becomes(d, Off)
        BY <1>b, <1>c, <2>1, <2>2, OffType, Typed DEF logVars
    <2>3. CASE Becomes(d, Idle(d))
        BY <1>b, <1>c, <1>e, <2>1, <2>3, IdleType, Typed DEF logVars
    <2> DEFINE first == IF disp[d].cur = 0 THEN 1 ELSE disp[d].cur
    <2>4. first \in Nat \ {0}
        BY <1>a DEF Goroutine
    <2> HIDE DEF first
    <2>5. CASE /\ Live /\ first <= Len(log[inc])
               /\ Becomes(d, Working(d, inc, first, Len(log[inc])))
        <3>1. inc \in Incs /\ Len(log[inc]) \in Nat /\ inc \in 1..inc
            BY <2>5, PositionType DEF Incs
        <3>2. first \in 1..Len(log[inc])
            BY <2>4, <2>5, <3>1
        <3> DEFINE g == Working(d, inc, first, Len(log[inc]))
        <3>3. /\ g \in Goroutine /\ g.b = inc /\ g.i = first
              /\ g.upto = Len(log[inc])
            BY <2>4, <3>1, WorkingType
        <3> HIDE DEF g
        <3>4. Becomes(d, g) /\ log' = log /\ cursor' = cursor /\ aged' = aged
              /\ failing' = failing
            BY <2>1, <2>5 DEF g, logVars
        <3> QED  BY <1>b, <1>c, <3>1, <3>2, <3>3, <3>4, Typed
    <2>6. Becomes(d, IF Live /\ first <= Len(log[inc])
                     THEN IF disp[d].gone THEN Off
                          ELSE Working(d, inc, first, Len(log[inc]))
                     ELSE Idle(d))
        BY <1>9 DEF ListEvents, first
    <2> QED  BY <2>2, <2>3, <2>5, <2>6
<1>10. CASE Commit(d)
    <2>1. /\ CommitCursor(disp[d].i + 1) /\ UNCHANGED <<log, aged, failing>>
          /\ At(d, "commit") /\ disp[d].i \in Nat /\ disp[d].upto \in Nat
        BY <1>a, <1>10 DEF Commit, Goroutine
    <2>2. cursor' \in [Incs -> Nat \cup {Absent}]
        BY <2>1, CommitType
    <2>3. CASE Becomes(d, Off)
        BY <1>b, <1>c, <2>1, <2>2, <2>3, OffType, Typed
    <2>4. CASE Becomes(d, Idle(d))
        BY <1>b, <1>c, <1>e, <2>1, <2>2, <2>4, IdleType, Typed
    <2>5. CASE /\ disp[d].i < disp[d].upto
               /\ Becomes(d, Working(d, disp[d].b, disp[d].i + 1, disp[d].upto))
        <3>1. /\ disp[d].b \in 1..inc /\ disp[d].upto <= Len(log[disp[d].b])
              /\ disp[d].b \in Incs
            BY <2>1, DeliveryAssumption DEF Placed, WorksOn, Works, At, TypeOK, Incs
        <3>2. disp[d].i + 1 \in 1..disp[d].upto /\ disp[d].i + 1 \in Nat
            BY <2>1, <2>5
        <3> DEFINE g == Working(d, disp[d].b, disp[d].i + 1, disp[d].upto)
        <3>3. /\ g \in Goroutine /\ g.b = disp[d].b /\ g.i = disp[d].i + 1
              /\ g.upto = disp[d].upto
            BY <2>1, <3>1, <3>2, WorkingType
        <3> HIDE DEF g
        <3>4. Becomes(d, g) /\ log' = log /\ aged' = aged /\ failing' = failing
            BY <2>1, <2>5 DEF g
        <3> QED  BY <1>b, <1>c, <2>2, <3>1, <3>2, <3>3, <3>4, Typed
    <2> QED  BY <1>10, <2>3, <2>4, <2>5 DEF Commit
<1>11. CASE Abort(d)
    BY <1>b, <1>c, <1>11, OffType, Typed DEF Abort, logVars
<1> QED  BY <1>1, <1>2, <1>3, <1>4, <1>5, <1>6, <1>7, <1>8, <1>9, <1>10, <1>11
            DEF Seed, Loop, Drain

(* The steps on an event: what they make of it is a later event, what they   *)
(* append is an untouched one.                                               *)
LEMMA EventType ==
    ASSUME NEW e \in Event, NEW c \in Channels
    PROVE  /\ TakenBy(c, e) \in Event /\ Later(e, TakenBy(c, e))
           /\ TakenBy(c, e).took[c] > 0
           /\ ToldOf(c, e) \in Event /\ Later(e, ToldOf(c, e))
           /\ c \in ToldOf(c, e).told
           /\ ErrorAbout(c, e) \in Event
           /\ \A x \in Channels : ErrorAbout(c, e).took[x] = 0
<1> DEFINE took == [e.took EXCEPT ![c] = @ + 1]
<1>1. /\ took \in [Channels -> Nat] /\ took[c] > 0
      /\ \A x \in Channels : e.took[x] <= took[x]
    BY DEF Event
<1>2. TakenBy(c, e) = [e EXCEPT !.took = took]
    BY DEF TakenBy
<1> HIDE DEF took
<1>3. /\ TakenBy(c, e) \in Event /\ Later(e, TakenBy(c, e))
      /\ TakenBy(c, e).took[c] > 0
    BY <1>1, <1>2 DEF Event, Later
<1>4. /\ ToldOf(c, e) \in Event /\ Later(e, ToldOf(c, e))
      /\ c \in ToldOf(c, e).told
    BY DEF ToldOf, Event, Later
<1>5. /\ ErrorAbout(c, e) \in Event
      /\ \A x \in Channels : ErrorAbout(c, e).took[x] = 0
    BY DEF ErrorAbout, Message, Event
<1> QED  BY <1>3, <1>4, <1>5

(* A goroutine at work has its event in its log.                             *)
LEMMA CurrentType ==
    ASSUME TypeOK, Placed, NEW d \in Slots, disp[d].pc \in Works
    PROVE  /\ disp[d].b \in Incs /\ disp[d].i \in 1..Len(log[disp[d].b])
           /\ Current(d) \in Event /\ disp[d].i \in Nat /\ disp[d].upto \in Nat
<1>1. disp[d].b \in Incs /\ disp[d].i \in Nat /\ disp[d].upto \in Nat
    BY DeliveryAssumption DEF Placed, WorksOn, TypeOK, Incs, Goroutine
<1>2. log[disp[d].b] \in Seq(Event) /\ Len(log[disp[d].b]) \in Nat
    BY <1>1 DEF TypeOK
<1>3. disp[d].i \in 1..Len(log[disp[d].b])
    BY <1>1, <1>2 DEF Placed, WorksOn
<1> QED  BY <1>1, <1>2, <1>3 DEF Current

(* The same goroutine, at work on the same event of a log that has grown.    *)
LEMMA StaysTyped ==
    ASSUME TypeOK, Placed, NEW d \in Slots, disp[d].pc \in Works,
           NEW g \in Goroutine, g.b = disp[d].b, g.i = disp[d].i, g.upto = disp[d].upto,
           Becomes(d, g), Grows(log, log'), cursor' = cursor, aged' = aged,
           failing' \in [Incs -> BOOLEAN]
    PROVE  TypeOK' /\ Placed'
<1>1. /\ cursor' \in [Incs -> Nat \cup {Absent}] /\ aged' \in [Incs -> Nat]
    BY DEF TypeOK
<1>2. /\ g.b \in 1..inc /\ g.i \in 1..g.upto /\ g.b \in Incs /\ g.upto \in Nat
      /\ g.upto <= Len(log[g.b])
    BY CurrentType DEF Placed, WorksOn
<1>3. Len(log[g.b]) \in Nat /\ Len(log'[g.b]) \in Nat /\ Len(log[g.b]) <= Len(log'[g.b])
    BY <1>2 DEF Grows, TypeOK
<1> QED  BY <1>1, <1>2, <1>3, Typed

(* The steps on an event keep the types and grow the log.                   *)
LEMMA ProcessTyped ==
    ASSUME TypeOK, Placed, NEW d \in Slots, Process(d)
    PROVE  TypeOK' /\ Placed' /\ Grows(log, log')
<1> USE StepNames
<1>a. disp[d] \in Goroutine
    BY DEF TypeOK
<1>b. Grows(log, log)
    BY SameGrows DEF TypeOK
<1>c. failing \in [Incs -> BOOLEAN] /\ log \in [Incs -> Seq(Event)]
    BY DEF TypeOK
<1>d. disp[d].pc \in Works
    BY DEF Process, Deliver, Fail, ReportFailure, AllDelivered, HoldEvent, GiveUp,
           RecordStreak, Processed, At, Works
<1>e. /\ disp[d].b \in Incs /\ disp[d].i \in 1..Len(log[disp[d].b])
      /\ Current(d) \in Event
    BY <1>d, CurrentType
<1>1. ASSUME NEW c \in Channels, Deliver(d, c)
      PROVE  TypeOK' /\ Placed' /\ Grows(log, log')
    <2> DEFINE g == [disp[d] EXCEPT !.ok = @ \cup {c}]
    <2>1. /\ g \in Goroutine /\ g.b = disp[d].b /\ g.i = disp[d].i
          /\ g.upto = disp[d].upto
        BY <1>a DEF Goroutine
    <2>2. TakenBy(c, Current(d)) \in Event /\ Later(Current(d), TakenBy(c, Current(d)))
        BY <1>e, EventType
    <2> HIDE DEF g
    <2>3. /\ Becomes(d, g) /\ UNCHANGED <<cursor, aged, failing>>
          /\ log' = [log EXCEPT ![disp[d].b][disp[d].i] = TakenBy(c, Current(d))]
        BY <1>1 DEF Deliver, g
    <2>4. Grows(log, log')
        BY <1>c, <1>e, <2>2, <2>3, RewriteGrows DEF Current
    <2> QED  BY <1>c, <1>d, <2>1, <2>3, <2>4, StaysTyped
<1>2. ASSUME NEW c \in Channels, Fail(d, c)
      PROVE  TypeOK' /\ Placed' /\ Grows(log, log')
    <2>1. PICK unsent \in BOOLEAN :
              Becomes(d, [disp[d] EXCEPT !.bad = @ \cup {c}, !.unsent = @ \/ unsent])
        BY <1>2 DEF Fail
    <2> DEFINE g == [disp[d] EXCEPT !.bad = @ \cup {c}, !.unsent = @ \/ unsent]
    <2>2. /\ g \in Goroutine /\ g.b = disp[d].b /\ g.i = disp[d].i
          /\ g.upto = disp[d].upto
        BY <1>a DEF Goroutine
    <2> HIDE DEF g
    <2>3. Becomes(d, g) /\ UNCHANGED logVars
        BY <1>2, <2>1 DEF Fail, g
    <2> QED  BY <1>b, <1>c, <1>d, <2>2, <2>3, StaysTyped DEF logVars
<1>3. ASSUME NEW c \in Channels, ReportFailure(d, c)
      PROVE  TypeOK' /\ Placed' /\ Grows(log, log')
    <2> DEFINE g == [disp[d] EXCEPT !.bad = @ \ {c},
                         !.pc = IF disp[d].bad = {c} THEN "streak" ELSE "report"]
    <2>1. /\ g \in Goroutine /\ g.b = disp[d].b /\ g.i = disp[d].i
          /\ g.upto = disp[d].upto
        BY <1>a DEF Goroutine
    <2> HIDE DEF g
    <2>2. Becomes(d, g) /\ UNCHANGED <<cursor, aged, failing>>
        BY <1>3 DEF ReportFailure, g
    <2>3. CASE UNCHANGED log
        BY <1>b, <1>c, <1>d, <2>1, <2>2, <2>3, StaysTyped
    <2>4. CASE Live /\ ~disp[d].gone
        <3> DEFINE told == [log EXCEPT ![disp[d].b][disp[d].i] = ToldOf(c, Current(d))]
        <3>1. /\ ToldOf(c, Current(d)) \in Event
              /\ Later(Current(d), ToldOf(c, Current(d)))
              /\ ErrorAbout(c, Current(d)) \in Event
              /\ \A x \in Channels : ErrorAbout(c, Current(d)).took[x] = 0
            BY <1>e, EventType
        <3>2. /\ Grows(log, told) /\ told \in [Incs -> Seq(Event)]
              /\ \A n \in Incs : Len(told[n]) = Len(log[n])
            <4>1. Later(log[disp[d].b][disp[d].i], ToldOf(c, Current(d)))
                BY <3>1 DEF Current
            <4>2. /\ Grows(log, told)
                  /\ \A n \in Incs : Len(told[n]) = Len(log[n])
                <5> DEFINE b == disp[d].b
                           i == disp[d].i
                           e == ToldOf(c, Current(d))
                <5>1. /\ b \in Incs /\ i \in 1..Len(log[b]) /\ e \in Event
                      /\ Later(log[b][i], e) /\ told = [log EXCEPT ![b][i] = e]
                    BY <1>e, <3>1, <4>1
                <5> HIDE DEF b, i, e, told
                <5>2. Grows(log, told)
                    BY <1>c, <5>1, RewriteGrows
                <5>3. \A n \in Incs : Len(told[n]) = Len(log[n])
                    BY <1>c, <5>1, RewriteGrows
                <5> QED  BY <5>2, <5>3
            <4> QED  BY <4>2 DEF Grows
        <3>3. log' = [told EXCEPT ![inc] = Append(@, ErrorAbout(c, Current(d)))]
            BY <1>3, <2>4 DEF ReportFailure
        <3> HIDE DEF told
        <3>4. Grows(told, log')
            BY <2>4, <3>1, <3>2, <3>3, PositionType, AppendGrows
        <3>5. Grows(log, log')
            BY <1>c, <3>2, <3>4, GrowsAgain
        <3> QED  BY <1>c, <1>d, <2>1, <2>2, <3>5, StaysTyped
    <2> QED  BY <1>3, <2>3, <2>4 DEF ReportFailure
<1>4. CASE AllDelivered(d)
    <2> DEFINE g == [disp[d] EXCEPT !.held = NotHeld,
                         !.pc = IF Targets(Current(d)) = {} THEN "commit" ELSE "clear"]
    <2>1. /\ g \in Goroutine /\ g.b = disp[d].b /\ g.i = disp[d].i
          /\ g.upto = disp[d].upto
        BY <1>a, OffType DEF Goroutine
    <2> HIDE DEF g
    <2>2. Becomes(d, g) /\ UNCHANGED logVars
        BY <1>4 DEF AllDelivered, g
    <2> QED  BY <1>b, <1>c, <1>d, <2>1, <2>2, StaysTyped DEF logVars
<1>5. CASE HoldEvent(d)
    <2> DEFINE g == [Idle(d) EXCEPT
                         !.held = [b |-> disp[d].b, i |-> disp[d].i, ok |-> disp[d].ok]]
    <2>1. g \in Goroutine /\ g.pc \notin Works
        BY <1>a, IdleType DEF Goroutine, Works
    <2> HIDE DEF g
    <2>2. Becomes(d, g) /\ UNCHANGED logVars
        BY <1>5 DEF HoldEvent, g
    <2>3. /\ log' = log /\ cursor' \in [Incs -> Nat \cup {Absent}]
          /\ aged' \in [Incs -> Nat] /\ failing' \in [Incs -> BOOLEAN]
        BY <2>2 DEF logVars, TypeOK
    <2> QED  BY <1>b, <2>1, <2>2, <2>3, Typed
<1>6. CASE GiveUp(d)
    <2> DEFINE g == [disp[d] EXCEPT !.pc = "report", !.held = NotHeld]
    <2>1. /\ g \in Goroutine /\ g.b = disp[d].b /\ g.i = disp[d].i
          /\ g.upto = disp[d].upto
        BY <1>a, OffType DEF Goroutine
    <2> HIDE DEF g
    <2>2. Becomes(d, g) /\ UNCHANGED logVars
        BY <1>6 DEF GiveUp, g
    <2> QED  BY <1>b, <1>c, <1>d, <2>1, <2>2, StaysTyped DEF logVars
<1>7. CASE RecordStreak(d)
    <2>1. failing' \in [Incs -> BOOLEAN] /\ UNCHANGED <<log, cursor, aged>>
        BY <1>7, <1>c DEF RecordStreak, At
    <2>2. CASE Becomes(d, Off)
        BY <1>b, <2>1, <2>2, OffType, Typed DEF TypeOK
    <2> DEFINE g == [disp[d] EXCEPT !.pc = "commit"]
    <2>3. /\ g \in Goroutine /\ g.b = disp[d].b /\ g.i = disp[d].i
          /\ g.upto = disp[d].upto
        BY <1>a DEF Goroutine
    <2> HIDE DEF g
    <2>4. CASE Becomes(d, g)
        BY <1>b, <1>d, <2>1, <2>3, <2>4, StaysTyped
    <2> QED  BY <1>7, <2>2, <2>4 DEF RecordStreak, Goes, g
<1> QED  BY <1>1, <1>2, <1>3, <1>4, <1>5, <1>6, <1>7 DEF Process

(* So does every step of a dispatcher.                                      *)
LEMMA DispatcherTyped ==
    ASSUME TypeOK, Placed, NEW d \in Slots, Dispatcher(d)
    PROVE  TypeOK' /\ Placed' /\ Grows(log, log')
<1>1. Grows(log, log)
    BY SameGrows DEF TypeOK
<1> QED  BY <1>1, LoopTyped, ProcessTyped DEF Dispatcher

(* A step that only lets the log grow, mints incarnations, or starts, cancels *)
(* or kills goroutines leaves those at work in their place.                  *)
LEMMA PlacedStays ==
    ASSUME TypeOK, Placed, Grows(log, log'), inc' \in Nat, inc <= inc',
           \A d \in Slots : \/ disp'[d].pc \notin Works
                            \/ /\ disp'[d].pc = disp[d].pc /\ disp'[d].b = disp[d].b
                               /\ disp'[d].i = disp[d].i
                               /\ disp'[d].upto = disp[d].upto
    PROVE  Placed'
<1> SUFFICES ASSUME NEW d \in Slots, disp'[d].pc \in Works PROVE WorksOn(d)'
    BY DEF Placed, WorksOn
<1>1. /\ disp[d].pc \in Works /\ disp'[d].b = disp[d].b
      /\ disp'[d].i = disp[d].i /\ disp'[d].upto = disp[d].upto
    OBVIOUS
<1>2. /\ disp[d].b \in 1..inc /\ disp[d].i \in 1..disp[d].upto /\ disp[d].b \in Incs
      /\ disp[d].upto <= Len(log[disp[d].b]) /\ disp[d].upto \in Nat /\ inc \in Nat
    BY <1>1, CurrentType DEF Placed, WorksOn, TypeOK
<1>3. /\ Len(log[disp[d].b]) \in Nat /\ Len(log'[disp[d].b]) \in Nat
      /\ Len(log[disp[d].b]) <= Len(log'[disp[d].b])
    BY <1>2 DEF Grows, TypeOK
<1> QED  BY <1>1, <1>2, <1>3 DEF WorksOn

(* And the commands.                                                        *)
LEMMA CommandsTyped ==
    ASSUME TypeOK, Placed, Commands
    PROVE  TypeOK' /\ Placed' /\ Grows(log, log')
<1>a. Grows(log, log) /\ inc \in Nat /\ MaxInc \in Nat /\ disp \in [Slots -> Goroutine]
    BY SameGrows, DeliveryAssumption DEF TypeOK
<1>b. \A f \in BOOLEAN : Message(f) \in Event /\ \A c \in Channels : Message(f).took[c] = 0
    BY DEF Message, Event
<1>1. CASE Create
    <2>1. /\ UNCHANGED <<born, logVars, disp, active, envVars, cuts>>
          /\ inc' = inc + 1 /\ inc < MaxInc /\ row' = "put"
        BY <1>1 DEF Create
    <2>2. TypeOK'
        BY <1>a, <2>1 DEF TypeOK, Rows, Live, logVars, envVars
    <2>3. Placed'
        BY <1>a, <2>1, PlacedStays DEF logVars
    <2> QED  BY <1>a, <2>1, <2>2, <2>3 DEF logVars
<1>2. CASE SeedBirth \/ RetryCreate \/ Up \/ Down \/ Destroy
    <2>1. /\ log' = log /\ inc' = inc /\ disp' = disp
        BY <1>2 DEF SeedBirth, RetryCreate, Up, Down, Destroy, logVars
    <2>2. Placed'
        BY <1>a, <2>1, PlacedStays
    <2>3. TypeOK'
        <3>1. CASE SeedBirth
            <4>1. inc \in Incs /\ LogEnd(inc) \in Nat
                BY <3>1, PositionType DEF SeedBirth, Live
            <4>2. /\ cursor' \in [Incs -> Nat \cup {Absent}]
                  /\ born' \in [Incs -> Nat \cup {Absent}]
                BY <3>1, <4>1 DEF SeedBirth, TypeOK
            <4> QED  BY <3>1, <4>1, <4>2 DEF SeedBirth, TypeOK, Rows, Live, envVars
        <3>2. CASE RetryCreate \/ Up
            BY <3>2 DEF RetryCreate, Up, TypeOK, Rows, Live, logVars, envVars
        <3>3. CASE Down \/ Destroy
            BY <3>3 DEF Down, Destroy, Move, TypeOK, Rows, Live, logVars
        <3> QED  BY <1>2, <3>1, <3>2, <3>3
    <2> QED  BY <1>a, <2>1, <2>2, <2>3
<1>3. CASE Instruct \/ Publish
    <2>1. PICK f \in BOOLEAN : AppendEvent(Message(f))
        BY <1>3 DEF Instruct, Publish
    <2>2. /\ Live /\ inc' = inc /\ born' = born /\ row' \in Rows /\ row' # "none"
          /\ sent' = sent + 1
          /\ UNCHANGED <<cursor, aged, failing, disp, active, broken, moves, cuts>>
        BY <1>3 DEF Instruct, Publish, Live, Rows, rowVars, TypeOK
    <2>3. Grows(log, log')
        BY <1>b, <2>1, <2>2, PositionType, AppendGrows DEF AppendEvent, TypeOK
    <2>4. Placed'
        BY <1>a, <2>2, <2>3, PlacedStays
    <2>5. TypeOK'
        BY <2>2, <2>3 DEF TypeOK, Grows, Live
    <2> QED  BY <2>3, <2>4, <2>5
<1> QED  BY <1>1, <1>2, <1>3 DEF Commands

(* What is left does not touch the log.                                     *)
LEMMA WorldTyped ==
    ASSUME TypeOK, Placed, World \/ Reconcile \/ UNCHANGED vars
    PROVE  TypeOK' /\ Placed' /\ log' = log
<1>a. Grows(log, log) /\ inc \in Nat
    BY SameGrows, DeliveryAssumption DEF TypeOK
<1>b. disp \in [Slots -> Goroutine]
    BY DEF TypeOK
<1>1. CASE Age \/ \E c \in Fragile : Break(c) \/ Mend(c)
    <2>1. log' = log /\ inc' = inc /\ disp' = disp
        BY <1>1 DEF Age, Break, Mend, rowVars, logVars
    <2>2. Placed'
        BY <1>a, <2>1, PlacedStays
    <2>3. CASE Age
        <3>1. PICK d \in Slots : aged' = [aged EXCEPT ![disp[d].held.b] = disp[d].held.i]
            BY <2>3 DEF Age
        <3>2. disp[d].held.i \in Nat
            BY <1>b DEF Goroutine
        <3>3. aged' \in [Incs -> Nat]
            BY <3>1, <3>2 DEF TypeOK
        <3> QED  BY <2>1, <2>2, <2>3, <3>3 DEF Age, TypeOK, Live, rowVars, envVars
    <2>4. CASE \E c \in Fragile : Break(c) \/ Mend(c)
        <3>1. /\ UNCHANGED <<rowVars, logVars, disp, active, sent, cuts>>
              /\ moves' \in Nat /\ broken' \subseteq Channels
            <4>1. CASE \E c \in Fragile : Break(c)
                BY <4>1, DeliveryAssumption DEF Break, Move, TypeOK
            <4>2. CASE \E c \in Fragile : Mend(c)
                BY <4>2, DeliveryAssumption DEF Mend, TypeOK
            <4> QED  BY <2>4, <4>1, <4>2
        <3>2. TypeOK'
            BY <3>1 DEF TypeOK, Live, rowVars, logVars
        <3> QED  BY <2>1, <2>2, <3>2
    <2> QED  BY <1>1, <2>3, <2>4
<1>2. CASE ServeDies
    <2>1. /\ disp' = [d \in Slots |-> Off] /\ active' = Nobody /\ cuts' = cuts + 1
          /\ moves' = moves + 1 /\ UNCHANGED <<rowVars, logVars, broken, sent>>
        BY <1>2 DEF ServeDies, Move
    <2>2. Placed'
        BY <1>a, <2>1, OffType, PlacedStays DEF rowVars, logVars
    <2> QED  BY <2>1, <2>2, OffType DEF TypeOK, Live, rowVars, logVars
<1>3. ASSUME NEW d \in Slots, StartDispatcher(d)
      PROVE  TypeOK' /\ Placed' /\ log' = log
    <2> DEFINE g == [Off EXCEPT !.pc = "seed"]
    <2>1. g \in Goroutine /\ g.pc \notin Works
        BY DEF Off, NotHeld, Goroutine, Steps, Works
    <2> HIDE DEF g
    <2>2. /\ disp' = [disp EXCEPT ![d] = g] /\ active' = d
          /\ UNCHANGED <<rowVars, logVars, envVars, cuts>>
        BY <1>3 DEF StartDispatcher, g
    <2>3. Placed'
        BY <1>a, <1>b, <2>1, <2>2, PlacedStays DEF rowVars, logVars
    <2> QED  BY <2>1, <2>2, <2>3 DEF TypeOK, Live, rowVars, logVars, envVars
<1>4. CASE CancelDispatcher
    <2>1. /\ active' = Nobody /\ UNCHANGED <<rowVars, logVars, envVars>>
          /\ active \in Slots
        BY <1>4 DEF CancelDispatcher, TypeOK
    <2>2. CASE UNCHANGED <<disp, cuts>>
        <3>1. Placed'
            BY <1>a, <2>1, <2>2, PlacedStays DEF rowVars, logVars
        <3> QED  BY <2>1, <2>2, <3>1 DEF TypeOK, Live, rowVars, logVars, envVars
    <2>3. CASE disp' = [disp EXCEPT ![active].gone = TRUE] /\ cuts' = cuts + 1
        <3> DEFINE g == [disp[active] EXCEPT !.gone = TRUE]
        <3>1. /\ g \in Goroutine /\ g.pc = disp[active].pc /\ g.b = disp[active].b
              /\ g.i = disp[active].i /\ g.upto = disp[active].upto
            BY <1>b, <2>1 DEF Goroutine
        <3> HIDE DEF g
        <3>2. disp' = [disp EXCEPT ![active] = g]
            BY <2>3 DEF g
        <3>3. Placed'
            BY <1>a, <1>b, <2>1, <3>1, <3>2, PlacedStays DEF rowVars, logVars
        <3>4. disp' \in [Slots -> Goroutine]
            BY <1>b, <3>1, <3>2
        <3>5. TypeOK'
            <4>1. cuts' \in Nat
                BY <2>3 DEF TypeOK
            <4> QED  BY <2>1, <3>4, <4>1 DEF TypeOK, Live, rowVars, logVars, envVars
        <3> QED  BY <2>1, <3>3, <3>5 DEF logVars
    <2> QED  BY <1>4, <2>2, <2>3 DEF CancelDispatcher
<1>5. CASE UNCHANGED vars
    BY <1>5 DEF vars, rowVars, logVars, envVars, TypeOK, Placed, WorksOn, Live
<1> QED  BY <1>1, <1>2, <1>3, <1>4, <1>5 DEF World, Reconcile

(* Types and places are inductive, and no step shrinks a log.               *)
LEMMA TypedStep ==
    ASSUME TypeOK, Placed, [Next]_vars
    PROVE  TypeOK' /\ Placed' /\ Grows(log, log')
<1>1. Grows(log, log)
    BY SameGrows DEF TypeOK
<1> QED  BY <1>1, CommandsTyped, WorldTyped, DispatcherTyped DEF Next

(* They hold initially.                                                     *)
LEMMA InitTyped == Init => TypeOK /\ Placed
<1> SUFFICES ASSUME Init PROVE TypeOK /\ Placed
    OBVIOUS
<1>1. \A d \in Slots : disp[d] = Off
    BY DEF Init
<1>2. log \in [Incs -> Seq(Event)]
    BY DEF Init
<1>3. TypeOK
    BY <1>2, OffType, DeliveryAssumption DEF Init, TypeOK, Rows, Live
<1> QED  BY <1>1, <1>3, OffType DEF Placed, WorksOn

(* Every reachable state is typed: in particular a goroutine at work always  *)
(* has its event in the log it listed, whatever became of the session.       *)
THEOREM TypeCorrect == Spec => []TypeOK
<1>1. Init => TypeOK /\ Placed
    BY InitTyped
<1>2. TypeOK /\ Placed /\ [Next]_vars => TypeOK' /\ Placed'
    BY TypedStep
<1> QED  BY <1>1, <1>2, PTL DEF Spec
-------------------------------------------------------------------------------
(* A step of a dispatcher is one of a running goroutine; it keeps whether    *)
(* its context is cancelled, or exits, and concerns no other.                *)
LEMMA KeepsContext ==
    ASSUME TypeOK, NEW d \in Slots, Dispatcher(d)
    PROVE  /\ Running(d) /\ active' = active
           /\ \A x \in Slots \ {d} : disp'[x] = disp[x]
           /\ disp'[d].pc = "off" \/ disp'[d].gone = disp[d].gone
<1>a. disp[d] \in Goroutine /\ disp \in [Slots -> Goroutine]
    BY DEF TypeOK
<1>b. \A n, k, last : Working(d, n, k, last).gone = disp[d].gone
    BY <1>a DEF Working, Goroutine
<1>c. Idle(d).gone = disp[d].gone /\ Off.pc = "off"
    BY DEF Idle, Off
<1>d. ASSUME NEW g, Becomes(d, g), g.pc = "off" \/ g.gone = disp[d].gone
      PROVE  /\ active' = active
             /\ disp'[d].pc = "off" \/ disp'[d].gone = disp[d].gone
             /\ \A x \in Slots \ {d} : disp'[x] = disp[x]
    BY <1>a, <1>d DEF Becomes
<1>e. ASSUME NEW pc, Goes(d, pc)
      PROVE  /\ active' = active
             /\ disp'[d].pc = "off" \/ disp'[d].gone = disp[d].gone
             /\ \A x \in Slots \ {d} : disp'[x] = disp[x]
    <2>1. [disp[d] EXCEPT !.pc = pc].gone = disp[d].gone
        BY <1>a DEF Goroutine
    <2> QED  BY <1>d, <1>e, <2>1 DEF Goes
<1>1. CASE Seed(d)
    <2>1. CASE SeedCheck(d)
        BY <1>e, <2>1 DEF SeedCheck, Running, At
    <2>2. CASE SeedList(d)
        BY <1>a, <1>d, <2>2 DEF SeedList, Running, At, Goroutine
    <2>3. CASE SeedCommit(d)
        BY <1>a, <1>d, <2>3 DEF SeedCommit, Running, At, Goroutine
    <2>4. CASE StartGen(d)
        BY <1>a, <1>d, <2>4 DEF StartGen, Running, At, Goroutine
    <2> QED  BY <1>1, <2>1, <2>2, <2>3, <2>4 DEF Seed
<1>2. CASE Loop(d)
    BY <1>2, <1>c, <1>d, <1>e DEF Loop, Check, Wake, Running, At
<1>3. CASE Drain(d)
    <2>1. CASE Rotate(d)
        BY <1>a, <1>d, <1>e, <2>1 DEF Rotate, Running, At, Goroutine
    <2>2. CASE Reset(d)
        BY <1>e, <2>2 DEF Reset, Running, At
    <2>3. CASE ReadCursor(d)
        BY <1>a, <1>d, <2>3 DEF ReadCursor, Running, At, Goroutine
    <2>4. CASE ListEvents(d)
        BY <1>b, <1>c, <1>d, <2>4 DEF ListEvents, Running, At
    <2>5. CASE Commit(d)
        BY <1>b, <1>c, <1>d, <2>5 DEF Commit, Running, At
    <2>6. CASE Abort(d)
        BY <1>c, <1>d, <2>6 DEF Abort, Running
    <2> QED  BY <1>3, <2>1, <2>2, <2>3, <2>4, <2>5, <2>6 DEF Drain
<1>4. CASE Process(d)
    <2>1. ASSUME NEW c \in Channels, Deliver(d, c)
          PROVE  [disp[d] EXCEPT !.ok = @ \cup {c}].gone = disp[d].gone
        BY <1>a DEF Goroutine
    <2>2. CASE \E c \in Channels : Deliver(d, c)
        BY <1>d, <2>1, <2>2 DEF Deliver, Running, At
    <2>3. CASE \E c \in Channels : Fail(d, c)
        BY <1>a, <1>d, <2>3 DEF Fail, Running, At, Goroutine
    <2>4. CASE \E c \in Channels : ReportFailure(d, c)
        BY <1>a, <1>d, <2>4 DEF ReportFailure, Running, At, Goroutine
    <2>5. CASE AllDelivered(d)
        BY <1>a, <1>d, <2>5 DEF AllDelivered, Processed, Running, At, Goroutine
    <2>6. CASE HoldEvent(d)
        BY <1>a, <1>d, <2>6 DEF HoldEvent, Processed, Running, At, Idle, Off
    <2>7. CASE GiveUp(d)
        BY <1>a, <1>d, <2>7 DEF GiveUp, Processed, Running, At, Goroutine
    <2>8. CASE RecordStreak(d)
        BY <1>c, <1>d, <1>e, <2>8 DEF RecordStreak, Running
    <2> QED  BY <1>4, <2>2, <2>3, <2>4, <2>5, <2>6, <2>7, <2>8 DEF Process
<1> QED  BY <1>1, <1>2, <1>3, <1>4 DEF Dispatcher

(* OneUncancelled is inductive: reconcile starts a goroutine only without an *)
(* entry, and forgets an entry only together with cancelling its goroutine.  *)
LEMMA OneUncancelledStep ==
    ASSUME TypeOK, OneUncancelled, [Next]_vars
    PROVE  OneUncancelled'
<1>a. /\ disp \in [Slots -> Goroutine] /\ active \in Slots \cup {Nobody}
      /\ Nobody \notin Slots
    BY DeliveryAssumption DEF TypeOK, Nobody
<1>1. CASE UNCHANGED <<disp, active>>
    BY <1>1 DEF OneUncancelled, Running
<1>2. CASE ServeDies
    BY <1>2 DEF ServeDies, OneUncancelled, Running, Off
<1>3. ASSUME NEW d \in Slots, StartDispatcher(d) PROVE OneUncancelled'
    <2>1. /\ disp' = [disp EXCEPT ![d] = [Off EXCEPT !.pc = "seed"]] /\ active' = d
          /\ active = Nobody
        BY <1>3 DEF StartDispatcher
    <2> QED  BY <1>a, <2>1 DEF OneUncancelled, Running
<1>4. CASE CancelDispatcher
    <2>1. active' = Nobody /\ active \in Slots
        BY <1>a, <1>4 DEF CancelDispatcher
    <2>2. CASE Running(active)
        <3> DEFINE g == [disp[active] EXCEPT !.gone = TRUE]
        <3>1. g.gone = TRUE
            BY <1>a, <2>1 DEF Goroutine
        <3> HIDE DEF g
        <3>2. disp' = [disp EXCEPT ![active] = g]
            BY <1>4, <2>2 DEF CancelDispatcher, g
        <3> QED  BY <1>a, <2>1, <3>1, <3>2 DEF OneUncancelled, Running
    <2>3. CASE ~Running(active)
        BY <1>4, <2>1, <2>3 DEF CancelDispatcher, OneUncancelled, Running
    <2> QED  BY <2>2, <2>3
<1>5. ASSUME NEW d \in Slots, Dispatcher(d) PROVE OneUncancelled'
    BY <1>5, KeepsContext DEF OneUncancelled, Running
<1>6. CASE Commands \/ Age \/ \E c \in Fragile : Break(c) \/ Mend(c)
    BY <1>1, <1>6 DEF Commands, Create, SeedBirth, RetryCreate, Instruct, Publish, Up,
           Down, Destroy, Age, Break, Mend
<1>7. CASE UNCHANGED vars
    BY <1>1, <1>7 DEF vars
<1> QED  BY <1>2, <1>3, <1>4, <1>5, <1>6, <1>7 DEF Next, World, Reconcile

(* However often a session goes down and up, and however late its cancelled  *)
(* dispatchers notice, at most one dispatcher of the name is not cancelled,  *)
(* and it is the one the supervisor can still cancel.                        *)
THEOREM AtMostOneUncancelled == Spec => []OneUncancelled
<1>1. Init => OneUncancelled
    BY DEF Init, OneUncancelled, Running, Off
<1>2. TypeOK /\ OneUncancelled /\ [Next]_vars => OneUncancelled'
    BY OneUncancelledStep
<1> QED  BY <1>1, <1>2, TypeCorrect, PTL DEF Spec
-------------------------------------------------------------------------------
(* NothingSkipped and InOrder.  s is the log of the first incarnation, a the *)
(* place where its creator seeded the cursor.                                *)

(* Everything before position p that is delivered at all is settled.         *)
UpTo(p, s, a) == /\ p <= Len(s) + 1
                 /\ \A k \in 1..Len(s) : a <= k /\ k < p => Settled(s[k])

(* The channels a held event is remembered to have do have it.               *)
HeldRight(h, s) == \/ h.b = 0
                   \/ /\ h.b = 1 /\ h.i \in 1..Len(s)
                      /\ \A c \in h.ok : s[h.i].took[c] > 0

(* What a goroutine knows of the event it works on.                          *)
EventRight(g, s, a) ==
    /\ g.i \in 1..Len(s) /\ UpTo(g.i, s, a)
    /\ \A c \in g.ok : s[g.i].took[c] > 0
    /\ g.pc = "report" /\ ~g.gone =>
           \A c \in Targets(s[g.i]) :
               c \in g.bad \/ s[g.i].took[c] > 0 \/ c \in s[g.i].told
    /\ g.pc = "streak" /\ ~g.gone => Settled(s[g.i])
    /\ g.pc \in {"clear", "commit"} => Settled(s[g.i])

(* A goroutine that does not seed or reset, and whose view of the log is     *)
(* behind what has been settled.                                             *)
OnTrack(g, s, a) == /\ g.pc \notin {"seedList", "seedCommit", "reset"}
                    /\ g.gen \in {0, 1}
                    /\ HeldRight(g.held, s)
                    /\ g.pc = "list" => UpTo(g.cur, s, a)
                    /\ g.pc \in Works => EventRight(g, s, a)

(* InOrder of a log.                                                         *)
Ordered(s, a) ==
    \A k \in 1..Len(s) : \A j \in 1..(k - 1) : \A c \in Channels :
        a <= j /\ s[k].took[c] > 0 /\ c \in Targets(s[j])
            => s[j].took[c] > 0 \/ c \in s[j].told

(* Until its first creator seeds it, a name has no cursor and no dispatcher. *)
Unborn == inc = 0 \/ (inc = 1 /\ row = "put")
Quiet  == Unborn => /\ cursor[1] = Absent /\ born[1] = Absent
                    /\ \A d \in Slots : disp[d] = Off

Safe == Plain => /\ cursor[1] # Absent /\ UpTo(cursor[1], log[1], born[1])
                 /\ \A d \in Slots : OnTrack(disp[d], log[1], born[1])
                 /\ Ordered(log[1], born[1])

(* One log growing to another, as in Grows.                                  *)
Grown(s, t) == /\ s \in Seq(Event) /\ t \in Seq(Event)
               /\ Len(s) \in Nat /\ Len(t) \in Nat /\ Len(s) <= Len(t)
               /\ \A k \in 1..Len(s) : /\ s[k] \in Event /\ t[k] \in Event
                                       /\ Later(s[k], t[k])
               /\ \A k \in (Len(s) + 1)..Len(t) : \A c \in Channels : t[k].took[c] = 0

(* Grows of all logs is Grown of the first.                                  *)
LEMMA FirstGrown ==
    ASSUME NEW l \in [Incs -> Seq(Event)], NEW m, Grows(l, m)
    PROVE  Grown(l[1], m[1])
<1>1. 1 \in Incs
    BY DeliveryAssumption DEF Incs
<1>2. l[1] \in Seq(Event) /\ m[1] \in Seq(Event)
    BY <1>1 DEF Grows
<1>3. Len(l[1]) \in Nat /\ Len(m[1]) \in Nat /\ Len(l[1]) <= Len(m[1])
    BY <1>1, <1>2 DEF Grows
<1>4. \A k \in 1..Len(l[1]) : l[1][k] \in Event /\ m[1][k] \in Event
    BY <1>2, <1>3
<1> QED  BY <1>1, <1>2, <1>3, <1>4 DEF Grows, Grown

(* A later event has the same targets, and stays settled.                    *)
LEMMA SettledStays ==
    ASSUME NEW e \in Event, NEW f \in Event, Later(e, f)
    PROVE  /\ Targets(f) = Targets(e) /\ Targets(e) \subseteq Channels
           /\ \A c \in Channels : e.took[c] > 0 => f.took[c] > 0
           /\ e.told \subseteq f.told
           /\ Settled(e) => Settled(f)
<1>1. Targets(f) = Targets(e) /\ Targets(e) \subseteq Channels
    BY DeliveryAssumption DEF Targets, Later
<1>2. \A c \in Channels : e.took[c] \in Nat /\ f.took[c] \in Nat
    BY DEF Event
<1>3. \A c \in Channels : e.took[c] > 0 => f.took[c] > 0
    BY <1>2 DEF Later
<1>4. e.told \subseteq f.told
    BY DEF Later
<1> QED  BY <1>1, <1>3, <1>4 DEF Settled

(* What is settled up to a position stays so.                               *)
LEMMA UpToStays ==
    ASSUME NEW s, NEW t, Grown(s, t), NEW p \in Nat, NEW a \in Nat, UpTo(p, s, a)
    PROVE  UpTo(p, t, a)
<1>1. p <= Len(t) + 1
    BY DEF UpTo, Grown
<1>2. ASSUME NEW k \in 1..Len(t), a <= k, k < p PROVE Settled(t[k])
    <2>1. k \in 1..Len(s)
        BY <1>2 DEF UpTo, Grown
    <2>2. Settled(s[k])
        BY <1>2, <2>1 DEF UpTo
    <2> QED  BY <2>1, <2>2, SettledStays DEF Grown
<1> QED  BY <1>1, <1>2 DEF UpTo

(* A goroutine on track stays so while the log grows.                       *)
LEMMA OnTrackStays ==
    ASSUME NEW s, NEW t, Grown(s, t), NEW a \in Nat, NEW g \in Goroutine,
           OnTrack(g, s, a)
    PROVE  OnTrack(g, t, a)
<1>a. /\ g.cur \in Nat /\ g.i \in Nat /\ g.ok \subseteq Channels
      /\ g.held.ok \subseteq Channels /\ g.held.i \in Nat
    BY DEF Goroutine
<1>b. /\ Len(s) \in Nat /\ Len(t) \in Nat /\ Len(s) <= Len(t)
      /\ \A k \in 1..Len(s) : s[k] \in Event /\ t[k] \in Event /\ Later(s[k], t[k])
    BY DEF Grown
<1>1. HeldRight(g.held, t)
    <2>1. CASE g.held.b = 0
        BY <2>1 DEF HeldRight
    <2>2. CASE /\ g.held.b = 1 /\ g.held.i \in 1..Len(s)
               /\ \A c \in g.held.ok : s[g.held.i].took[c] > 0
        <3>1. g.held.i \in 1..Len(t)
            BY <1>b, <2>2
        <3>2. \A c \in g.held.ok : t[g.held.i].took[c] > 0
            BY <1>a, <1>b, <2>2, SettledStays
        <3> QED  BY <2>2, <3>1, <3>2 DEF HeldRight
    <2> QED  BY <2>1, <2>2 DEF OnTrack, HeldRight
<1>2. g.pc = "list" => UpTo(g.cur, t, a)
    BY <1>a, UpToStays DEF OnTrack
<1>3. ASSUME g.pc \in Works PROVE EventRight(g, t, a)
    <2> DEFINE e == s[g.i]
               f == t[g.i]
    <2>1. EventRight(g, s, a) /\ g.i \in 1..Len(s) /\ g.i \in 1..Len(t)
        BY <1>b, <1>3 DEF OnTrack, EventRight
    <2>2. e \in Event /\ f \in Event /\ Later(e, f)
        BY <1>b, <2>1
    <2>3. UpTo(g.i, t, a)
        BY <1>a, <2>1, UpToStays DEF EventRight
    <2>4. /\ \A c \in g.ok : e.took[c] > 0
          /\ g.pc = "report" /\ ~g.gone =>
                 \A c \in Targets(e) : c \in g.bad \/ e.took[c] > 0 \/ c \in e.told
          /\ g.pc = "streak" /\ ~g.gone => Settled(e)
          /\ g.pc \in {"clear", "commit"} => Settled(e)
        BY <2>1 DEF EventRight
    <2>5. /\ Targets(f) = Targets(e) /\ Targets(e) \subseteq Channels
          /\ \A c \in Channels : e.took[c] > 0 => f.took[c] > 0
          /\ e.told \subseteq f.told
          /\ Settled(e) => Settled(f)
        BY <2>2, SettledStays
    <2> HIDE DEF e, f
    <2>6. /\ \A c \in g.ok : f.took[c] > 0
          /\ g.pc = "report" /\ ~g.gone =>
                 \A c \in Targets(f) : c \in g.bad \/ f.took[c] > 0 \/ c \in f.told
          /\ g.pc = "streak" /\ ~g.gone => Settled(f)
          /\ g.pc \in {"clear", "commit"} => Settled(f)
        BY <1>a, <2>4, <2>5
    <2> QED  BY <2>1, <2>3, <2>6 DEF EventRight, f
<1> QED  BY <1>1, <1>2, <1>3 DEF OnTrack

(* A log stays ordered when a channel takes an event for the first time only *)
(* where everything before it is settled.                                    *)
LEMMA OrderedStays ==
    ASSUME NEW s, NEW t, Grown(s, t), NEW a \in Nat, Ordered(s, a),
           \A k \in 1..Len(s) : \A c \in Channels :
               t[k].took[c] > 0 => s[k].took[c] > 0 \/ UpTo(k, s, a)
    PROVE  Ordered(t, a)
<1> SUFFICES ASSUME NEW k \in 1..Len(t), NEW j \in 1..(k - 1), NEW c \in Channels,
                    a <= j, t[k].took[c] > 0, c \in Targets(t[j])
             PROVE  t[j].took[c] > 0 \/ c \in t[j].told
    BY DEF Ordered
<1>1. k \in 1..Len(s)
    <2>1. CASE k \in (Len(s) + 1)..Len(t)
        BY <2>1 DEF Grown
    <2> QED  BY <2>1 DEF Grown
<1>2. j \in 1..Len(s) /\ j < k
    BY <1>1 DEF Grown
<1>3. s[j] \in Event /\ t[j] \in Event /\ Later(s[j], t[j])
    BY <1>2 DEF Grown
<1>4. c \in Targets(s[j])
    BY <1>3, SettledStays
<1>5. s[j].took[c] > 0 \/ c \in s[j].told
    <2>1. CASE s[k].took[c] > 0
        BY <1>1, <1>2, <1>4, <2>1 DEF Ordered
    <2>2. CASE UpTo(k, s, a)
        BY <1>2, <1>4, <2>2 DEF UpTo, Settled
    <2> QED  BY <1>1, <2>1, <2>2
<1> QED  BY <1>3, <1>5, SettledStays

(* What a plain session's state gives every step.                            *)
LEMMA PlainFacts ==
    ASSUME TypeOK, Plain, Safe
    PROVE  /\ Live /\ inc = 1 /\ 1 \in Incs /\ born[1] \in Nat /\ cursor[1] \in Nat
           /\ StreamID = 1 /\ Start(inc) = cursor[1]
           /\ log[1] \in Seq(Event) /\ Len(log[1]) \in Nat
           /\ UpTo(cursor[1], log[1], born[1]) /\ Ordered(log[1], born[1])
           /\ \A d \in Slots : OnTrack(disp[d], log[1], born[1])
<1>1. Live /\ inc = 1 /\ 1 \in Incs /\ born[1] # Absent
    BY DeliveryAssumption DEF Plain, Incs
<1>2. born[1] \in Nat /\ cursor[1] \in Nat
    BY <1>1 DEF TypeOK, Safe
<1>3. StreamID = 1 /\ Start(inc) = cursor[1]
    BY <1>1, <1>2 DEF StreamID, Start, Safe
<1>4. log[1] \in Seq(Event) /\ Len(log[1]) \in Nat
    BY <1>1 DEF TypeOK
<1> QED  BY <1>1, <1>2, <1>3, <1>4 DEF Safe

(* The goroutines a step leaves on track: one that has exited.               *)
LEMMA OffOnTrack == ASSUME NEW s, NEW a PROVE OnTrack(Off, s, a)
BY OffType DEF OnTrack, HeldRight, Off, NotHeld, Works

(* One that goes on between events.                                         *)
LEMMA GoesOnTrack ==
    ASSUME NEW g \in Goroutine, NEW s, NEW a, OnTrack(g, s, a),
           NEW pc \in Steps \ Works, pc \notin {"list", "seedList", "seedCommit", "reset"}
    PROVE  OnTrack([g EXCEPT !.pc = pc], s, a)
<1> DEFINE h == [g EXCEPT !.pc = pc]
<1>1. h.pc = pc /\ h.gen = g.gen /\ h.held = g.held
    BY DEF Goroutine
<1> HIDE DEF h
<1>2. OnTrack(h, s, a)
    BY <1>1 DEF OnTrack
<1> QED  BY <1>2 DEF h

(* One that goes back to wait.                                              *)
LEMMA IdleOnTrack ==
    ASSUME TypeOK, NEW d \in Slots, NEW s, NEW a, OnTrack(disp[d], s, a)
    PROVE  OnTrack(Idle(d), s, a)
<1>1. /\ Idle(d).pc = "wait" /\ Idle(d).gen = disp[d].gen
      /\ Idle(d).held = disp[d].held
    BY DEF Idle, Off
<1> QED  BY <1>1 DEF OnTrack, Works

(* One that begins the first event that may be unsettled.                   *)
LEMMA WorkingOnTrack ==
    ASSUME TypeOK, NEW d \in Slots, NEW s, NEW a, OnTrack(disp[d], s, a),
           NEW k \in 1..Len(s), Len(s) \in Nat, UpTo(k, s, a), NEW last \in Nat
    PROVE  OnTrack(Working(d, 1, k, last), s, a)
<1> DEFINE g == Working(d, 1, k, last)
<1>a. disp[d] \in Goroutine
    BY DEF TypeOK
<1>1. /\ g.pc = "deliver" /\ g.i = k /\ g.gen = disp[d].gen
      /\ g.held = disp[d].held
      /\ g.ok = IF disp[d].held.b = 1 /\ disp[d].held.i = k THEN disp[d].held.ok ELSE {}
    BY <1>a DEF Working, Goroutine
<1> HIDE DEF g
<1>2. HeldRight(disp[d].held, s)
    BY DEF OnTrack
<1>3. \A c \in g.ok : s[k].took[c] > 0
    BY <1>1, <1>2 DEF HeldRight
<1>4. EventRight(g, s, a)
    BY <1>1, <1>3 DEF EventRight
<1>5. OnTrack(g, s, a)
    BY <1>1, <1>2, <1>4 DEF OnTrack
<1> QED  BY <1>5 DEF g

(* Passing a settled event.                                                  *)
LEMMA UpToNext ==
    ASSUME NEW s, NEW a \in Nat, Len(s) \in Nat, NEW i \in 1..Len(s),
           UpTo(i, s, a), Settled(s[i])
    PROVE  UpTo(i + 1, s, a)
<1>1. i + 1 <= Len(s) + 1
    OBVIOUS
<1>2. ASSUME NEW k \in 1..Len(s), a <= k, k < i + 1 PROVE Settled(s[k])
    <2>1. k = i \/ k < i
        BY <1>2
    <2> QED  BY <1>2, <2>1 DEF UpTo
<1> QED  BY <1>1, <1>2 DEF UpTo

(* Nothing is before the first event.                                       *)
LEMMA UpToFirst ==
    ASSUME NEW s, NEW a, Len(s) \in Nat
    PROVE  UpTo(0, s, a) /\ UpTo(1, s, a)
BY DEF UpTo

(* A step that leaves the logs alone or lets them grow keeps the session     *)
(* safe if what moves is on track.                                           *)
LEMMA SafeStep ==
    ASSUME TypeOK, Plain, Safe, Grows(log, log'), UNCHANGED <<inc, born>>,
           cursor'[1] = cursor[1] \/ (cursor'[1] \in Nat /\ UpTo(cursor'[1], log'[1], born[1])),
           \A d \in Slots : \/ disp'[d] = disp[d]
                            \/ OnTrack(disp'[d], log'[1], born[1]),
           Ordered(log'[1], born[1])
    PROVE  Safe'
<1>1. Grown(log[1], log'[1])
    BY FirstGrown DEF TypeOK
<1>2. born[1] \in Nat /\ cursor[1] \in Nat
    BY PlainFacts
<1>3. cursor'[1] # Absent /\ UpTo(cursor'[1], log'[1], born[1])
    BY <1>1, <1>2, PlainFacts, UpToStays DEF Absent
<1>4. \A d \in Slots : OnTrack(disp'[d], log'[1], born[1])
    BY <1>1, <1>2, PlainFacts, OnTrackStays DEF TypeOK
<1> QED  BY <1>3, <1>4 DEF Safe

(* The same for a step of dispatcher d that takes no event.                  *)
LEMMA SafeBecomes ==
    ASSUME TypeOK, Plain, Safe, NEW d \in Slots, NEW g, Becomes(d, g), log' = log,
           cursor' = cursor \/ (cursor'[1] \in Nat /\ UpTo(cursor'[1], log[1], born[1])),
           OnTrack(g, log[1], born[1])
    PROVE  Safe'
<1>1. /\ \A x \in Slots : disp'[x] = disp[x] \/ OnTrack(disp'[x], log'[1], born[1])
      /\ UNCHANGED <<inc, born>>
    BY DEF Becomes, TypeOK, rowVars
<1>2. Grows(log, log') /\ Ordered(log'[1], born[1])
    BY SameGrows, PlainFacts DEF TypeOK
<1> QED  BY <1>1, <1>2, SafeStep

(* The steps of a dispatcher between events.                                 *)
LEMMA LoopSafe ==
    ASSUME TypeOK, Placed, Plain, Safe, NEW d \in Slots, Seed(d) \/ Loop(d) \/ Drain(d)
    PROVE  Safe'
<1> DEFINE s == log[1]
           a == born[1]
<1> USE StepNames
<1>a. /\ disp[d] \in Goroutine /\ OnTrack(disp[d], s, a)
      /\ s \in Seq(Event) /\ Len(s) \in Nat /\ a \in Nat
    BY PlainFacts DEF TypeOK
<1>b. /\ Live /\ inc = 1 /\ 1 \in Incs /\ StreamID = 1
      /\ cursor[1] \in Nat /\ UpTo(cursor[1], s, a) /\ cursor[1] # Absent
    BY PlainFacts DEF Absent
<1>c. log' = log
    BY LoopTyped
<1>d. disp[d].pc \notin {"seedList", "seedCommit", "reset"}
    BY <1>a DEF OnTrack
<1>e. OnTrack(Off, s, a) /\ OnTrack(Idle(d), s, a)
    BY <1>a, OffOnTrack, IdleOnTrack
<1> HIDE DEF s, a
<1>f. ASSUME NEW g, Becomes(d, g), OnTrack(g, s, a),
             cursor' = cursor \/ (cursor'[1] \in Nat /\ UpTo(cursor'[1], s, a))
      PROVE  Safe'
    BY <1>c, <1>f, SafeBecomes DEF s, a
<1>g. ASSUME NEW pc \in {"gen", "check", "rotate", "wait", "read"}, Goes(d, pc), cursor' = cursor
      PROVE  Safe'
    <2>1. pc \in Steps \ Works /\ pc \notin {"list", "seedList", "seedCommit", "reset"}
        BY DEF Works
    <2> QED  BY <1>a, <1>f, <1>g, <2>1, GoesOnTrack DEF Goes
<1>1. CASE SeedCheck(d)
    <2>1. Goes(d, "gen") /\ cursor' = cursor
        BY <1>1, <1>b DEF SeedCheck, logVars
    <2> QED  BY <1>g, <2>1
<1>2. CASE SeedList(d) \/ SeedCommit(d) \/ Reset(d)
    BY <1>2, <1>d DEF SeedList, SeedCommit, Reset, At
<1>3. CASE StartGen(d)
    <2> DEFINE g == [disp[d] EXCEPT !.pc = "check", !.gen = StreamID]
    <2>1. g.pc = "check" /\ g.gen = 1 /\ g.held = disp[d].held
        BY <1>a, <1>b DEF Goroutine
    <2> HIDE DEF g
    <2>2. OnTrack(g, s, a)
        BY <1>a, <2>1 DEF OnTrack, Works
    <2>3. Becomes(d, g) /\ cursor' = cursor
        BY <1>3 DEF StartGen, logVars, g
    <2> QED  BY <1>f, <2>2, <2>3
<1>4. CASE Loop(d)
    <2>1. cursor' = cursor
        BY <1>4 DEF Loop, Check, Wake, logVars
    <2>2. CASE Becomes(d, Off)
        BY <1>e, <1>f, <2>1, <2>2
    <2>3. CASE Goes(d, "rotate") \/ Goes(d, "wait") \/ Goes(d, "check")
        BY <1>g, <2>1, <2>3
    <2> QED  BY <1>4, <2>2, <2>3 DEF Loop, Check, Wake
<1>5. CASE Rotate(d)
    <2>1. disp[d].gen \in {0, 1}
        BY <1>a DEF OnTrack
    <2>2. Goes(d, "read") /\ cursor' = cursor
        BY <1>5, <1>b, <2>1 DEF Rotate, logVars
    <2> QED  BY <1>g, <2>2
<1>6. CASE ReadCursor(d)
    <2> DEFINE g == [disp[d] EXCEPT !.pc = "list", !.cur = IF Live THEN Start(inc) ELSE 0]
    <2>1. /\ g.pc = "list" /\ g.gen = disp[d].gen /\ g.held = disp[d].held
          /\ g.cur = cursor[1]
        BY <1>a, <1>b DEF Goroutine, Start
    <2> HIDE DEF g
    <2>2. OnTrack(g, s, a)
        BY <1>a, <1>b, <2>1 DEF OnTrack, Works
    <2>3. Becomes(d, g) /\ cursor' = cursor
        BY <1>6 DEF ReadCursor, logVars, g
    <2> QED  BY <1>f, <2>2, <2>3
<1>7. CASE ListEvents(d)
    <2> DEFINE first == IF disp[d].cur = 0 THEN 1 ELSE disp[d].cur
    <2>1. first \in Nat \ {0} /\ UpTo(first, s, a)
        BY <1>a, <1>7, UpToFirst DEF ListEvents, At, OnTrack, Goroutine
    <2> HIDE DEF first
    <2>2. /\ cursor' = cursor
          /\ Becomes(d, IF first <= Len(s)
                        THEN IF disp[d].gone THEN Off ELSE Working(d, 1, first, Len(s))
                        ELSE Idle(d))
        BY <1>7, <1>b DEF ListEvents, logVars, first, s
    <2>3. CASE first <= Len(s)
        <3>1. first \in 1..Len(s)
            BY <1>a, <2>1, <2>3
        <3>2. OnTrack(Working(d, 1, first, Len(s)), s, a)
            BY <1>a, <2>1, <3>1, WorkingOnTrack
        <3> QED  BY <1>e, <1>f, <2>2, <2>3, <3>2
    <2> QED  BY <1>e, <1>f, <2>2, <2>3
<1>8. CASE Commit(d)
    <2>1. disp[d].pc \in Works /\ disp[d].pc = "commit"
        BY <1>8 DEF Commit, At, Works
    <2>2. /\ disp[d].i \in 1..Len(s) /\ UpTo(disp[d].i, s, a) /\ Settled(s[disp[d].i])
        BY <1>a, <2>1 DEF OnTrack, EventRight
    <2>3. UpTo(disp[d].i + 1, s, a) /\ disp[d].i + 1 \in Nat
        BY <1>a, <2>2, UpToNext
    <2>4. cursor'[1] = disp[d].i + 1
        BY <1>8, <1>b DEF Commit, CommitCursor, TypeOK
    <2>5. CASE Becomes(d, Off) \/ Becomes(d, Idle(d))
        BY <1>e, <1>f, <2>3, <2>4, <2>5
    <2>6. CASE /\ disp[d].i < disp[d].upto
               /\ Becomes(d, Working(d, disp[d].b, disp[d].i + 1, disp[d].upto))
        <3>1. disp[d].b = 1 /\ disp[d].upto \in Nat /\ disp[d].upto <= Len(s)
            BY <1>b, <2>1, CurrentType DEF Placed, WorksOn, s
        <3>2. disp[d].i + 1 \in 1..Len(s)
            BY <1>a, <2>2, <2>6, <3>1
        <3>3. OnTrack(Working(d, 1, disp[d].i + 1, disp[d].upto), s, a)
            BY <1>a, <2>3, <3>1, <3>2, WorkingOnTrack
        <3> QED  BY <1>f, <2>3, <2>4, <2>6, <3>1, <3>3
    <2> QED  BY <1>8, <2>5, <2>6 DEF Commit
<1>9. CASE Abort(d)
    BY <1>9, <1>e, <1>f DEF Abort, logVars
<1> QED  BY <1>1, <1>2, <1>3, <1>4, <1>5, <1>6, <1>7, <1>8, <1>9 DEF Seed, Loop, Drain

(* Rewriting one event of a log.                                             *)
LEMMA Rewritten ==
    ASSUME NEW s \in Seq(Event), NEW i \in 1..Len(s), NEW e \in Event,
           NEW t, t = [s EXCEPT ![i] = e]
    PROVE  /\ Len(t) = Len(s) /\ t[i] = e
           /\ \A k \in 1..Len(s) : k # i => t[k] = s[k]
OBVIOUS

(* Appending to the first log.                                               *)
LEMMA FirstAppended ==
    ASSUME NEW l \in [Incs -> Seq(Event)], NEW e \in Event,
           NEW m, m = [l EXCEPT ![1] = Append(@, e)]
    PROVE  \A k \in 1..Len(l[1]) : m[1][k] = l[1][k]
<1>1. 1 \in Incs
    BY DeliveryAssumption DEF Incs
<1>2. l[1] \in Seq(Event) /\ m[1] = Append(l[1], e)
    BY <1>1
<1> QED  BY <1>2, AppendProperties

(* The steps of a dispatcher on an event.                                    *)
LEMMA ProcessSafe ==
    ASSUME TypeOK, Placed, Plain, Safe, NEW d \in Slots, Process(d)
    PROVE  Safe'
<1> DEFINE s == log[1]
           a == born[1]
           i == disp[d].i
           e == Current(d)
<1>a. /\ disp[d] \in Goroutine /\ OnTrack(disp[d], s, a)
      /\ s \in Seq(Event) /\ Len(s) \in Nat /\ a \in Nat /\ Ordered(s, a)
      /\ log \in [Incs -> Seq(Event)] /\ disp \in [Slots -> Goroutine]
    BY PlainFacts DEF TypeOK
<1>b. Live /\ inc = 1 /\ 1 \in Incs
    BY PlainFacts
<1>c. disp[d].pc \in Works
    BY DEF Process, Deliver, Fail, ReportFailure, AllDelivered, HoldEvent, GiveUp,
           RecordStreak, Processed, At, Works
<1>d. disp[d].b = 1 /\ i \in 1..Len(s) /\ e \in Event /\ e = s[i]
    BY <1>b, <1>c, CurrentType DEF Placed, WorksOn, Current
<1>e. /\ UpTo(i, s, a) /\ EventRight(disp[d], s, a)
      /\ \A c \in disp[d].ok : e.took[c] > 0
      /\ HeldRight(disp[d].held, s) /\ disp[d].gen \in {0, 1}
    BY <1>a, <1>c, <1>d DEF OnTrack, EventRight
<1>f. Grows(log, log')
    BY ProcessTyped
<1>g. Grown(s, log'[1])
    BY <1>a, <1>f, FirstGrown
<1>h. Targets(e) \subseteq Channels
    BY <1>d, DeliveryAssumption DEF Targets
<1> HIDE DEF s, a, i, e
<1>i. ASSUME NEW g, Becomes(d, g), OnTrack(g, s, a), UNCHANGED <<log, cursor>>
      PROVE  Safe'
    BY <1>i, SafeBecomes DEF s, a
<1>j. ASSUME NEW g \in Goroutine, Becomes(d, g), OnTrack(g, log'[1], a), cursor' = cursor,
             Ordered(log'[1], a)
      PROVE  Safe'
    <2>1. /\ disp' = [disp EXCEPT ![d] = g] /\ UNCHANGED <<inc, born>>
        BY <1>j DEF Becomes, rowVars
    <2>2. \A x \in Slots : disp'[x] = disp[x] \/ OnTrack(disp'[x], log'[1], born[1])
        BY <1>a, <1>j, <2>1 DEF a
    <2> QED  BY <1>f, <1>j, <2>1, <2>2, SafeStep DEF a
<1>1. ASSUME NEW c \in Channels, Deliver(d, c) PROVE Safe'
    <2> DEFINE g == [disp[d] EXCEPT !.ok = @ \cup {c}]
    <2>1. /\ g \in Goroutine /\ g.pc = disp[d].pc /\ g.i = i /\ g.gen = disp[d].gen
          /\ g.held = disp[d].held /\ g.ok = disp[d].ok \cup {c}
        BY <1>a DEF Goroutine, i
    <2> HIDE DEF g
    <2>2. /\ Becomes(d, g) /\ cursor' = cursor /\ disp[d].pc = "deliver"
          /\ log' = [log EXCEPT ![1][i] = TakenBy(c, e)]
        BY <1>1, <1>d DEF Deliver, At, g, i, e
    <2>3. /\ log'[1][i] = TakenBy(c, e) /\ log'[1][i].took[c] > 0
          /\ \A k \in 1..Len(s) : k # i => log'[1][k] = s[k]
        <3>1. /\ log'[1][i] = TakenBy(c, e)
              /\ \A k \in 1..Len(s) : k # i => log'[1][k] = s[k]
            <4>1. log'[1] = [s EXCEPT ![i] = TakenBy(c, e)]
                BY <1>a, <1>b, <2>2 DEF s
            <4> QED  BY <1>a, <1>d, <4>1, EventType, Rewritten
        <3> QED  BY <1>d, <3>1, EventType
    <2>4. Ordered(log'[1], a)
        <3>1. \A k \in 1..Len(s) : \A x \in Channels :
                  log'[1][k].took[x] > 0 => s[k].took[x] > 0 \/ UpTo(k, s, a)
            BY <1>e, <2>3
        <3> QED  BY <1>a, <1>g, <3>1, OrderedStays
    <2>5. OnTrack(disp[d], log'[1], a)
        BY <1>a, <1>g, OnTrackStays
    <2>6. EventRight(disp[d], log'[1], a) /\ HeldRight(disp[d].held, log'[1])
        BY <1>c, <2>5 DEF OnTrack
    <2>7. EventRight(g, log'[1], a)
        BY <2>1, <2>2, <2>3, <2>6 DEF EventRight, i
    <2>8. OnTrack(g, log'[1], a)
        BY <1>e, <2>1, <2>2, <2>6, <2>7 DEF OnTrack
    <2> QED  BY <1>j, <2>1, <2>2, <2>4, <2>8
<1>2. ASSUME NEW c \in Channels, Fail(d, c) PROVE Safe'
    <2>1. PICK unsent \in BOOLEAN :
              Becomes(d, [disp[d] EXCEPT !.bad = @ \cup {c}, !.unsent = @ \/ unsent])
        BY <1>2 DEF Fail
    <2> DEFINE g == [disp[d] EXCEPT !.bad = @ \cup {c}, !.unsent = @ \/ unsent]
    <2>2. /\ g.pc = disp[d].pc /\ g.i = i /\ g.gen = disp[d].gen
          /\ g.held = disp[d].held /\ g.ok = disp[d].ok /\ g.gone = disp[d].gone
        BY <1>a DEF Goroutine, i
    <2> HIDE DEF g
    <2>3. Becomes(d, g) /\ UNCHANGED <<log, cursor>> /\ disp[d].pc = "deliver"
        BY <1>2, <2>1 DEF Fail, logVars, At, g
    <2>4. EventRight(g, s, a)
        BY <1>e, <2>2, <2>3 DEF EventRight, i
    <2>5. OnTrack(g, s, a)
        BY <1>e, <2>2, <2>3, <2>4 DEF OnTrack
    <2> QED  BY <1>i, <2>3, <2>5
<1>3. ASSUME NEW c \in Channels, ReportFailure(d, c) PROVE Safe'
    <2> DEFINE g == [disp[d] EXCEPT !.bad = @ \ {c},
                         !.pc = IF disp[d].bad = {c} THEN "streak" ELSE "report"]
    <2>1. /\ g \in Goroutine /\ g.i = i /\ g.gen = disp[d].gen
          /\ g.held = disp[d].held /\ g.ok = disp[d].ok /\ g.gone = disp[d].gone
          /\ g.bad = disp[d].bad \ {c}
          /\ g.pc = IF disp[d].bad = {c} THEN "streak" ELSE "report"
        BY <1>a DEF Goroutine, Steps, i
    <2> HIDE DEF g
    <2>2. Becomes(d, g) /\ cursor' = cursor /\ disp[d].pc = "report" /\ c \in disp[d].bad
        BY <1>3 DEF ReportFailure, At, g
    <2>3. CASE disp[d].gone
        <3>1. log' = log
            BY <1>3, <2>3 DEF ReportFailure
        <3>2. EventRight(g, s, a)
            BY <1>e, <2>1, <2>3 DEF EventRight, i
        <3>3. OnTrack(g, s, a)
            BY <1>e, <2>1, <3>2 DEF OnTrack
        <3> QED  BY <1>i, <2>2, <3>1, <3>3
    <2>4. CASE ~disp[d].gone
        <3> DEFINE told == [log EXCEPT ![1][i] = ToldOf(c, e)]
        <3>1. log' = [told EXCEPT ![1] = Append(@, ErrorAbout(c, e))]
            BY <1>3, <1>b, <1>d, <2>4 DEF ReportFailure, i, e
        <3>2. /\ ToldOf(c, e) \in Event /\ c \in ToldOf(c, e).told
              /\ ToldOf(c, e).took = e.took /\ ErrorAbout(c, e) \in Event
              /\ Later(e, ToldOf(c, e))
            BY <1>d, EventType DEF ToldOf, Event
        <3>3. /\ Len(told[1]) = Len(s) /\ told[1][i] = ToldOf(c, e)
              /\ \A k \in 1..Len(s) : k # i => told[1][k] = s[k]
            <4>1. told[1] = [s EXCEPT ![i] = ToldOf(c, e)]
                BY <1>a, <1>b DEF s
            <4> QED  BY <1>a, <1>d, <3>2, <4>1, Rewritten
        <3>4. told \in [Incs -> Seq(Event)]
            <4>1. e = log[1][i] /\ i \in 1..Len(log[1])
                BY <1>d DEF s
            <4>2. Grows(log, told)
                BY <1>a, <1>b, <3>2, <4>1, RewriteGrows
            <4> QED  BY <4>2 DEF Grows
        <3> HIDE DEF told
        <3>5. \A k \in 1..Len(s) : log'[1][k] = told[1][k]
            BY <3>1, <3>2, <3>3, <3>4, FirstAppended
        <3>6. /\ log'[1][i] = ToldOf(c, e)
              /\ \A k \in 1..Len(s) : k # i => log'[1][k] = s[k]
            BY <1>d, <3>3, <3>5
        <3>7. Ordered(log'[1], a)
            <4>1. \A k \in 1..Len(s) : \A x \in Channels :
                      log'[1][k].took[x] > 0 => s[k].took[x] > 0
                BY <1>d, <3>2, <3>6
            <4> QED  BY <1>a, <1>g, <4>1, OrderedStays
        <3>8. EventRight(disp[d], log'[1], a) /\ HeldRight(disp[d].held, log'[1])
            <4>1. OnTrack(disp[d], log'[1], a)
                BY <1>a, <1>g, OnTrackStays
            <4> QED  BY <1>c, <4>1 DEF OnTrack
        <3>9. \A x \in Targets(log'[1][i]) :
                  x \in g.bad \/ log'[1][i].took[x] > 0 \/ x \in log'[1][i].told
            BY <2>1, <2>2, <2>4, <3>2, <3>6, <3>8 DEF EventRight, i
        <3>10. g.pc = "streak" => Settled(log'[1][i])
            BY <2>1, <3>9 DEF Settled
        <3>11. EventRight(g, log'[1], a)
            BY <2>1, <3>8, <3>9, <3>10 DEF EventRight, i
        <3>12. OnTrack(g, log'[1], a)
            BY <1>e, <2>1, <3>8, <3>11 DEF OnTrack
        <3> QED  BY <1>j, <2>1, <2>2, <3>7, <3>12
    <2> QED  BY <2>3, <2>4
<1>p. ASSUME Processed(d)
      PROVE  \A c \in Targets(e) : e.took[c] > 0 \/ c \in disp[d].bad
    BY <1>p, <1>e, <1>h DEF Processed, Pending, e
<1>n. HeldRight(NotHeld, s) /\ NotHeld.b = 0
    BY DEF HeldRight, NotHeld
<1>4. CASE AllDelivered(d)
    <2> DEFINE g == [disp[d] EXCEPT !.held = NotHeld,
                         !.pc = IF Targets(Current(d)) = {} THEN "commit" ELSE "clear"]
    <2>1. /\ g.pc \in {"commit", "clear"} /\ g.held = NotHeld /\ g.i = i
          /\ g.gen = disp[d].gen /\ g.ok = disp[d].ok
        BY <1>a DEF Goroutine, i
    <2> HIDE DEF g
    <2>2. Becomes(d, g) /\ UNCHANGED <<log, cursor>>
        BY <1>4 DEF AllDelivered, logVars, g
    <2>3. Settled(e)
        BY <1>4, <1>p DEF AllDelivered, Settled
    <2>4. EventRight(g, s, a)
        BY <1>d, <1>e, <2>1, <2>3 DEF EventRight, i
    <2>5. OnTrack(g, s, a)
        BY <1>e, <1>n, <2>1, <2>4 DEF OnTrack
    <2> QED  BY <1>i, <2>2, <2>5
<1>5. CASE HoldEvent(d)
    <2> DEFINE h == [b |-> disp[d].b, i |-> disp[d].i, ok |-> disp[d].ok]
               g == [Idle(d) EXCEPT !.held = h]
    <2>1. g.pc = "wait" /\ g.held = h /\ g.gen = disp[d].gen
        BY DEF Idle, Off
    <2>2. HeldRight(h, s)
        BY <1>d, <1>e DEF HeldRight, i
    <2> HIDE DEF g
    <2>3. Becomes(d, g) /\ UNCHANGED <<log, cursor>>
        BY <1>5 DEF HoldEvent, logVars, g
    <2>4. OnTrack(g, s, a)
        BY <1>e, <2>1, <2>2 DEF OnTrack, Works
    <2> QED  BY <1>i, <2>3, <2>4
<1>6. CASE GiveUp(d)
    <2> DEFINE g == [disp[d] EXCEPT !.pc = "report", !.held = NotHeld]
    <2>1. /\ g.pc = "report" /\ g.held = NotHeld /\ g.i = i /\ g.bad = disp[d].bad
          /\ g.gen = disp[d].gen /\ g.ok = disp[d].ok
        BY <1>a DEF Goroutine, i
    <2> HIDE DEF g
    <2>2. Becomes(d, g) /\ UNCHANGED <<log, cursor>> /\ Processed(d)
        BY <1>6 DEF GiveUp, logVars, g
    <2>3. EventRight(g, s, a)
        BY <1>d, <1>e, <1>p, <2>1, <2>2 DEF EventRight, i
    <2>4. OnTrack(g, s, a)
        BY <1>e, <1>n, <2>1, <2>3 DEF OnTrack
    <2> QED  BY <1>i, <2>2, <2>4
<1>7. CASE RecordStreak(d)
    <2>1. UNCHANGED <<log, cursor>> /\ disp[d].pc \in {"streak", "clear"}
        BY <1>7 DEF RecordStreak
    <2>2. CASE disp[d].gone
        BY <1>7, <1>i, <2>1, <2>2, OffOnTrack DEF RecordStreak
    <2>3. CASE ~disp[d].gone
        <3> DEFINE g == [disp[d] EXCEPT !.pc = "commit"]
        <3>1. /\ g.pc = "commit" /\ g.held = disp[d].held /\ g.i = i
              /\ g.gen = disp[d].gen /\ g.ok = disp[d].ok
            BY <1>a DEF Goroutine, i
        <3> HIDE DEF g
        <3>2. Becomes(d, g)
            BY <1>7, <2>3 DEF RecordStreak, Goes, g
        <3>3. EventRight(g, s, a)
            BY <1>e, <2>1, <2>3, <3>1 DEF EventRight, i
        <3>4. OnTrack(g, s, a)
            BY <1>e, <3>1, <3>3 DEF OnTrack
        <3> QED  BY <1>i, <2>1, <3>2, <3>4
    <2> QED  BY <2>2, <2>3
<1> QED  BY <1>1, <1>2, <1>3, <1>4, <1>5, <1>6, <1>7 DEF Process

(* The commands leave a plain session's dispatchers and cursor alone.        *)
LEMMA CommandsSafe ==
    ASSUME TypeOK, Placed, Quiet, Plain, Safe, Commands
    PROVE  Safe' \/ ~Plain'
<1>a. /\ Live /\ inc = 1 /\ 1 \in Incs /\ born[1] \in Nat /\ Ordered(log[1], born[1])
      /\ born[1] # Absent /\ log \in [Incs -> Seq(Event)]
    BY PlainFacts DEF Absent, TypeOK
<1>1. row # "put" /\ row # "none"
    BY <1>a DEF Quiet, Unborn, Live
<1>2. CASE Destroy
    BY <1>2 DEF Destroy, Plain, Live
<1>3. CASE Up \/ Down
    <2>1. UNCHANGED <<inc, born, log, cursor, disp>>
        BY <1>3 DEF Up, Down, logVars
    <2> QED  BY <1>a, <2>1, SameGrows, SafeStep
<1>4. CASE Instruct \/ Publish
    <2>1. PICK f \in BOOLEAN : log' = [log EXCEPT ![1] = Append(@, Message(f))]
        BY <1>4, <1>a DEF Instruct, Publish, AppendEvent
    <2>2. UNCHANGED <<inc, born, cursor, disp>>
        BY <1>4 DEF Instruct, Publish, rowVars
    <2>3. Message(f) \in Event
        BY DEF Message, Event
    <2>4. Grows(log, log')
        BY <1>4, CommandsTyped DEF Commands
    <2>5. \A k \in 1..Len(log[1]) : log'[1][k] = log[1][k]
        BY <1>a, <2>1, <2>3, FirstAppended
    <2>6. Ordered(log'[1], born[1])
        <3>1. Grown(log[1], log'[1])
            BY <1>a, <2>4, FirstGrown
        <3>2. \A k \in 1..Len(log[1]) : \A c \in Channels :
                  log'[1][k].took[c] > 0 => log[1][k].took[c] > 0
            BY <2>5
        <3> QED  BY <1>a, <3>1, <3>2, OrderedStays
    <2> QED  BY <2>2, <2>4, <2>6, SafeStep
<1>5. CASE Create \/ SeedBirth \/ RetryCreate
    BY <1>1, <1>5 DEF Create, SeedBirth, RetryCreate
<1> QED  BY <1>2, <1>3, <1>4, <1>5 DEF Commands

(* Nor does the world take a dispatcher off its track: a new, a cancelled    *)
(* and a killed one know nothing wrong.                                      *)
LEMMA WorldSafe ==
    ASSUME TypeOK, Placed, Plain, Safe, World \/ Reconcile \/ UNCHANGED vars
    PROVE  Safe'
<1>a. /\ \A d \in Slots : OnTrack(disp[d], log[1], born[1])
      /\ Ordered(log[1], born[1]) /\ disp \in [Slots -> Goroutine]
    BY PlainFacts DEF TypeOK
<1>b. log' = log /\ Grows(log, log')
    BY WorldTyped, SameGrows DEF TypeOK
<1>c. UNCHANGED <<inc, born, cursor>>
    BY DEF World, Reconcile, Age, ServeDies, Break, Mend, CancelDispatcher,
           StartDispatcher, vars, rowVars, logVars
<1>d. ASSUME \A d \in Slots : disp'[d] = disp[d] \/ OnTrack(disp'[d], log[1], born[1])
      PROVE  Safe'
    BY <1>a, <1>b, <1>c, <1>d, SafeStep
<1>1. CASE disp' = disp
    BY <1>1, <1>d
<1>2. CASE ServeDies
    BY <1>2, <1>d, OffOnTrack DEF ServeDies
<1>3. ASSUME NEW d \in Slots, StartDispatcher(d) PROVE Safe'
    <2> DEFINE g == [Off EXCEPT !.pc = "seed"]
    <2>1. OnTrack(g, log[1], born[1])
        BY DEF OnTrack, HeldRight, Off, NotHeld, Works
    <2> HIDE DEF g
    <2>2. disp' = [disp EXCEPT ![d] = g]
        BY <1>3 DEF StartDispatcher, g
    <2> QED  BY <1>a, <1>d, <2>1, <2>2
<1>4. CASE CancelDispatcher
    <2>1. active \in Slots
        BY <1>4 DEF CancelDispatcher, TypeOK
    <2>2. CASE Running(active)
        <3> DEFINE g == [disp[active] EXCEPT !.gone = TRUE]
        <3>1. /\ g.gone = TRUE /\ g.pc = disp[active].pc /\ g.gen = disp[active].gen
              /\ g.held = disp[active].held /\ g.cur = disp[active].cur
              /\ g.i = disp[active].i /\ g.ok = disp[active].ok
            BY <1>a, <2>1 DEF Goroutine
        <3> HIDE DEF g
        <3>2. OnTrack(g, log[1], born[1])
            BY <1>a, <2>1, <3>1 DEF OnTrack, EventRight
        <3>3. disp' = [disp EXCEPT ![active] = g]
            BY <1>4, <2>2 DEF CancelDispatcher, g
        <3> QED  BY <1>a, <1>d, <2>1, <3>2, <3>3
    <2> QED  BY <1>1, <1>4, <2>2 DEF CancelDispatcher
<1>5. CASE Age \/ (\E c \in Fragile : Break(c) \/ Mend(c)) \/ UNCHANGED vars
    BY <1>1, <1>5 DEF Age, Break, Mend, vars
<1> QED  BY <1>2, <1>3, <1>4, <1>5 DEF World, Reconcile

(* A session becomes plain only when its creator seeds it, and then nothing  *)
(* is before the cursor and no dispatcher runs.                              *)
LEMMA BirthSafe ==
    ASSUME TypeOK, Quiet, SeedBirth, inc = 1
    PROVE  Safe'
<1>1. /\ row = "put" /\ 1 \in Incs /\ cursor[1] = Absent
      /\ \A d \in Slots : disp[d] = Off
      /\ disp' = disp /\ log' = log
    BY DeliveryAssumption DEF SeedBirth, Quiet, Unborn, Incs
<1>2. /\ cursor'[1] = LogEnd(1) /\ born'[1] = LogEnd(1)
    BY <1>1 DEF SeedBirth, TypeOK
<1>3. log[1] \in Seq(Event) /\ Len(log[1]) \in Nat
    BY <1>1 DEF TypeOK
<1>4. /\ LogEnd(1) \in Nat /\ LogEnd(1) <= Len(log[1]) + 1
      /\ LogEnd(1) = Len(log[1]) + 1 \/ Len(log[1]) = 0
    BY <1>3 DEF LogEnd
<1>5. UpTo(LogEnd(1), log[1], LogEnd(1))
    BY <1>3, <1>4 DEF UpTo
<1>6. Ordered(log[1], LogEnd(1))
    BY <1>3, <1>4 DEF Ordered
<1>7. \A d \in Slots : OnTrack(disp'[d], log'[1], born'[1])
    BY <1>1, OffOnTrack
<1> QED  BY <1>1, <1>2, <1>4, <1>5, <1>6, <1>7 DEF Safe, Absent

(* No incarnation but the one being made is unborn.                          *)
LEMMA UnbornSince ==
    ASSUME TypeOK, Quiet, [Next]_vars, Unborn'
    PROVE  Unborn
<1>a. inc \in Nat
    BY DeliveryAssumption DEF TypeOK
<1>1. CASE Commands
    <2>1. CASE Create
        BY <1>a, <2>1 DEF Create, Unborn
    <2>2. CASE SeedBirth \/ RetryCreate \/ Instruct \/ Up \/ Down \/ Destroy
        <3>1. inc' = inc /\ row' # "put"
            BY <2>2 DEF SeedBirth, RetryCreate, Instruct, Up, Down, Destroy
        <3> QED  BY <3>1 DEF Unborn
    <2>3. CASE Publish
        BY <2>3 DEF Publish, rowVars, Unborn
    <2> QED  BY <1>1, <2>1, <2>2, <2>3 DEF Commands
<1>2. CASE World \/ Reconcile \/ UNCHANGED vars
    BY <1>2 DEF World, Reconcile, Age, ServeDies, Break, Mend, CancelDispatcher,
           StartDispatcher, vars, rowVars, Unborn
<1>3. ASSUME NEW d \in Slots, Dispatcher(d) PROVE Unborn
    <2>1. UNCHANGED rowVars
        BY <1>3 DEF Dispatcher, Seed, SeedCheck, SeedList, SeedCommit, StartGen, Loop,
               Check, Wake, Drain, Rotate, Reset, ReadCursor, ListEvents, Commit, Abort,
               Process, Deliver, Fail, ReportFailure, AllDelivered, HoldEvent, GiveUp,
               RecordStreak, Becomes, Goes
    <2> QED  BY <2>1 DEF rowVars, Unborn
<1> QED  BY <1>1, <1>2, <1>3 DEF Next

(* And it has neither a cursor nor a dispatcher.                             *)
LEMMA QuietStep ==
    ASSUME TypeOK, Quiet, [Next]_vars
    PROVE  Quiet'
<1> SUFFICES ASSUME Unborn'
             PROVE  /\ cursor'[1] = Absent /\ born'[1] = Absent
                    /\ \A d \in Slots : disp'[d] = Off
    BY DEF Quiet
<1>a. inc \in Nat /\ (inc = 0 => row = "none") /\ Off.pc = "off"
    BY DeliveryAssumption DEF TypeOK, Live, Off
<1>b. \A d \in Slots : Dispatcher(d) => Running(d)
    BY KeepsContext
<1>1. Unborn
    BY UnbornSince
<1>2. /\ cursor[1] = Absent /\ born[1] = Absent
      /\ \A d \in Slots : disp[d] = Off /\ ~Running(d)
      /\ row = "none" \/ row = "put"
    BY <1>a, <1>1 DEF Quiet, Unborn, Running
<1>3. CASE Commands
    <2>1. ~SeedBirth
        BY <1>a, <1>1 DEF SeedBirth, Unborn
    <2> QED  BY <1>2, <1>3, <2>1 DEF Commands, Create, RetryCreate, Instruct, Publish,
                Up, Down, Destroy, rowVars, logVars
<1>4. CASE World \/ Reconcile \/ UNCHANGED vars
    <2>1. ~ServeDies /\ ~\E d \in Slots : StartDispatcher(d)
        BY <1>2 DEF ServeDies, StartDispatcher
    <2>2. CancelDispatcher => UNCHANGED <<disp, cursor, born>>
        BY <1>2 DEF CancelDispatcher, TypeOK, rowVars, logVars
    <2>3. Age \/ (\E c \in Fragile : Break(c) \/ Mend(c)) \/ UNCHANGED vars
              => UNCHANGED <<disp, cursor, born>>
        BY DEF Age, Break, Mend, vars, rowVars, logVars
    <2>4. UNCHANGED <<disp, cursor, born>>
        BY <1>4, <2>1, <2>2, <2>3 DEF World, Reconcile
    <2> QED  BY <1>2, <2>4
<1> QED  BY <1>b, <1>2, <1>3, <1>4 DEF Next

(* A plain session was plain, or is seeded by this step.                     *)
LEMMA PlainSince ==
    ASSUME TypeOK, Quiet, [Next]_vars, Plain'
    PROVE  Plain \/ (SeedBirth /\ inc = 1)
<1>1. CASE Create
    <2>1. inc = 0 /\ born' = born
        BY <1>1, DeliveryAssumption DEF Create, Plain, TypeOK
    <2> QED  BY <2>1 DEF Quiet, Unborn, Plain
<1>2. CASE SeedBirth
    BY <1>2 DEF SeedBirth, Plain
<1>3. CASE RetryCreate \/ Instruct \/ Publish \/ Up \/ Down \/ Destroy
    BY <1>3 DEF RetryCreate, Instruct, Publish, Up, Down, Destroy, rowVars, Plain, Live
<1>4. CASE World \/ Reconcile \/ UNCHANGED vars
    BY <1>4 DEF World, Reconcile, Age, ServeDies, Break, Mend, CancelDispatcher,
           StartDispatcher, vars, rowVars, Plain, Live
<1>5. ASSUME NEW d \in Slots, Dispatcher(d) PROVE Plain
    <2>1. UNCHANGED rowVars
        BY <1>5 DEF Dispatcher, Seed, SeedCheck, SeedList, SeedCommit, StartGen, Loop,
               Check, Wake, Drain, Rotate, Reset, ReadCursor, ListEvents, Commit, Abort,
               Process, Deliver, Fail, ReportFailure, AllDelivered, HoldEvent, GiveUp,
               RecordStreak, Becomes, Goes
    <2> QED  BY <2>1 DEF rowVars, Plain, Live
<1> QED  BY <1>1, <1>2, <1>3, <1>4, <1>5 DEF Next, Commands

(* Safe is preserved by every step.                                         *)
LEMMA SafeNext ==
    ASSUME TypeOK, Placed, Quiet, Safe, [Next]_vars
    PROVE  Safe'
<1> SUFFICES ASSUME Plain' PROVE Safe'
    BY DEF Safe
<1>1. CASE SeedBirth /\ inc = 1
    BY <1>1, BirthSafe
<1>2. CASE Plain
    <2>1. CASE Commands
        BY <1>2, <2>1, CommandsSafe
    <2>2. CASE World \/ Reconcile \/ UNCHANGED vars
        BY <1>2, <2>2, WorldSafe
    <2>3. ASSUME NEW d \in Slots, Dispatcher(d) PROVE Safe'
        BY <1>2, <2>3, LoopSafe, ProcessSafe DEF Dispatcher
    <2> QED  BY <2>1, <2>2, <2>3 DEF Next
<1> QED  BY <1>1, <1>2, PlainSince

(* What NothingSkipped and InOrder rest on, with the types.                  *)
Inv == TypeOK /\ Placed /\ Quiet /\ Safe

(* The invariant holds in every reachable state.                            *)
LEMMA InvCorrect == Spec => []Inv
<1>1. Init => Inv
    <2> SUFFICES ASSUME Init PROVE Inv
        OBVIOUS
    <2>1. Quiet /\ Safe
        <3>1. 1 \in Incs
            BY DeliveryAssumption DEF Incs
        <3> QED  BY <3>1 DEF Init, Quiet, Safe, Plain, Live
    <2> QED  BY <2>1, InitTyped DEF Inv
<1>2. Inv /\ [Next]_vars => Inv'
    BY TypedStep, QuietStep, SafeNext DEF Inv
<1> QED  BY <1>1, <1>2, PTL DEF Spec

(* Whatever is cancelled, killed, held, retried or brought down on the way,  *)
(* the cursor passes no event that some channel neither took nor failed.     *)
THEOREM NothingIsSkipped == Spec => []NothingSkipped
<1>1. Inv => NothingSkipped
    <2> SUFFICES ASSUME Inv, Plain, NEW k \in 1..Len(log[1]), FromBirth(k), k < cursor[1]
                 PROVE  Settled(log[1][k])
        BY DEF NothingSkipped
    <2>1. UpTo(cursor[1], log[1], born[1])
        BY DEF Inv, Safe
    <2> QED  BY <2>1 DEF UpTo, FromBirth
<1> QED  BY <1>1, InvCorrect, PTL

(* Every channel sees the events it matches in the order of the log, apart   *)
(* from those whose failure is on record.                                    *)
THEOREM DeliveredInOrder == Spec => []InOrder
<1>1. Inv => InOrder
    <2> SUFFICES ASSUME Inv, Plain, NEW k \in 1..Len(log[1]), NEW j \in 1..(k - 1),
                        NEW c \in Channels, FromBirth(j), log[1][k].took[c] > 0,
                        c \in Targets(log[1][j])
                 PROVE  log[1][j].took[c] > 0 \/ c \in log[1][j].told
        BY DEF InOrder
    <2>1. Ordered(log[1], born[1])
        BY DEF Inv, Safe
    <2> QED  BY <2>1 DEF Ordered, FromBirth
<1> QED  BY <1>1, InvCorrect, PTL
-------------------------------------------------------------------------------
(* ReplaysBounded.  A dispatcher that is cut off leaves at most one more     *)
(* delivery of an event to a channel behind: the worker that still runs, or  *)
(* the next dispatcher's, which begins where the cursor is.  Every cut pays  *)
(* for one, and what a channel may still get is counted against the cuts.    *)

(* How often a channel has taken event k of the first incarnation.           *)
Took(k, c) == IF k \in 1..Len(log[1]) THEN log[1][k].took[c] ELSE 0

(* The event at which a dispatcher that reads the cursor now begins.         *)
Place == IF cursor[1] \in {0, Absent} THEN 1 ELSE cursor[1]

(* The first event goroutine g would still send to a channel when p is the   *)
(* place, and the channels that have it of g's own knowledge.                *)
First(g)   == IF g.cur = 0 THEN 1 ELSE g.cur
Kept(g, k) == IF g.held.b = 1 /\ g.held.i = k THEN g.held.ok ELSE {}
Front(g, p) == IF g.pc = "list" THEN First(g)
               ELSE IF g.pc = "deliver" THEN g.i
               ELSE IF g.pc \in Works THEN g.i + 1
               ELSE p
Served(g, p) == IF g.pc = "deliver" THEN g.ok
                ELSE IF g.pc \in Works THEN {}
                ELSE Kept(g, Front(g, p))

(* How often a goroutine may still send event k to c: once if k is in front  *)
(* of it, and once more if it may go back, for nothing to list or a held     *)
(* event, to a place that has fallen behind it.                              *)
One(b) == IF b THEN 1 ELSE 0
Turns(f, s, back, p, k, c) == One(k >= f /\ ~(k = f /\ c \in s))
                                + IF p < f /\ p <= k /\ k <= f THEN back ELSE 0
Turn(g, p, k, c) ==
    Turns(Front(g, p), Served(g, p), One(g.pc \in {"list", "deliver"}), p, k, c)

(* The dispatcher the supervisor has in hand, or the next one.               *)
InHand     == active \in Slots /\ Running(active) /\ ~disp[active].gone
Left(k, c) == IF InHand THEN Turn(disp[active], Place, k, c) ELSE 1

(* A cancelled dispatcher may still land the delivery it has begun, or set   *)
(* the cursor back before events behind its own.                             *)
Owes(g, k, c) == g.gone /\ \/ g.pc = "deliver" /\ g.i = k /\ c \notin g.ok \cup g.bad
                           \/ g.pc = "commit" /\ k > g.i
Owing(k, c)   == {d \in Slots : Owes(disp[d], k, c)}

Within(k, c) == /\ IsFiniteSet(Owing(k, c))
                /\ Took(k, c) + Cardinality(Owing(k, c)) + Left(k, c) <= 1 + cuts
Counted      == Plain => \A k \in Nat \ {0} : \A c \in Channels : Within(k, c)
Untouched    == Unborn => \A k \in 1..Len(log[1]) : \A c \in Channels :
                              log[1][k].took[c] = 0

(* The turns are a number.                                                   *)
LEMMA TurnsType ==
    ASSUME NEW f, NEW s, NEW back \in {0, 1}, NEW p, NEW k, NEW c
    PROVE  Turns(f, s, back, p, k, c) \in Nat
BY DEF Turns, One

(* So are those of a goroutine.                                              *)
LEMMA TurnType ==
    ASSUME NEW g, NEW p, NEW k, NEW c
    PROVE  Turn(g, p, k, c) \in Nat
<1>1. One(g.pc \in {"list", "deliver"}) \in {0, 1}
    BY DEF One
<1> QED  BY <1>1, TurnsType DEF Turn

(* One that has served more channels has no more turns.                      *)
LEMMA ServedTurns ==
    ASSUME NEW f \in Nat, NEW s, NEW t, s \subseteq t, NEW back \in {0, 1},
           NEW p \in Nat, NEW k \in Nat, NEW c
    PROVE  /\ Turns(f, t, back, p, k, c) <= Turns(f, s, back, p, k, c)
           /\ k = f /\ c \notin s /\ c \in t
                  => Turns(f, t, back, p, k, c) + 1 <= Turns(f, s, back, p, k, c)
<1>1. k = f /\ c \in s => k = f /\ c \in t
    OBVIOUS
<1>2. CASE p < f /\ p <= k /\ k <= f
    BY <1>1, <1>2 DEF Turns, One
<1>3. CASE ~(p < f /\ p <= k /\ k <= f)
    BY <1>1, <1>3 DEF Turns, One
<1> QED  BY <1>2, <1>3

(* Going back to the place.                                                  *)
LEMMA BackTurns ==
    ASSUME NEW f \in Nat, NEW s, NEW t, NEW p \in Nat, f = p => s \subseteq t,
           NEW k \in Nat, NEW c
    PROVE  Turns(p, t, 0, p, k, c) <= Turns(f, s, 1, p, k, c)
<1>1. CASE f = p
    BY <1>1, ServedTurns DEF Turns, One
<1>2. CASE p < f
    BY <1>2 DEF Turns, One
<1>3. CASE f < p
    BY <1>3 DEF Turns, One
<1>4. f = p \/ p < f \/ f < p
    OBVIOUS
<1> QED  BY <1>1, <1>2, <1>3, <1>4

(* Passing an event.                                                         *)
LEMMA PastTurns ==
    ASSUME NEW f \in Nat, NEW s, NEW p \in Nat, NEW k \in Nat, NEW c
    PROVE  Turns(f + 1, {}, 0, p, k, c) <= Turns(f, s, 1, p, k, c)
BY DEF Turns, One

(* Moving the place up to the front.                                         *)
LEMMA CommitTurns ==
    ASSUME NEW f \in Nat, NEW s, NEW back \in {0, 1}, NEW p \in Nat, NEW k \in Nat, NEW c
    PROVE  Turns(f, s, back, f, k, c) <= Turns(f, {}, 0, p, k, c)
BY DEF Turns, One

(* The place is moved by a cancelled goroutine: only what is behind it may    *)
(* be sent once more.                                                        *)
LEMMA MovedTurns ==
    ASSUME NEW f \in Nat, NEW s, NEW t, NEW back \in {0, 1}, NEW p \in Nat,
           NEW q \in Nat, NEW k \in Nat, NEW c
    PROVE  /\ Turns(f, s, back, q, k, c) <= Turns(f, s, back, p, k, c) + 1
           /\ k < q => Turns(f, s, back, q, k, c) <= Turns(f, s, back, p, k, c)
           /\ Turns(q, t, 0, q, k, c) <= Turns(p, s, 0, p, k, c) + 1
           /\ k < q => Turns(q, t, 0, q, k, c) = 0
<1> DEFINE m == One(k >= f /\ ~(k = f /\ c \in s))
           u == IF p < f /\ p <= k /\ k <= f THEN back ELSE 0
           v == IF q < f /\ q <= k /\ k <= f THEN back ELSE 0
<1>1. u \in {0, 1} /\ v \in {0, 1} /\ (k < q => v = 0)
    OBVIOUS
<1>2. m \in Nat
    BY DEF One
<1>3. /\ Turns(f, s, back, p, k, c) = m + u
      /\ Turns(f, s, back, q, k, c) = m + v
    BY DEF Turns
<1> HIDE DEF m, u, v
<1>5. /\ Turns(f, s, back, q, k, c) <= Turns(f, s, back, p, k, c) + 1
      /\ k < q => Turns(f, s, back, q, k, c) <= Turns(f, s, back, p, k, c)
    BY <1>1, <1>2, <1>3
<1>6. Turns(q, t, 0, q, k, c) <= 1 /\ (k < q => Turns(q, t, 0, q, k, c) = 0)
    BY DEF Turns, One
<1>7. Turns(q, t, 0, q, k, c) <= Turns(p, s, 0, p, k, c) + 1
    <2> DEFINE after  == Turns(q, t, 0, q, k, c)
               before == Turns(p, s, 0, p, k, c)
    <2>1. after \in Nat /\ before \in Nat /\ after <= 1
        BY <1>6, TurnsType
    <2> HIDE DEF after, before
    <2>2. after <= before + 1
        BY <2>1
    <2> QED  BY <2>2 DEF after, before
<1> QED  BY <1>5, <1>6, <1>7

(* The turns of a goroutine by where it is.                                  *)
LEMMA TurnCases ==
    ASSUME NEW g, NEW p, NEW k, NEW c
    PROVE  /\ g.pc = "list" =>
                  Turn(g, p, k, c) = Turns(First(g), Kept(g, First(g)), 1, p, k, c)
           /\ g.pc = "deliver" => Turn(g, p, k, c) = Turns(g.i, g.ok, 1, p, k, c)
           /\ g.pc \in {"report", "streak", "clear", "commit"} =>
                  Turn(g, p, k, c) = Turns(g.i + 1, {}, 0, p, k, c)
           /\ g.pc \notin Works \cup {"list"} =>
                  Turn(g, p, k, c) = Turns(p, Kept(g, p), 0, p, k, c)
<1>1. CASE g.pc = "list"
    BY <1>1 DEF Turn, Front, Served, Works, One
<1>2. CASE g.pc = "deliver"
    BY <1>2 DEF Turn, Front, Served, Works, One
<1>3. CASE g.pc \in {"report", "streak", "clear", "commit"}
    <2>1. /\ Front(g, p) = g.i + 1 /\ Served(g, p) = {}
          /\ One(g.pc \in {"list", "deliver"}) = 0
        BY <1>3 DEF Front, Served, Works, One
    <2> QED  BY <1>3, <2>1 DEF Turn, Works
<1>4. CASE g.pc \notin Works \cup {"list"}
    <2>1. /\ Front(g, p) = p /\ Served(g, p) = Kept(g, p)
          /\ One(g.pc \in {"list", "deliver"}) = 0
        BY <1>4 DEF Front, Served, Works, One
    <2> QED  BY <1>4, <2>1 DEF Turn, Works
<1> QED  BY <1>1, <1>2, <1>3, <1>4 DEF Works

(* Turns and taken events are numbers.                                       *)
LEMMA CountType ==
    ASSUME TypeOK, NEW k \in Nat \ {0}, NEW c \in Channels
    PROVE  Took(k, c) \in Nat /\ Left(k, c) \in Nat /\ cuts \in Nat /\ Place \in Nat \ {0}
<1>1. 1 \in Incs
    BY DeliveryAssumption DEF Incs
<1>2. log[1] \in Seq(Event) /\ cursor[1] \in Nat \cup {Absent}
    BY <1>1 DEF TypeOK
<1>3. \A j \in 1..Len(log[1]) : log[1][j].took[c] \in Nat
    <2>1. \A j \in 1..Len(log[1]) : log[1][j] \in Event
        BY <1>2
    <2> QED  BY <2>1 DEF Event
<1>4. Took(k, c) \in Nat
    BY <1>3 DEF Took
<1>5. Left(k, c) \in Nat
    BY TurnType DEF Left
<1>6. Place \in Nat \ {0}
    BY <1>2 DEF Place
<1> QED  BY <1>4, <1>5, <1>6 DEF TypeOK

(* A number of events and turns that is not above another is paid for.       *)
LEMMA WithinStep ==
    ASSUME TypeOK, TypeOK', NEW k \in Nat \ {0}, NEW c \in Channels, Within(k, c)
    PROVE  /\ /\ Owing(k, c)' \subseteq Owing(k, c)
              /\ Took(k, c)' + Left(k, c)' + cuts <= Took(k, c) + Left(k, c) + cuts'
              => Within(k, c)'
           /\ \A d \in Owing(k, c) :
                  /\ Owing(k, c)' \subseteq Owing(k, c) \ {d}
                  /\ Took(k, c)' + Left(k, c)' + cuts <= Took(k, c) + Left(k, c) + 1 + cuts'
                  => Within(k, c)'
           /\ \A d \in Slots :
                  /\ Owing(k, c)' \subseteq Owing(k, c) \cup {d}
                  /\ Took(k, c)' + Left(k, c)' + 1 + cuts <= Took(k, c) + Left(k, c) + cuts'
                  => Within(k, c)'
<1> DEFINE S == Owing(k, c)
           T == Owing(k, c)'
           n == Cardinality(S)
           m == Cardinality(T)
           a == Took(k, c)
           b == Took(k, c)'
           l == Left(k, c)
           r == Left(k, c)'
           u == cuts
           v == cuts'
<1>1. /\ a \in Nat /\ l \in Nat /\ u \in Nat
    BY CountType
<1>2. b \in Nat /\ r \in Nat /\ v \in Nat
    <2>1. (Took(k, c) \in Nat /\ Left(k, c) \in Nat /\ cuts \in Nat)'
        BY CountType, PTL
    <2> QED  BY <2>1
<1>3. IsFiniteSet(S) /\ n \in Nat /\ a + n + l <= 1 + u
    BY FS_CardinalityType DEF Within
<1>4. ASSUME IsFiniteSet(T), m \in Nat, b + m + r <= 1 + v PROVE Within(k, c)'
    BY <1>4 DEF Within
<1> HIDE DEF S, T, n, m, a, b, l, r, u, v
<1>5. ASSUME T \subseteq S, b + r + u <= a + l + v PROVE Within(k, c)'
    <2>1. IsFiniteSet(T) /\ m \in Nat /\ m <= n
        BY <1>3, <1>5, FS_Subset, FS_CardinalityType DEF m, n
    <2>2. b + m + r <= 1 + v
        BY <1>1, <1>2, <1>3, <1>5, <2>1
    <2> QED  BY <1>4, <2>1, <2>2
<1>6. ASSUME NEW d \in S, T \subseteq S \ {d}, b + r + u <= a + l + 1 + v
      PROVE  Within(k, c)'
    <2>1. IsFiniteSet(S \ {d}) /\ Cardinality(S \ {d}) = n - 1
        BY <1>3, FS_RemoveElement DEF n
    <2>2. IsFiniteSet(T) /\ m \in Nat /\ m <= n - 1
        BY <1>6, <2>1, FS_Subset, FS_CardinalityType DEF m
    <2>3. b + m + r <= 1 + v
        BY <1>1, <1>2, <1>3, <1>6, <2>2
    <2> QED  BY <1>4, <2>2, <2>3
<1>7. ASSUME NEW d \in Slots, T \subseteq S \cup {d}, b + r + 1 + u <= a + l + v
      PROVE  Within(k, c)'
    <2>1. IsFiniteSet(S \cup {d}) /\ Cardinality(S \cup {d}) \in Nat
        BY <1>3, FS_AddElement, FS_CardinalityType
    <2>2. Cardinality(S \cup {d}) <= n + 1
        <3>1. Cardinality(S \cup {d}) = IF d \in S THEN n ELSE n + 1
            BY <1>3, FS_AddElement DEF n
        <3> QED  BY <1>3, <3>1
    <2>3. IsFiniteSet(T) /\ m \in Nat /\ m <= Cardinality(S \cup {d})
        BY <1>7, <2>1, FS_Subset, FS_CardinalityType DEF m
    <2>4. m <= n + 1
        BY <1>3, <2>1, <2>2, <2>3
    <2>5. b + m + r <= 1 + v
        BY <1>1, <1>2, <1>3, <1>7, <2>3, <2>4
    <2> QED  BY <1>4, <2>3, <2>5
<1> QED  BY <1>5, <1>6, <1>7 DEF S, T, a, b, l, r, u, v

(* An event that is appended, or told of, has been taken no more often.      *)
LEMMA TookSame ==
    ASSUME Grown(log[1], log'[1]), NEW k \in Nat \ {0}, NEW c \in Channels,
           \A j \in 1..Len(log[1]) : log'[1][j].took = log[1][j].took
    PROVE  Took(k, c)' = Took(k, c)
<1>1. Len(log[1]) \in Nat /\ Len(log'[1]) \in Nat /\ Len(log[1]) <= Len(log'[1])
    BY DEF Grown
<1>2. CASE k \in 1..Len(log[1])
    <2>1. k \in 1..Len(log'[1])
        BY <1>1, <1>2
    <2> QED  BY <1>2, <2>1 DEF Took
<1>3. CASE k \in (Len(log[1]) + 1)..Len(log'[1])
    <2>1. k \notin 1..Len(log[1]) /\ k \in 1..Len(log'[1])
        BY <1>1, <1>3
    <2> QED  BY <1>3, <2>1 DEF Took, Grown
<1>4. CASE k \notin 1..Len(log[1]) /\ k \notin 1..Len(log'[1])
    BY <1>4 DEF Took
<1> QED  BY <1>1, <1>2, <1>3, <1>4

(* A dispatcher's step counts as taken only what it delivers.                *)
LEMMA DispatcherTook ==
    ASSUME TypeOK, Placed, Plain, Safe, NEW d \in Slots, Dispatcher(d),
           NEW k \in Nat \ {0}, NEW c \in Channels
    PROVE  \/ Took(k, c)' = Took(k, c)
           \/ Deliver(d, c) /\ disp[d].i = k /\ Took(k, c)' = Took(k, c) + 1
<1> DEFINE s == log[1]
           i == disp[d].i
           e == Current(d)
<1>a. /\ s \in Seq(Event) /\ log \in [Incs -> Seq(Event)] /\ 1 \in Incs /\ inc = 1
      /\ disp[d] \in Goroutine
    BY PlainFacts DEF TypeOK
<1>b. Grown(s, log'[1])
    BY <1>a, DispatcherTyped, FirstGrown
<1>c. ASSUME disp[d].pc \in Works
      PROVE  disp[d].b = 1 /\ i \in 1..Len(s) /\ e \in Event /\ e = s[i]
    BY <1>a, <1>c, CurrentType DEF Placed, WorksOn, Current
<1>d. ASSUME \A j \in 1..Len(s) : log'[1][j].took = s[j].took
      PROVE  Took(k, c)' = Took(k, c)
    BY <1>b, <1>d, TookSame
<1> HIDE DEF s, i, e
<1>1. CASE log' = log
    BY <1>1, <1>d DEF s
<1>2. ASSUME NEW x \in Channels, Deliver(d, x)
      PROVE  \/ Took(k, c)' = Took(k, c)
             \/ x = c /\ i = k /\ Took(k, c)' = Took(k, c) + 1
    <2>1. disp[d].pc \in Works
        BY <1>2 DEF Deliver, At, Works
    <2>2. disp[d].b = 1 /\ i \in 1..Len(s) /\ e \in Event /\ e = s[i]
        BY <1>c, <2>1
    <2>3. log' = [log EXCEPT ![1][i] = TakenBy(x, e)]
        BY <1>2, <2>2 DEF Deliver, i, e
    <2>4. log'[1] = [s EXCEPT ![i] = TakenBy(x, e)]
        BY <1>a, <2>3 DEF s
    <2>5. TakenBy(x, e) \in Event
        BY <2>2, EventType
    <2>6. /\ Len(log'[1]) = Len(s) /\ log'[1][i] = TakenBy(x, e)
          /\ \A j \in 1..Len(s) : j # i => log'[1][j] = s[j]
        BY <1>a, <2>2, <2>4, <2>5, Rewritten
    <2>7. TakenBy(x, e).took = [e.took EXCEPT ![x] = @ + 1]
        BY <2>2 DEF TakenBy, Event
    <2>8. /\ TakenBy(x, e).took[c] = IF x = c THEN e.took[c] + 1 ELSE e.took[c]
        BY <2>2, <2>7 DEF Event
    <2>9. CASE k \in 1..Len(s)
        BY <2>2, <2>6, <2>8, <2>9 DEF Took, s
    <2>10. CASE k \notin 1..Len(s)
        BY <2>6, <2>10 DEF Took, s
    <2> QED  BY <2>9, <2>10
<1>3. ASSUME NEW x \in Channels, ReportFailure(d, x), log' # log
      PROVE  Took(k, c)' = Took(k, c)
    <2>1. disp[d].pc \in Works /\ Live /\ ~disp[d].gone
        BY <1>3 DEF ReportFailure, At, Works
    <2>2. disp[d].b = 1 /\ i \in 1..Len(s) /\ e \in Event /\ e = s[i]
        BY <1>c, <2>1
    <2> DEFINE told == [log EXCEPT ![1][i] = ToldOf(x, e)]
    <2>3. log' = [told EXCEPT ![1] = Append(@, ErrorAbout(x, e))]
        BY <1>3, <1>a, <2>1, <2>2 DEF ReportFailure, i, e
    <2>4. /\ ToldOf(x, e) \in Event /\ ToldOf(x, e).took = e.took
          /\ ErrorAbout(x, e) \in Event /\ Later(e, ToldOf(x, e))
        BY <2>2, EventType DEF ToldOf, Event
    <2>5. /\ Len(told[1]) = Len(s) /\ told[1][i] = ToldOf(x, e)
          /\ \A j \in 1..Len(s) : j # i => told[1][j] = s[j]
        <3>1. told[1] = [s EXCEPT ![i] = ToldOf(x, e)]
            BY <1>a DEF s
        <3> QED  BY <1>a, <2>2, <2>4, <3>1, Rewritten
    <2>6. told \in [Incs -> Seq(Event)]
        <3>1. e = log[1][i] /\ i \in 1..Len(log[1])
            BY <2>2 DEF s
        <3>2. Grows(log, told)
            BY <1>a, <2>4, <3>1, RewriteGrows
        <3> QED  BY <3>2 DEF Grows
    <2> HIDE DEF told
    <2>7. \A j \in 1..Len(s) : log'[1][j] = told[1][j]
        BY <2>3, <2>4, <2>5, <2>6, FirstAppended
    <2>8. \A j \in 1..Len(s) : log'[1][j].took = s[j].took
        BY <2>2, <2>4, <2>5, <2>7
    <2> QED  BY <1>d, <2>8
<1>4. \/ log' = log
      \/ \E x \in Channels : Deliver(d, x) \/ ReportFailure(d, x)
    <2>1. Seed(d) \/ Loop(d) \/ Drain(d) => log' = log
        BY LoopTyped
    <2>2. CASE Process(d)
        BY <2>2 DEF Process, Fail, AllDelivered, HoldEvent, GiveUp, RecordStreak, logVars
    <2> QED  BY <2>1, <2>2 DEF Dispatcher
<1> QED  BY <1>1, <1>2, <1>3, <1>4 DEF i

(* Only Commit moves the cursor of a plain session.                          *)
LEMMA PlaceMoves ==
    ASSUME TypeOK, Placed, Plain, Safe, NEW d \in Slots, Dispatcher(d)
    PROVE  \/ ~Commit(d) /\ Place' = Place
           \/ Commit(d) /\ Place' = disp[d].i + 1 /\ disp[d].i \in Nat
<1>a. Live /\ inc = 1 /\ 1 \in Incs /\ OnTrack(disp[d], log[1], born[1])
    BY PlainFacts
<1>1. CASE Commit(d)
    <2>1. disp[d].i \in Nat /\ cursor'[1] = disp[d].i + 1
        BY <1>1, <1>a DEF Commit, CommitCursor, TypeOK, Goroutine
    <2>2. disp[d].i + 1 \notin {0, Absent}
        BY <2>1 DEF Absent
    <2> QED  BY <1>1, <2>1, <2>2 DEF Place
<1>2. CASE ~Commit(d)
    <2>1. ~SeedCommit(d) /\ ~Reset(d)
        BY <1>a DEF OnTrack, SeedCommit, Reset, At
    <2>2. cursor' = cursor
        BY <1>2, <2>1 DEF Dispatcher, Seed, SeedCheck, SeedList, StartGen, Loop, Check,
               Wake, Drain, Rotate, ReadCursor, ListEvents, Abort, Process, Deliver,
               Fail, ReportFailure, AllDelivered, HoldEvent, GiveUp, RecordStreak, logVars
    <2> QED  BY <1>2, <2>2 DEF Place
<1> QED  BY <1>1, <1>2

(* A goroutine that is not between reading and committing goes from the      *)
(* place, wherever else it is.                                               *)
LEMMA BetweenTurns ==
    ASSUME NEW g, NEW h, g.held = h.held, g.pc \notin Works \cup {"list"},
           h.pc \notin Works \cup {"list"}, NEW p, NEW k, NEW c
    PROVE  Turn(h, p, k, c) = Turn(g, p, k, c)
<1>1. Kept(h, p) = Kept(g, p)
    BY DEF Kept
<1> QED  BY <1>1, TurnCases

(* A dispatcher that is not cancelled goes on, and has no more turns after a *)
(* step than before it: between events.                                      *)
LEMMA LiveLoop ==
    ASSUME TypeOK, Placed, Plain, Safe, NEW d \in Slots, Seed(d) \/ Loop(d) \/ Drain(d),
           ~disp[d].gone, NEW k \in Nat \ {0}, NEW c \in Channels
    PROVE  /\ disp'[d].pc # "off"
           /\ Turn(disp'[d], Place', k, c) <= Turn(disp[d], Place, k, c)
<1> DEFINE p == Place
           l == Turn(disp[d], p, k, c)
           Goal == /\ disp'[d].pc # "off"
                   /\ Turn(disp'[d], Place', k, c) <= l
<1> USE StepNames
<1>a. /\ disp[d] \in Goroutine /\ disp \in [Slots -> Goroutine]
      /\ Live /\ inc = 1 /\ 1 \in Incs /\ StreamID = 1
      /\ cursor[1] \in Nat /\ cursor[1] # Absent /\ Start(inc) = cursor[1]
      /\ OnTrack(disp[d], log[1], born[1])
    BY PlainFacts DEF TypeOK, Absent
<1>b. p \in Nat \ {0} /\ p = IF cursor[1] = 0 THEN 1 ELSE cursor[1]
    BY <1>a, CountType DEF Place
<1>c. l \in Nat
    BY TurnType
<1>d. disp[d].pc \notin {"seedList", "seedCommit", "reset"} /\ disp[d].gen \in {0, 1}
    BY <1>a DEF OnTrack
<1>e. ASSUME NEW g, Becomes(d, g) PROVE disp'[d] = g
    BY <1>a, <1>e DEF Becomes
<1>f. Commit(d) \/ Place' = p
    BY PlaceMoves DEF Dispatcher
<1>g. Idle(d).pc = "wait" /\ Idle(d).held = disp[d].held
    BY DEF Idle, Off
<1>w. ASSUME NEW n, NEW j, NEW last
      PROVE  /\ Working(d, n, j, last).pc = "deliver" /\ Working(d, n, j, last).i = j
             /\ Working(d, 1, j, last).ok = Kept(disp[d], j)
    BY <1>a DEF Working, Kept, Goroutine
<1> HIDE DEF p, l
<1>h. ASSUME NEW g, Becomes(d, g), Place' = p, g.held = disp[d].held, g.pc # "off",
             g.pc \notin Works \cup {"list"}, disp[d].pc \notin Works \cup {"list"}
      PROVE  Goal
    <2>1. Turn(g, p, k, c) = l
        BY <1>h, BetweenTurns DEF l
    <2> QED  BY <1>c, <1>e, <1>h, <2>1
<1>i. ASSUME NEW pc \in {"gen", "check", "rotate", "wait", "read"}, Goes(d, pc), Place' = p,
             disp[d].pc \notin Works \cup {"list"}
      PROVE  Goal
    <2> DEFINE g == [disp[d] EXCEPT !.pc = pc]
    <2>1. g.pc = pc /\ g.held = disp[d].held
        BY <1>a DEF Goroutine
    <2>2. pc \notin Works \cup {"list"} /\ pc # "off"
        BY DEF Works
    <2> HIDE DEF g
    <2>3. Becomes(d, g)
        BY <1>i DEF Goes, g
    <2> QED  BY <1>h, <1>i, <2>1, <2>2, <2>3
<1>1. ASSUME SeedCheck(d) PROVE Goal
    <2>1. Goes(d, "gen") /\ disp[d].pc = "seed"
        BY <1>1, <1>a DEF SeedCheck, At
    <2>2. ~Commit(d)
        BY <2>1 DEF Commit, At
    <2> QED  BY <1>f, <1>i, <2>1, <2>2 DEF Works
<1>2. ASSUME SeedList(d) \/ SeedCommit(d) \/ Reset(d) PROVE Goal
    BY <1>2, <1>d DEF SeedList, SeedCommit, Reset, At
<1>3. ASSUME StartGen(d) PROVE Goal
    <2> DEFINE g == [disp[d] EXCEPT !.pc = "check", !.gen = StreamID]
    <2>1. g.pc = "check" /\ g.held = disp[d].held
        BY <1>a DEF Goroutine
    <2> HIDE DEF g
    <2>2. Becomes(d, g) /\ disp[d].pc = "gen" /\ ~Commit(d)
        BY <1>3 DEF StartGen, At, Commit, g
    <2> QED  BY <1>f, <1>h, <2>1, <2>2 DEF Works
<1>4. ASSUME Loop(d) PROVE Goal
    <2>1. disp[d].pc \in {"check", "wait"} /\ ~Commit(d)
        BY <1>4 DEF Loop, Check, Wake, At, Commit
    <2>2. Goes(d, "rotate") \/ Goes(d, "wait") \/ Goes(d, "check")
        BY <1>4, <1>a DEF Loop, Check, Wake
    <2> QED  BY <1>f, <1>i, <2>1, <2>2 DEF Works
<1>5. ASSUME Rotate(d) PROVE Goal
    <2>1. Goes(d, "read") /\ disp[d].pc = "rotate" /\ ~Commit(d)
        BY <1>5, <1>a, <1>d DEF Rotate, At, Commit
    <2> QED  BY <1>f, <1>i, <2>1 DEF Works
<1>6. ASSUME ReadCursor(d) PROVE Goal
    <2> DEFINE g == [disp[d] EXCEPT !.pc = "list", !.cur = IF Live THEN Start(inc) ELSE 0]
    <2>1. g.pc = "list" /\ g.held = disp[d].held /\ g.cur = cursor[1]
        BY <1>a DEF Goroutine
    <2> HIDE DEF g
    <2>2. Becomes(d, g) /\ disp[d].pc = "read" /\ ~Commit(d)
        BY <1>6 DEF ReadCursor, At, Commit, g
    <2>3. First(g) = p /\ Kept(g, p) = Kept(disp[d], p)
        BY <1>b, <2>1 DEF First, Kept
    <2>4. /\ Turn(g, p, k, c) = Turns(p, Kept(disp[d], p), 1, p, k, c)
          /\ l = Turns(p, Kept(disp[d], p), 0, p, k, c)
        BY <2>1, <2>2, <2>3, TurnCases DEF l, Works
    <2>5. Turn(g, p, k, c) = l
        BY <1>b, <2>4 DEF Turns, One
    <2> QED  BY <1>c, <1>e, <1>f, <2>1, <2>2, <2>5
<1>7. ASSUME ListEvents(d) PROVE Goal
    <2> DEFINE f == First(disp[d])
    <2>1. f \in Nat \ {0} /\ disp[d].pc = "list" /\ ~Commit(d)
        BY <1>7, <1>a DEF ListEvents, At, Commit, First, Goroutine
    <2> HIDE DEF f
    <2>2. Becomes(d, Working(d, 1, f, Len(log[1]))) \/ Becomes(d, Idle(d))
        BY <1>7, <1>a DEF ListEvents, First, f
    <2>3. l = Turns(f, Kept(disp[d], f), 1, p, k, c)
        BY <2>1, TurnCases DEF l, f
    <2>4. CASE Becomes(d, Working(d, 1, f, Len(log[1])))
        <3> DEFINE g == Working(d, 1, f, Len(log[1]))
        <3>1. g.pc = "deliver" /\ g.i = f /\ g.ok = Kept(disp[d], f)
            BY <1>w
        <3> HIDE DEF g
        <3>2. Turn(g, p, k, c) = l /\ disp'[d] = g
            BY <1>e, <2>3, <2>4, <3>1, TurnCases DEF g
        <3> QED  BY <1>c, <1>f, <2>1, <3>1, <3>2
    <2>5. CASE Becomes(d, Idle(d))
        <3>1. Turn(Idle(d), p, k, c) = Turns(p, Kept(disp[d], p), 0, p, k, c)
            <4>1. Kept(Idle(d), p) = Kept(disp[d], p)
                BY <1>g DEF Kept
            <4> QED  BY <1>g, <4>1, TurnCases DEF Works
        <3>2. Turn(Idle(d), p, k, c) <= l
            BY <1>b, <2>1, <2>3, <3>1, BackTurns
        <3> QED  BY <1>e, <1>f, <1>g, <2>1, <2>5, <3>2
    <2> QED  BY <2>2, <2>4, <2>5
<1>8. ASSUME Commit(d) PROVE Goal
    <2> DEFINE f == disp[d].i + 1
    <2>1. f \in Nat /\ disp[d].pc = "commit" /\ disp[d].b = 1
        BY <1>8, <1>a, CurrentType DEF Commit, At, Placed, WorksOn, Works
    <2>2. Place' = f
        BY <1>8, PlaceMoves DEF Dispatcher, Drain
    <2>3. Becomes(d, Working(d, 1, f, disp[d].upto)) \/ Becomes(d, Idle(d))
        BY <1>8, <2>1 DEF Commit
    <2>4. l = Turns(f, {}, 0, p, k, c)
        BY <2>1, TurnCases DEF l
    <2> HIDE DEF f
    <2>5. CASE Becomes(d, Working(d, 1, f, disp[d].upto))
        <3> DEFINE g == Working(d, 1, f, disp[d].upto)
        <3>1. g.pc = "deliver" /\ g.i = f
            BY <1>w
        <3> HIDE DEF g
        <3>2. disp'[d] = g
            BY <1>e, <2>5 DEF g
        <3>3. Turn(g, f, k, c) = Turns(f, g.ok, 1, f, k, c)
            BY <3>1, TurnCases
        <3>4. Turn(g, f, k, c) <= l
            BY <1>b, <2>1, <2>4, <3>3, CommitTurns
        <3> QED  BY <2>2, <3>1, <3>2, <3>4
    <2>6. CASE Becomes(d, Idle(d))
        <3>1. Turn(Idle(d), f, k, c) = Turns(f, Kept(Idle(d), f), 0, f, k, c)
            BY <1>g, TurnCases DEF Works
        <3>2. Turn(Idle(d), f, k, c) <= l
            BY <1>b, <2>1, <2>4, <3>1, CommitTurns
        <3> QED  BY <1>e, <1>g, <2>2, <2>6, <3>2
    <2> QED  BY <2>3, <2>5, <2>6
<1>9. ~Abort(d)
    BY DEF Abort
<1>10. Goal
    BY <1>1, <1>2, <1>3, <1>4, <1>5, <1>6, <1>7, <1>8, <1>9 DEF Seed, Loop, Drain
<1> QED  BY <1>10 DEF l, p

(* And on an event, where a delivery uses one up.                            *)
LEMMA LiveProcess ==
    ASSUME TypeOK, Placed, Plain, Safe, NEW d \in Slots, Process(d),
           ~disp[d].gone, NEW k \in Nat \ {0}, NEW c \in Channels
    PROVE  /\ disp'[d].pc # "off"
           /\ Turn(disp'[d], Place', k, c) <= Turn(disp[d], Place, k, c)
           /\ Deliver(d, c) /\ disp[d].i = k =>
                  Turn(disp'[d], Place', k, c) + 1 <= Turn(disp[d], Place, k, c)
<1> DEFINE p == Place
           l == Turn(disp[d], p, k, c)
           i == disp[d].i
           Goal == /\ disp'[d].pc # "off"
                   /\ Turn(disp'[d], Place', k, c) <= l
<1> USE StepNames
<1>a. /\ disp[d] \in Goroutine /\ disp \in [Slots -> Goroutine] /\ 1 \in Incs /\ inc = 1
      /\ disp[d].pc \in Works
    BY PlainFacts DEF TypeOK, Process, Deliver, Fail, ReportFailure, AllDelivered,
           HoldEvent, GiveUp, RecordStreak, Processed, At, Works
<1>b. p \in Nat \ {0} /\ i \in Nat /\ disp[d].b = 1
    BY <1>a, CountType, CurrentType DEF Placed, WorksOn
<1>c. l \in Nat
    BY TurnType
<1>e. ASSUME NEW g, Becomes(d, g) PROVE disp'[d] = g
    BY <1>a, <1>e DEF Becomes
<1>f. Place' = p
    <2>1. ~Commit(d)
        BY DEF Process, Deliver, Fail, ReportFailure, AllDelivered, HoldEvent, GiveUp,
               RecordStreak, Processed, At, Commit
    <2> QED  BY <2>1, PlaceMoves DEF Dispatcher
<1>g. At(d, "deliver") => l = Turns(i, disp[d].ok, 1, p, k, c)
    BY TurnCases DEF At
<1> HIDE DEF p, l, i
<1>p. ASSUME NEW g, Becomes(d, g), At(d, "deliver"), g.i = i,
             g.pc \in {"report", "clear", "commit"}
      PROVE  Goal
    <2>1. Turn(g, p, k, c) = Turns(i + 1, {}, 0, p, k, c)
        BY <1>p, TurnCases
    <2>2. Turn(g, p, k, c) <= l
        BY <1>b, <1>g, <1>p, <2>1, PastTurns
    <2> QED  BY <1>e, <1>f, <1>p, <2>2
<1>q. ASSUME NEW g, Becomes(d, g), disp[d].pc \in {"report", "streak", "clear", "commit"},
             g.i = i, g.pc \in {"report", "streak", "clear", "commit"}
      PROVE  Goal
    <2>1. Turn(g, p, k, c) = l
        BY <1>q, TurnCases DEF l, i
    <2> QED  BY <1>c, <1>e, <1>f, <1>q, <2>1
<1>1. ASSUME NEW x \in Channels, Deliver(d, x)
      PROVE  Goal /\ (x = c /\ i = k => Turn(disp'[d], Place', k, c) + 1 <= l)
    <2> DEFINE g == [disp[d] EXCEPT !.ok = @ \cup {x}]
    <2>1. g.pc = disp[d].pc /\ g.i = i /\ g.ok = disp[d].ok \cup {x}
        BY <1>a DEF Goroutine, i
    <2> HIDE DEF g
    <2>2. Becomes(d, g) /\ At(d, "deliver") /\ x \notin disp[d].ok
        BY <1>1 DEF Deliver, Pending, g
    <2>3. disp'[d] = g /\ g.pc = "deliver"
        BY <1>e, <2>1, <2>2 DEF At
    <2>4. Turn(g, p, k, c) = Turns(i, g.ok, 1, p, k, c)
        <3>1. g.pc = "deliver" /\ g.i = i
            BY <2>1, <2>3
        <3> QED  BY <3>1, TurnCases
    <2> DEFINE s == disp[d].ok
               t == g.ok
    <2>a. s \subseteq t /\ x \in t /\ x \notin s
        BY <2>1, <2>2
    <2>b. l = Turns(i, s, 1, p, k, c) /\ Turn(g, p, k, c) = Turns(i, t, 1, p, k, c)
        BY <1>g, <2>2, <2>4
    <2> HIDE DEF s, t
    <2>c. /\ Turns(i, t, 1, p, k, c) <= Turns(i, s, 1, p, k, c)
          /\ k = i /\ c \notin s /\ c \in t =>
                 Turns(i, t, 1, p, k, c) + 1 <= Turns(i, s, 1, p, k, c)
        BY <1>b, <2>a, ServedTurns
    <2>5. Turn(g, p, k, c) <= l /\ (x = c /\ i = k => Turn(g, p, k, c) + 1 <= l)
        BY <2>a, <2>b, <2>c
    <2> QED  BY <1>f, <2>3, <2>5
<1>2. ASSUME NEW x \in Channels, Fail(d, x) PROVE Goal
    <2>1. PICK unsent \in BOOLEAN :
              Becomes(d, [disp[d] EXCEPT !.bad = @ \cup {x}, !.unsent = @ \/ unsent])
        BY <1>2 DEF Fail
    <2> DEFINE g == [disp[d] EXCEPT !.bad = @ \cup {x}, !.unsent = @ \/ unsent]
    <2>2. g.pc = disp[d].pc /\ g.i = i /\ g.ok = disp[d].ok
        BY <1>a DEF Goroutine, i
    <2> HIDE DEF g
    <2>3. disp'[d] = g /\ g.pc = "deliver" /\ At(d, "deliver")
        BY <1>2, <1>e, <2>1, <2>2 DEF Fail, At, g
    <2>4. Turn(g, p, k, c) = l
        BY <1>g, <2>2, <2>3, TurnCases
    <2> QED  BY <1>c, <1>f, <2>3, <2>4
<1>3. ASSUME NEW x \in Channels, ReportFailure(d, x) PROVE Goal
    <2> DEFINE g == [disp[d] EXCEPT !.bad = @ \ {x},
                         !.pc = IF disp[d].bad = {x} THEN "streak" ELSE "report"]
    <2>1. g.i = i /\ g.pc \in {"streak", "report"}
        BY <1>a DEF Goroutine, i
    <2> HIDE DEF g
    <2>2. Becomes(d, g) /\ disp[d].pc = "report"
        BY <1>3 DEF ReportFailure, At, g
    <2> QED  BY <1>q, <2>1, <2>2
<1>4. ASSUME AllDelivered(d) PROVE Goal
    <2> DEFINE g == [disp[d] EXCEPT !.held = NotHeld,
                         !.pc = IF Targets(Current(d)) = {} THEN "commit" ELSE "clear"]
    <2>1. g.i = i /\ g.pc \in {"commit", "clear"}
        BY <1>a DEF Goroutine, i
    <2> HIDE DEF g
    <2>2. Becomes(d, g) /\ At(d, "deliver")
        BY <1>4 DEF AllDelivered, Processed, g
    <2> QED  BY <1>p, <2>1, <2>2
<1>5. ASSUME HoldEvent(d) PROVE Goal
    <2> DEFINE g == [Idle(d) EXCEPT
                         !.held = [b |-> disp[d].b, i |-> disp[d].i, ok |-> disp[d].ok]]
    <2>1. /\ g.pc = "wait" /\ g.held = [b |-> disp[d].b, i |-> i, ok |-> disp[d].ok]
        BY DEF Idle, Off, i
    <2> HIDE DEF g
    <2>2. Becomes(d, g) /\ At(d, "deliver")
        BY <1>5 DEF HoldEvent, Processed, g
    <2>3. i = p => Kept(g, p) = disp[d].ok
        BY <1>b, <2>1 DEF Kept
    <2>4. Turn(g, p, k, c) = Turns(p, Kept(g, p), 0, p, k, c)
        BY <2>1, TurnCases DEF Works
    <2>5. Turn(g, p, k, c) <= l
        BY <1>b, <1>g, <2>2, <2>3, <2>4, BackTurns
    <2> QED  BY <1>e, <1>f, <2>1, <2>2, <2>5
<1>6. ASSUME GiveUp(d) PROVE Goal
    <2> DEFINE g == [disp[d] EXCEPT !.pc = "report", !.held = NotHeld]
    <2>1. g.i = i /\ g.pc = "report"
        BY <1>a DEF Goroutine, i
    <2> HIDE DEF g
    <2>2. Becomes(d, g) /\ At(d, "deliver")
        BY <1>6 DEF GiveUp, Processed, g
    <2> QED  BY <1>p, <2>1, <2>2
<1>7. ASSUME RecordStreak(d) PROVE Goal
    <2> DEFINE g == [disp[d] EXCEPT !.pc = "commit"]
    <2>1. g.i = i /\ g.pc = "commit"
        BY <1>a DEF Goroutine, i
    <2> HIDE DEF g
    <2>2. Becomes(d, g) /\ disp[d].pc \in {"streak", "clear"}
        BY <1>7 DEF RecordStreak, Goes, g
    <2> QED  BY <1>q, <2>1, <2>2
<1>8. Goal
    BY <1>1, <1>2, <1>3, <1>4, <1>5, <1>6, <1>7 DEF Process
<1> QED  BY <1>1, <1>8 DEF l, p, i

(* When the place moves up, a goroutine gets at most one more turn, and none *)
(* of the events before it.                                                  *)
LEMMA MovedTurn ==
    ASSUME NEW g \in Goroutine, NEW p \in Nat, NEW q \in Nat, NEW k \in Nat, NEW c
    PROVE  /\ Turn(g, q, k, c) <= Turn(g, p, k, c) + 1
           /\ k < q => Turn(g, q, k, c) <= Turn(g, p, k, c)
<1>a. g.i \in Nat /\ First(g) \in Nat /\ g.pc \in Steps
    BY DEF Goroutine, First
<1>b. Turn(g, q, k, c) \in Nat /\ Turn(g, p, k, c) \in Nat
    BY TurnType
<1>1. CASE g.pc = "list"
    <2> DEFINE f == First(g)
               s == Kept(g, f)
    <2>1. /\ Turn(g, q, k, c) = Turns(f, s, 1, q, k, c)
          /\ Turn(g, p, k, c) = Turns(f, s, 1, p, k, c)
        BY <1>1, TurnCases
    <2> HIDE DEF f, s
    <2>2. /\ Turns(f, s, 1, q, k, c) <= Turns(f, s, 1, p, k, c) + 1
          /\ k < q => Turns(f, s, 1, q, k, c) <= Turns(f, s, 1, p, k, c)
        BY <1>a, MovedTurns DEF f
    <2> QED  BY <2>1, <2>2
<1>2. CASE g.pc = "deliver"
    <2>1. /\ Turn(g, q, k, c) = Turns(g.i, g.ok, 1, q, k, c)
          /\ Turn(g, p, k, c) = Turns(g.i, g.ok, 1, p, k, c)
        BY <1>2, TurnCases
    <2>2. /\ Turns(g.i, g.ok, 1, q, k, c) <= Turns(g.i, g.ok, 1, p, k, c) + 1
          /\ k < q => Turns(g.i, g.ok, 1, q, k, c) <= Turns(g.i, g.ok, 1, p, k, c)
        BY <1>a, MovedTurns
    <2> QED  BY <2>1, <2>2
<1>3. CASE g.pc \in {"report", "streak", "clear", "commit"}
    <2>1. /\ Turn(g, q, k, c) = Turns(g.i + 1, {}, 0, q, k, c)
          /\ Turn(g, p, k, c) = Turns(g.i + 1, {}, 0, p, k, c)
        BY <1>3, TurnCases
    <2>2. Turns(g.i + 1, {}, 0, q, k, c) = Turns(g.i + 1, {}, 0, p, k, c)
        BY DEF Turns
    <2> QED  BY <1>b, <2>1, <2>2
<1>4. CASE g.pc \notin Works \cup {"list"}
    <2>1. /\ Turn(g, q, k, c) = Turns(q, Kept(g, q), 0, q, k, c)
          /\ Turn(g, p, k, c) = Turns(p, Kept(g, p), 0, p, k, c)
        BY <1>4, TurnCases
    <2>2. /\ Turns(q, Kept(g, q), 0, q, k, c) <= Turns(p, Kept(g, p), 0, p, k, c) + 1
          /\ k < q => Turns(q, Kept(g, q), 0, q, k, c) = 0
        BY MovedTurns
    <2>3. k < q => Turn(g, q, k, c) <= Turn(g, p, k, c)
        BY <1>b, <2>1, <2>2
    <2> QED  BY <2>1, <2>2, <2>3
<1> QED  BY <1>1, <1>2, <1>3, <1>4 DEF Works

(* What a goroutine owes when it is cancelled was its turn.                  *)
LEMMA OwesTurn ==
    ASSUME NEW g \in Goroutine, NEW p \in Nat, NEW k \in Nat, NEW c,
           Owes([g EXCEPT !.gone = TRUE], k, c)
    PROVE  Turn(g, p, k, c) >= 1
<1> DEFINE h == [g EXCEPT !.gone = TRUE]
<1>1. /\ g.i \in Nat
      /\ \/ g.pc = "deliver" /\ g.i = k /\ c \notin g.ok
         \/ g.pc = "commit" /\ k > g.i
    <2>1. h.pc = g.pc /\ h.i = g.i /\ h.ok = g.ok /\ h.bad = g.bad /\ Owes(h, k, c)
        BY DEF Goroutine
    <2> HIDE DEF h
    <2> QED  BY <2>1 DEF Owes, Goroutine
<1>2. CASE g.pc = "deliver" /\ g.i = k /\ c \notin g.ok
    <2>1. Turn(g, p, k, c) = Turns(k, g.ok, 1, p, k, c)
        BY <1>2, TurnCases
    <2>2. Turns(k, g.ok, 1, p, k, c) >= 1
        BY <1>2 DEF Turns, One
    <2> QED  BY <2>1, <2>2
<1>3. CASE g.pc = "commit" /\ k > g.i
    <2>1. Turn(g, p, k, c) = Turns(g.i + 1, {}, 0, p, k, c)
        BY <1>3, TurnCases
    <2>2. Turns(g.i + 1, {}, 0, p, k, c) >= 1
        BY <1>1, <1>3 DEF Turns, One
    <2> QED  BY <2>1, <2>2
<1> QED  BY <1>1, <1>2, <1>3

(* A new goroutine sends everything from the place on once.                  *)
LEMMA NewTurn ==
    ASSUME NEW p \in Nat, NEW k \in Nat, NEW c
    PROVE  Turn([Off EXCEPT !.pc = "seed"], p, k, c) <= 1
<1> DEFINE g == [Off EXCEPT !.pc = "seed"]
<1>1. g.pc = "seed"
    BY DEF Off
<1> HIDE DEF g
<1>2. Turn(g, p, k, c) = Turns(p, Kept(g, p), 0, p, k, c)
    BY <1>1, TurnCases DEF Works
<1>3. Turns(p, Kept(g, p), 0, p, k, c) <= 1
    BY DEF Turns, One
<1>4. Turn(g, p, k, c) <= 1
    BY <1>2, <1>3
<1> QED  BY <1>4 DEF g

(* A cancelled goroutine only goes on with the event it sends, or ends.      *)
LEMMA GoneStep ==
    ASSUME TypeOK, NEW d \in Slots, Dispatcher(d), disp[d].gone
    PROVE  /\ \/ disp'[d].pc \notin {"deliver", "commit"}
              \/ /\ disp[d].pc = "deliver" /\ disp'[d].pc = "deliver"
                 /\ disp'[d].i = disp[d].i
                 /\ disp[d].ok \subseteq disp'[d].ok
                 /\ disp[d].bad \subseteq disp'[d].bad
           /\ \A c \in Channels : Deliver(d, c) => c \in disp'[d].ok
           /\ Commit(d) => disp'[d].pc = "off"
<1>a. disp[d] \in Goroutine /\ disp \in [Slots -> Goroutine] /\ Off.pc = "off"
    BY DEF TypeOK, Off
<1>b. ASSUME NEW g, Becomes(d, g) PROVE disp'[d] = g
    BY <1>a, <1>b DEF Becomes
<1>c. ASSUME NEW pc, Goes(d, pc) PROVE disp'[d].pc = pc
    <2>1. [disp[d] EXCEPT !.pc = pc].pc = pc
        BY <1>a DEF Goroutine
    <2> QED  BY <1>b, <1>c, <2>1 DEF Goes
<1> DEFINE Sends == /\ disp[d].pc = "deliver" /\ disp'[d].pc = "deliver"
                    /\ disp'[d].i = disp[d].i
                    /\ disp[d].ok \subseteq disp'[d].ok
                    /\ disp[d].bad \subseteq disp'[d].bad
           Ends == disp'[d].pc \notin {"deliver", "commit"}
<1>1. ASSUME NEW x \in Channels, Deliver(d, x) PROVE Sends /\ x \in disp'[d].ok
    <2> DEFINE g == [disp[d] EXCEPT !.ok = @ \cup {x}]
    <2>1. /\ g.pc = disp[d].pc /\ g.i = disp[d].i /\ g.ok = disp[d].ok \cup {x}
          /\ g.bad = disp[d].bad
        BY <1>a DEF Goroutine
    <2> HIDE DEF g
    <2>2. disp'[d] = g /\ disp[d].pc = "deliver"
        BY <1>1, <1>b DEF Deliver, At, g
    <2> QED  BY <2>1, <2>2
<1>2. ASSUME NEW x \in Channels, Fail(d, x) PROVE Sends
    <2>1. PICK unsent \in BOOLEAN :
              Becomes(d, [disp[d] EXCEPT !.bad = @ \cup {x}, !.unsent = @ \/ unsent])
        BY <1>2 DEF Fail
    <2> DEFINE g == [disp[d] EXCEPT !.bad = @ \cup {x}, !.unsent = @ \/ unsent]
    <2>2. /\ g.pc = disp[d].pc /\ g.i = disp[d].i /\ g.ok = disp[d].ok
          /\ g.bad = disp[d].bad \cup {x}
        BY <1>a DEF Goroutine
    <2> HIDE DEF g
    <2>3. disp'[d] = g /\ disp[d].pc = "deliver"
        BY <1>2, <1>b, <2>1 DEF Fail, At, g
    <2> QED  BY <2>2, <2>3
<1>3. ASSUME NEW x \in Channels, ReportFailure(d, x) PROVE Ends
    <2> DEFINE g == [disp[d] EXCEPT !.bad = @ \ {x},
                         !.pc = IF disp[d].bad = {x} THEN "streak" ELSE "report"]
    <2>1. g.pc \in {"streak", "report"}
        BY <1>a DEF Goroutine
    <2> HIDE DEF g
    <2>2. disp'[d] = g
        BY <1>3, <1>b DEF ReportFailure, g
    <2> QED  BY <2>1, <2>2
<1>4. ASSUME RecordStreak(d) \/ Commit(d) \/ Abort(d) PROVE disp'[d].pc = "off"
    BY <1>4, <1>a, <1>b DEF RecordStreak, Commit, Abort
<1>5. ASSUME ListEvents(d) PROVE Ends
    <2>1. Idle(d).pc = "wait"
        BY DEF Idle, Off
    <2>2. disp'[d] = Off \/ disp'[d] = Idle(d)
        BY <1>5, <1>b DEF ListEvents
    <2> QED  BY <1>a, <2>1, <2>2
<1>6. ASSUME Seed(d) \/ Loop(d) \/ Rotate(d) \/ Reset(d) \/ ReadCursor(d) PROVE Ends
    <2>1. CASE SeedCheck(d)
        BY <1>c, <2>1 DEF SeedCheck
    <2>2. CASE SeedList(d)
        BY <1>a, <1>b, <2>2 DEF SeedList, Goroutine
    <2>3. CASE SeedCommit(d)
        BY <1>a, <1>b, <2>3 DEF SeedCommit, Goroutine
    <2>4. CASE StartGen(d)
        BY <1>a, <1>b, <2>4 DEF StartGen, Goroutine
    <2>5. CASE Loop(d)
        BY <1>a, <1>b, <1>c, <2>5 DEF Loop, Check, Wake
    <2>6. CASE Rotate(d)
        BY <1>a, <1>b, <1>c, <2>6 DEF Rotate, Goroutine
    <2>7. CASE Reset(d)
        BY <1>c, <2>7 DEF Reset
    <2>8. CASE ReadCursor(d)
        BY <1>a, <1>b, <2>8 DEF ReadCursor, Goroutine
    <2> QED  BY <1>6, <2>1, <2>2, <2>3, <2>4, <2>5, <2>6, <2>7, <2>8 DEF Seed
<1>7. ~AllDelivered(d) /\ ~HoldEvent(d) /\ ~GiveUp(d)
    BY DEF AllDelivered, HoldEvent, GiveUp, Processed
<1>8. Sends \/ Ends
    <2>1. CASE Seed(d) \/ Loop(d) \/ Drain(d)
        BY <1>4, <1>5, <1>6, <2>1 DEF Drain
    <2>2. CASE Process(d)
        BY <1>1, <1>2, <1>3, <1>4, <1>7, <2>2 DEF Process
    <2> QED  BY <2>1, <2>2 DEF Dispatcher
<1> QED  BY <1>1, <1>4, <1>8

(* A dispatcher's step is paid for: by its turns, or by what it owed.        *)
LEMMA DispatcherWithin ==
    ASSUME TypeOK, TypeOK', Placed, Plain, Safe, OneUncancelled, NEW d \in Slots,
           Dispatcher(d), NEW k \in Nat \ {0}, NEW c \in Channels, Within(k, c)
    PROVE  Within(k, c)'
<1>a. /\ Running(d) /\ active' = active
      /\ \A x \in Slots \ {d} : disp'[x] = disp[x]
      /\ disp'[d].pc = "off" \/ disp'[d].gone = disp[d].gone
    BY KeepsContext
<1>b. cuts' = cuts
    BY DEF Dispatcher, Seed, SeedCheck, SeedList, SeedCommit, StartGen, Loop, Check,
           Wake, Drain, Rotate, Reset, ReadCursor, ListEvents, Commit, Abort,
           Process, Deliver, Fail, ReportFailure, AllDelivered, HoldEvent, GiveUp,
           RecordStreak, Becomes, Goes
<1>c. /\ Took(k, c) \in Nat /\ Left(k, c) \in Nat /\ cuts \in Nat /\ Place \in Nat
    BY CountType
<1>d. /\ Took(k, c)' \in Nat /\ Left(k, c)' \in Nat /\ Place' \in Nat
    <2>1. (Took(k, c) \in Nat /\ Left(k, c) \in Nat /\ Place \in Nat \ {0})'
        BY CountType, PTL
    <2> QED  BY <2>1
<1>t. \/ Took(k, c)' = Took(k, c)
      \/ Deliver(d, c) /\ disp[d].i = k /\ Took(k, c)' = Took(k, c) + 1
    BY DispatcherTook
<1>1. CASE ~disp[d].gone
    <2>1. /\ disp'[d].pc # "off"
          /\ Turn(disp'[d], Place', k, c) <= Turn(disp[d], Place, k, c)
          /\ Deliver(d, c) /\ disp[d].i = k =>
                 Turn(disp'[d], Place', k, c) + 1 <= Turn(disp[d], Place, k, c)
        <3>1. CASE Seed(d) \/ Loop(d) \/ Drain(d)
            <4>1. ~Deliver(d, c)
                BY <1>1, <3>1 DEF Seed, SeedCheck, SeedList, SeedCommit, StartGen, Loop, Check,
                       Wake, Drain, Rotate, Reset, ReadCursor, ListEvents, Commit, Abort,
                       Deliver, At
            <4> QED  BY <1>1, <3>1, <4>1, LiveLoop
        <3>2. CASE Process(d)
            BY <1>1, <3>2, LiveProcess
        <3> QED  BY <3>1, <3>2 DEF Dispatcher
    <2>2. active = d /\ active' = d /\ ~disp'[d].gone
        BY <1>1, <1>a, <2>1 DEF OneUncancelled
    <2>3. /\ Left(k, c) = Turn(disp[d], Place, k, c)
          /\ Left(k, c)' = Turn(disp'[d], Place', k, c)
        <3>1. InHand /\ InHand'
            BY <1>1, <1>a, <2>1, <2>2 DEF InHand, Running
        <3> QED  BY <2>2, <3>1 DEF Left
    <2>4. Owing(k, c)' \subseteq Owing(k, c)
        BY <1>a, <2>2 DEF Owing, Owes
    <2> DEFINE l == Left(k, c)
               r == Left(k, c)'
    <2>5. l \in Nat /\ r \in Nat /\ r <= l /\ (Deliver(d, c) /\ disp[d].i = k => r + 1 <= l)
        BY <1>c, <1>d, <2>1, <2>3
    <2> HIDE DEF l, r
    <2>6. Took(k, c)' + r + cuts <= Took(k, c) + l + cuts'
        BY <1>b, <1>c, <1>t, <2>5
    <2>7. Took(k, c)' + Left(k, c)' + cuts <= Took(k, c) + Left(k, c) + cuts'
        BY <2>6 DEF l, r
    <2> QED  BY <2>4, <2>7, WithinStep
<1>2. CASE disp[d].gone
    <2>1. /\ \/ disp'[d].pc \notin {"deliver", "commit"}
             \/ /\ disp[d].pc = "deliver" /\ disp'[d].pc = "deliver"
                /\ disp'[d].i = disp[d].i
                /\ disp[d].ok \subseteq disp'[d].ok
                /\ disp[d].bad \subseteq disp'[d].bad
          /\ Deliver(d, c) => c \in disp'[d].ok
          /\ Commit(d) => disp'[d].pc = "off"
        BY <1>2, GoneStep
    <2>2. Owing(k, c)' \subseteq Owing(k, c)
        <3>1. Owes(disp'[d], k, c) => Owes(disp[d], k, c)
            BY <1>2, <2>1 DEF Owes
        <3> QED  BY <1>a, <3>1 DEF Owing
    <2>3. /\ InHand' <=> InHand
          /\ InHand => active \in Slots /\ disp'[active] = disp[active]
        <3>1. CASE active = d
            BY <1>2, <1>a, <3>1 DEF InHand, Running
        <3>2. CASE active # d
            BY <1>a, <3>2 DEF InHand, Running
        <3> QED  BY <3>1, <3>2
    <2>4. CASE Commit(d)
        <3>1. Place' = disp[d].i + 1 /\ disp[d].i \in Nat
            BY <2>4, PlaceMoves
        <3>2. Took(k, c)' = Took(k, c)
            BY <1>t, <2>4 DEF Commit, Deliver, At
        <3>3. /\ Left(k, c)' <= Left(k, c) + 1
              /\ k < Place' => Left(k, c)' <= Left(k, c)
            <4>1. CASE InHand
                <5>1. /\ Left(k, c) = Turn(disp[active], Place, k, c)
                      /\ Left(k, c)' = Turn(disp[active], Place', k, c)
                      /\ disp[active] \in Goroutine
                    BY <1>a, <2>3, <4>1 DEF Left, TypeOK
                <5> QED  BY <1>c, <1>d, <5>1, MovedTurn
            <4>2. CASE ~InHand
                <5>1. Left(k, c) = 1 /\ Left(k, c)' = 1
                    BY <2>3, <4>2 DEF Left
                <5> QED  BY <5>1
            <4> QED  BY <4>1, <4>2
        <3>4. CASE k > disp[d].i
            <4>1. d \in Owing(k, c) /\ Owing(k, c)' \subseteq Owing(k, c) \ {d}
                BY <1>2, <2>1, <2>2, <2>4, <3>4 DEF Owing, Owes, Commit, At
            <4>2. Took(k, c)' + Left(k, c)' + cuts <= Took(k, c) + Left(k, c) + 1 + cuts'
                BY <1>b, <1>c, <1>d, <3>2, <3>3
            <4> QED  BY <4>1, <4>2, WithinStep
        <3>5. CASE ~(k > disp[d].i)
            <4>1. k < Place'
                BY <3>1, <3>5
            <4>2. Took(k, c)' + Left(k, c)' + cuts <= Took(k, c) + Left(k, c) + cuts'
                BY <1>b, <1>c, <1>d, <3>2, <3>3, <4>1
            <4> QED  BY <2>2, <4>2, WithinStep
        <3> QED  BY <3>4, <3>5
    <2>5. CASE ~Commit(d)
        <3>1. Left(k, c)' = Left(k, c)
            <4>1. Place' = Place
                BY <2>5, PlaceMoves
            <4> QED  BY <1>a, <2>3, <4>1 DEF Left
        <3>2. CASE Took(k, c)' = Took(k, c)
            <4>1. Took(k, c)' + Left(k, c)' + cuts <= Took(k, c) + Left(k, c) + cuts'
                BY <1>b, <1>c, <3>1, <3>2
            <4> QED  BY <2>2, <4>1, WithinStep
        <3>3. CASE Deliver(d, c) /\ disp[d].i = k /\ Took(k, c)' = Took(k, c) + 1
            <4>1. d \in Owing(k, c) /\ d \notin Owing(k, c)'
                BY <1>2, <2>1, <3>3 DEF Owing, Owes, Deliver, Pending, At
            <4>2. Took(k, c)' + Left(k, c)' + cuts <= Took(k, c) + Left(k, c) + 1 + cuts'
                BY <1>b, <1>c, <3>1, <3>3
            <4> QED  BY <2>2, <4>1, <4>2, WithinStep
        <3> QED  BY <1>t, <3>2, <3>3
    <2> QED  BY <2>4, <2>5
<1> QED  BY <1>1, <1>2

(* Whatever leaves log, cursor, dispatchers and cuts alone keeps the count,  *)
(* and so does an appended event.                                            *)
LEMMA CommandsWithin ==
    ASSUME TypeOK, TypeOK', Placed, Quiet, Plain, Plain', Safe,
           Commands \/ Age \/ (\E c \in Fragile : Break(c) \/ Mend(c)) \/ UNCHANGED vars,
           NEW k \in Nat \ {0}, NEW c \in Channels, Within(k, c)
    PROVE  Within(k, c)'
<1>a. /\ Live /\ inc = 1 /\ 1 \in Incs /\ log \in [Incs -> Seq(Event)] /\ row # "put"
    BY PlainFacts DEF TypeOK, Quiet, Unborn, Plain
<1>1. /\ Grows(log, log')
      /\ \A j \in 1..Len(log[1]) : log'[1][j] = log[1][j]
      /\ UNCHANGED <<cursor, disp, active, cuts>>
    <2>1. CASE Instruct \/ Publish
        <3>1. PICK f \in BOOLEAN : log' = [log EXCEPT ![1] = Append(@, Message(f))]
            BY <1>a, <2>1 DEF Instruct, Publish, AppendEvent
        <3>2. Message(f) \in Event
            BY DEF Message, Event
        <3>3. \A j \in 1..Len(log[1]) : log'[1][j] = log[1][j]
            BY <1>a, <3>1, <3>2, FirstAppended
        <3>4. Grows(log, log')
            BY <2>1, CommandsTyped DEF Commands
        <3> QED  BY <2>1, <3>3, <3>4 DEF Instruct, Publish
    <2>2. CASE Up \/ Down \/ Destroy
        BY <1>a, <2>2, SameGrows DEF Up, Down, Destroy, logVars
    <2>3. CASE Create \/ SeedBirth \/ RetryCreate
        BY <1>a, <2>3 DEF Create, SeedBirth, RetryCreate, Live
    <2>4. CASE Age \/ (\E x \in Fragile : Break(x) \/ Mend(x)) \/ UNCHANGED vars
        BY <1>a, <2>4, SameGrows DEF Age, Break, Mend, vars, logVars
    <2> QED  BY <2>1, <2>2, <2>3, <2>4 DEF Commands
<1>2. Took(k, c)' = Took(k, c)
    <2>1. Grown(log[1], log'[1])
        BY <1>a, <1>1, FirstGrown
    <2> QED  BY <1>1, <2>1, TookSame
<1>3. /\ Owing(k, c)' = Owing(k, c) /\ Left(k, c)' = Left(k, c)
    <2>1. Place' = Place /\ (InHand' <=> InHand)
        BY <1>1 DEF Place, InHand, Running
    <2> QED  BY <1>1, <2>1 DEF Owing, Left
<1>4. Took(k, c)' + Left(k, c)' + cuts <= Took(k, c) + Left(k, c) + cuts'
    BY <1>1, <1>2, <1>3, CountType
<1> QED  BY <1>3, <1>4, WithinStep

(* A cut pays for what the dispatcher that is cut off leaves behind, and for *)
(* the turn of the next one.                                                 *)
LEMMA SupervisorWithin ==
    ASSUME TypeOK, TypeOK', Placed, ServeDies \/ Reconcile,
           NEW k \in Nat \ {0}, NEW c \in Channels, Within(k, c)
    PROVE  Within(k, c)'
<1>a. /\ disp \in [Slots -> Goroutine] /\ active \in Slots \cup {Nobody}
      /\ Nobody \notin Slots
    BY DeliveryAssumption DEF TypeOK, Nobody
<1>b. Took(k, c) \in Nat /\ Left(k, c) \in Nat /\ cuts \in Nat /\ Place \in Nat
    BY CountType
<1>c. Took(k, c)' = Took(k, c) /\ Place' = Place
    BY DEF ServeDies, Reconcile, CancelDispatcher, StartDispatcher, logVars, Took, Place
<1>1. CASE ServeDies
    <2>1. /\ disp' = [d \in Slots |-> Off] /\ active' = Nobody /\ cuts' = cuts + 1
        BY <1>1 DEF ServeDies
    <2>2. Owing(k, c)' = {} /\ Left(k, c)' = 1
        BY <1>a, <2>1 DEF Owing, Owes, Off, Left, InHand
    <2>3. Took(k, c)' + Left(k, c)' + cuts <= Took(k, c) + Left(k, c) + cuts'
        BY <1>b, <1>c, <2>1, <2>2
    <2> QED  BY <2>2, <2>3, WithinStep
<1>2. ASSUME NEW d \in Slots, StartDispatcher(d) PROVE Within(k, c)'
    <2> DEFINE g == [Off EXCEPT !.pc = "seed"]
    <2>1. /\ disp' = [disp EXCEPT ![d] = g] /\ active' = d /\ cuts' = cuts
          /\ active = Nobody
        BY <1>2 DEF StartDispatcher
    <2>2. g.pc = "seed" /\ ~g.gone /\ Turn(g, Place, k, c) <= 1
        BY <1>b, NewTurn DEF Off
    <2> HIDE DEF g
    <2>3. Owing(k, c)' \subseteq Owing(k, c)
        BY <1>a, <2>1, <2>2 DEF Owing, Owes
    <2>4. Left(k, c) = 1
        BY <1>a, <2>1 DEF Left, InHand
    <2>5. Left(k, c)' = Turn(g, Place, k, c) /\ Turn(g, Place, k, c) \in Nat
        <3>1. InHand' /\ disp'[active'] = g
            BY <1>a, <2>1, <2>2 DEF InHand, Running
        <3> QED  BY <1>c, <3>1, TurnType DEF Left
    <2>6. Took(k, c)' + Left(k, c)' + cuts <= Took(k, c) + Left(k, c) + cuts'
        BY <1>b, <1>c, <2>1, <2>2, <2>4, <2>5
    <2> QED  BY <2>3, <2>6, WithinStep
<1>3. CASE CancelDispatcher
    <2>1. active \in Slots /\ active' = Nobody
        BY <1>3, <1>a DEF CancelDispatcher
    <2>2. Left(k, c)' = 1
        BY <1>a, <2>1 DEF Left, InHand
    <2>3. CASE ~Running(active)
        <3>1. disp' = disp /\ cuts' = cuts
            BY <1>3, <2>3 DEF CancelDispatcher
        <3>2. Left(k, c) = 1 /\ Owing(k, c)' = Owing(k, c)
            BY <2>3, <3>1 DEF Left, InHand, Owing
        <3>3. Took(k, c)' + Left(k, c)' + cuts <= Took(k, c) + Left(k, c) + cuts'
            BY <1>b, <1>c, <2>2, <3>1, <3>2
        <3> QED  BY <3>2, <3>3, WithinStep
    <2>4. CASE Running(active)
        <3> DEFINE g == disp[active]
                   h == [g EXCEPT !.gone = TRUE]
        <3>1. /\ g \in Goroutine /\ disp' = [disp EXCEPT ![active] = h]
              /\ cuts' = cuts + 1
            BY <1>a, <1>3, <2>1, <2>4 DEF CancelDispatcher
        <3>2. /\ \A x \in Slots \ {active} : disp'[x] = disp[x]
              /\ disp'[active] = h
            BY <1>a, <2>1, <3>1
        <3>3. CASE ~g.gone /\ Owes(h, k, c)
            <4>1. Owing(k, c)' \subseteq Owing(k, c) \cup {active}
                BY <2>1, <3>2 DEF Owing
            <4>2. Left(k, c) >= 1
                <5>1. Turn(g, Place, k, c) >= 1
                    BY <1>b, <3>1, <3>3, OwesTurn
                <5> QED  BY <2>1, <2>4, <3>3, <5>1 DEF Left, InHand
            <4>3. Took(k, c)' + Left(k, c)' + 1 + cuts <= Took(k, c) + Left(k, c) + cuts'
                BY <1>b, <1>c, <2>2, <3>1, <4>2
            <4> QED  BY <2>1, <4>1, <4>3, WithinStep
        <3>4. CASE g.gone \/ ~Owes(h, k, c)
            <4>1. g.gone => h = g
                BY <3>1 DEF Goroutine
            <4> HIDE DEF h
            <4>2. Owes(h, k, c) => Owes(g, k, c)
                BY <3>4, <4>1
            <4>3. Owing(k, c)' \subseteq Owing(k, c)
                BY <2>1, <3>2, <4>2 DEF Owing
            <4>4. Took(k, c)' + Left(k, c)' + cuts <= Took(k, c) + Left(k, c) + cuts'
                BY <1>b, <1>c, <2>2, <3>1
            <4> QED  BY <4>3, <4>4, WithinStep
        <3> QED  BY <3>3, <3>4
    <2> QED  BY <2>3, <2>4
<1> QED  BY <1>1, <1>2, <1>3 DEF Reconcile

(* Nothing was taken before the creator seeds the cursor.                    *)
LEMMA UntouchedStep ==
    ASSUME TypeOK, Placed, Quiet, Untouched, [Next]_vars
    PROVE  Untouched'
<1> SUFFICES ASSUME Unborn', NEW k \in 1..Len(log'[1]), NEW c \in Channels
             PROVE  log'[1][k].took[c] = 0
    BY DEF Untouched
<1>1. Unborn
    BY UnbornSince
<1>2. 1 \in Incs /\ log \in [Incs -> Seq(Event)] /\ \A d \in Slots : ~Running(d)
    BY <1>1, DeliveryAssumption DEF Incs, TypeOK, Quiet, Off, Running
<1>3. Grown(log[1], log'[1])
    BY <1>2, TypedStep, FirstGrown
<1>4. \A j \in 1..Len(log[1]) : log'[1][j] = log[1][j]
    <2>1. CASE Instruct \/ Publish
        <3>1. inc = 1
            BY <1>1, <2>1 DEF Unborn, Instruct, Publish, Live, TypeOK
        <3>2. PICK f \in BOOLEAN : log' = [log EXCEPT ![1] = Append(@, Message(f))]
            BY <2>1, <3>1 DEF Instruct, Publish, AppendEvent
        <3>3. Message(f) \in Event
            BY DEF Message, Event
        <3> QED  BY <1>2, <3>2, <3>3, FirstAppended
    <2>2. CASE Create \/ SeedBirth \/ RetryCreate \/ Up \/ Down \/ Destroy
        BY <2>2 DEF Create, SeedBirth, RetryCreate, Up, Down, Destroy, logVars
    <2>3. CASE World \/ Reconcile \/ UNCHANGED vars
        BY <2>3, WorldTyped
    <2>4. \A d \in Slots : ~Dispatcher(d)
        BY <1>2, KeepsContext
    <2> QED  BY <2>1, <2>2, <2>3, <2>4 DEF Next, Commands
<1>5. \A j \in 1..Len(log[1]) : log[1][j].took[c] = 0
    BY <1>1 DEF Untouched
<1>6. Len(log[1]) \in Nat /\ Len(log'[1]) \in Nat /\ Len(log[1]) <= Len(log'[1])
    BY <1>3 DEF Grown
<1>7. CASE k \in 1..Len(log[1])
    BY <1>4, <1>5, <1>7
<1>8. CASE k \in (Len(log[1]) + 1)..Len(log'[1])
    BY <1>3, <1>8 DEF Grown
<1> QED  BY <1>6, <1>7, <1>8

(* A session that is born is owed each of its events once.                   *)
LEMMA BirthCounted ==
    ASSUME TypeOK, Quiet, Untouched, SeedBirth, inc = 1
    PROVE  Counted'
<1> SUFFICES ASSUME NEW k \in Nat \ {0}, NEW c \in Channels PROVE Within(k, c)'
    BY DEF Counted
<1>1. /\ row = "put" /\ Unborn /\ disp' = disp /\ log' = log /\ active' = active
      /\ cuts' = cuts /\ \A d \in Slots : disp[d] = Off
    BY DEF SeedBirth, Unborn, Quiet
<1>2. Took(k, c)' = 0
    BY <1>1 DEF Took, Untouched
<1>3. Owing(k, c)' = {} /\ Left(k, c)' = 1
    <2>1. ~InHand'
        BY <1>1 DEF InHand, Running, Off
    <2>2. Owing(k, c)' = {}
        BY <1>1 DEF Owing, Owes, Off
    <2> QED  BY <2>1, <2>2 DEF Left
<1> QED  BY <1>1, <1>2, <1>3, FS_EmptySet DEF Within, TypeOK

(* The count is preserved by every step.                                     *)
LEMMA CountedStep ==
    ASSUME Inv, Inv', OneUncancelled, Untouched, Counted, [Next]_vars
    PROVE  Counted'
<1> SUFFICES ASSUME Plain' PROVE Counted'
    BY DEF Counted
<1>1. CASE SeedBirth /\ inc = 1
    BY <1>1, BirthCounted DEF Inv
<1>2. CASE Plain
    <2> SUFFICES ASSUME NEW k \in Nat \ {0}, NEW c \in Channels PROVE Within(k, c)'
        BY DEF Counted
    <2>1. Within(k, c)
        BY <1>2 DEF Counted
    <2>2. CASE Commands \/ Age \/ (\E x \in Fragile : Break(x) \/ Mend(x)) \/ UNCHANGED vars
        BY <1>2, <2>1, <2>2, CommandsWithin DEF Inv
    <2>3. CASE ServeDies \/ Reconcile
        BY <2>1, <2>3, SupervisorWithin DEF Inv
    <2>4. ASSUME NEW d \in Slots, Dispatcher(d) PROVE Within(k, c)'
        BY <1>2, <2>1, <2>4, DispatcherWithin DEF Inv
    <2> QED  BY <2>2, <2>3, <2>4 DEF Next, World
<1> QED  BY <1>1, <1>2, PlainSince DEF Inv

(* A channel gets an event at most once more than dispatchers were cut off,  *)
(* however many of them, cancelled and not, work on the log at the same time.*)
THEOREM ReplaysAreBounded == Spec => []ReplaysBounded
<1>1. Init => Counted /\ Untouched
    <2> SUFFICES ASSUME Init PROVE Counted /\ Untouched
        OBVIOUS
    <2>1. 1 \in Incs
        BY DeliveryAssumption DEF Incs
    <2>2. Counted
        BY DEF Init, Counted, Plain, Live
    <2>3. log[1] = <<>>
        BY <2>1 DEF Init
    <2> QED  BY <2>2, <2>3 DEF Untouched
<1>2. Inv /\ Untouched /\ [Next]_vars => Untouched'
    BY UntouchedStep DEF Inv
<1>3. Inv /\ Inv' /\ OneUncancelled /\ Untouched /\ Counted /\ [Next]_vars => Counted'
    BY CountedStep
<1>4. TypeOK /\ Counted => ReplaysBounded
    <2> SUFFICES ASSUME TypeOK, Counted, Plain, NEW k \in 1..Len(log[1]), NEW c \in Channels
                 PROVE  log[1][k].took[c] <= 1 + cuts
        BY DEF ReplaysBounded
    <2>1. 1 \in Incs
        BY DeliveryAssumption DEF Incs
    <2>2. k \in Nat \ {0}
        BY <2>1 DEF TypeOK
    <2>3. Within(k, c) /\ Took(k, c) = log[1][k].took[c]
        BY <2>2 DEF Counted, Took
    <2>4. /\ Took(k, c) \in Nat /\ Left(k, c) \in Nat /\ cuts \in Nat
          /\ Cardinality(Owing(k, c)) \in Nat
        BY <2>2, <2>3, CountType, FS_CardinalityType DEF Within
    <2>5. Took(k, c) + Cardinality(Owing(k, c)) + Left(k, c) <= 1 + cuts
        BY <2>3 DEF Within
    <2>6. Took(k, c) <= 1 + cuts
        BY <2>4, <2>5
    <2> QED  BY <2>3, <2>6
<1>5. Inv => TypeOK
    BY DEF Inv
<1> QED  BY <1>1, <1>2, <1>3, <1>4, <1>5, InvCorrect, AtMostOneUncancelled, PTL DEF Spec
-------------------------------------------------------------------------------
(* ImplementsQueue.  The first log of a plain session is the queue: a publish *)
(* appends, a delivery takes, a report does both, a commit passes, and every  *)
(* other step leaves the queue alone.                                        *)

(* The next event is one of the incarnation's own.                           *)
Began == Plain => born[1] <= Len(log[1]) + 1

(* Only its creator moves where a session begins, and a log only grows.      *)
LEMMA BeganStep ==
    ASSUME Inv, Began, [Next]_vars
    PROVE  Began'
<1> SUFFICES ASSUME Plain' PROVE born'[1] <= Len(log'[1]) + 1
    BY DEF Began
<1>1. 1 \in Incs /\ log \in [Incs -> Seq(Event)]
    BY DeliveryAssumption DEF Incs, Inv, TypeOK
<1>2. Grown(log[1], log'[1])
    BY <1>1, TypedStep, FirstGrown DEF Inv
<1>3. Len(log[1]) \in Nat /\ Len(log'[1]) \in Nat /\ Len(log[1]) <= Len(log'[1])
    BY <1>2 DEF Grown
<1>4. CASE SeedBirth /\ inc = 1
    <2>1. row = "put" /\ cursor[1] = Absent /\ log' = log
        BY <1>4 DEF SeedBirth, Inv, Quiet, Unborn
    <2>2. born'[1] = LogEnd(1)
        BY <1>1, <1>4, <2>1 DEF SeedBirth, Inv, TypeOK
    <2> QED  BY <1>3, <2>1, <2>2 DEF LogEnd
<1>5. CASE Plain
    <2>1. born' = born
        <3>1. ~SeedBirth
            BY <1>5 DEF SeedBirth, Inv, Quiet, Unborn, Plain
        <3>2. CASE Commands
            BY <3>1, <3>2 DEF Commands, Create, RetryCreate, Instruct, Publish, Up, Down,
                   Destroy, rowVars
        <3>3. CASE World \/ Reconcile \/ UNCHANGED vars
            BY <3>3 DEF World, Reconcile, Age, ServeDies, Break, Mend, CancelDispatcher,
                   StartDispatcher, vars, rowVars
        <3>4. CASE \E d \in Slots : Dispatcher(d)
            BY <3>4 DEF Dispatcher, Seed, SeedCheck, SeedList, SeedCommit, StartGen, Loop,
                   Check, Wake, Drain, Rotate, Reset, ReadCursor, ListEvents, Commit, Abort,
                   Process, Deliver, Fail, ReportFailure, AllDelivered, HoldEvent, GiveUp,
                   RecordStreak, Becomes, Goes, rowVars
        <3> QED  BY <3>2, <3>3, <3>4 DEF Next
    <2>2. born[1] \in Nat /\ born[1] <= Len(log[1]) + 1
        BY <1>5, PlainFacts DEF Began, Inv
    <2> QED  BY <1>3, <2>1, <2>2
<1> QED  BY <1>4, <1>5, PlainSince DEF Inv

(* Before its birth and after its end a session has no queue.                *)
LEMMA NoQueue ==
    ~Plain => /\ Owed = {} /\ Wanted = Queue!Empty /\ Answered = Queue!Empty
              /\ Passed = {} /\ Upcoming = 0
BY DEF Owed, Wanted, Answered, Passed, Upcoming, Queue!Empty

(* A step that leaves the log and the cursor alone leaves the queue alone.   *)
LEMMA QueueStays ==
    ASSUME UNCHANGED <<log, born, cursor>>, Plain' <=> Plain
    PROVE  UNCHANGED Queue!vars
<1>1. Owed' = Owed
    BY DEF Owed, FromBirth
<1>2. Wanted' = Wanted /\ Answered' = Answered /\ Passed' = Passed
    BY <1>1 DEF Wanted, Answered, Passed
<1>3. Upcoming' = Upcoming /\ Plain' = Plain
    BY DEF Upcoming, Plain
<1> QED  BY <1>2, <1>3 DEF Queue!vars

(* The queue begins empty, at the place where the creator seeds the cursor.  *)
LEMMA QueueOpens ==
    ASSUME TypeOK, Quiet, SeedBirth, inc = 1
    PROVE  Queue!Open
<1>1. 1 \in Incs /\ row = "put" /\ Unborn /\ log[1] \in Seq(Event) /\ Len(log[1]) \in Nat
    BY DeliveryAssumption DEF Incs, SeedBirth, Unborn, TypeOK
<1>2. cursor[1] = Absent /\ born[1] = Absent
    BY <1>1 DEF Quiet
<1>3. born'[1] = LogEnd(1) /\ log' = log /\ inc' = 1 /\ row' = "seeded"
    BY <1>1, <1>2 DEF SeedBirth, TypeOK
<1>4. ~Plain /\ Plain'
    BY <1>1, <1>2, <1>3 DEF Plain, Live, LogEnd, Absent
<1>5. Owed' = {}
    BY <1>1, <1>3 DEF Owed, FromBirth, LogEnd
<1>6. Owed' = {} /\ Wanted' = Queue!Empty /\ Answered' = Queue!Empty /\ Passed' = {}
    BY <1>5 DEF Wanted, Answered, Passed, Queue!Empty
<1>7. Upcoming' \in Nat
    BY <1>1, <1>3, <1>4 DEF Upcoming
<1> QED  BY <1>4, <1>6, <1>7, NoQueue DEF Queue!Open

(* It ends with the session.                                                 *)
LEMMA QueueCloses ==
    ASSUME Plain, ~Plain'
    PROVE  Queue!Close
<1>1. /\ Owed' = {} /\ Wanted' = Queue!Empty /\ Answered' = Queue!Empty
      /\ Passed' = {} /\ Upcoming' = 0
    BY DEF Owed, Wanted, Answered, Passed, Upcoming, Queue!Empty
<1> QED  BY <1>1 DEF Queue!Close

(* What the queue says of an event.                                          *)
LEMMA QueueFacts ==
    ASSUME TypeOK, Plain, Safe, Began
    PROVE  /\ Owed \subseteq 1..Len(log[1]) /\ Len(log[1]) \in Nat
           /\ \A k \in 1..Len(log[1]) : k \in Owed <=> born[1] <= k
           /\ \A k \in Owed : Wanted[k] = Targets(log[1][k])
                              /\ Answered[k] = Answers(log[1][k])
           /\ DOMAIN Wanted = Owed /\ DOMAIN Answered = Owed
           /\ Upcoming = Len(log[1]) + 1 /\ Upcoming \notin Owed
           /\ born[1] <= Upcoming /\ born[1] \in Nat
           /\ \A k \in 1..Len(log[1]) : log[1][k] \in Event
<1>1. log[1] \in Seq(Event) /\ Len(log[1]) \in Nat /\ born[1] \in Nat
    BY PlainFacts
<1>2. /\ Owed \subseteq 1..Len(log[1])
      /\ \A k \in 1..Len(log[1]) : k \in Owed <=> born[1] <= k
    BY DEF Owed, FromBirth
<1>3. /\ \A k \in Owed : Wanted[k] = Targets(log[1][k])
                         /\ Answered[k] = Answers(log[1][k])
      /\ DOMAIN Wanted = Owed /\ DOMAIN Answered = Owed
    BY DEF Wanted, Answered
<1>4. Upcoming = Len(log[1]) + 1 /\ Upcoming \notin Owed /\ born[1] <= Upcoming
    BY <1>1, <1>2 DEF Upcoming, Began
<1> QED  BY <1>1, <1>2, <1>3, <1>4

(* What is settled before event k is due to be settled at k.                 *)
LEMMA QueueDue ==
    ASSUME TypeOK, Plain, Safe, Began, NEW k \in Owed, UpTo(k, log[1], born[1]),
           NEW c \in Targets(log[1][k])
    PROVE  Queue!Due(c, k)
<1>1. ASSUME NEW j \in Owed, j < k, c \in Wanted[j] PROVE c \in Answered[j]
    <2>1. j \in 1..Len(log[1]) /\ born[1] <= j
        BY <1>1, QueueFacts
    <2>2. Settled(log[1][j]) /\ c \in Targets(log[1][j])
        BY <1>1, <2>1, QueueFacts DEF UpTo
    <2>3. c \in Answers(log[1][j])
        BY <2>2 DEF Answers, Settled
    <2> QED  BY <1>1, <2>3, QueueFacts
<1> QED  BY <1>1, QueueFacts DEF Queue!Due

(* An appended event is published, and so is one that goes with a report.    *)
LEMMA QueueGrows ==
    ASSUME TypeOK, Plain, Safe, Began, Plain', UNCHANGED <<born, cursor>>,
           NEW e \in Event, e.told = {}, \A c \in Channels : e.took[c] = 0,
           Len(log'[1]) = Len(log[1]) + 1, log'[1][Len(log[1]) + 1] = e,
           \A k \in 1..Len(log[1]) : Targets(log'[1][k]) = Targets(log[1][k])
    PROVE  /\ Owed' = Owed \cup {Upcoming} /\ Upcoming' = Upcoming + 1
           /\ Wanted' = Queue!With(Wanted, Upcoming, Targets(e))
           /\ Answered' = [k \in Owed \cup {Upcoming} |->
                               IF k = Upcoming THEN {} ELSE Answers(log'[1][k])]
           /\ Passed' = Passed
<1> DEFINE n == Len(log[1])
<1>a. /\ n \in Nat /\ born[1] \in Nat /\ cursor[1] \in Nat /\ cursor[1] <= n + 1
      /\ Upcoming = n + 1 /\ born[1] <= n + 1
      /\ Owed \subseteq 1..n /\ \A k \in 1..n : k \in Owed <=> born[1] <= k
    BY QueueFacts, PlainFacts DEF UpTo
<1>b. Len(log'[1]) = n + 1 /\ log'[1][n + 1] = e
    OBVIOUS
<1>c. Targets(e) \subseteq Channels
    BY DeliveryAssumption DEF Targets
<1> HIDE DEF n
<1>1. Owed' = {k \in 1..(n + 1) : born[1] <= k}
    BY <1>b DEF Owed, FromBirth
<1>2. Owed' = Owed \cup {n + 1}
    <2>1. ASSUME NEW k PROVE k \in 1..(n + 1) /\ born[1] <= k <=> k \in Owed \/ k = n + 1
        <3>1. k \in 1..(n + 1) <=> k \in 1..n \/ k = n + 1
            BY <1>a
        <3> QED  BY <1>a, <3>1
    <2> QED  BY <1>1, <2>1
<1>3. Upcoming' = Upcoming + 1
    BY <1>a, <1>b DEF Upcoming
<1>4. Wanted' = Queue!With(Wanted, n + 1, Targets(e))
    <2>1. Wanted' = [k \in Owed \cup {n + 1} |-> Targets(log'[1][k])]
        BY <1>2 DEF Wanted
    <2>2. \A k \in Owed \cup {n + 1} :
              Targets(log'[1][k]) = IF k = n + 1 THEN Targets(e) ELSE Wanted[k]
        BY <1>a, <1>b, QueueFacts DEF n
    <2>3. DOMAIN Wanted = Owed
        BY QueueFacts
    <2> QED  BY <2>1, <2>2, <2>3 DEF Queue!With
<1>5. Answered' = [k \in Owed \cup {n + 1} |->
                       IF k = n + 1 THEN {} ELSE Answers(log'[1][k])]
    <2>1. Answered' = [k \in Owed \cup {n + 1} |-> Answers(log'[1][k])]
        BY <1>2 DEF Answered
    <2>2. Answers(e) = {}
        BY <1>c DEF Answers
    <2> QED  BY <1>b, <2>1, <2>2
<1>6. Passed' = Passed
    BY <1>a, <1>2 DEF Passed
<1> QED  BY <1>a, <1>2, <1>3, <1>4, <1>5, <1>6

(* An event of the session, or an instruction, is published.                 *)
LEMMA QueuePublishes ==
    ASSUME TypeOK, Plain, Safe, Began, Plain', UNCHANGED <<born, cursor>>,
           NEW e \in Event, e.told = {}, \A c \in Channels : e.took[c] = 0,
           log' = [log EXCEPT ![1] = Append(@, e)]
    PROVE  \E w \in SUBSET Channels : Queue!Publish(w)
<1>1. log[1] \in Seq(Event) /\ 1 \in Incs /\ log \in [Incs -> Seq(Event)]
    BY PlainFacts DEF TypeOK
<1>2. log'[1] = Append(log[1], e)
    BY <1>1
<1>3. /\ Len(log'[1]) = Len(log[1]) + 1 /\ log'[1][Len(log[1]) + 1] = e
      /\ \A k \in 1..Len(log[1]) : log'[1][k] = log[1][k]
    BY <1>1, <1>2, AppendProperties
<1>4. /\ Upcoming' = Upcoming + 1 /\ Passed' = Passed
      /\ Wanted' = Queue!With(Wanted, Upcoming, Targets(e))
      /\ Answered' = [k \in Owed \cup {Upcoming} |->
                          IF k = Upcoming THEN {} ELSE Answers(log'[1][k])]
    BY <1>3, QueueGrows
<1>5. Answered' = Queue!With(Answered, Upcoming, {})
    <2>1. \A k \in Owed \cup {Upcoming} :
              (IF k = Upcoming THEN {} ELSE Answers(log'[1][k]))
                  = IF k = Upcoming THEN {} ELSE Answered[k]
        BY <1>3, QueueFacts
    <2>2. DOMAIN Answered = Owed
        BY QueueFacts
    <2> QED  BY <1>4, <2>1, <2>2 DEF Queue!With
<1>6. Targets(e) \in SUBSET Channels
    BY DeliveryAssumption DEF Targets
<1> QED  BY <1>4, <1>5, <1>6 DEF Queue!Publish

(* A delivery takes an event that is due, or was before the birth.           *)
LEMMA QueueTakes ==
    ASSUME TypeOK, Placed, Plain, Safe, Began, NEW d \in Slots, NEW c \in Channels,
           Deliver(d, c)
    PROVE  \/ Queue!Take(c, disp[d].i) /\ disp[d].i \in Owed
           \/ UNCHANGED Queue!vars
<1> DEFINE s == log[1]
           i == disp[d].i
           e == Current(d)
           f == TakenBy(c, e)
<1>a. /\ s \in Seq(Event) /\ log \in [Incs -> Seq(Event)] /\ 1 \in Incs /\ inc = 1
      /\ disp[d].pc = "deliver" /\ OnTrack(disp[d], s, born[1])
    BY PlainFacts DEF TypeOK, Deliver, At
<1>b. /\ disp[d].b = 1 /\ i \in 1..Len(s) /\ e \in Event /\ e = s[i]
      /\ UpTo(i, s, born[1])
    BY <1>a, CurrentType DEF Placed, WorksOn, Current, Works, OnTrack, EventRight
<1>c. /\ UNCHANGED rowVars /\ cursor' = cursor /\ c \in Targets(e)
      /\ log' = [log EXCEPT ![1][i] = f]
    BY <1>b DEF Deliver, Becomes, Pending
<1>d. f \in Event /\ Later(e, f) /\ f.took[c] > 0 /\ f.told = e.told
      /\ \A x \in Channels \ {c} : f.took[x] = e.took[x]
    <2>1. f.took = [e.took EXCEPT ![c] = @ + 1] /\ f.told = e.told
        BY <1>b DEF TakenBy, Event
    <2> QED  BY <1>b, <2>1, EventType DEF Event
<1> HIDE DEF s, i, e, f
<1>1. log'[1] = [s EXCEPT ![i] = f]
    BY <1>a, <1>c DEF s
<1>2. Len(log'[1]) = Len(s) /\ log'[1][i] = f /\ \A k \in 1..Len(s) : k # i => log'[1][k] = s[k]
    BY <1>a, <1>b, <1>d, <1>1, Rewritten
<1>3. Plain' /\ Owed' = Owed /\ Upcoming' = Upcoming /\ Passed' = Passed
    <2>1. Plain' /\ born' = born
        BY <1>c DEF Plain, Live, rowVars
    <2>2. Owed' = Owed
        BY <1>2, <2>1 DEF Owed, FromBirth, s
    <2> QED  BY <1>c, <1>2, <2>1, <2>2 DEF Upcoming, Passed, s
<1>4. Targets(f) = Targets(e) /\ Answers(f) = Answers(e) \cup {c}
    <2>1. Targets(f) = Targets(e) /\ Targets(e) \subseteq Channels
        BY <1>b, <1>d, SettledStays
    <2> QED  BY <1>c, <1>d, <2>1 DEF Answers
<1>5. Wanted' = Wanted
    <2>1. \A k \in Owed : Targets(log'[1][k]) = Targets(s[k])
        BY <1>b, <1>2, <1>4, QueueFacts DEF s
    <2> QED  BY <1>3, <2>1 DEF Wanted, s
<1>6. Answered' = [k \in Owed |-> IF k = i THEN Answered[k] \cup {c} ELSE Answered[k]]
    <2>1. \A k \in Owed : Answers(log'[1][k]) = IF k = i THEN Answered[k] \cup {c} ELSE Answered[k]
        BY <1>b, <1>2, <1>4, QueueFacts DEF s
    <2> QED  BY <1>3, <2>1 DEF Answered
<1>7. CASE i \in Owed
    <2>1. Queue!Due(c, i)
        BY <1>b, <1>c, <1>7, QueueDue DEF s
    <2>2. Answered' = Queue!Marked(Answered, c, i)
        BY <1>6, <1>7, QueueFacts DEF Queue!Marked
    <2> QED  BY <1>3, <1>5, <1>7, <2>1, <2>2 DEF Queue!Take, i
<1>8. CASE i \notin Owed
    <2>1. Answered' = Answered
        BY <1>6, <1>8 DEF Answered
    <2>2. Plain' = Plain
        BY <1>3
    <2> QED  BY <1>3, <1>5, <2>1, <2>2 DEF Queue!vars
<1> QED  BY <1>7, <1>8

(* A report settles its event and publishes the error.                       *)
LEMMA QueueReports ==
    ASSUME TypeOK, Placed, Plain, Safe, Began, NEW d \in Slots, NEW c \in Channels,
           ReportFailure(d, c)
    PROVE  [Queue!Next]_(Queue!vars)
<1> DEFINE s == log[1]
           i == disp[d].i
           e == Current(d)
           f == ToldOf(c, e)
           g == ErrorAbout(c, e)
<1>a. /\ s \in Seq(Event) /\ log \in [Incs -> Seq(Event)] /\ 1 \in Incs /\ inc = 1 /\ Live
      /\ disp[d].pc = "report" /\ OnTrack(disp[d], s, born[1])
    BY PlainFacts DEF TypeOK, ReportFailure, At
<1>b. /\ disp[d].b = 1 /\ i \in 1..Len(s) /\ e \in Event /\ e = s[i]
      /\ UpTo(i, s, born[1])
    BY <1>a, CurrentType DEF Placed, WorksOn, Current, Works, OnTrack, EventRight
<1>c. UNCHANGED rowVars /\ cursor' = cursor
    BY DEF ReportFailure, Becomes
<1>d. Plain' /\ born' = born
    BY <1>c DEF Plain, Live, rowVars
<1>1. CASE disp[d].gone
    <2>1. log' = log
        BY <1>1 DEF ReportFailure
    <2> QED  BY <1>c, <1>d, <2>1, QueueStays
<1>2. CASE ~disp[d].gone
    <2>1. /\ f \in Event /\ Later(e, f) /\ f.took = e.took /\ f.told = e.told \cup {c}
          /\ g \in Event /\ g.told = {} /\ \A x \in Channels : g.took[x] = 0
        BY <1>b, EventType DEF ToldOf, ErrorAbout, Message, Event
    <2> DEFINE told == [log EXCEPT ![1][i] = f]
               t == told[1]
    <2>2. log' = [told EXCEPT ![1] = Append(@, g)]
        BY <1>2, <1>a, <1>b DEF ReportFailure
    <2> HIDE DEF i, e, f, g
    <2>3. t = [s EXCEPT ![i] = f]
        BY <1>a
    <2> HIDE DEF s
    <2>4. /\ Len(t) = Len(s) /\ t[i] = f /\ t \in Seq(Event)
          /\ \A k \in 1..Len(s) : k # i => t[k] = s[k]
        <3>1. t \in Seq(Event)
            BY <1>a, <1>b, <2>1, <2>3, ExceptSeq
        <3> QED  BY <1>a, <1>b, <2>1, <2>3, <3>1, Rewritten
    <2>5. log'[1] = Append(t, g)
        <3>1. told \in [Incs -> Seq(Event)]
            <4>1. e = log[1][i] /\ i \in 1..Len(log[1])
                BY <1>b DEF s
            <4>2. Grows(log, told)
                BY <1>a, <2>1, <4>1, RewriteGrows
            <4> QED  BY <4>2 DEF Grows
        <3> HIDE DEF told
        <3> QED  BY <1>a, <2>2, <3>1
    <2> HIDE DEF told, t
    <2>6. /\ Len(log'[1]) = Len(s) + 1 /\ log'[1][Len(s) + 1] = g
          /\ \A k \in 1..Len(s) : log'[1][k] = IF k = i THEN f ELSE s[k]
        BY <1>b, <2>1, <2>4, <2>5, AppendProperties
    <2>7. Targets(f) = Targets(e) /\ Targets(e) \subseteq Channels
        BY <1>b, <2>1, SettledStays
    <2>8. \A k \in 1..Len(s) : Targets(log'[1][k]) = Targets(s[k])
        BY <1>b, <2>6, <2>7
    <2>9. /\ Upcoming' = Upcoming + 1 /\ Passed' = Passed
          /\ Wanted' = Queue!With(Wanted, Upcoming, Targets(g))
          /\ Answered' = [k \in Owed \cup {Upcoming} |->
                              IF k = Upcoming THEN {} ELSE Answers(log'[1][k])]
        BY <1>c, <1>d, <2>1, <2>6, <2>8, QueueGrows DEF s
    <2>10. Targets(g) \in SUBSET Channels
        BY DeliveryAssumption DEF Targets
    <2>11. CASE i \in Owed /\ c \in Targets(e)
        <3>1. Answers(f) = Answers(e) \cup {c}
            BY <2>1, <2>7, <2>11 DEF Answers
        <3>2. \A k \in Owed : Answers(log'[1][k]) = IF k = i THEN Answered[k] \cup {c}
                                                              ELSE Answered[k]
            BY <1>b, <2>6, <3>1, QueueFacts DEF s
        <3>3. Answered' = Queue!With(Queue!Marked(Answered, c, i), Upcoming, {})
            <4> DEFINE m == Queue!Marked(Answered, c, i)
            <4>1. DOMAIN m = Owed /\ \A k \in Owed : m[k] = IF k = i THEN Answered[k] \cup {c}
                                                                     ELSE Answered[k]
                BY <2>11, QueueFacts DEF Queue!Marked
            <4> HIDE DEF m
            <4>2. \A k \in Owed \cup {Upcoming} :
                      (IF k = Upcoming THEN {} ELSE Answers(log'[1][k]))
                          = IF k = Upcoming THEN {} ELSE m[k]
                BY <3>2, <4>1
            <4>3. Answered' = Queue!With(m, Upcoming, {})
                BY <2>9, <4>1, <4>2 DEF Queue!With
            <4> QED  BY <4>3 DEF m
        <3>4. Queue!Due(c, i)
            BY <1>b, <2>11, QueueDue DEF s
        <3>5. Queue!Report(c, i, Targets(g))
            BY <1>d, <2>9, <3>3, <3>4 DEF Queue!Report
        <3>6. i \in DOMAIN Wanted
            BY <2>11, QueueFacts
        <3> QED  BY <2>10, <3>5, <3>6 DEF Queue!Next
    <2>12. CASE ~(i \in Owed /\ c \in Targets(e))
        <3>1. c \notin Targets(e) => Answers(f) = Answers(e)
            BY <2>1, <2>7 DEF Answers
        <3>2. \A k \in Owed : Answers(log'[1][k]) = Answered[k]
            BY <1>b, <2>6, <2>12, <3>1, QueueFacts DEF s
        <3>3. Answered' = Queue!With(Answered, Upcoming, {})
            <4>1. \A k \in Owed \cup {Upcoming} :
                      (IF k = Upcoming THEN {} ELSE Answers(log'[1][k]))
                          = IF k = Upcoming THEN {} ELSE Answered[k]
                BY <3>2
            <4> QED  BY <2>9, <4>1, QueueFacts DEF Queue!With
        <3>4. Queue!Publish(Targets(g))
            BY <1>d, <2>9, <3>3 DEF Queue!Publish
        <3> QED  BY <2>10, <3>4 DEF Queue!Next
    <2> QED  BY <2>11, <2>12
<1> QED  BY <1>1, <1>2

(* A commit passes what is settled, by whoever and wherever to.              *)
LEMMA QueuePasses ==
    ASSUME TypeOK, Placed, Plain, Safe, Began, NEW d \in Slots, Commit(d)
    PROVE  [Queue!Next]_(Queue!vars)
<1> DEFINE i == disp[d].i
<1>a. /\ Live /\ inc = 1 /\ 1 \in Incs /\ Len(log[1]) \in Nat /\ born[1] \in Nat
      /\ disp[d].pc = "commit" /\ OnTrack(disp[d], log[1], born[1])
    BY PlainFacts DEF Commit, At
<1>b. /\ i \in 1..Len(log[1]) /\ UpTo(i, log[1], born[1]) /\ Settled(log[1][i])
    BY <1>a DEF OnTrack, EventRight, Works
<1>c. UpTo(i + 1, log[1], born[1]) /\ i \in Nat
    BY <1>a, <1>b, UpToNext
<1>d. /\ UNCHANGED rowVars /\ log' = log /\ cursor'[1] = i + 1
    BY <1>a DEF Commit, CommitCursor, TypeOK, Becomes
<1> HIDE DEF i
<1>1. Plain' /\ born' = born
    BY <1>d DEF Plain, Live, rowVars
<1>2. Owed' = Owed
    BY <1>d, <1>1 DEF Owed, FromBirth
<1>3. Wanted' = Wanted /\ Answered' = Answered /\ Upcoming' = Upcoming
    BY <1>d, <1>1, <1>2 DEF Wanted, Answered, Upcoming
<1>4. Passed' = {k \in Owed : k < i + 1}
    BY <1>d, <1>2 DEF Passed
<1>5. ASSUME NEW j \in Passed'
      PROVE  /\ Wanted[j] \subseteq Answered[j]
             /\ \A k \in DOMAIN Wanted : k < j => k \in Passed'
    <2>1. j \in Owed /\ j < i + 1 /\ j \in 1..Len(log[1]) /\ born[1] <= j
        BY <1>4, <1>5, QueueFacts
    <2>2. Settled(log[1][j])
        BY <1>c, <2>1 DEF UpTo
    <2>3. Wanted[j] \subseteq Answered[j]
        BY <2>1, <2>2, QueueFacts DEF Settled, Answers
    <2>4. ASSUME NEW k \in DOMAIN Wanted, k < j PROVE k \in Passed'
        <3>1. k \in Owed /\ k \in Nat
            BY QueueFacts
        <3>2. k < i + 1
            BY <1>c, <2>1, <2>4, <3>1
        <3> QED  BY <1>4, <3>1, <3>2
    <2> QED  BY <2>3, <2>4
<1>6. Queue!Pass(Passed')
    BY <1>1, <1>3, <1>5 DEF Queue!Pass
<1>7. Passed' \in SUBSET DOMAIN Wanted
    BY <1>4, QueueFacts
<1> QED  BY <1>6, <1>7 DEF Queue!Next

(* The commands publish events, and begin and end the queue.                *)
LEMMA CommandsQueue ==
    ASSUME Inv, Began, Plain, Plain', Commands
    PROVE  [Queue!Next]_(Queue!vars)
<1>a. TypeOK /\ Safe /\ inc = 1 /\ row # "put" /\ row # "none"
    BY DEF Inv, Quiet, Unborn, Plain, Live
<1>b. ~Create /\ ~SeedBirth /\ ~RetryCreate
    BY <1>a DEF Create, SeedBirth, RetryCreate
<1>1. ASSUME NEW first \in BOOLEAN, AppendEvent(Message(first)), UNCHANGED <<born, cursor>>
      PROVE  [Queue!Next]_(Queue!vars)
    <2> DEFINE e == Message(first)
    <2>1. e \in Event /\ e.told = {} /\ \A c \in Channels : e.took[c] = 0
        BY EventType DEF Message, Event
    <2> HIDE DEF e
    <2>2. log' = [log EXCEPT ![1] = Append(@, e)]
        BY <1>1, <1>a DEF AppendEvent, e
    <2>3. \E w \in SUBSET Channels : Queue!Publish(w)
        BY <1>1, <1>a, <2>1, <2>2, QueuePublishes
    <2> QED  BY <2>3 DEF Queue!Next
<1>2. CASE Instruct \/ Publish
    <2>1. /\ AppendEvent(Message(TRUE)) \/ AppendEvent(Message(FALSE))
          /\ UNCHANGED <<born, cursor>>
        BY <1>2 DEF Instruct, Publish, rowVars
    <2> QED  BY <1>1, <2>1
<1>3. CASE Up \/ Down \/ Destroy
    <2>1. UNCHANGED <<log, born, cursor>>
        BY <1>3 DEF Up, Down, Destroy, logVars
    <2> QED  BY <2>1, QueueStays
<1> QED  BY <1>b, <1>2, <1>3 DEF Commands

(* A dispatcher takes, reports and passes.                                   *)
LEMMA DispatcherQueue ==
    ASSUME Inv, Began, Plain, Plain', NEW d \in Slots, Dispatcher(d)
    PROVE  [Queue!Next]_(Queue!vars)
<1>a. TypeOK /\ Placed /\ Safe
    BY DEF Inv
<1>b. disp[d].pc # "seedCommit" /\ disp[d].pc # "reset"
    BY <1>a, PlainFacts DEF OnTrack
<1>1. ASSUME NEW c \in Channels, Deliver(d, c) PROVE [Queue!Next]_(Queue!vars)
    <2>1. CASE UNCHANGED Queue!vars
        BY <2>1
    <2>2. CASE Queue!Take(c, disp[d].i) /\ disp[d].i \in Owed
        <3>1. disp[d].i \in DOMAIN Wanted
            BY <2>2 DEF Wanted
        <3> QED  BY <2>2, <3>1 DEF Queue!Next
    <2> QED  BY <1>1, <1>a, <2>1, <2>2, QueueTakes
<1>2. ASSUME NEW c \in Channels, ReportFailure(d, c) PROVE [Queue!Next]_(Queue!vars)
    BY <1>2, <1>a, QueueReports
<1>3. CASE Commit(d)
    BY <1>3, <1>a, QueuePasses
<1>4. ASSUME UNCHANGED <<log, cursor, rowVars>> PROVE [Queue!Next]_(Queue!vars)
    <2>1. UNCHANGED <<log, born, cursor>>
        BY <1>4 DEF rowVars
    <2> QED  BY <2>1, QueueStays
<1>5. CASE Seed(d) \/ Loop(d)
    <2>1. ~SeedCommit(d)
        BY <1>b DEF SeedCommit, At
    <2>2. UNCHANGED <<log, cursor, rowVars>>
        BY <1>5, <2>1 DEF Seed, SeedCheck, SeedList, StartGen, Loop, Check, Wake, Becomes,
               Goes, logVars
    <2> QED  BY <1>4, <2>2
<1>6. CASE Rotate(d) \/ Reset(d) \/ ReadCursor(d) \/ ListEvents(d) \/ Abort(d)
    <2>1. ~Reset(d)
        BY <1>b DEF Reset, At
    <2>2. UNCHANGED <<log, cursor, rowVars>>
        BY <1>6, <2>1 DEF Rotate, ReadCursor, ListEvents, Abort, Becomes, Goes, logVars
    <2> QED  BY <1>4, <2>2
<1>7. CASE (\E c \in Channels : Fail(d, c)) \/ AllDelivered(d) \/ HoldEvent(d) \/ GiveUp(d)
               \/ RecordStreak(d)
    <2>1. UNCHANGED <<log, cursor, rowVars>>
        BY <1>7 DEF Fail, AllDelivered, HoldEvent, GiveUp, RecordStreak, Becomes, Goes, logVars
    <2> QED  BY <1>4, <2>1
<1> QED  BY <1>1, <1>2, <1>3, <1>5, <1>6, <1>7 DEF Dispatcher, Drain, Process

(* Every step of the session is one of the queue, or none.                   *)
LEMMA QueueStep ==
    ASSUME Inv, Began, [Next]_vars
    PROVE  [Queue!Next]_(Queue!vars)
<1>1. CASE ~Plain /\ ~Plain'
    <2>1. /\ Wanted = Queue!Empty /\ Answered = Queue!Empty /\ Passed = {} /\ Upcoming = 0
        BY <1>1, NoQueue
    <2>2. Owed' = {}
        BY <1>1 DEF Owed
    <2>3. /\ Wanted' = Queue!Empty /\ Answered' = Queue!Empty
          /\ Passed' = {} /\ Upcoming' = 0
        BY <1>1, <2>2 DEF Wanted, Answered, Passed, Upcoming, Queue!Empty
    <2>4. Plain' = Plain
        BY <1>1 DEF Plain
    <2> QED  BY <2>1, <2>3, <2>4 DEF Queue!vars
<1>2. CASE ~Plain /\ Plain'
    <2>1. TypeOK /\ Quiet /\ SeedBirth /\ inc = 1
        BY <1>2, PlainSince DEF Inv
    <2> QED  BY <2>1, QueueOpens DEF Queue!Next
<1>3. CASE Plain /\ ~Plain'
    BY <1>3, QueueCloses DEF Queue!Next
<1>4. CASE Plain /\ Plain'
    <2>1. CASE World \/ Reconcile \/ UNCHANGED vars
        <3>1. UNCHANGED <<log, born, cursor>>
            BY <2>1 DEF World, Reconcile, Age, ServeDies, Break, Mend, CancelDispatcher,
                   StartDispatcher, vars, rowVars, logVars
        <3> QED  BY <1>4, <3>1, QueueStays
    <2> QED  BY <1>4, <2>1, CommandsQueue, DispatcherQueue DEF Next
<1> QED  BY <1>1, <1>2, <1>3, <1>4

(* Cancelled and killed dispatchers, held events, destroyed and recreated    *)
(* sessions: what the channels of the first incarnation see is an ordered    *)
(* queue that gives each of them each of its events, or reports the failure. *)
THEOREM QueueImplemented == Spec => ImplementsQueue
<1>1. Init => Queue!Init /\ Began
    BY NoQueue DEF Init, Plain, Live, Queue!Init, Began
<1>2. Inv /\ Began /\ [Next]_vars => Began'
    BY BeganStep
<1>3. Inv /\ Began /\ [Next]_vars => [Queue!Next]_(Queue!vars)
    BY QueueStep
<1> QED  BY <1>1, <1>2, <1>3, InvCorrect, PTL DEF Spec, ImplementsQueue, Queue!Spec
===============================================================================
