--------------------------- MODULE Followers_proofs ---------------------------
(***************************************************************************)
(* What Followers keeps for any goroutine slots, incarnations and events.   *)
(***************************************************************************)
EXTENDS Followers, WellFoundedInduction, SequenceTheorems, TLAPS

USE FollowersAssumption

(* A batch at hand is not empty and is a row's.                              *)
BatchSteps == {"each", "request", "check", "append", "past"}
Batched(r) == r.pc \in BatchSteps => r.todo # {} /\ r.b # 0
Typed == /\ TypeOK /\ (Live => inc # 0) /\ (log # <<>> => Live)
         /\ \A f \in Slots : Batched(fol[f])
-------------------------------------------------------------------------------
(* Least and greatest offsets.                                               *)
LEMMA LeastIs ==
    ASSUME NEW T, T \subseteq Nat, T # {}
    PROVE  \E x \in T : \A y \in T : x <= y
<1> DEFINE R == {ss \in Nat \X Nat : ss[1] < ss[2]}
<1>1. IsWellFoundedOn(R, Nat)
    BY NatLessThanWellFounded DEF OpToRel
<1>2. \E x \in T : \A y \in T : ~ (<<y, x>> \in R)
    <2> HIDE DEF R
    <2> QED  BY <1>1, WFMin
<1>3. ASSUME NEW x \in T, NEW y \in T, ~ (<<y, x>> \in R) PROVE x <= y
    BY <1>3
<1> QED  BY <1>2, <1>3

LEMMA GreatestIs ==
    ASSUME NEW n \in Nat, NEW T, T \subseteq 0..n, T # {}
    PROVE  \E x \in T : \A y \in T : y <= x
<1> DEFINE U == {n - x : x \in T}
<1>1. U \subseteq Nat /\ U # {}
    <2>1. \A x \in T : x \in Nat /\ n - x \in Nat
        OBVIOUS
    <2>2. \A u \in U : u \in Nat
        BY <2>1
    <2>3. PICK x \in T : TRUE
        OBVIOUS
    <2>4. n - x \in U
        BY <2>3
    <2> HIDE DEF U
    <2> QED  BY <2>2, <2>4
<1>2. PICK u \in U : \A v \in U : u <= v
    <2> HIDE DEF U
    <2> QED  BY <1>1, LeastIs
<1>3. PICK x \in T : u = n - x
    BY <1>2
<1>4. \A y \in T : n - x <= n - y
    BY <1>2, <1>3
<1> QED  BY <1>4

LEMMA OffsetsOf ==
    ASSUME Typed
    PROVE  /\ LogEnd \in 0..MaxEvents+1
           /\ DOMAIN log \subseteq 1..MaxEvents
           /\ LastStop \in 0..MaxEvents
           /\ MaxEvents \in Nat /\ MaxInc \in Nat /\ MaxMoves \in Nat
<1>1. Len(log) \in Nat /\ Len(log) <= MaxEvents /\ MaxEvents \in Nat /\ DOMAIN log = 1..Len(log)
    BY DEF Typed, TypeOK
<1>2. LogEnd \in 0..MaxEvents+1
    BY <1>1 DEF LogEnd
<1>3. DOMAIN log \subseteq 1..MaxEvents
    BY <1>1
<1> DEFINE stops == {o \in DOMAIN log : log[o] = "stop"}
<1>4. stops \subseteq 0..MaxEvents
    BY <1>3
<1>5. stops # {} => (CHOOSE o \in stops : \A p \in stops : p <= o) \in stops
    <2> HIDE DEF stops
    <2> QED  BY <1>1, <1>4, GreatestIs
<1>6. LastStop \in 0..MaxEvents
    <2>1. LastStop = IF stops = {} THEN 0 ELSE CHOOSE o \in stops : \A p \in stops : p <= o
        BY DEF LastStop
    <2> HIDE DEF stops
    <2>2. CASE stops = {}
        BY <1>1, <2>1, <2>2
    <2>3. CASE stops # {}
        BY <1>4, <1>5, <2>1, <2>3
    <2> QED  BY <2>2, <2>3
<1> QED  BY <1>1, <1>2, <1>3, <1>6

LEMMA FirstIs ==
    ASSUME Typed, NEW f \in Slots, fol[f].todo # {}
    PROVE  First(f) \in fol[f].todo /\ First(f) \in 1..MaxEvents
<1>1. fol[f].todo \subseteq 1..MaxEvents
    BY DEF Typed, TypeOK, Follower
<1>2. \E o \in fol[f].todo : \A p \in fol[f].todo : o <= p
    BY <1>1, LeastIs
<1> QED  BY <1>1, <1>2 DEF First
-------------------------------------------------------------------------------
(* What a step makes of a goroutine.                                         *)
LEMMA OffIs == Off \in Follower /\ Off.pc = "off" /\ Batched(Off)
BY DEF Off, Follower, Steps, Nobody, Batched, BatchSteps

LEMMA SettledIs ==
    ASSUME NEW r \in Follower
    PROVE  /\ Settled(r) \in Follower /\ Settled(r).pc = r.pc
           /\ Batched(r) => Batched(Settled(r))
           /\ r.pc \in {"off", "seed", "seedCommit", "await"} => Settled(r).pred = r.pred
<1> DEFINE k == [[[[Off EXCEPT !.kind = r.kind] EXCEPT !.pc = r.pc] EXCEPT !.gone = r.gone]
                    EXCEPT !.gen = r.gen]
<1>1. CASE r.pc \in {"wait", "loop", "ticking"}
    <2>1. Settled(r) = k
        BY <1>1 DEF Settled
    <2>2. k \in Follower /\ k.pc = r.pc
        BY OffIs DEF Follower
    <2> HIDE DEF k
    <2> QED  BY <1>1, <2>1, <2>2 DEF Batched, BatchSteps
<1>2. CASE r.pc \notin {"wait", "loop", "ticking"}
    BY <1>2 DEF Settled
<1> QED  BY <1>1, <1>2

(* Only f's goroutine changes.                                               *)
Only(f) == fol' \in [Slots -> Follower] /\ \A g \in Slots \ {f} : fol'[g] = fol[g]

LEMMA BecomeIs ==
    ASSUME Typed, NEW f \in Slots, NEW r \in Follower, Become(f, r)
    PROVE  /\ Only(f) /\ fol'[f].pc = r.pc
           /\ Batched(r) => Batched(fol'[f])
           /\ r.pc \in {"off", "seed", "seedCommit", "await"} => fol'[f].pred = r.pred
<1>1. fol \in [Slots -> Follower] /\ fol' = [fol EXCEPT ![f] = Settled(r)]
    BY DEF Typed, TypeOK, Become
<1>2. fol'[f] = Settled(r) /\ \A g \in Slots \ {f} : fol'[g] = fol[g]
    BY <1>1
<1>3. fol' \in [Slots -> Follower]
    BY <1>1, SettledIs
<1> QED  BY <1>2, <1>3, SettledIs DEF Only

LEMMA GoIs ==
    ASSUME Typed, NEW f \in Slots, NEW pc \in Steps, Go(f, pc)
    PROVE  /\ Only(f) /\ fol'[f].pc = pc
           /\ pc \notin BatchSteps \/ fol[f].pc \in BatchSteps => Batched(fol'[f])
           /\ pc \in {"off", "seed", "seedCommit", "await"} => fol'[f].pred = fol[f].pred
<1> DEFINE r == [fol[f] EXCEPT !.pc = pc]
<1>1. fol[f] \in Follower /\ Batched(fol[f])
    BY DEF Typed, TypeOK
<1>2. r \in Follower /\ r.pc = pc /\ r.todo = fol[f].todo /\ r.b = fol[f].b /\ r.pred = fol[f].pred
    BY <1>1 DEF Follower
<1>3. Become(f, r)
    BY DEF Go
<1> HIDE DEF r
<1>4. /\ Only(f) /\ fol'[f].pc = pc
      /\ Batched(r) => Batched(fol'[f])
      /\ pc \in {"off", "seed", "seedCommit", "await"} => fol'[f].pred = fol[f].pred
    BY <1>2, <1>3, BecomeIs
<1> QED  BY <1>1, <1>2, <1>4 DEF Batched

LEMMA ExitIs ==
    ASSUME Typed, NEW f \in Slots, Exit(f)
    PROVE  Only(f) /\ fol'[f] = Off /\ Batched(fol'[f])
<1>1. fol \in [Slots -> Follower] /\ fol' = [fol EXCEPT ![f] = Off]
    BY DEF Typed, TypeOK, Exit
<1> QED  BY <1>1, OffIs DEF Only

LEMMA MarkIs ==
    ASSUME Typed, NEW f, NEW os, NEW what \in Fates, Mark(f, os, what)
    PROVE  fate' \in [Offsets -> SUBSET Fates]
<1>1. fate \in [Offsets -> SUBSET Fates]
    BY DEF Typed, TypeOK
<1> QED  BY <1>1 DEF Mark
-------------------------------------------------------------------------------
(* Types through the commands, the crash and the supervisor.                 *)
LEMMA InitTyped == Init => Typed
<1> SUFFICES ASSUME Init PROVE Typed
    OBVIOUS
<1>2. \A f \in Slots : fol[f] = Off
    BY DEF Init
<1>3. fol \in [Slots -> Follower]
    BY OffIs DEF Init
<1>4. log \in Seq(Kinds) /\ Len(log) = 0 /\ parent \in Seq(Keys \cup {Noise})
    BY DEF Init
<1>5. fate \in [Offsets -> SUBSET Fates]
    BY DEF Init
<1>6. TypeOK
    BY <1>3, <1>4, <1>5 DEF Init, TypeOK, Rows, Absent, Nobody
<1> QED  BY <1>2, <1>6, OffIs DEF Init, Typed, Live

Cursor == Absent..MaxEvents+1

LEMMA AppendTyped ==
    ASSUME Typed, NEW k \in Kinds, Append1(k)
    PROVE  log' \in Seq(Kinds) /\ Len(log') <= MaxEvents /\ Len(log') = Len(log) + 1
<1>1. log \in Seq(Kinds) /\ Len(log) < MaxEvents /\ log' = Append(log, k)
    BY DEF Typed, TypeOK, Append1
<1>2. log' \in Seq(Kinds) /\ Len(log') = Len(log) + 1
    BY <1>1
<1> QED  BY <1>1, <1>2

LEMMA CommandTyped ==
    ASSUME Typed, Create \/ Destroy \/ Up \/ Sleep \/ Stop \/ Inbound \/ Siblings \/ StopRecorded
    PROVE  Typed'
<1>0. MaxEvents \in Nat /\ MaxMoves \in Nat /\ MaxInc \in Nat /\ TypeOK
    BY DEF Typed
<1>1. CASE Create
    <2>1. log' \in Seq(Kinds) /\ Len(log') = 0
        BY <1>1 DEF Create
    <2>2. inc' \in 0..MaxInc /\ inc' # 0
        BY <1>0, <1>1 DEF Create, TypeOK
    <2>3. clean' \in BOOLEAN
        BY <1>0, <1>1 DEF Create, TypeOK
    <2>4. fate' \in [Offsets -> SUBSET Fates]
        BY <1>1 DEF Create
    <2>5. TypeOK'
        BY <1>0, <1>1, <2>1, <2>2, <2>3, <2>4 DEF Create, TypeOK, Rows, supVars, Absent
    <2> QED  BY <1>1, <2>2, <2>5 DEF Typed, Create
<1>2. CASE Destroy
    <2>1. log' \in Seq(Kinds) /\ Len(log') = 0 /\ log' = <<>>
        BY <1>2 DEF Destroy
    <2>2. TypeOK'
        BY <1>0, <1>2, <2>1 DEF Destroy, TypeOK, Rows, supVars, Absent
    <2> QED  BY <1>2, <2>1, <2>2 DEF Typed, Destroy, Live
<1>3. CASE Up \/ Sleep \/ StopRecorded
    <2>1. row' \in Rows /\ row' # "none" /\ row # "none" /\ moves' \in 0..MaxMoves
        BY <1>0, <1>3 DEF Up, Sleep, StopRecorded, Counted, TypeOK, Rows
    <2>2. UNCHANGED <<inc, log, curVars, parent, fol, supVars, fate, clean>>
        BY <1>3 DEF Up, Sleep, StopRecorded
    <2>3. TypeOK'
        BY <1>0, <2>1, <2>2 DEF TypeOK, supVars, curVars
    <2> QED  BY <2>1, <2>2, <2>3 DEF Typed, Live
<1>4. CASE Stop
    <2>1. log' \in Seq(Kinds) /\ Len(log') <= MaxEvents
        BY <1>4, AppendTyped DEF Stop, Kinds
    <2>2. row' \in Rows /\ row' # "none" /\ row # "none" /\ moves' \in 0..MaxMoves
        BY <1>0, <1>4 DEF Stop, Counted, TypeOK, Rows
    <2>3. UNCHANGED <<inc, curVars, parent, fol, supVars, fate, clean>>
        BY <1>4 DEF Stop
    <2>4. TypeOK'
        BY <1>0, <2>1, <2>2, <2>3 DEF TypeOK, supVars, curVars
    <2> QED  BY <2>2, <2>3, <2>4 DEF Typed, Live
<1>5. CASE Inbound
    <2>1. log' \in Seq(Kinds) /\ Len(log') <= MaxEvents
        BY <1>5, AppendTyped DEF Inbound, Kinds
    <2>2. UNCHANGED <<inc, row, curVars, parent, fol, supVars, fate, clean, moves>> /\ Live
        BY <1>5 DEF Inbound
    <2>3. TypeOK'
        BY <1>0, <2>1, <2>2 DEF TypeOK, supVars, curVars
    <2> QED  BY <2>2, <2>3 DEF Typed, Live
<1>6. CASE Siblings
    <2>1. parent' \in Seq(Keys \cup {Noise})
        BY <1>0, <1>6 DEF Siblings, TypeOK
    <2>2. moves' \in 0..MaxMoves
        BY <1>0, <1>6 DEF Siblings, Counted, TypeOK
    <2>3. UNCHANGED <<rowVars, curVars, fol, supVars, fate, clean>>
        BY <1>6 DEF Siblings
    <2>4. TypeOK'
        BY <1>0, <2>1, <2>2, <2>3 DEF TypeOK, supVars, curVars, rowVars
    <2> QED  BY <2>3, <2>4 DEF Typed, Live, rowVars
<1> QED  BY <1>1, <1>2, <1>3, <1>4, <1>5, <1>6

LEMMA CrashTyped == ASSUME Typed, Crash PROVE Typed'
<1>0. MaxMoves \in Nat /\ TypeOK
    BY DEF Typed
<1>1. fol' \in [Slots -> Follower] /\ \A f \in Slots : Batched(fol'[f])
    BY OffIs DEF Crash
<1>2. fate' \in [Offsets -> SUBSET Fates]
    BY <1>0 DEF Crash, TypeOK, Fates
<1>3. moves' \in 0..MaxMoves
    BY <1>0 DEF Crash, Counted, TypeOK
<1>4. UNCHANGED <<rowVars, curVars, parent, clean>> /\ active' = Nobody /\ forwarding' = Nobody
    BY DEF Crash
<1>5. TypeOK'
    BY <1>0, <1>1, <1>2, <1>3, <1>4 DEF TypeOK, rowVars, curVars
<1> QED  BY <1>1, <1>4, <1>5 DEF Typed, rowVars, Live

(* Cancelling changes what a goroutine is told, and nothing it is at.        *)
LEMMA CancelledIs ==
    ASSUME Typed, NEW G
    PROVE  /\ Cancelled(G) \in [Slots -> Follower]
           /\ \A f \in Slots : /\ Cancelled(G)[f].pc = fol[f].pc
                               /\ Cancelled(G)[f].pred = fol[f].pred
                               /\ Batched(Cancelled(G)[f])
<1>1. \A f \in Slots : fol[f] \in Follower /\ Batched(fol[f])
    BY DEF Typed, TypeOK
<1>2. ASSUME NEW f \in Slots
      PROVE  /\ Cancelled(G)[f] \in Follower
             /\ Cancelled(G)[f].pc = fol[f].pc /\ Cancelled(G)[f].pred = fol[f].pred
             /\ Batched(Cancelled(G)[f])
    <2> DEFINE r == [fol[f] EXCEPT !.gone = TRUE]
    <2>1. fol[f] \in Follower /\ Batched(fol[f])
        BY <1>1
    <2>2. r \in Follower /\ r.pc = fol[f].pc /\ r.pred = fol[f].pred /\ r.todo = fol[f].todo /\ r.b = fol[f].b
        BY <2>1 DEF Follower
    <2>3. Cancelled(G)[f] = r \/ Cancelled(G)[f] = fol[f]
        BY DEF Cancelled
    <2> HIDE DEF r
    <2> QED  BY <2>1, <2>2, <2>3 DEF Batched
<1>3. Cancelled(G) \in [Slots -> Follower]
    BY <1>2 DEF Cancelled
<1> QED  BY <1>2, <1>3

LEMMA StartedIs ==
    ASSUME NEW kind \in {"reactor", "forwarder"}, NEW pred \in Slots \cup {Nobody}
    PROVE  /\ Started(kind, pred) \in Follower /\ Started(kind, pred).pred = pred
           /\ Started(kind, pred).pc \in {"seed", "await"} /\ Batched(Started(kind, pred))
<1> DEFINE r == [[[Off EXCEPT !.kind = kind] EXCEPT !.pred = pred]
                    EXCEPT !.pc = IF kind = "reactor" THEN "seed" ELSE "await"]
<1>1. Started(kind, pred) = r
    BY DEF Started
<1>2. r \in Follower /\ r.pred = pred /\ r.pc \in {"seed", "await"}
    BY OffIs DEF Follower, Steps
<1> HIDE DEF r
<1> QED  BY <1>1, <1>2 DEF Batched, BatchSteps

LEMMA FreshIs ==
    ASSUME Typed, Free # {}
    PROVE  Fresh \in Free /\ Fresh \in Slots
<1>1. Free \subseteq Slots /\ Free \subseteq Nat
    BY DEF Free
<1>2. \E f \in Free : \A g \in Free : f <= g
    BY <1>1, LeastIs
<1> QED  BY <1>1, <1>2 DEF Fresh

LEMMA HandoverIs ==
    ASSUME Typed, NEW kind \in {"reactor", "forwarder"}, NEW pred \in Slots \cup {Nobody},
           NEW from, Handover(kind, from, pred)
    PROVE  /\ fol' \in [Slots -> Follower]
           /\ \A f \in Slots : Batched(fol'[f])
           /\ Fresh \in Free /\ Fresh \in Slots
           /\ fol'[Fresh].pred = pred /\ fol'[Fresh].pc \in {"seed", "await"}
           /\ \A f \in Slots \ {Fresh} : fol'[f].pc = fol[f].pc /\ fol'[f].pred = fol[f].pred
<1>1. Fresh \in Free /\ Fresh \in Slots
    BY FreshIs DEF Handover
<1>2. fol' = [Cancelled({from}) EXCEPT ![Fresh] = Started(kind, pred)]
    BY DEF Handover
<1>3. Cancelled({from}) \in [Slots -> Follower]
    BY CancelledIs
<1>4. fol'[Fresh] = Started(kind, pred) /\ \A f \in Slots \ {Fresh} : fol'[f] = Cancelled({from})[f]
    BY <1>1, <1>2, <1>3
<1>5. fol' \in [Slots -> Follower]
    BY <1>2, <1>3, StartedIs
<1> QED  BY <1>1, <1>4, <1>5, CancelledIs, StartedIs

LEMMA ReconcileTyped == ASSUME Typed, Reconcile PROVE Typed'
<1>0. TypeOK /\ UNCHANGED <<rowVars, curVars, parent, fate, clean, moves>>
    BY DEF Typed, Reconcile
<1>1. /\ fol' \in [Slots -> Follower] /\ \A f \in Slots : Batched(fol'[f])
      /\ active' \in Slots \cup {Nobody} /\ forwarding' \in Slots \cup {Nobody}
    <2>0. active \in Slots \cup {Nobody} /\ forwarding \in Slots \cup {Nobody}
        BY <1>0 DEF TypeOK
    <2>1. CASE StartReactor
        BY <2>0, <2>1, HandoverIs DEF StartReactor
    <2>2. CASE StartForwarder
        BY <2>0, <2>2, HandoverIs DEF StartForwarder, StartForwarderBehind
    <2>3. CASE CancelBoth
        BY <2>3, CancelledIs DEF CancelBoth
    <2> QED  BY <2>1, <2>2, <2>3 DEF Reconcile
<1>2. TypeOK'
    BY <1>0, <1>1 DEF TypeOK, rowVars, curVars
<1> QED  BY <1>0, <1>1, <1>2 DEF Typed, rowVars, Live
-------------------------------------------------------------------------------
(* A follower's step: its goroutine works on, waits on behind the same one,  *)
(* returns, or begins once the one before it has returned.                   *)
Idle == {"off", "seed", "seedCommit", "await"}
WorksOn(f) == Working(f) /\ fol'[f].pc \notin Idle
WaitsOn(f) == /\ ~Working(f) /\ ~At(f, "off")
              /\ fol'[f].pc \in Idle \ {"off"} /\ fol'[f].pred = fol[f].pred
Begins(f)  == At(f, "await") /\ Done(fol[f].pred) /\ fol'[f].pc \notin Idle
Returns(f) == /\ Working(f) \/ (At(f, "await") /\ Done(fol[f].pred))
              /\ fol'[f].pc = "off"
Moved(f)   == /\ Only(f) /\ UNCHANGED <<inc, row, supVars, clean>>
              /\ WorksOn(f) \/ WaitsOn(f) \/ Begins(f) \/ Returns(f)

LEMMA StepFrame ==
    ASSUME Typed, NEW f \in Slots, Only(f), Batched(fol'[f]),
           UNCHANGED <<inc, row, supVars, clean>>,
           log' \in Seq(Kinds), Len(log') <= MaxEvents, log' = log \/ Live,
           parent' \in Seq(Keys \cup {Noise}), tickCur' \in Cursor, fwdCur' \in Cursor,
           fate' \in [Offsets -> SUBSET Fates], moves' \in 0..MaxMoves
    PROVE  Typed'
<1>1. TypeOK'
    BY DEF Typed, TypeOK, supVars, Only, Cursor
<1>2. \A g \in Slots : Batched(fol'[g])
    BY DEF Only, Typed
<1> QED  BY <1>1, <1>2 DEF Typed, Live

LEMMA LoopFrame ==
    ASSUME Typed, NEW f \in Slots, Only(f), Batched(fol'[f]), UNCHANGED LoopVars,
           tickCur' \in Cursor, fwdCur' \in Cursor,
           fate' \in [Offsets -> SUBSET Fates], moves' \in 0..MaxMoves
    PROVE  Typed' /\ UNCHANGED <<inc, row, supVars, clean>>
<1>1. UNCHANGED <<inc, row, supVars, clean>> /\ log' = log /\ parent' = parent
    BY DEF LoopVars, rowVars
<1>2. log \in Seq(Kinds) /\ Len(log) <= MaxEvents /\ parent \in Seq(Keys \cup {Noise})
    BY DEF Typed, TypeOK
<1> QED  BY <1>1, <1>2, StepFrame

LEMMA DataTyped ==
    ASSUME Typed
    PROVE  /\ tickCur \in Cursor /\ fwdCur \in Cursor /\ 0 \in Cursor
           /\ 0..MaxEvents+1 \subseteq Cursor
           /\ fate \in [Offsets -> SUBSET Fates] /\ moves \in 0..MaxMoves
           /\ At0(tickCur) \in 0..MaxEvents+1 /\ At0(fwdCur) \in 0..MaxEvents+1
<1>1. TypeOK /\ MaxEvents \in Nat
    BY DEF Typed
<1>2. 0..MaxEvents+1 \subseteq Cursor /\ 0 \in Cursor
    BY <1>1 DEF Cursor, Absent
<1>3. \A c \in Cursor : At0(c) \in 0..MaxEvents+1
    BY <1>1 DEF Cursor, Absent, At0
<1> QED  BY <1>1, <1>2, <1>3 DEF TypeOK, Cursor

LEMMA FollowerFields ==
    ASSUME Typed, NEW f \in Slots
    PROVE  /\ fol[f] \in Follower /\ Batched(fol[f])
           /\ fol[f].kind \in {"reactor", "forwarder"} /\ fol[f].pc \in Steps /\ fol[f].gone \in BOOLEAN
           /\ fol[f].pred \in Slots \cup {Nobody} /\ fol[f].gen \in 0..MaxInc /\ fol[f].b \in 0..MaxInc
           /\ fol[f].cur \in 0..MaxEvents+1 /\ fol[f].todo \subseteq 1..MaxEvents
           /\ fol[f].next \in 0..MaxEvents+1 /\ fol[f].stop \in 0..MaxEvents
           /\ inc \in 0..MaxInc
BY DEF Typed, TypeOK, Follower

(* Steps that change only where the goroutine is, and what is marked.        *)
LEMMA GoMoved ==
    ASSUME Typed, NEW f \in Slots, NEW pc \in Steps \ Idle, Go(f, pc), Working(f),
           pc \in BatchSteps => fol[f].pc \in BatchSteps,
           UNCHANGED LoopVars, tickCur' \in Cursor, fwdCur' \in Cursor,
           fate' \in [Offsets -> SUBSET Fates], moves' \in 0..MaxMoves
    PROVE  Typed' /\ Moved(f)
<1>1. Only(f) /\ fol'[f].pc = pc /\ Batched(fol'[f])
    BY GoIs
<1> QED  BY <1>1, LoopFrame DEF Moved, WorksOn

LEMMA ExitMoved ==
    ASSUME Typed, NEW f \in Slots, Exit(f), Working(f) \/ (At(f, "await") /\ Done(fol[f].pred)),
           UNCHANGED LoopVars, tickCur' \in Cursor, fwdCur' \in Cursor,
           fate' \in [Offsets -> SUBSET Fates], moves' \in 0..MaxMoves
    PROVE  Typed' /\ Moved(f)
<1>1. Only(f) /\ fol'[f] = Off /\ Batched(fol'[f]) /\ Off.pc = "off"
    BY ExitIs, OffIs
<1> QED  BY <1>1, LoopFrame DEF Moved, Returns

LEMMA BecomeMoved ==
    ASSUME Typed, NEW f \in Slots, NEW r \in Follower, Become(f, r), Batched(r),
           \/ Working(f) /\ r.pc \notin Idle
           \/ At(f, "await") /\ Done(fol[f].pred) /\ r.pc \notin Idle
           \/ ~Working(f) /\ ~At(f, "off") /\ r.pc \in Idle \ {"off"} /\ r.pred = fol[f].pred,
           UNCHANGED LoopVars, tickCur' \in Cursor, fwdCur' \in Cursor,
           fate' \in [Offsets -> SUBSET Fates], moves' \in 0..MaxMoves
    PROVE  Typed' /\ Moved(f)
<1>1. /\ Only(f) /\ fol'[f].pc = r.pc /\ Batched(fol'[f])
      /\ r.pc \in Idle => fol'[f].pred = r.pred
    BY BecomeIs DEF Idle
<1>2. Typed' /\ UNCHANGED <<inc, row, supVars, clean>>
    BY <1>1, LoopFrame
<1> QED  BY <1>1, <1>2 DEF Moved, WorksOn, Begins, WaitsOn
-------------------------------------------------------------------------------
(* The steps both followers have.                                            *)
LEMMA AwaitedMoved == ASSUME Typed, NEW f \in Slots, Awaited(f) PROVE Typed' /\ Moved(f)
<1>1. UNCHANGED LoopVars /\ UNCHANGED <<tickCur, fwdCur, fate, moves>>
    BY DEF Awaited, curVars
<1>2. tickCur' \in Cursor /\ fwdCur' \in Cursor /\ fate' \in [Offsets -> SUBSET Fates] /\ moves' \in 0..MaxMoves
    BY <1>1, DataTyped
<1>3. At(f, "await") /\ Done(fol[f].pred)
    BY DEF Awaited
<1>4. CASE fol[f].gone
    <2>1. Exit(f)
        BY <1>4 DEF Awaited
    <2> QED  BY <1>1, <1>2, <1>3, <2>1, ExitMoved
<1>5. CASE ~fol[f].gone
    <2> DEFINE pc == IF IsReactor(f) THEN "wait" ELSE "loop"
               gen == IF Live THEN inc ELSE 0
               r == [[[fol[f] EXCEPT !.pc = pc] EXCEPT !.pred = Nobody] EXCEPT !.gen = gen]
    <2>1. Become(f, r)
        BY <1>5 DEF Awaited
    <2>2. pc \in {"wait", "loop"} /\ gen \in 0..MaxInc
        BY FollowerFields
    <2> HIDE DEF pc, gen
    <2>3. r \in Follower /\ r.pc = pc
        BY <2>2, FollowerFields DEF Follower, Steps
    <2> HIDE DEF r
    <2>4. Batched(r) /\ r.pc \notin Idle
        BY <2>2, <2>3 DEF Batched, BatchSteps, Idle
    <2> QED  BY <1>1, <1>2, <1>3, <2>1, <2>3, <2>4, BecomeMoved
<1> QED  BY <1>4, <1>5

LEMMA LoopMoved == ASSUME Typed, NEW f \in Slots, Loop(f) \/ Wait(f) PROVE Typed' /\ Moved(f)
<1>1. UNCHANGED LoopVars /\ UNCHANGED <<tickCur, fwdCur, fate, moves>>
    BY DEF Loop, Wait, curVars
<1>2. tickCur' \in Cursor /\ fwdCur' \in Cursor /\ fate' \in [Offsets -> SUBSET Fates] /\ moves' \in 0..MaxMoves
    BY <1>1, DataTyped
<1>3. Working(f)
    BY DEF Loop, Wait, At, Working
<1>4. Exit(f) \/ Go(f, "read") \/ Go(f, "wait") \/ Go(f, "loop")
    BY DEF Loop, Wait
<1>5. {"read", "wait", "loop"} \subseteq Steps \ Idle /\ {"read", "wait", "loop"} \cap BatchSteps = {}
    BY DEF Steps, Idle, BatchSteps
<1> QED  BY <1>1, <1>2, <1>3, <1>4, <1>5, ExitMoved, GoMoved

LEMMA StoreFailsMoved == ASSUME Typed, NEW f \in Slots, StoreFails(f) PROVE Typed' /\ Moved(f)
<1>1. UNCHANGED LoopVars /\ UNCHANGED <<tickCur, fwdCur, fate>> /\ Go(f, "wait")
    BY DEF StoreFails, curVars
<1>2. moves' \in 0..MaxMoves
    BY DataTyped DEF StoreFails, Counted
<1>3. Working(f)
    BY DEF StoreFails, Working
<1>4. "wait" \in Steps \ Idle /\ "wait" \notin BatchSteps
    BY DEF Steps, Idle, BatchSteps
<1> QED  BY <1>1, <1>2, <1>3, <1>4, DataTyped, GoMoved
-------------------------------------------------------------------------------
(* The reactor's steps.                                                      *)
LEMMA SeedMoved == ASSUME Typed, NEW f \in Slots, Seed(f) PROVE Typed' /\ Moved(f)
<1>1. UNCHANGED LoopVars /\ UNCHANGED <<tickCur, fwdCur, fate, moves>>
    BY DEF Seed, curVars
<1>2. tickCur' \in Cursor /\ fwdCur' \in Cursor /\ fate' \in [Offsets -> SUBSET Fates] /\ moves' \in 0..MaxMoves
    BY <1>1, DataTyped
<1> DEFINE pc == IF tickCur = Absent THEN "seedCommit" ELSE "await"
           r == [[[fol[f] EXCEPT !.pc = pc] EXCEPT !.b = inc] EXCEPT !.next = LogEnd]
<1>3. Become(f, r) /\ At(f, "seed")
    BY DEF Seed
<1>4. pc \in {"seedCommit", "await"}
    OBVIOUS
<1> HIDE DEF pc
<1>5. r \in Follower /\ r.pc = pc /\ r.pred = fol[f].pred
    BY <1>4, FollowerFields, OffsetsOf DEF Follower, Steps
<1> HIDE DEF r
<1>6. Batched(r) /\ r.pc \in Idle \ {"off"} /\ ~Working(f) /\ ~At(f, "off")
    BY <1>3, <1>4, <1>5 DEF Batched, BatchSteps, Idle, Working, At
<1> QED  BY <1>1, <1>2, <1>3, <1>5, <1>6, BecomeMoved

LEMMA SeedCommitMoved == ASSUME Typed, NEW f \in Slots, SeedCommit(f) PROVE Typed' /\ Moved(f)
<1>1. UNCHANGED LoopVars /\ UNCHANGED <<fwdCur, moves>> /\ At(f, "seedCommit") /\ Go(f, "await")
    BY DEF SeedCommit
<1>2. tickCur' \in Cursor
    BY DataTyped, FollowerFields DEF SeedCommit
<1>3. fate' \in [Offsets -> SUBSET Fates]
    BY MarkIs DEF SeedCommit, Fates
<1>4. Only(f) /\ fol'[f].pc = "await" /\ Batched(fol'[f]) /\ fol'[f].pred = fol[f].pred
    BY <1>1, GoIs DEF Steps, BatchSteps
<1>5. Typed' /\ UNCHANGED <<inc, row, supVars, clean>>
    BY <1>1, <1>2, <1>3, <1>4, DataTyped, LoopFrame
<1> QED  BY <1>1, <1>4, <1>5 DEF Moved, WaitsOn, Working, At, Idle

LEMMA ReadMoved == ASSUME Typed, NEW f \in Slots, Read(f) PROVE Typed' /\ Moved(f)
<1> DEFINE cur == IF Rotated(f) THEN 0 ELSE At0(tickCur)
           todo == {o \in From(cur) : Triggers(log[o])}
           pc == IF From(cur) = {} THEN "wait" ELSE "commit"
           gen == IF Rotated(f) THEN inc ELSE fol[f].gen
           r == [[[[[fol[f] EXCEPT !.pc = pc] EXCEPT !.gen = gen] EXCEPT !.b = inc]
                    EXCEPT !.next = LogEnd] EXCEPT !.todo = todo]
<1>1. UNCHANGED LoopVars /\ UNCHANGED <<fwdCur, fate, moves>> /\ tickCur' = (IF Rotated(f) THEN 0 ELSE tickCur)
    BY DEF Read
<1>2. tickCur' \in Cursor /\ fwdCur' \in Cursor /\ fate' \in [Offsets -> SUBSET Fates] /\ moves' \in 0..MaxMoves
    BY <1>1, DataTyped
<1>3. Become(f, r) /\ At(f, "read")
    BY DEF Read
<1>4. pc \in {"wait", "commit"} /\ gen \in 0..MaxInc /\ todo \subseteq 1..MaxEvents
    BY FollowerFields, OffsetsOf DEF From
<1> HIDE DEF pc, gen, todo
<1>5. r \in Follower /\ r.pc = pc
    BY <1>4, FollowerFields, OffsetsOf DEF Follower, Steps
<1> HIDE DEF r
<1>6. Batched(r) /\ r.pc \notin Idle /\ Working(f)
    BY <1>3, <1>4, <1>5 DEF Batched, BatchSteps, Idle, Working, At
<1> QED  BY <1>1, <1>2, <1>3, <1>5, <1>6, BecomeMoved

LEMMA CommitMoved ==
    ASSUME Typed, NEW f \in Slots, Commit(f) \/ BeginTick(f) \/ HeartbeatTick(f)
    PROVE  Typed' /\ Moved(f)
<1>1. UNCHANGED LoopVars /\ UNCHANGED <<fwdCur, moves>>
    BY DEF Commit, CommitTo, BeginTick, HeartbeatTick, curVars
<1>2. tickCur' \in Cursor
    BY DataTyped, FollowerFields DEF Commit, CommitTo, BeginTick, HeartbeatTick, curVars
<1>3. fate' \in [Offsets -> SUBSET Fates]
    BY DataTyped, MarkIs DEF Commit, CommitTo, BeginTick, HeartbeatTick, Fates
<1>4. Working(f)
    BY DEF Commit, CommitTo, BeginTick, HeartbeatTick, Working, At
<1>5. Exit(f) \/ Go(f, "tick") \/ Go(f, "wait") \/ Go(f, "ticking")
    BY DEF Commit, CommitTo, BeginTick, HeartbeatTick
<1>6. {"tick", "wait", "ticking"} \subseteq Steps \ Idle /\ {"tick", "wait", "ticking"} \cap BatchSteps = {}
    BY DEF Steps, Idle, BatchSteps
<1> QED  BY <1>1, <1>2, <1>3, <1>4, <1>5, <1>6, DataTyped, ExitMoved, GoMoved

LEMMA EndTickMoved == ASSUME Typed, NEW f \in Slots, EndTick(f) PROVE Typed' /\ Moved(f)
<1>1. UNCHANGED <<inc, row, parent, supVars, clean, tickCur, fwdCur, fate, moves>> /\ Go(f, "loop") /\ At(f, "ticking")
    BY DEF EndTick, curVars
<1>2. log \in Seq(Kinds) /\ Len(log) <= MaxEvents /\ parent \in Seq(Keys \cup {Noise})
    BY DEF Typed, TypeOK
<1>3. log' \in Seq(Kinds) /\ Len(log') <= MaxEvents /\ (log' = log \/ Live)
    BY <1>2, AppendTyped DEF EndTick, Kinds
<1>4. Only(f) /\ fol'[f].pc = "loop" /\ Batched(fol'[f])
    BY <1>1, GoIs DEF Steps, BatchSteps
<1>5. Typed'
    BY <1>1, <1>2, <1>3, <1>4, DataTyped, StepFrame
<1> QED  BY <1>1, <1>4, <1>5 DEF Moved, WorksOn, Working, At, Idle
-------------------------------------------------------------------------------
(* The forwarder's steps.                                                    *)
LEMMA ReadForwardMoved == ASSUME Typed, NEW f \in Slots, ReadForward(f) PROVE Typed' /\ Moved(f)
<1> DEFINE cur == IF Rotated(f) THEN 0 ELSE At0(fwdCur)
           gen == IF Rotated(f) THEN inc ELSE fol[f].gen
           r == [[[fol[f] EXCEPT !.pc = "raise"] EXCEPT !.gen = gen] EXCEPT !.cur = cur]
<1>1. UNCHANGED LoopVars /\ UNCHANGED <<tickCur, fate, moves>> /\ fwdCur' = (IF Rotated(f) THEN 0 ELSE fwdCur)
    BY DEF ReadForward
<1>2. tickCur' \in Cursor /\ fwdCur' \in Cursor /\ fate' \in [Offsets -> SUBSET Fates] /\ moves' \in 0..MaxMoves
    BY <1>1, DataTyped
<1>3. Become(f, r) /\ At(f, "read")
    BY DEF ReadForward
<1>4. gen \in 0..MaxInc /\ cur \in 0..MaxEvents+1
    BY FollowerFields, OffsetsOf, DataTyped
<1> HIDE DEF gen, cur
<1>5. r \in Follower /\ r.pc = "raise"
    BY <1>4, FollowerFields DEF Follower, Steps
<1> HIDE DEF r
<1>6. Batched(r) /\ r.pc \notin Idle /\ Working(f)
    BY <1>3, <1>5 DEF Batched, BatchSteps, Idle, Working, At
<1> QED  BY <1>1, <1>2, <1>3, <1>5, <1>6, BecomeMoved

LEMMA RaiseMoved == ASSUME Typed, NEW f \in Slots, Raise(f) PROVE Typed' /\ Moved(f)
<1> DEFINE cur == Later(fol[f].cur, At0(tickCur))
           r == [[fol[f] EXCEPT !.pc = "list"] EXCEPT !.cur = cur]
<1>1. UNCHANGED LoopVars /\ UNCHANGED <<tickCur, fate, moves>> /\ fwdCur' = (IF Live THEN cur ELSE fwdCur)
    BY DEF Raise, RaiseTo
<1>2. cur \in 0..MaxEvents+1
    BY FollowerFields, DataTyped DEF Later
<1>3. Become(f, r) /\ At(f, "raise")
    BY DEF Raise, RaiseTo
<1> HIDE DEF cur
<1>4. tickCur' \in Cursor /\ fwdCur' \in Cursor /\ fate' \in [Offsets -> SUBSET Fates] /\ moves' \in 0..MaxMoves
    BY <1>1, <1>2, DataTyped
<1>5. r \in Follower /\ r.pc = "list"
    BY <1>2, FollowerFields DEF Follower, Steps
<1> HIDE DEF r
<1>6. Batched(r) /\ r.pc \notin Idle /\ Working(f)
    BY <1>3, <1>5 DEF Batched, BatchSteps, Idle, Working, At
<1> QED  BY <1>1, <1>4, <1>3, <1>5, <1>6, BecomeMoved

LEMMA ListMoved == ASSUME Typed, NEW f \in Slots, List(f) PROVE Typed' /\ Moved(f)
<1> DEFINE todo == {o \in From(fol[f].cur) : log[o] = "in"}
           pc == IF todo = {} THEN "wait" ELSE "each"
           next == Later(fol[f].cur, LogEnd)
           r == [[[[[fol[f] EXCEPT !.pc = pc] EXCEPT !.todo = todo] EXCEPT !.b = inc]
                    EXCEPT !.stop = LastStop] EXCEPT !.next = next]
<1>1. UNCHANGED LoopVars /\ UNCHANGED <<tickCur, fwdCur, fate, moves>>
    BY DEF List, curVars
<1>2. tickCur' \in Cursor /\ fwdCur' \in Cursor /\ fate' \in [Offsets -> SUBSET Fates] /\ moves' \in 0..MaxMoves
    BY <1>1, DataTyped
<1>3. Become(f, r) /\ At(f, "list")
    BY DEF List
<1>4. todo \subseteq 1..MaxEvents /\ todo \subseteq DOMAIN log
    BY OffsetsOf DEF From
<1>5. todo # {} => inc # 0
    <2>1. log = <<>> => DOMAIN log = {}
        OBVIOUS
    <2> QED  BY <1>4, <2>1 DEF Typed
<1>6. pc \in {"wait", "each"} /\ (pc = "each" => todo # {})
    OBVIOUS
<1>7. next \in 0..MaxEvents+1
    BY FollowerFields, OffsetsOf DEF Later
<1> HIDE DEF todo, pc, next
<1>8. r \in Follower /\ r.pc = pc /\ r.todo = todo /\ r.b = inc
    BY <1>4, <1>6, <1>7, FollowerFields, OffsetsOf DEF Follower, Steps
<1> HIDE DEF r
<1>9. Batched(r) /\ r.pc \notin Idle /\ Working(f)
    BY <1>3, <1>5, <1>6, <1>8 DEF Batched, BatchSteps, Idle, Working, At
<1> QED  BY <1>1, <1>2, <1>3, <1>8, <1>9, BecomeMoved

LEMMA EachMoved ==
    ASSUME Typed, NEW f \in Slots, Each(f) \/ Request(f) \/ NoAncestor(f) \/ Check(f)
    PROVE  Typed' /\ Moved(f)
<1>1. UNCHANGED LoopVars /\ UNCHANGED <<tickCur, fwdCur, moves>>
    BY DEF Each, Request, NoAncestor, Check, CheckAgainst, curVars
<1>2. fate' \in [Offsets -> SUBSET Fates]
    BY DataTyped, MarkIs DEF Each, Request, NoAncestor, Check, CheckAgainst, Fates
<1>3. Working(f) /\ fol[f].pc \in BatchSteps
    BY DEF Each, Request, NoAncestor, Check, CheckAgainst, Working, At, BatchSteps
<1>4. Go(f, "wait") \/ Go(f, "past") \/ Go(f, "request") \/ Go(f, "check") \/ Go(f, "append")
    BY DEF Each, Request, NoAncestor, Check, CheckAgainst
<1>5. {"wait", "past", "request", "check", "append"} \subseteq Steps \ Idle
    BY DEF Steps, Idle
<1> QED  BY <1>1, <1>2, <1>3, <1>4, <1>5, DataTyped, GoMoved

LEMMA PushMoved == ASSUME Typed, NEW f \in Slots, Push(f) PROVE Typed' /\ Moved(f)
<1>1. UNCHANGED <<inc, row, log, supVars, clean, tickCur, fwdCur, moves>> /\ Go(f, "past") /\ At(f, "append")
    BY DEF Push, curVars, rowVars
<1>2. fol[f].pc \in BatchSteps /\ Working(f)
    BY <1>1 DEF BatchSteps, Working, At
<1>3. fol[f].todo # {} /\ fol[f].b # 0
    BY <1>2, FollowerFields DEF Batched
<1>4. <<fol[f].b, First(f)>> \in Keys
    <2>1. fol[f].b \in 1..MaxInc
        BY <1>3, FollowerFields
    <2> QED  BY <1>3, <2>1, FirstIs DEF Keys
<1>5. parent' \in Seq(Keys \cup {Noise})
    <2>1. parent \in Seq(Keys \cup {Noise}) /\ parent' = Append(parent, <<fol[f].b, First(f)>>)
        BY DEF Push, Typed, TypeOK
    <2> QED  BY <1>4, <2>1
<1>6. fate' \in [Offsets -> SUBSET Fates]
    BY MarkIs DEF Push, Fates
<1>7. Only(f) /\ fol'[f].pc = "past" /\ Batched(fol'[f])
    BY <1>1, <1>2, GoIs DEF Steps
<1>8. log' \in Seq(Kinds) /\ Len(log') <= MaxEvents
    BY <1>1 DEF Typed, TypeOK
<1>9. Typed'
    BY <1>1, <1>5, <1>6, <1>7, <1>8, DataTyped, StepFrame
<1> QED  BY <1>1, <1>2, <1>7, <1>9 DEF Moved, WorksOn, Idle

LEMMA PastMoved == ASSUME Typed, NEW f \in Slots, Past(f) PROVE Typed' /\ Moved(f)
<1> DEFINE rest == fol[f].todo \ {First(f)}
           cur == IF rest = {} THEN fol[f].next ELSE CHOOSE o \in rest : \A p \in rest : o <= p
           pc == IF rest = {} THEN "wait" ELSE "each"
           r == [[fol[f] EXCEPT !.pc = pc] EXCEPT !.todo = rest]
<1>1. UNCHANGED LoopVars /\ UNCHANGED <<tickCur, fate, moves>> /\ fwdCur' = (IF Live THEN cur ELSE fwdCur)
    BY DEF Past, PastTo
<1>2. Become(f, r) /\ At(f, "past")
    BY DEF Past, PastTo
<1>3. rest \subseteq 1..MaxEvents
    BY FollowerFields
<1>4. pc \in {"wait", "each"} /\ (pc = "each" => rest # {})
    OBVIOUS
<1>5. cur \in 0..MaxEvents+1
    <2>1. CASE rest = {}
        BY <2>1, FollowerFields
    <2>2. CASE rest # {}
        <3>1. cur = CHOOSE o \in rest : \A p \in rest : o <= p
            BY <2>2
        <3>2. rest \subseteq Nat
            BY <1>3
        <3> HIDE DEF rest, cur
        <3>3. cur \in rest
            BY <2>2, <3>1, <3>2, LeastIs
        <3> QED  BY <1>3, <3>3, OffsetsOf
    <2> QED  BY <2>1, <2>2
<1> HIDE DEF rest, cur, pc
<1>6. tickCur' \in Cursor /\ fwdCur' \in Cursor /\ fate' \in [Offsets -> SUBSET Fates] /\ moves' \in 0..MaxMoves
    BY <1>1, <1>5, DataTyped
<1>7. r \in Follower /\ r.pc = pc /\ r.todo = rest /\ r.b = fol[f].b
    BY <1>3, <1>4, FollowerFields DEF Follower, Steps
<1> HIDE DEF r
<1>8. fol[f].pc \in BatchSteps /\ fol[f].b # 0
    BY <1>2, FollowerFields DEF Batched, BatchSteps, At
<1>9. Batched(r) /\ r.pc \notin Idle /\ Working(f)
    BY <1>2, <1>4, <1>7, <1>8 DEF Batched, BatchSteps, Idle, Working, At
<1> QED  BY <1>1, <1>2, <1>6, <1>7, <1>9, BecomeMoved

LEMMA StepMoved ==
    ASSUME Typed, NEW f \in Slots, FollowerStep(f) \/ HeartbeatTick(f) \/ StoreFails(f)
    PROVE  Typed' /\ Moved(f)
BY AwaitedMoved, LoopMoved, StoreFailsMoved, SeedMoved, SeedCommitMoved, ReadMoved, CommitMoved,
   EndTickMoved, ReadForwardMoved, RaiseMoved, ListMoved, EachMoved, PushMoved, PastMoved
   DEF FollowerStep

LEMMA NextTyped == Typed /\ [Next]_vars => Typed'
<1> SUFFICES ASSUME Typed, [Next]_vars PROVE Typed'
    OBVIOUS
<1>1. CASE Environment \/ StopRecorded
    BY <1>1, CommandTyped, CrashTyped DEF Environment
<1>2. CASE Reconcile
    BY <1>2, ReconcileTyped
<1>3. CASE \E f \in Slots : FollowerStep(f) \/ HeartbeatTick(f) \/ StoreFails(f)
    BY <1>3, StepMoved
<1>4. CASE UNCHANGED vars
    BY <1>4 DEF Typed, TypeOK, Live, vars, rowVars, curVars, supVars
<1> QED  BY <1>1, <1>2, <1>3, <1>4 DEF Next

(* Every reachable state is typed: cursors, batches and the ancestor's keys  *)
(* stay within the log's bounds, whatever row they are of (commitCursor).    *)
THEOREM TypeCorrect == Spec => []TypeOK
<1>1. Typed => TypeOK
    BY DEF Typed
<1> QED  BY InitTyped, NextTyped, <1>1, PTL DEF Spec
-------------------------------------------------------------------------------
(* The hand-over.  The goroutines of a line are ordered: one with another of *)
(* the line before it does not work, and waits for one that all those before *)
(* it are no later than.  The supervisor's entry is the last of its line.    *)
Alive(f) == ~At(f, "off")
Entry == IF active # Nobody THEN active ELSE forwarding
Links(G, ord) ==
    /\ \A f, g \in G : Alive(f) /\ Alive(g) /\ ord[f] = ord[g] => f = g
    /\ \A f, g \in G : Alive(f) /\ Alive(g) /\ ord[g] < ord[f] =>
           /\ ~Working(f) /\ fol[f].pred \in G /\ Alive(fol[f].pred)
           /\ ord[fol[f].pred] < ord[f] /\ ord[g] <= ord[fol[f].pred]
Last(G, ord) ==
    \A f \in G : Alive(f) => Entry \in G /\ Alive(Entry) /\ ord[f] <= ord[Entry]
Chain(ord) == Links(Slots, ord) /\ (Live => Last(Slots, ord))
Handed == clean => \E ord \in [Slots -> Nat] : Chain(ord)

LEMMA LinksExclusive ==
    ASSUME NEW G \in SUBSET Slots, NEW ord \in [Slots -> Nat], Links(G, ord),
           NEW f \in G, NEW g \in G, Working(f), Working(g)
    PROVE  f = g
<1>1. Alive(f) /\ Alive(g)
    BY DEF Working, Alive, At
<1>2. ord[f] < ord[g] \/ ord[g] < ord[f] \/ ord[f] = ord[g]
    OBVIOUS
<1> QED  BY <1>1, <1>2 DEF Links

LEMMA ChainExclusive ==
    ASSUME Handed
    PROVE  Exclusive
BY LinksExclusive DEF Exclusive, Handed, Chain

(* Nobody alive is a line, whatever the order.                               *)
LEMMA NobodyLinks ==
    ASSUME NEW G \in SUBSET Slots, NEW ord \in [Slots -> Nat], \A f \in G : ~Alive(f)'
    PROVE  Links(G, ord)' /\ Last(G, ord)'
BY DEF Links, Last

(* A line is one still when its goroutines are where they were, and ends     *)
(* where it did when the supervisor's entry is the one it was.               *)
LEMMA SameLinks ==
    ASSUME NEW G \in SUBSET Slots, NEW ord \in [Slots -> Nat], Links(G, ord),
           \A f \in Slots : fol'[f].pc = fol[f].pc /\ fol'[f].pred = fol[f].pred
    PROVE  /\ Links(G, ord)'
           /\ Entry' = Entry /\ Last(G, ord) => Last(G, ord)'
<1>1. \A f \in Slots : (Alive(f)' <=> Alive(f)) /\ (Working(f)' <=> Working(f))
    BY DEF Alive, Working, At
<1>2. ASSUME Entry' = Entry, Last(G, ord), NEW f \in G, Alive(f)'
      PROVE  Entry' \in G /\ fol'[Entry'].pc # "off" /\ ord[f] <= ord[Entry']
    BY <1>1, <1>2 DEF Last, Alive, At
<1>3. \A f, g \in G : Alive(f)' /\ Alive(g)' /\ ord[g] < ord[f] =>
          /\ ~Working(f)' /\ fol'[f].pred \in G /\ fol'[fol'[f].pred].pc # "off"
          /\ ord[fol'[f].pred] < ord[f] /\ ord[g] <= ord[fol'[f].pred]
    BY <1>1 DEF Links, Alive, At
<1>4. \A f, g \in G : Alive(f)' /\ Alive(g)' /\ ord[f] = ord[g] => f = g
    BY <1>1 DEF Links
<1> QED  BY <1>2, <1>3, <1>4 DEF Links, Last, Alive, At

(* One that works, begins or returns has nobody of its line before it.       *)
LEMMA FirstOfLinks ==
    ASSUME NEW G \in SUBSET Slots, NEW ord \in [Slots -> Nat], Links(G, ord), NEW f \in G,
           Working(f) \/ (At(f, "await") /\ Done(fol[f].pred)),
           NEW g \in G, Alive(g), g # f
    PROVE  ord[f] < ord[g]
<1>1. Alive(f)
    BY DEF Working, Alive, At
<1>2. ~(ord[g] < ord[f])
    BY <1>1 DEF Links, Done, Alive, Working, At
<1>3. ord[g] # ord[f]
    BY <1>1 DEF Links
<1> QED  BY <1>2, <1>3

LEMMA MovedLinks ==
    ASSUME Typed, NEW f \in Slots, Moved(f), NEW G \in SUBSET Slots, NEW ord \in [Slots -> Nat],
           Links(G, ord)
    PROVE  Links(G, ord)' /\ (Last(G, ord) => Last(G, ord)')
<1>1. \A g \in Slots \ {f} : fol'[g] = fol[g]
    BY DEF Moved, Only
<1>2. \A g \in Slots \ {f} : (Alive(g)' <=> Alive(g)) /\ (Working(g)' <=> Working(g))
    BY <1>1 DEF Alive, Working, At
<1>3. Entry' = Entry
    BY DEF Moved, Entry, supVars
<1>4. Alive(f)
    BY DEF Moved, WorksOn, WaitsOn, Begins, Returns, Alive, Working, At
<1>5. CASE WaitsOn(f)
    <2>1. Alive(f)' /\ ~Working(f)' /\ ~Working(f) /\ fol'[f].pred = fol[f].pred
        BY <1>5 DEF WaitsOn, Alive, Working, At, Idle
    <2>2. \A g \in Slots : (Alive(g)' <=> Alive(g)) /\ (Working(g)' <=> Working(g)) /\ fol'[g].pred = fol[g].pred
        BY <1>1, <1>2, <1>4, <2>1
    <2>3. \A g, h \in G : Alive(g)' /\ Alive(h)' /\ ord[h] < ord[g] =>
              /\ ~Working(g)' /\ fol'[g].pred \in G /\ fol'[fol'[g].pred].pc # "off"
              /\ ord[fol'[g].pred] < ord[g] /\ ord[h] <= ord[fol'[g].pred]
        BY <2>2 DEF Links, Alive, At
    <2>4. \A g, h \in G : Alive(g)' /\ Alive(h)' /\ ord[g] = ord[h] => g = h
        BY <2>2 DEF Links
    <2>5. ASSUME Last(G, ord), NEW g \in G, Alive(g)'
          PROVE  Entry' \in G /\ fol'[Entry'].pc # "off" /\ ord[g] <= ord[Entry']
        BY <1>3, <2>2, <2>5 DEF Last, Alive, At
    <2> QED  BY <2>3, <2>4, <2>5 DEF Links, Last, Alive, At
<1>6. CASE f \notin G
    <2>1. \A g \in G : (Alive(g)' <=> Alive(g)) /\ (Working(g)' <=> Working(g)) /\ fol'[g] = fol[g]
        BY <1>1, <1>2, <1>6
    <2>2. \A g, h \in G : Alive(g)' /\ Alive(h)' /\ ord[h] < ord[g] =>
              /\ ~Working(g)' /\ fol'[g].pred \in G /\ fol'[fol'[g].pred].pc # "off"
              /\ ord[fol'[g].pred] < ord[g] /\ ord[h] <= ord[fol'[g].pred]
        BY <2>1 DEF Links, Alive, At
    <2>3. \A g, h \in G : Alive(g)' /\ Alive(h)' /\ ord[g] = ord[h] => g = h
        BY <2>1 DEF Links
    <2>4. ASSUME Last(G, ord), NEW g \in G, Alive(g)'
          PROVE  Entry' \in G /\ fol'[Entry'].pc # "off" /\ ord[g] <= ord[Entry']
        BY <1>3, <2>1, <2>4 DEF Last, Alive, At
    <2> QED  BY <2>2, <2>3, <2>4 DEF Links, Last, Alive, At
<1>7. CASE ~WaitsOn(f) /\ f \in G
    <2>1. \A g \in G : Alive(g) /\ g # f => ord[f] < ord[g]
        <3>1. Working(f) \/ (At(f, "await") /\ Done(fol[f].pred))
            BY <1>7 DEF Moved, WorksOn, Begins, Returns
        <3> QED  BY <1>7, <3>1, FirstOfLinks
    <2>2. ASSUME NEW g \in G, NEW h \in G, Alive(g)', Alive(h)', ord[h] < ord[g]
          PROVE  /\ ~Working(g)' /\ fol'[g].pred \in G /\ fol'[fol'[g].pred].pc # "off"
                 /\ ord[fol'[g].pred] < ord[g] /\ ord[h] <= ord[fol'[g].pred]
        <3>1. Alive(g) /\ Alive(h)
            BY <1>2, <1>4, <2>2
        <3>2. g # f
            BY <2>1, <2>2, <3>1
        <3>3. ~Working(g)' /\ fol'[g].pred = fol[g].pred
            BY <1>1, <1>2, <2>2, <3>1, <3>2 DEF Links
        <3> DEFINE p == fol[g].pred
        <3>4. p \in G /\ Alive(p) /\ ord[p] < ord[g] /\ ord[h] <= ord[p]
            BY <2>2, <3>1 DEF Links
        <3>5. CASE p = f
            <4>1. h = f
                <5>1. ord[h] <= ord[f] /\ ord[h] \in Nat /\ ord[f] \in Nat
                    BY <3>4, <3>5
                <5>2. h # f => ord[f] < ord[h]
                    BY <2>1, <3>1
                <5> HIDE DEF p
                <5> QED  BY <5>1, <5>2
            <4>2. fol'[f].pc # "off"
                BY <2>2, <4>1 DEF Alive, At
            <4> QED  BY <3>3, <3>4, <3>5, <4>2
        <3>6. CASE p # f
            <4>1. fol'[p].pc # "off"
                BY <1>1, <3>4, <3>6 DEF Alive, At
            <4> QED  BY <3>3, <3>4, <4>1
        <3> QED  BY <3>5, <3>6
    <2>3. \A g, h \in G : Alive(g)' /\ Alive(h)' /\ ord[g] = ord[h] => g = h
        BY <1>2, <1>4 DEF Links
    <2>4. ASSUME Last(G, ord), NEW g \in G, Alive(g)'
          PROVE  Entry' \in G /\ fol'[Entry'].pc # "off" /\ ord[g] <= ord[Entry']
        <3>1. Alive(g)
            BY <1>2, <1>4, <2>4
        <3>2. Entry \in G /\ Alive(Entry) /\ ord[g] <= ord[Entry]
            BY <1>3, <2>4, <3>1 DEF Last
        <3>3. CASE Entry = f
            <4>1. g = f
                BY <2>1, <3>1, <3>2, <3>3
            <4>2. fol'[f].pc # "off"
                BY <2>4, <4>1 DEF Alive, At
            <4> QED  BY <1>3, <3>2, <3>3, <4>2
        <3>4. CASE Entry # f
            BY <1>1, <1>3, <3>2, <3>4 DEF Alive, At
        <3> QED  BY <3>3, <3>4
    <2> QED  BY <2>2, <2>3, <2>4 DEF Links, Last, Alive, At
<1> QED  BY <1>5, <1>6, <1>7

(* The new goroutine comes after all of the line, behind the one it replaces.*)
LEMMA StartedLinks ==
    ASSUME Typed, NEW kind \in {"reactor", "forwarder"}, NEW from,
           Handover(kind, from, Entry), Entry' = Fresh, NEW n, n = Fresh,
           NEW G \in SUBSET Slots, NEW ord \in [Slots -> Nat], Links(G, ord), Last(G, ord)
    PROVE  n \in Slots /\ \E o \in [Slots -> Nat] : Links(G \cup {n}, o)' /\ Last(G \cup {n}, o)'
<1> DEFINE K == G \cup {n}
<1>1. PICK h \in Slots \cup {Nobody} : h = Entry
    BY DEF Entry, Typed, TypeOK
<1>2. n \in Slots /\ n \in Free
    BY FreshIs DEF Handover
<1>3. /\ fol'[n].pred = h /\ fol'[n].pc \in {"seed", "await"}
      /\ \A f \in Slots \ {n} : fol'[f].pc = fol[f].pc /\ fol'[f].pred = fol[f].pred
    BY <1>1, <1>2, HandoverIs
<1>4. ~Alive(n) /\ \A g \in Slots : Alive(g) => fol[g].pred # n
    BY <1>2 DEF Free, Alive
<1> DEFINE top == IF h \in Slots THEN ord[h] + 1 ELSE 0
           new == [ord EXCEPT ![n] = top]
<1>5. new \in [Slots -> Nat] /\ new[n] = top /\ \A g \in Slots \ {n} : new[g] = ord[g]
    BY <1>2
<1> HIDE DEF new
<1>6. \A g \in Slots \ {n} : (Alive(g)' <=> Alive(g)) /\ (Working(g)' <=> Working(g))
    BY <1>3 DEF Alive, Working, At
<1>7. Alive(n)' /\ ~Working(n)'
    BY <1>3 DEF Alive, Working, At
<1>8. ASSUME NEW g \in G \ {n}, Alive(g)'
      PROVE  h \in G \ {n} /\ Alive(h)' /\ new[g] <= new[h] /\ new[h] < new[n] /\ new[g] < new[n]
    <2>1. Alive(g)
        BY <1>6, <1>8
    <2>2. h \in G /\ Alive(h) /\ ord[g] <= ord[h]
        BY <1>1, <2>1 DEF Last
    <2>3. h # n
        BY <1>4, <2>2
    <2>4. Alive(h)'
        BY <1>6, <2>2, <2>3
    <2>5. new[h] = ord[h] /\ new[g] = ord[g] /\ new[n] = ord[h] + 1 /\ ord[h] \in Nat /\ ord[g] \in Nat
        BY <1>5, <2>2, <2>3
    <2> QED  BY <2>2, <2>3, <2>4, <2>5
<1>9. ASSUME NEW f \in K, NEW g \in K, Alive(f)', Alive(g)', new[g] < new[f]
      PROVE  /\ ~Working(f)' /\ fol'[f].pred \in K /\ fol'[fol'[f].pred].pc # "off"
             /\ new[fol'[f].pred] < new[f] /\ new[g] <= new[fol'[f].pred]
    <2>1. new[f] \in Nat /\ new[g] \in Nat /\ new[n] \in Nat
        BY <1>2, <1>5
    <2>2. CASE f = n
        <3>1. g # n
            BY <1>9, <2>1, <2>2
        <3> QED  BY <1>3, <1>7, <1>8, <1>9, <2>2, <3>1 DEF Alive, At
    <2>3. CASE f # n
        <3>1. new[f] < new[n]
            BY <1>8, <1>9, <2>3
        <3>2. g # n
            BY <1>9, <2>1, <3>1
        <3>3. Alive(f) /\ Alive(g) /\ ord[g] < ord[f]
            BY <1>5, <1>6, <1>9, <2>3, <3>2
        <3>4. PICK p \in G : p = fol[f].pred /\ ~Working(f) /\ Alive(p) /\ ord[p] < ord[f] /\ ord[g] <= ord[p]
            BY <1>9, <2>3, <3>2, <3>3 DEF Links
        <3>5. p # n
            BY <1>4, <1>9, <2>3, <3>3, <3>4
        <3>6. fol'[f].pred = p /\ fol'[p].pc # "off" /\ ~Working(f)'
            BY <1>3, <1>6, <1>9, <2>3, <3>4, <3>5 DEF Alive, At
        <3>7. new[p] = ord[p] /\ new[f] = ord[f] /\ new[g] = ord[g]
            BY <1>5, <1>9, <2>3, <3>2, <3>5
        <3> QED  BY <3>4, <3>6, <3>7
    <2> QED  BY <2>2, <2>3
<1>10. ASSUME NEW f \in K, NEW g \in K, Alive(f)', Alive(g)', new[f] = new[g]
       PROVE  f = g
    <2>1. new[f] \in Nat /\ new[g] \in Nat /\ new[n] \in Nat
        BY <1>2, <1>5
    <2>2. CASE f = n
        BY <1>8, <1>10, <2>1, <2>2
    <2>3. CASE g = n
        BY <1>8, <1>10, <2>1, <2>3
    <2>4. CASE f # n /\ g # n
        BY <1>5, <1>6, <1>10, <2>4 DEF Links
    <2> QED  BY <2>2, <2>3, <2>4
<1>11. ASSUME NEW f \in K, Alive(f)'
       PROVE  Entry' \in K /\ fol'[Entry'].pc # "off" /\ new[f] <= new[Entry']
    <2>1. new[f] \in Nat /\ new[n] \in Nat /\ Entry' = n
        BY <1>2, <1>5
    <2>2. new[f] <= new[n]
        BY <1>8, <1>11, <2>1
    <2> QED  BY <1>7, <2>1, <2>2 DEF Alive, At
<1>12. Links(K, new)' /\ Last(K, new)'
    BY <1>9, <1>10, <1>11 DEF Links, Last, Alive, At
<1> QED  BY <1>2, <1>5, <1>12

(* What the supervisor's pass does: it starts one behind its entry, or       *)
(* cancels both.                                                             *)
Starts(n) ==
    /\ Live /\ n = Fresh /\ Entry' = n
    /\ \E kind \in {"reactor", "forwarder"} : Handover(kind, Entry, Entry)

LEMMA ReconcileStarts ==
    ASSUME Typed, Reconcile
    PROVE  (\E n \in Slots : Starts(n)) \/ CancelBoth
<1>1. Nobody \notin Slots
    BY DEF Nobody
<1>2. CASE StartReactor
    <2>1. Live /\ Handover("reactor", Entry, Entry)
        BY <1>2 DEF StartReactor, Live, Entry
    <2>2. Fresh \in Slots /\ Entry' = Fresh
        BY <1>1, <1>2, FreshIs DEF StartReactor, Handover, Entry
    <2> QED  BY <2>1, <2>2 DEF Starts
<1>3. CASE StartForwarder
    <2>1. Live /\ Handover("forwarder", Entry, Entry)
        BY <1>3 DEF StartForwarder, StartForwarderBehind, IsDown, Entry
    <2>2. Fresh \in Slots /\ Entry' = Fresh
        BY <1>3, FreshIs DEF StartForwarder, StartForwarderBehind, Handover, Entry
    <2> QED  BY <2>1, <2>2 DEF Starts
<1> QED  BY <1>2, <1>3 DEF Reconcile

LEMMA ReconcileHanded == ASSUME Typed, Handed, Reconcile PROVE Handed'
<1> SUFFICES ASSUME clean' PROVE \E o \in [Slots -> Nat] : Chain(o)'
    BY DEF Handed
<1>1. clean /\ row' = row
    BY DEF Reconcile, rowVars
<1>2. PICK ord \in [Slots -> Nat] : Chain(ord)
    BY <1>1 DEF Handed
<1>3. ASSUME NEW n \in Slots, Starts(n)
      PROVE  \E o \in [Slots -> Nat] : Chain(o)'
    <2>1. \E o \in [Slots -> Nat] : Links(Slots \cup {n}, o)' /\ Last(Slots \cup {n}, o)'
        BY <1>2, <1>3, StartedLinks DEF Starts, Chain
    <2>2. Slots \cup {n} = Slots
        OBVIOUS
    <2> QED  BY <2>1, <2>2 DEF Chain
<1>4. CASE CancelBoth
    <2>1. \A f \in Slots : fol'[f].pc = fol[f].pc /\ fol'[f].pred = fol[f].pred
        BY <1>4, CancelledIs DEF CancelBoth
    <2>2. ~Live'
        BY <1>1, <1>4 DEF CancelBoth, Live
    <2> QED  BY <1>2, <2>1, <2>2, SameLinks DEF Chain
<1> QED  BY <1>3, <1>4, ReconcileStarts

LEMMA EnvironmentHanded ==
    ASSUME Typed, Handed, Environment \/ StopRecorded \/ UNCHANGED vars
    PROVE  Handed'
<1> SUFFICES ASSUME clean' PROVE \E o \in [Slots -> Nat] : Chain(o)'
    BY DEF Handed
<1>1. CASE Create \/ Crash
    <2> DEFINE o == [f \in Slots |-> 0]
    <2>1. \A f \in Slots : ~Alive(f)'
        BY <1>1, OffIs DEF Create, Crash, Alive, At
    <2>2. o \in [Slots -> Nat]
        OBVIOUS
    <2> HIDE DEF o
    <2> QED  BY <2>1, <2>2, NobodyLinks DEF Chain
<1>2. CASE ~(Create \/ Crash)
    <2>1. fol' = fol /\ clean' = clean /\ active' = active /\ forwarding' = forwarding
        BY <1>2 DEF Environment, Destroy, Up, Sleep, Stop, Inbound, Siblings, StopRecorded,
                    vars, supVars
    <2>2. Live' => Live
        BY <1>2 DEF Environment, Destroy, Up, Sleep, Stop, Inbound, Siblings, StopRecorded,
                    vars, rowVars, Live
    <2>3. PICK ord \in [Slots -> Nat] : Chain(ord)
        BY <2>1 DEF Handed
    <2>4. Entry' = Entry
        BY <2>1 DEF Entry
    <2> QED  BY <2>1, <2>2, <2>3, <2>4, SameLinks DEF Chain
<1> QED  BY <1>1, <1>2

LEMMA NextHanded == Typed /\ Handed /\ [Next]_vars => Handed'
<1> SUFFICES ASSUME Typed, Handed, [Next]_vars PROVE Handed'
    OBVIOUS
<1>1. CASE Environment \/ StopRecorded \/ UNCHANGED vars
    BY <1>1, EnvironmentHanded
<1>2. CASE Reconcile
    BY <1>2, ReconcileHanded
<1>3. ASSUME NEW f \in Slots, FollowerStep(f) \/ HeartbeatTick(f) \/ StoreFails(f)
      PROVE  Handed'
    <2>1. Moved(f) /\ clean' = clean /\ Live' = Live
        BY <1>3, StepMoved DEF Moved, Live
    <2> QED  BY <2>1, MovedLinks DEF Handed, Chain
<1> QED  BY <1>1, <1>2, <1>3 DEF Next

(* The hand-over between reactors and forwarders is exclusive for any number *)
(* of goroutines, ups, downs and deaths, as long as no row is made while a   *)
(* follower of another lives (Supervisor, awaitPredecessor).                 *)
THEOREM WorksAlone == Spec => []Exclusive
<1>1. Init => Typed /\ Handed
    <2> SUFFICES ASSUME Init PROVE \E o \in [Slots -> Nat] : Chain(o)
        BY InitTyped DEF Handed
    <2> DEFINE o == [f \in Slots |-> 0]
    <2>1. \A f \in Slots : ~Alive(f)
        BY OffIs DEF Init, Alive, At
    <2>2. o \in [Slots -> Nat]
        OBVIOUS
    <2> HIDE DEF o
    <2> QED  BY <2>1, <2>2 DEF Chain, Links, Last
<1>2. Typed /\ Handed /\ [Next]_vars => Typed' /\ Handed'
    BY NextTyped, NextHanded
<1>3. Typed /\ Handed => Exclusive
    BY ChainExclusive
<1> QED  BY <1>1, <1>2, <1>3, PTL DEF Spec
-------------------------------------------------------------------------------
(* What the reactor has read.  While no row was made over a live follower,   *)
(* every event marked read is below the reactor's cursor, which a forwarder  *)
(* at work has not seen overtaken; a goroutine the supervisor has forgotten  *)
(* is cancelled, so a cursor seeded late has no reactor at work under it.    *)
HasRead(o) == "read" \in fate[o]
Unread(f) ==
    /\ Alive(f) => fol[f].gen \in {0, inc}
    /\ At(f, "commit") => /\ IsReactor(f)
                          /\ Live => /\ At0(tickCur) <= fol[f].next
                                     /\ \A o \in fol[f].todo : o < fol[f].next
    /\ At(f, "list") /\ Live => \A o \in Offsets : o >= fol[f].cur => ~HasRead(o)
    /\ fol[f].pc \in BatchSteps => \A o \in fol[f].todo : ~HasRead(o)
    /\ IsReactor(f) /\ fol[f].pc \notin {"off", "seed", "seedCommit"} /\ Live => tickCur # Absent
    /\ At(f, "seedCommit") /\ Live => /\ \A o \in Offsets : ~HasRead(o)
                                      /\ \A g \in Slots : IsReactor(g) => ~Working(g)
    /\ Live /\ Alive(f) /\ f # Entry => fol[f].gone
ReadBelow == Live => \A o \in Offsets : HasRead(o) => o < At0(tickCur)
Fated == clean => ReadBelow /\ \A f \in Slots : Unread(f)

(* What a step keeps of its goroutine, and what it owes where it arrives.    *)
Kept(f) == fol'[f].pc # "off" => /\ fol'[f].kind = fol[f].kind /\ fol'[f].gone = fol[f].gone
                                 /\ fol'[f].gen \in {fol[f].gen, 0, inc}
Owed(f) ==
    /\ fol'[f].pc = "commit" => /\ fol'[f].kind = "reactor"
                                /\ Live => /\ At0(tickCur) <= fol'[f].next
                                           /\ \A o \in fol'[f].todo : o < fol'[f].next
    /\ fol'[f].pc = "list" /\ Live => \A o \in Offsets : o >= fol'[f].cur => ~HasRead(o)
    /\ fol'[f].pc \in BatchSteps => \A o \in fol'[f].todo : ~HasRead(o)
    /\ fol'[f].kind = "reactor" /\ fol'[f].pc \notin {"off", "seed", "seedCommit"} /\ Live => tickCur # Absent
    /\ fol'[f].pc = "seedCommit" /\ Live => /\ \A o \in Offsets : ~HasRead(o)
                                            /\ \A g \in Slots : IsReactor(g) => ~Working(g)
    /\ fol'[f].kind = "reactor" /\ fol'[f].pc \notin Idle /\ ~Working(f) /\ Live =>
           \A g \in Slots \ {f} : ~At(g, "seedCommit")
NoneRead == \A o \in Offsets : HasRead(o)' => HasRead(o)

LEMMA OwedFated ==
    ASSUME Typed, Fated, clean, NEW f \in Slots, Moved(f), Kept(f), Owed(f), NoneRead, tickCur' = tickCur
    PROVE  Fated'
<1>1. /\ inc' = inc /\ Live' = Live /\ Entry' = Entry /\ Alive(f)
      /\ \A g \in Slots \ {f} : fol'[g] = fol[g]
    BY DEF Moved, Only, Live, Entry, supVars, WorksOn, WaitsOn, Begins, Returns, Alive, Working, At
<1>2. ReadBelow /\ \A g \in Slots : Unread(g)
    BY DEF Fated
<1>3. ReadBelow'
    BY <1>1, <1>2 DEF ReadBelow, NoneRead, At0
<1>4. \A g \in Slots : fol[g].todo \subseteq Offsets /\ fol'[g].todo \subseteq Offsets
    <2>1. fol' \in [Slots -> Follower]
        BY DEF Moved, Only
    <2> QED  BY <2>1, FollowerFields DEF Offsets, Follower
<1>5. Unread(f)'
    <2>1. Unread(f)
        BY <1>2
    <2>2. Alive(f)' => fol'[f].gen \in {0, inc'}
        BY <1>1, <2>1 DEF Kept, Unread, Alive, At
    <2>3. At(f, "commit")' => /\ IsReactor(f)'
                              /\ Live' => /\ At0(tickCur') <= fol'[f].next
                                          /\ \A o \in fol'[f].todo : o < fol'[f].next
        BY <1>1 DEF Owed, At, IsReactor
    <2>4. At(f, "list")' /\ Live' => \A o \in Offsets : o >= fol'[f].cur => ~HasRead(o)'
        BY <1>1 DEF Owed, At, NoneRead
    <2>5. fol'[f].pc \in BatchSteps => \A o \in fol'[f].todo : ~HasRead(o)'
        BY <1>4 DEF Owed, NoneRead
    <2>6. IsReactor(f)' /\ fol'[f].pc \notin {"off", "seed", "seedCommit"} /\ Live' => tickCur' # Absent
        BY <1>1 DEF Owed, IsReactor
    <2>7. At(f, "seedCommit")' /\ Live' => /\ \A o \in Offsets : ~HasRead(o)'
                                           /\ \A g \in Slots : IsReactor(g)' => ~Working(g)'
        BY <1>1 DEF Owed, At, NoneRead, IsReactor, Working
    <2>8. Live' /\ Alive(f)' /\ f # Entry' => fol'[f].gone
        BY <1>1, <2>1 DEF Kept, Unread, Alive, At
    <2> QED  BY <2>2, <2>3, <2>4, <2>5, <2>6, <2>7, <2>8 DEF Unread
<1>6. ASSUME NEW g \in Slots \ {f}
      PROVE  Unread(g)'
    <2>1. Unread(g) /\ fol'[g] = fol[g]
        BY <1>1, <1>2
    <2>2. At(g, "seedCommit")' /\ Live' => /\ \A o \in Offsets : ~HasRead(o)'
                                           /\ \A h \in Slots : IsReactor(h)' => ~Working(h)'
        <3> SUFFICES ASSUME At(g, "seedCommit")', Live'
                     PROVE  /\ \A o \in Offsets : ~HasRead(o)'
                            /\ \A h \in Slots : IsReactor(h)' => ~Working(h)'
            OBVIOUS
        <3>1. At(g, "seedCommit") /\ Live
            BY <1>1, <2>1 DEF At
        <3>2. \A o \in Offsets : ~HasRead(o)
            BY <2>1, <3>1 DEF Unread
        <3>3. \A h \in Slots : IsReactor(h) => ~Working(h)
            BY <2>1, <3>1 DEF Unread
        <3>4. IsReactor(f)' => ~Working(f)'
            BY <3>1, <3>3 DEF Owed, Kept, IsReactor, Working, Idle
        <3>5. \A h \in Slots \ {f} : IsReactor(h)' => ~Working(h)'
            BY <1>1, <3>3 DEF IsReactor, Working
        <3> QED  BY <3>2, <3>4, <3>5 DEF NoneRead
    <2>3. Alive(g)' => fol'[g].gen \in {0, inc'}
        BY <1>1, <2>1 DEF Unread, Alive, At
    <2>4. At(g, "commit")' => /\ IsReactor(g)'
                              /\ Live' => /\ At0(tickCur') <= fol'[g].next
                                          /\ \A o \in fol'[g].todo : o < fol'[g].next
        BY <1>1, <2>1 DEF Unread, At, IsReactor
    <2>5. At(g, "list")' /\ Live' => \A o \in Offsets : o >= fol'[g].cur => ~HasRead(o)'
        BY <1>1, <2>1 DEF Unread, At, NoneRead
    <2>6. fol'[g].pc \in BatchSteps => \A o \in fol'[g].todo : ~HasRead(o)'
        BY <1>4, <2>1 DEF Unread, NoneRead
    <2>7. IsReactor(g)' /\ fol'[g].pc \notin {"off", "seed", "seedCommit"} /\ Live' => tickCur' # Absent
        BY <1>1, <2>1 DEF Unread, IsReactor
    <2>8. Live' /\ Alive(g)' /\ g # Entry' => fol'[g].gone
        BY <1>1, <2>1 DEF Unread, Alive, At
    <2> QED  BY <2>2, <2>3, <2>4, <2>5, <2>6, <2>7, <2>8 DEF Unread
<1>7. clean'
    BY DEF Moved
<1> QED  BY <1>3, <1>5, <1>6 DEF Fated

(* The fields a goroutine has after a step.                                  *)
LEMMA BecomeKept ==
    ASSUME Typed, NEW f \in Slots, NEW r \in Follower, Become(f, r)
    PROVE  /\ fol'[f].pc = r.pc /\ fol'[f].kind = r.kind /\ fol'[f].gone = r.gone /\ fol'[f].gen = r.gen
           /\ r.pc \notin {"wait", "loop", "ticking"} => fol'[f] = r
<1>1. fol'[f] = Settled(r)
    BY DEF Become, Typed, TypeOK
<1> DEFINE k == [[[[Off EXCEPT !.kind = r.kind] EXCEPT !.pc = r.pc] EXCEPT !.gone = r.gone]
                    EXCEPT !.gen = r.gen]
<1>2. k.kind = r.kind /\ k.pc = r.pc /\ k.gone = r.gone /\ k.gen = r.gen
    BY OffIs DEF Follower
<1>3. Settled(r) = IF r.pc \in {"wait", "loop", "ticking"} THEN k ELSE r
    BY DEF Settled
<1> HIDE DEF k
<1> QED  BY <1>1, <1>2, <1>3

LEMMA GoKept ==
    ASSUME Typed, NEW f \in Slots, NEW pc \in Steps, Go(f, pc)
    PROVE  /\ Kept(f) /\ fol'[f].pc = pc /\ fol'[f].kind = fol[f].kind
           /\ pc \notin {"wait", "loop", "ticking"} => fol'[f].todo = fol[f].todo
<1> DEFINE r == [fol[f] EXCEPT !.pc = pc]
<1>1. /\ r \in Follower /\ r.pc = pc /\ r.kind = fol[f].kind /\ r.gone = fol[f].gone
      /\ r.gen = fol[f].gen /\ r.todo = fol[f].todo
    BY FollowerFields DEF Follower
<1>2. Become(f, r)
    BY DEF Go
<1> HIDE DEF r
<1> QED  BY <1>1, <1>2, BecomeKept DEF Kept

LEMMA ExitKept ==
    ASSUME Typed, NEW f \in Slots, Exit(f)
    PROVE  Kept(f) /\ fol'[f].pc = "off" /\ Owed(f)
<1>1. fol'[f].pc = "off"
    BY ExitIs, OffIs
<1> QED  BY <1>1 DEF Kept, Owed, BatchSteps, Idle

LEMMA MarkKept ==
    ASSUME Typed, NEW f, NEW os, NEW what, what # "read", Mark(f, os, what)
    PROVE  NoneRead
BY DEF Typed, TypeOK, Mark, NoneRead, HasRead
-------------------------------------------------------------------------------
(* Steps that read nothing and leave the reactor's cursor.                   *)
LEMMA GoFated ==
    ASSUME Typed, Fated, clean, NEW f \in Slots, Moved(f), Working(f),
           NEW pc \in Steps \ Idle, pc \notin {"commit", "list"}, Go(f, pc),
           pc \in BatchSteps => fol[f].pc \in BatchSteps,
           NoneRead, tickCur' = tickCur
    PROVE  Fated'
<1>1. /\ Kept(f) /\ fol'[f].pc = pc /\ fol'[f].kind = fol[f].kind
      /\ pc \notin {"wait", "loop", "ticking"} => fol'[f].todo = fol[f].todo
    BY GoKept
<1>2. Unread(f)
    BY DEF Fated
<1>3. Owed(f)
    BY <1>1, <1>2 DEF Owed, Unread, Working, IsReactor, Idle, BatchSteps
<1> QED  BY <1>1, <1>3, OwedFated

LEMMA SameFate ==
    ASSUME fate' = fate
    PROVE  NoneRead
BY DEF NoneRead, HasRead

(* The first to begin is the supervisor's own entry, so nobody seeds.        *)
LEMMA BeginsLast ==
    ASSUME Typed, Handed, Fated, clean, Live, NEW f \in Slots, At(f, "await"), Done(fol[f].pred),
           ~fol[f].gone, NEW g \in Slots \ {f}
    PROVE  ~Alive(g)
<1>1. PICK ord \in [Slots -> Nat] : Chain(ord)
    BY DEF Handed
<1>2. f = Entry
    BY DEF Fated, Unread, Alive, At
<1>3. SUFFICES ASSUME Alive(g) PROVE FALSE
    OBVIOUS
<1>4. ord[g] <= ord[f]
    BY <1>1, <1>2, <1>3 DEF Chain, Last
<1>5. ord[f] < ord[g]
    BY <1>1, <1>3, FirstOfLinks DEF Chain
<1> QED  BY <1>1, <1>4, <1>5

LEMMA AwaitedFated ==
    ASSUME Typed, Handed, Fated, clean, NEW f \in Slots, Awaited(f)
    PROVE  Fated'
<1>1. Moved(f) /\ NoneRead /\ tickCur' = tickCur
    BY AwaitedMoved, SameFate DEF Awaited, curVars
<1>2. CASE fol[f].gone
    <2>1. Exit(f)
        BY <1>2 DEF Awaited
    <2> QED  BY <1>1, <2>1, ExitKept, OwedFated
<1>3. CASE ~fol[f].gone
    <2> DEFINE pc == IF IsReactor(f) THEN "wait" ELSE "loop"
               gen == IF Live THEN inc ELSE 0
               r == [[[fol[f] EXCEPT !.pc = pc] EXCEPT !.pred = Nobody] EXCEPT !.gen = gen]
    <2>1. Become(f, r) /\ At(f, "await") /\ Done(fol[f].pred)
        BY <1>3 DEF Awaited
    <2>2. pc \in {"wait", "loop"} /\ gen \in 0..MaxInc /\ gen \in {0, inc}
        <3>1. inc \in 0..MaxInc /\ 0 \in 0..MaxInc
            BY FollowerFields
        <3> QED  BY <3>1
    <2> HIDE DEF pc, gen
    <2>3. r \in Follower /\ r.pc = pc /\ r.kind = fol[f].kind /\ r.gone = fol[f].gone /\ r.gen = gen
        BY <2>2, FollowerFields DEF Follower, Steps
    <2> HIDE DEF r
    <2>4. fol'[f].pc = pc /\ fol'[f].kind = fol[f].kind /\ fol'[f].gone = fol[f].gone /\ fol'[f].gen = gen
        BY <2>1, <2>3, BecomeKept
    <2>5. fol[f].kind = "reactor" /\ Live => tickCur # Absent
        BY <2>1 DEF Fated, Unread, IsReactor, At
    <2>6. Live => \A g \in Slots \ {f} : ~At(g, "seedCommit")
        BY <1>3, <2>1, BeginsLast DEF Alive, At
    <2>7. Kept(f)
        BY <2>2, <2>4 DEF Kept
    <2>8. Owed(f)
        BY <2>2, <2>4, <2>5, <2>6 DEF Owed, BatchSteps
    <2> QED  BY <1>1, <2>7, <2>8, OwedFated
<1> QED  BY <1>2, <1>3

LEMMA LoopFated ==
    ASSUME Typed, Fated, clean, NEW f \in Slots,
           Loop(f) \/ Wait(f) \/ StoreFails(f) \/ BeginTick(f) \/ HeartbeatTick(f) \/ EndTick(f)
    PROVE  Fated'
<1>1. Moved(f)
    BY LoopMoved, StoreFailsMoved, CommitMoved, EndTickMoved
<1>2. tickCur' = tickCur
    BY DEF Loop, Wait, StoreFails, BeginTick, HeartbeatTick, EndTick, curVars
<1>3. NoneRead
    BY SameFate, MarkKept DEF Loop, Wait, StoreFails, BeginTick, HeartbeatTick, EndTick
<1>4. Working(f)
    BY DEF Loop, Wait, StoreFails, BeginTick, HeartbeatTick, EndTick, At, Working
<1>5. Exit(f) \/ Go(f, "read") \/ Go(f, "wait") \/ Go(f, "loop") \/ Go(f, "ticking")
    BY DEF Loop, Wait, StoreFails, BeginTick, HeartbeatTick, EndTick
<1>6. /\ {"read", "wait", "loop", "ticking"} \subseteq Steps \ Idle
      /\ {"read", "wait", "loop", "ticking"} \cap (BatchSteps \cup {"commit", "list"}) = {}
    BY DEF Steps, Idle, BatchSteps
<1> QED  BY <1>1, <1>2, <1>3, <1>4, <1>5, <1>6, ExitKept, OwedFated, GoFated

LEMMA EachFated ==
    ASSUME Typed, Fated, clean, NEW f \in Slots,
           Each(f) \/ Request(f) \/ NoAncestor(f) \/ Check(f) \/ Push(f)
    PROVE  Fated'
<1>1. Moved(f)
    BY EachMoved, PushMoved
<1>2. tickCur' = tickCur
    BY DEF Each, Request, NoAncestor, Check, CheckAgainst, Push, curVars
<1>3. NoneRead
    BY SameFate, MarkKept DEF Each, Request, NoAncestor, Check, CheckAgainst, Push
<1>4. Working(f) /\ fol[f].pc \in BatchSteps
    BY DEF Each, Request, NoAncestor, Check, CheckAgainst, Push, Working, At, BatchSteps
<1>5. Go(f, "wait") \/ Go(f, "past") \/ Go(f, "request") \/ Go(f, "check") \/ Go(f, "append")
    BY DEF Each, Request, NoAncestor, Check, CheckAgainst, Push
<1>6. {"wait", "past", "request", "check", "append"} \subseteq Steps \ (Idle \cup {"commit", "list"})
    BY DEF Steps, Idle
<1> QED  BY <1>1, <1>2, <1>3, <1>4, <1>5, <1>6, GoFated

LEMMA SeedFated ==
    ASSUME Typed, Fated, clean, NEW f \in Slots, Seed(f)
    PROVE  Fated'
<1>1. Moved(f) /\ NoneRead /\ tickCur' = tickCur
    BY SeedMoved, SameFate DEF Seed, curVars
<1> DEFINE pc == IF tickCur = Absent THEN "seedCommit" ELSE "await"
           r == [[[fol[f] EXCEPT !.pc = pc] EXCEPT !.b = inc] EXCEPT !.next = LogEnd]
<1>2. Become(f, r)
    BY DEF Seed
<1>3. pc \in {"seedCommit", "await"} /\ (pc = "seedCommit" <=> tickCur = Absent)
    OBVIOUS
<1> HIDE DEF pc
<1>4. r \in Follower /\ r.pc = pc /\ r.kind = fol[f].kind /\ r.gone = fol[f].gone /\ r.gen = fol[f].gen
    BY <1>3, FollowerFields, OffsetsOf DEF Follower, Steps
<1> HIDE DEF r
<1>5. /\ fol'[f].pc = pc /\ fol'[f].kind = fol[f].kind /\ fol'[f].gone = fol[f].gone
      /\ fol'[f].gen = fol[f].gen
    BY <1>2, <1>4, BecomeKept
<1>6. Live /\ tickCur = Absent => /\ \A o \in Offsets : ~HasRead(o)
                                  /\ \A g \in Slots : IsReactor(g) => ~Working(g)
    BY DEF Fated, ReadBelow, Unread, Working, At0, Offsets, Absent
<1>7. Kept(f)
    BY <1>5 DEF Kept
<1>8. Owed(f)
    BY <1>3, <1>5, <1>6 DEF Owed, BatchSteps, Idle
<1> QED  BY <1>1, <1>7, <1>8, OwedFated

LEMMA NotRotated ==
    ASSUME Fated, clean, NEW f \in Slots, Alive(f)
    PROVE  ~Rotated(f)
BY DEF Fated, Unread, Rotated

LEMMA ReadFated ==
    ASSUME Typed, Fated, clean, NEW f \in Slots, Read(f)
    PROVE  Fated'
<1>0. ~Rotated(f) /\ At(f, "read") /\ IsReactor(f)
    BY NotRotated DEF Read, Alive, At
<1>1. Moved(f) /\ NoneRead /\ tickCur' = tickCur
    BY <1>0, ReadMoved, SameFate DEF Read
<1> DEFINE cur == At0(tickCur)
           todo == {o \in From(cur) : Triggers(log[o])}
           pc == IF From(cur) = {} THEN "wait" ELSE "commit"
           r == [[[[fol[f] EXCEPT !.pc = pc] EXCEPT !.b = inc] EXCEPT !.next = LogEnd] EXCEPT !.todo = todo]
<1>2. Become(f, r)
    <2>1. Become(f, [[[[[fol[f] EXCEPT !.pc = pc] EXCEPT !.gen = fol[f].gen] EXCEPT !.b = inc]
                        EXCEPT !.next = LogEnd] EXCEPT !.todo = todo])
        BY <1>0 DEF Read
    <2> HIDE DEF pc, todo
    <2>2. [[fol[f] EXCEPT !.pc = pc] EXCEPT !.gen = fol[f].gen] = [fol[f] EXCEPT !.pc = pc]
        BY FollowerFields DEF Follower
    <2> QED  BY <2>1, <2>2
<1>3. pc \in {"wait", "commit"} /\ todo \subseteq 1..MaxEvents
    BY OffsetsOf DEF From
<1>4. pc = "commit" => cur <= LogEnd /\ \A o \in todo : o < LogEnd
    <2>1. log \in Seq(Kinds) /\ Len(log) \in Nat /\ DOMAIN log = 1..Len(log)
        BY DEF Typed, TypeOK
    <2>2. cur \in 0..MaxEvents+1
        BY DataTyped
    <2> SUFFICES ASSUME pc = "commit" PROVE cur <= LogEnd /\ \A o \in todo : o < LogEnd
        OBVIOUS
    <2>3. PICK o \in 1..Len(log) : o >= cur
        BY <2>1 DEF From
    <2>4. LogEnd = Len(log) + 1
        BY <2>1, <2>3 DEF LogEnd
    <2>5. todo \subseteq 1..Len(log)
        BY <2>1 DEF From
    <2> HIDE DEF cur, todo
    <2> QED  BY <2>1, <2>2, <2>3, <2>4, <2>5
<1> HIDE DEF pc, todo
<1>5. /\ r \in Follower /\ r.pc = pc /\ r.kind = fol[f].kind /\ r.gone = fol[f].gone
      /\ r.gen = fol[f].gen /\ r.todo = todo /\ r.next = LogEnd
    BY <1>3, FollowerFields, OffsetsOf DEF Follower, Steps
<1> HIDE DEF r
<1>6. /\ fol'[f].pc = pc /\ fol'[f].kind = fol[f].kind /\ fol'[f].gone = fol[f].gone
      /\ fol'[f].gen = fol[f].gen /\ (pc = "commit" => fol'[f].todo = todo /\ fol'[f].next = LogEnd)
    BY <1>2, <1>5, BecomeKept
<1>7. Kept(f)
    BY <1>6 DEF Kept
<1>8. Live => tickCur # Absent
    BY <1>0 DEF Fated, Unread, At
<1>9. Owed(f)
    BY <1>0, <1>3, <1>4, <1>6, <1>8 DEF Owed, BatchSteps, IsReactor, Working, At
<1> QED  BY <1>1, <1>7, <1>9, OwedFated

LEMMA ReadForwardFated ==
    ASSUME Typed, Fated, clean, NEW f \in Slots, ReadForward(f)
    PROVE  Fated'
<1>1. Moved(f) /\ NoneRead /\ tickCur' = tickCur
    BY ReadForwardMoved, SameFate DEF ReadForward
<1> DEFINE cur == IF Rotated(f) THEN 0 ELSE At0(fwdCur)
           gen == IF Rotated(f) THEN inc ELSE fol[f].gen
           r == [[[fol[f] EXCEPT !.pc = "raise"] EXCEPT !.gen = gen] EXCEPT !.cur = cur]
<1>2. Become(f, r) /\ fol[f].kind # "reactor"
    BY DEF ReadForward, IsReactor
<1>3. gen \in 0..MaxInc /\ cur \in 0..MaxEvents+1 /\ gen \in {fol[f].gen, inc}
    BY FollowerFields, OffsetsOf, DataTyped
<1> HIDE DEF gen, cur
<1>4. r \in Follower /\ r.pc = "raise" /\ r.kind = fol[f].kind /\ r.gone = fol[f].gone /\ r.gen = gen
    BY <1>3, FollowerFields DEF Follower, Steps
<1> HIDE DEF r
<1>5. /\ fol'[f].pc = "raise" /\ fol'[f].kind = fol[f].kind /\ fol'[f].gone = fol[f].gone
      /\ fol'[f].gen = gen
    BY <1>2, <1>4, BecomeKept
<1>6. Kept(f)
    BY <1>3, <1>5 DEF Kept
<1>7. Owed(f)
    BY <1>2, <1>5 DEF Owed, BatchSteps
<1> QED  BY <1>1, <1>6, <1>7, OwedFated

LEMMA RaiseFated ==
    ASSUME Typed, Fated, clean, NEW f \in Slots, Raise(f)
    PROVE  Fated'
<1>1. Moved(f) /\ NoneRead /\ tickCur' = tickCur
    BY RaiseMoved, SameFate DEF Raise, RaiseTo
<1> DEFINE cur == Later(fol[f].cur, At0(tickCur))
           r == [[fol[f] EXCEPT !.pc = "list"] EXCEPT !.cur = cur]
<1>2. Become(f, r) /\ At(f, "raise")
    BY DEF Raise, RaiseTo
<1>3. cur \in 0..MaxEvents+1 /\ cur >= At0(tickCur)
    BY FollowerFields, DataTyped DEF Later
<1> HIDE DEF cur
<1>4. /\ r \in Follower /\ r.pc = "list" /\ r.kind = fol[f].kind /\ r.gone = fol[f].gone
      /\ r.gen = fol[f].gen /\ r.cur = cur
    BY <1>3, FollowerFields DEF Follower, Steps
<1> HIDE DEF r
<1>5. /\ fol'[f].pc = "list" /\ fol'[f].kind = fol[f].kind /\ fol'[f].gone = fol[f].gone
      /\ fol'[f].gen = fol[f].gen /\ fol'[f].cur = cur
    BY <1>2, <1>4, BecomeKept
<1>6. Kept(f)
    BY <1>5 DEF Kept
<1>7. Live => \A o \in Offsets : o >= cur => ~HasRead(o)
    <2>1. Live => \A o \in Offsets : HasRead(o) => o < At0(tickCur)
        BY DEF Fated, ReadBelow
    <2> QED  BY <1>3, <2>1, DataTyped DEF Offsets
<1>8. Live /\ fol[f].kind = "reactor" => tickCur # Absent
    BY <1>2 DEF Fated, Unread, At, IsReactor
<1>9. Owed(f)
    BY <1>2, <1>5, <1>7, <1>8 DEF Owed, BatchSteps, Working, At
<1> QED  BY <1>1, <1>6, <1>9, OwedFated

LEMMA ListFated ==
    ASSUME Typed, Fated, clean, NEW f \in Slots, List(f)
    PROVE  Fated'
<1>1. Moved(f) /\ NoneRead /\ tickCur' = tickCur
    BY ListMoved, SameFate DEF List, curVars
<1> DEFINE todo == {o \in From(fol[f].cur) : log[o] = "in"}
           pc == IF todo = {} THEN "wait" ELSE "each"
           next == Later(fol[f].cur, LogEnd)
           r == [[[[[fol[f] EXCEPT !.pc = pc] EXCEPT !.todo = todo] EXCEPT !.b = inc]
                    EXCEPT !.stop = LastStop] EXCEPT !.next = next]
<1>2. Become(f, r) /\ At(f, "list")
    BY DEF List
<1>3. todo \subseteq 1..MaxEvents /\ \A o \in todo : o >= fol[f].cur
    BY OffsetsOf DEF From
<1>4. pc \in {"wait", "each"} /\ (pc = "each" => todo # {})
    OBVIOUS
<1>5. todo # {} => Live
    <2>1. todo # {} => log # <<>>
        BY DEF From
    <2> QED  BY <2>1 DEF Typed
<1>6. next \in 0..MaxEvents+1
    BY FollowerFields, OffsetsOf DEF Later
<1> HIDE DEF todo, pc, next
<1>7. /\ r \in Follower /\ r.pc = pc /\ r.kind = fol[f].kind /\ r.gone = fol[f].gone
      /\ r.gen = fol[f].gen /\ r.todo = todo
    BY <1>3, <1>4, <1>6, FollowerFields, OffsetsOf DEF Follower, Steps
<1> HIDE DEF r
<1>8. /\ fol'[f].pc = pc /\ fol'[f].kind = fol[f].kind /\ fol'[f].gone = fol[f].gone
      /\ fol'[f].gen = fol[f].gen /\ (pc = "each" => fol'[f].todo = todo)
    BY <1>2, <1>4, <1>7, BecomeKept
<1>9. Kept(f)
    BY <1>8 DEF Kept
<1>10. Live => \A o \in todo : ~HasRead(o)
    BY <1>2, <1>3 DEF Fated, Unread, At, Offsets
<1>11. Live /\ fol[f].kind = "reactor" => tickCur # Absent
    BY <1>2 DEF Fated, Unread, At, IsReactor
<1>12. Owed(f)
    BY <1>2, <1>4, <1>5, <1>8, <1>10, <1>11 DEF Owed, BatchSteps, Working, At
<1> QED  BY <1>1, <1>9, <1>12, OwedFated

LEMMA PastFated ==
    ASSUME Typed, Fated, clean, NEW f \in Slots, Past(f)
    PROVE  Fated'
<1>1. Moved(f) /\ NoneRead /\ tickCur' = tickCur
    BY PastMoved, SameFate DEF Past, PastTo
<1> DEFINE rest == fol[f].todo \ {First(f)}
           pc == IF rest = {} THEN "wait" ELSE "each"
           r == [[fol[f] EXCEPT !.pc = pc] EXCEPT !.todo = rest]
<1>2. Become(f, r) /\ At(f, "past")
    BY DEF Past, PastTo
<1>3. rest \subseteq 1..MaxEvents /\ rest \subseteq fol[f].todo /\ pc \in {"wait", "each"}
    BY FollowerFields
<1> HIDE DEF rest, pc
<1>4. /\ r \in Follower /\ r.pc = pc /\ r.kind = fol[f].kind /\ r.gone = fol[f].gone
      /\ r.gen = fol[f].gen /\ r.todo = rest
    BY <1>3, FollowerFields DEF Follower, Steps
<1> HIDE DEF r
<1>5. /\ fol'[f].pc = pc /\ fol'[f].kind = fol[f].kind /\ fol'[f].gone = fol[f].gone
      /\ fol'[f].gen = fol[f].gen /\ (pc = "each" => fol'[f].todo = rest)
    BY <1>2, <1>3, <1>4, BecomeKept
<1>6. Kept(f)
    BY <1>5 DEF Kept
<1>7. \A o \in rest : ~HasRead(o)
    BY <1>2, <1>3 DEF Fated, Unread, At, BatchSteps
<1>8. Live /\ fol[f].kind = "reactor" => tickCur # Absent
    BY <1>2 DEF Fated, Unread, At, IsReactor
<1>9. Owed(f)
    BY <1>2, <1>3, <1>5, <1>7, <1>8 DEF Owed, BatchSteps, Working, At
<1> QED  BY <1>1, <1>6, <1>9, OwedFated
-------------------------------------------------------------------------------
(* The steps that move the reactor's cursor.                                 *)
LEMMA CommitFated ==
    ASSUME Typed, Handed, Fated, clean, NEW f \in Slots, Commit(f)
    PROVE  Fated'
<1>1. Moved(f) /\ At(f, "commit") /\ Working(f) /\ IsReactor(f)
    BY CommitMoved DEF Commit, CommitTo, Working, At, Fated, Unread
<1>2. PICK pc \in {"tick", "wait"} : Go(f, pc)
    BY DEF Commit, CommitTo
<1>3. /\ inc' = inc /\ Live' = Live /\ Entry' = Entry /\ clean'
      /\ \A g \in Slots \ {f} : fol'[g] = fol[g]
    BY <1>1 DEF Moved, Only, Live, Entry, supVars
<1>4. tickCur' = (IF Live THEN fol[f].next ELSE tickCur) /\ fol[f].next \in 0..MaxEvents+1
    BY FollowerFields DEF Commit, CommitTo
<1>5. Live => tickCur' # Absent
    BY <1>4 DEF Absent
<1>6. \A o \in Offsets : HasRead(o)' => HasRead(o) \/ o \in fol[f].todo
    BY DEF Commit, CommitTo, Mark, HasRead, Typed, TypeOK
<1>7. ReadBelow'
    <2> SUFFICES ASSUME Live, NEW o \in Offsets, HasRead(o)' PROVE o < fol[f].next
        BY <1>3, <1>4 DEF ReadBelow, At0, Absent
    <2>1. At0(tickCur) <= fol[f].next /\ \A p \in fol[f].todo : p < fol[f].next
        BY <1>1 DEF Fated, Unread
    <2>2. HasRead(o) => o < At0(tickCur)
        BY DEF Fated, ReadBelow
    <2> QED  BY <1>4, <1>6, <2>1, <2>2, DataTyped DEF Offsets
<1>8. Unread(f)'
    <2>1. Kept(f) /\ fol'[f].pc = pc
        BY <1>2, GoKept DEF Steps
    <2>2. Alive(f) /\ Unread(f)
        BY <1>1 DEF Alive, At, Fated
    <2>3. Alive(f)' => fol'[f].gen \in {0, inc'}
        BY <1>2, <1>3, <2>1, <2>2 DEF Kept, Unread
    <2>4. Live' /\ Alive(f)' /\ f # Entry' => fol'[f].gone
        BY <1>2, <1>3, <2>1, <2>2 DEF Kept, Unread
    <2> QED  BY <1>3, <1>5, <2>1, <2>3, <2>4 DEF Unread, At, BatchSteps
<1>9. ASSUME NEW g \in Slots \ {f}
      PROVE  Unread(g)'
    <2>1. ~Working(g) /\ Unread(g) /\ fol'[g] = fol[g]
        BY <1>1, <1>3, ChainExclusive DEF Exclusive, Fated
    <2>2. Live => ~At(g, "seedCommit")
        BY <1>1, <2>1 DEF Unread
    <2>3. fol'[g].pc \notin BatchSteps \cup {"commit", "list"}
        BY <2>1 DEF Working, BatchSteps
    <2>4. ~(Live' /\ At(g, "seedCommit")')
        BY <1>3, <2>1, <2>2 DEF At
    <2>5. Alive(g)' => fol'[g].gen \in {0, inc'}
        BY <1>3, <2>1 DEF Unread, Alive, At
    <2>6. Live' /\ Alive(g)' /\ g # Entry' => fol'[g].gone
        BY <1>3, <2>1 DEF Unread, Alive, At
    <2> QED  BY <1>3, <1>5, <2>3, <2>4, <2>5, <2>6 DEF Unread, At
<1> QED  BY <1>3, <1>7, <1>8, <1>9 DEF Fated

LEMMA SeedCommitFated ==
    ASSUME Typed, Fated, clean, NEW f \in Slots, SeedCommit(f)
    PROVE  Fated'
<1>1. Moved(f) /\ At(f, "seedCommit") /\ Go(f, "await") /\ NoneRead
    BY SeedCommitMoved, MarkKept DEF SeedCommit
<1>2. /\ inc' = inc /\ Live' = Live /\ Entry' = Entry /\ clean'
      /\ \A g \in Slots \ {f} : fol'[g] = fol[g]
    BY <1>1 DEF Moved, Only, Live, Entry, supVars
<1>3. tickCur' = (IF Live THEN fol[f].next ELSE tickCur) /\ fol[f].next \in 0..MaxEvents+1
    BY FollowerFields DEF SeedCommit
<1>4. Live => tickCur' # Absent
    BY <1>3 DEF Absent
<1>5. Live => /\ \A o \in Offsets : ~HasRead(o) /\ ~HasRead(o)'
              /\ \A g \in Slots : IsReactor(g) => ~Working(g)
    BY <1>1 DEF Fated, Unread, NoneRead
<1>6. ReadBelow'
    BY <1>2, <1>5 DEF ReadBelow
<1>7. Unread(f)'
    <2>1. Kept(f) /\ fol'[f].pc = "await"
        BY <1>1, GoKept DEF Steps
    <2>2. Alive(f) /\ Unread(f)
        BY <1>1 DEF Alive, At, Fated
    <2>3. Alive(f)' => fol'[f].gen \in {0, inc'}
        BY <1>2, <2>1, <2>2 DEF Kept, Unread
    <2>4. Live' /\ Alive(f)' /\ f # Entry' => fol'[f].gone
        BY <1>2, <2>1, <2>2 DEF Kept, Unread
    <2> QED  BY <1>2, <1>4, <2>1, <2>3, <2>4 DEF Unread, At, BatchSteps
<1>8. ASSUME NEW g \in Slots \ {f}
      PROVE  Unread(g)'
    <2>1. Unread(g) /\ fol'[g] = fol[g] /\ fol[g].todo \subseteq Offsets
        BY <1>2, FollowerFields DEF Fated, Offsets
    <2>2. At(g, "commit")' => IsReactor(g)' /\ ~Live'
        BY <1>2, <1>5, <2>1 DEF Unread, At, IsReactor, Working
    <2>3. At(g, "list")' /\ Live' => \A o \in Offsets : o >= fol'[g].cur => ~HasRead(o)'
        BY <1>2, <1>5
    <2>4. fol'[g].pc \in BatchSteps => \A o \in fol'[g].todo : ~HasRead(o)'
        BY <1>1, <2>1 DEF Unread, NoneRead
    <2>5. Alive(g)' => fol'[g].gen \in {0, inc'}
        BY <1>2, <2>1 DEF Unread, Alive, At
    <2>6. Live' /\ Alive(g)' /\ g # Entry' => fol'[g].gone
        BY <1>2, <2>1 DEF Unread, Alive, At
    <2>7. IsReactor(f)' => ~Working(f)'
        <3>1. fol'[f].pc = "await"
            BY <1>1, GoKept DEF Steps
        <3> QED  BY <3>1 DEF Working
    <2>8. Live' => \A h \in Slots : IsReactor(h)' => ~Working(h)'
        BY <1>2, <1>5, <2>7 DEF IsReactor, Working
    <2> QED  BY <1>2, <1>4, <1>5, <2>2, <2>3, <2>4, <2>5, <2>6, <2>8 DEF Unread
<1> QED  BY <1>2, <1>6, <1>7, <1>8 DEF Fated
-------------------------------------------------------------------------------
(* The commands and the supervisor.                                          *)
LEMMA EnvironmentFated ==
    ASSUME Typed, Fated, Environment \/ StopRecorded \/ UNCHANGED vars
    PROVE  Fated'
<1> SUFFICES ASSUME clean' PROVE ReadBelow' /\ \A f \in Slots : Unread(f)'
    BY DEF Fated
<1>1. CASE Create \/ Crash
    <2>1. \A f \in Slots : fol'[f].pc = "off"
        BY <1>1, OffIs DEF Create, Crash, At
    <2>2. \A f \in Slots : Unread(f)'
        BY <2>1 DEF Unread, Alive, At, BatchSteps
    <2>3. CASE Create
        BY <2>2, <2>3 DEF Create, ReadBelow, HasRead
    <2>4. CASE Crash
        <3>1. clean /\ Live' = Live /\ tickCur' = tickCur
            BY <2>4 DEF Crash, rowVars, curVars, Live
        <3>2. NoneRead
            BY <2>4 DEF Crash, Typed, TypeOK, NoneRead, HasRead
        <3> QED  BY <2>2, <3>1, <3>2 DEF Fated, ReadBelow, NoneRead, At0
    <2> QED  BY <1>1, <2>3, <2>4
<1>2. CASE ~(Create \/ Crash)
    <2>1. /\ fol' = fol /\ clean' = clean /\ active' = active /\ forwarding' = forwarding
          /\ inc' = inc /\ fate' = fate
        BY <1>2 DEF Environment, Destroy, Up, Sleep, Stop, Inbound, Siblings, StopRecorded,
                    vars, supVars, rowVars
    <2>2. Live' => Live /\ tickCur' = tickCur
        BY <1>2 DEF Environment, Destroy, Up, Sleep, Stop, Inbound, Siblings, StopRecorded,
                    vars, rowVars, curVars, Live
    <2>3. ReadBelow /\ \A f \in Slots : Unread(f)
        BY <2>1 DEF Fated
    <2>4. Entry' = Entry
        BY <2>1 DEF Entry
    <2>5. ReadBelow'
        BY <2>1, <2>2, <2>3 DEF ReadBelow, HasRead, At0
    <2>6. ASSUME NEW f \in Slots PROVE Unread(f)'
        <3>1. Unread(f)
            BY <2>3
        <3>2. At(f, "commit") => IsReactor(f)' /\ (Live' => At0(tickCur') <= fol'[f].next /\ \A o \in fol'[f].todo : o < fol'[f].next)
            BY <2>1, <2>2, <3>1 DEF Unread, IsReactor
        <3>3. At(f, "seedCommit") /\ Live' => \A g \in Slots : IsReactor(g)' => ~Working(g)'
            BY <2>1, <2>2, <3>1 DEF Unread, IsReactor, Working
        <3> QED  BY <2>1, <2>2, <2>4, <3>1, <3>2, <3>3 DEF Unread, HasRead, At, Alive, IsReactor
    <2> QED  BY <2>5, <2>6
<1> QED  BY <1>1, <1>2

(* What the supervisor leaves of the goroutines it does not start.           *)
LEMMA CancelledKeeps ==
    ASSUME Typed, NEW G, NEW f \in Slots
    PROVE  /\ Cancelled(G)[f].kind = fol[f].kind /\ Cancelled(G)[f].gen = fol[f].gen
           /\ Cancelled(G)[f].todo = fol[f].todo /\ Cancelled(G)[f].next = fol[f].next
           /\ Cancelled(G)[f].cur = fol[f].cur /\ Cancelled(G)[f].pc = fol[f].pc
           /\ Cancelled(G)[f].b = fol[f].b
           /\ fol[f].gone => Cancelled(G)[f].gone
           /\ f \in G /\ Alive(f) => Cancelled(G)[f].gone
<1> DEFINE r == [fol[f] EXCEPT !.gone = TRUE]
<1>1. /\ r.kind = fol[f].kind /\ r.gen = fol[f].gen /\ r.todo = fol[f].todo /\ r.next = fol[f].next
      /\ r.cur = fol[f].cur /\ r.pc = fol[f].pc /\ r.b = fol[f].b /\ r.gone
    BY FollowerFields DEF Follower
<1>2. Cancelled(G)[f] = IF f \in G /\ ~At(f, "off") THEN r ELSE fol[f]
    BY DEF Cancelled
<1> HIDE DEF r
<1> QED  BY <1>1, <1>2 DEF Alive

Keeps(f) ==
    /\ fol'[f].kind = fol[f].kind /\ fol'[f].gen = fol[f].gen /\ fol'[f].todo = fol[f].todo
    /\ fol'[f].next = fol[f].next /\ fol'[f].cur = fol[f].cur /\ fol'[f].pc = fol[f].pc

LEMMA KeepsUnread ==
    ASSUME clean, Fated, UNCHANGED <<inc, row, tickCur, fate>>, NEW f \in Slots, Keeps(f),
           \A g \in Slots : Keeps(g) \/ fol'[g].pc \in Idle,
           Live /\ Alive(f) /\ f # Entry' => fol'[f].gone
    PROVE  Unread(f)'
<1>1. Unread(f) /\ Live' = Live
    BY DEF Fated, Live
<1>2. At(f, "commit")' => IsReactor(f)' /\ (Live' => At0(tickCur') <= fol'[f].next /\ \A o \in fol'[f].todo : o < fol'[f].next)
    BY <1>1 DEF Unread, Keeps, IsReactor, At
<1>3. At(f, "seedCommit")' /\ Live' => \A g \in Slots : IsReactor(g)' => ~Working(g)'
    BY <1>1 DEF Unread, Keeps, IsReactor, Working, At, Idle
<1> QED  BY <1>1, <1>2, <1>3 DEF Unread, Keeps, HasRead, At, Alive, IsReactor

LEMMA StartedFated ==
    ASSUME Typed, Fated, clean, UNCHANGED <<inc, row, tickCur, fate, clean>>,
           NEW kind \in {"reactor", "forwarder"}, Handover(kind, Entry, Entry), Entry' = Fresh
    PROVE  Fated'
<1>1. PICK h \in Slots \cup {Nobody} : h = Entry
    BY DEF Entry, Typed, TypeOK
<1>2. PICK n \in Slots : n = Fresh /\ n \in Free
    BY FreshIs DEF Handover
<1>3. fol' = [Cancelled({h}) EXCEPT ![n] = Started(kind, h)] /\ Cancelled({h}) \in [Slots -> Follower]
    BY <1>1, <1>2, CancelledIs DEF Handover
<1>4. fol'[n] = Started(kind, h) /\ \A f \in Slots \ {n} : fol'[f] = Cancelled({h})[f]
    BY <1>3
<1>5. ASSUME NEW f \in Slots \ {n}
      PROVE  Keeps(f) /\ (Live /\ Alive(f) /\ f # Entry' => fol'[f].gone)
    <2>1. Keeps(f) /\ (fol[f].gone \/ (f = h /\ Alive(f)) => fol'[f].gone)
        BY <1>4, CancelledKeeps DEF Keeps
    <2>2. Live /\ Alive(f) /\ f # h => fol[f].gone
        BY <1>1 DEF Fated, Unread
    <2> QED  BY <2>1, <2>2
<1> DEFINE pc == IF kind = "reactor" THEN "seed" ELSE "await"
           r == [[[Off EXCEPT !.kind = kind] EXCEPT !.pred = h] EXCEPT !.pc = pc]
<1>6. fol'[n].kind = kind /\ fol'[n].gen = 0 /\ fol'[n].pc = pc
    <2>1. fol'[n] = r
        BY <1>4 DEF Started
    <2>2. r.kind = kind /\ r.gen = 0 /\ r.pc = pc
        BY DEF Off
    <2> QED  BY <2>1, <2>2
<1>7. pc \in {"seed", "await"} /\ (kind = "reactor" => pc = "seed")
    OBVIOUS
<1> HIDE DEF pc
<1>8. \A g \in Slots : Keeps(g) \/ fol'[g].pc \in Idle
    BY <1>5, <1>6, <1>7 DEF Idle
<1>9. \A f \in Slots \ {n} : Unread(f)'
    BY <1>5, <1>8, KeepsUnread
<1>10. Unread(n)'
    BY <1>2, <1>6, <1>7 DEF Unread, Alive, At, IsReactor, BatchSteps
<1>11. ReadBelow'
    BY DEF Fated, ReadBelow, Live, HasRead, At0
<1> QED  BY <1>9, <1>10, <1>11 DEF Fated

LEMMA ReconcileFated ==
    ASSUME Typed, Fated, Reconcile
    PROVE  Fated'
<1> SUFFICES ASSUME clean' PROVE Fated'
    BY DEF Fated
<1>1. clean /\ UNCHANGED <<inc, row, tickCur, fate, clean>>
    BY DEF Reconcile, rowVars, curVars
<1>2. ASSUME NEW n \in Slots, Starts(n)
      PROVE  Fated'
    BY <1>1, <1>2, StartedFated DEF Starts
<1>3. CASE CancelBoth
    <2>1. \A f \in Slots : Keeps(f)
        BY <1>3, CancelledKeeps DEF CancelBoth, Keeps
    <2>2. ~Live
        BY <1>3 DEF CancelBoth
    <2>3. \A f \in Slots : Unread(f)'
        BY <1>1, <2>1, <2>2, KeepsUnread
    <2>4. ReadBelow'
        BY <1>1, <2>2 DEF ReadBelow, Live
    <2> QED  BY <2>3, <2>4 DEF Fated
<1> QED  BY <1>2, <1>3, ReconcileStarts

LEMMA NextFated == Typed /\ Handed /\ Fated /\ [Next]_vars => Fated'
<1> SUFFICES ASSUME Typed, Handed, Fated, [Next]_vars PROVE Fated'
    OBVIOUS
<1>1. CASE Environment \/ StopRecorded \/ UNCHANGED vars
    BY <1>1, EnvironmentFated
<1>2. CASE Reconcile
    BY <1>2, ReconcileFated
<1>3. ASSUME NEW f \in Slots, FollowerStep(f) \/ HeartbeatTick(f) \/ StoreFails(f)
      PROVE  Fated'
    <2>1. clean' = clean
        BY <1>3, StepMoved DEF Moved
    <2>2. CASE ~clean
        BY <2>1, <2>2 DEF Fated
    <2>3. CASE clean
        BY <1>3, <2>3, AwaitedFated, LoopFated, SeedFated, SeedCommitFated, ReadFated, CommitFated,
           ReadForwardFated, RaiseFated, ListFated, EachFated, PastFated
           DEF FollowerStep
    <2> QED  BY <2>2, <2>3
<1> QED  BY <1>1, <1>2, <1>3 DEF Next

(* Only Push marks an event relayed.                                         *)
NoneRelayed == \A o \in Offsets : "relayed" \notin fate'[o] \ fate[o]

LEMMA MarkRelays ==
    ASSUME Typed, NEW f, NEW os, NEW what, what # "relayed", Mark(f, os, what)
    PROVE  NoneRelayed
BY DEF Typed, TypeOK, Mark, NoneRelayed

LEMMA PushRelays ==
    ASSUME Typed, [Next]_vars, ~NoneRelayed
    PROVE  \E f \in Slots : Push(f)
<1>1. fate' # fate
    BY DEF NoneRelayed
<1>2. CASE Environment \/ StopRecorded \/ Reconcile
    <2>1. Create \/ Crash
        BY <1>1, <1>2 DEF Environment, Destroy, Up, Sleep, Stop, Inbound, Siblings, StopRecorded, Reconcile
    <2>2. ~Create
        BY DEF Create, NoneRelayed
    <2>3. ~Crash
        BY DEF Crash, NoneRelayed, Typed, TypeOK
    <2> QED  BY <2>1, <2>2, <2>3
<1>3. CASE \E f \in Slots : FollowerStep(f) \/ HeartbeatTick(f) \/ StoreFails(f)
    <2>1. PICK f \in Slots : FollowerStep(f) \/ HeartbeatTick(f) \/ StoreFails(f)
        BY <1>3
    <2>2. ~(Awaited(f) \/ Loop(f) \/ Wait(f) \/ Seed(f) \/ Read(f) \/ EndTick(f) \/ ReadForward(f)
            \/ Raise(f) \/ List(f) \/ Past(f) \/ HeartbeatTick(f) \/ StoreFails(f))
        BY <1>1 DEF Awaited, Loop, Wait, Seed, Read, EndTick, ReadForward, Raise, RaiseTo, List,
                    Past, PastTo, HeartbeatTick, StoreFails
    <2>3. ~(SeedCommit(f) \/ Commit(f) \/ BeginTick(f))
        BY MarkRelays DEF SeedCommit, Commit, CommitTo, BeginTick
    <2>4. ~(Each(f) \/ Request(f) \/ NoAncestor(f) \/ Check(f))
        BY <1>1, MarkRelays DEF Each, Request, NoAncestor, Check, CheckAgainst
    <2> QED  BY <2>1, <2>2, <2>3, <2>4 DEF FollowerStep
<1>4. CASE UNCHANGED vars
    BY <1>1, <1>4 DEF vars
<1> QED  BY <1>2, <1>3, <1>4 DEF Next

(* A later down period never sends on what an up period has read, whatever   *)
(* starts, stops, seeds, failures and deaths came between                    *)
(* (sessionForwarder.drain raises its start to the reactor's cursor).        *)
THEOREM NeverReplaysRead == Spec => RelaysUnread
<1> DEFINE Inv == Typed /\ Handed /\ Fated
           Step == clean' => \A o \in Offsets : "relayed" \in fate'[o] \ fate[o]
                                                => "read" \notin fate[o]
<1>1. Init => Inv
    <2> SUFFICES ASSUME Init PROVE Inv
        OBVIOUS
    <2>1. Typed /\ Handed
        <3> DEFINE o == [f \in Slots |-> 0]
        <3>1. \A f \in Slots : ~Alive(f)
            BY OffIs DEF Init, Alive, At
        <3>2. o \in [Slots -> Nat]
            OBVIOUS
        <3> HIDE DEF o
        <3> QED  BY <3>1, <3>2, InitTyped DEF Chain, Links, Last, Handed
    <2>2. \A f \in Slots : Unread(f)
        BY OffIs DEF Init, Unread, Alive, At, BatchSteps
    <2>3. ReadBelow
        BY DEF Init, ReadBelow, Live
    <2> QED  BY <2>1, <2>2, <2>3 DEF Fated
<1>2. Inv /\ [Next]_vars => Inv'
    BY NextTyped, NextHanded, NextFated
<1>3. Inv /\ [Next]_vars => Step
    <2> SUFFICES ASSUME Inv, [Next]_vars, clean', NEW o \in Offsets, "relayed" \in fate'[o] \ fate[o]
                 PROVE  ~HasRead(o)
        BY DEF HasRead
    <2>1. PICK f \in Slots : Push(f)
        BY PushRelays DEF NoneRelayed
    <2>2. clean /\ At(f, "append")
        BY <2>1 DEF Push
    <2>3. o = First(f)
        BY <2>1 DEF Push, Mark
    <2>4. First(f) \in fol[f].todo /\ fol[f].pc \in BatchSteps
        BY <2>2, FollowerFields, FirstIs DEF Batched, BatchSteps, At
    <2> QED  BY <2>2, <2>3, <2>4 DEF Fated, Unread
<1> HIDE DEF Inv, Step
<1>4. Spec => [][Step]_vars
    BY <1>1, <1>2, <1>3, PTL DEF Spec
<1> QED  BY <1>4 DEF RelaysUnread, Step
-------------------------------------------------------------------------------
(* What is sent to the ancestor.  Two followers never send an event of the   *)
(* same row: behind an unbroken hand-over only one works, and a follower the *)
(* supervisor forgot when the row was gone is cancelled, sends at most the   *)
(* event of that row it has at hand, and those started afterwards are of     *)
(* later rows.                                                               *)
Sending == {"check", "append"}
Key(f)  == <<fol[f].b, First(f)>>

(* G is the line of the supervisor's entry, e the oldest row it is of.       *)
Outside(G, e) == \A f \in Slots \ G : Alive(f) =>
                     fol[f].gone /\ (fol[f].pc \in Sending => fol[f].b < e)
Inside(G, e)  == \A f \in G : /\ fol[f].pc \in BatchSteps => e <= fol[f].b
                              /\ Alive(f) /\ f # Entry => fol[f].gone
Reached(e) == e <= inc + 1 /\ (Live => e <= inc)
Lined == \E G \in SUBSET Slots, e \in Nat :
             /\ \E ord \in [Slots -> Nat] : Links(G, ord) /\ Last(G, ord)
             /\ Outside(G, e) /\ Inside(G, e) /\ Reached(e)
Born   == \A f \in Slots : fol[f].b <= inc
Apart  == \A f, g \in Slots : f # g /\ fol[f].pc \in Sending /\ fol[g].pc \in Sending
                              => fol[f].b # fol[g].b
Unseen == \A f \in Slots : At(f, "append") => Key(f) \notin Recent
Sent   == Born /\ Lined /\ Apart /\ Unseen /\ RelayedOnce

(* What a follower's step does to what it sends.                             *)
Sends(f) ==
    /\ fol'[f].pc # "off" => fol'[f].gone = fol[f].gone
    /\ fol'[f].b \in {fol[f].b, inc, 0}
    /\ fol'[f].pc \in BatchSteps => \/ fol[f].pc \in BatchSteps /\ fol'[f].b = fol[f].b
                                    \/ Live /\ fol'[f].b = inc
    /\ fol'[f].pc \in Sending => /\ fol[f].pc \in BatchSteps /\ fol'[f].b = fol[f].b
                                 /\ fol[f].pc \in Sending \/ ~fol[f].gone
    /\ fol'[f].pc = "append" => parent' = parent /\ Key(f)' \notin Recent
    /\ \/ parent' = parent
       \/ At(f, "append") /\ fol'[f].pc \notin Sending /\ parent' = Append(parent, Key(f))

(* The steps of a follower, each as Sends.  None of these sends anything.     *)
LEMMA BecomeSends ==
    ASSUME Typed, NEW f \in Slots, NEW r \in Follower, Become(f, r), parent' = parent,
           r.pc \notin Sending, r.gone = fol[f].gone, r.b \in {fol[f].b, inc, 0},
           r.pc \in BatchSteps => \/ fol[f].pc \in BatchSteps /\ r.b = fol[f].b
                                  \/ Live /\ r.b = inc
    PROVE  Sends(f)
<1>1. /\ fol'[f].pc = r.pc /\ fol'[f].gone = r.gone
      /\ r.pc \notin {"wait", "loop", "ticking"} => fol'[f] = r
    BY BecomeKept
<1>2. fol'[f].b \in {r.b, 0}
    <2>1. fol'[f] = Settled(r)
        BY DEF Become, Typed, TypeOK
    <2> DEFINE k == [[[[Off EXCEPT !.kind = r.kind] EXCEPT !.pc = r.pc] EXCEPT !.gone = r.gone]
                        EXCEPT !.gen = r.gen]
    <2>2. k.b = 0
        BY DEF Off
    <2>3. Settled(r) = k \/ Settled(r) = r
        BY DEF Settled
    <2> HIDE DEF k
    <2> QED  BY <2>1, <2>2, <2>3
<1>3. r.pc \in BatchSteps => fol'[f].b = r.b
    BY <1>1 DEF BatchSteps
<1> QED  BY <1>1, <1>2, <1>3 DEF Sends, Sending

LEMMA GoSends ==
    ASSUME Typed, NEW f \in Slots, NEW pc \in Steps, Go(f, pc)
    PROVE  /\ fol'[f].pc = pc /\ fol'[f].gone = fol[f].gone /\ fol'[f].b \in {fol[f].b, 0}
           /\ pc \in BatchSteps => fol'[f].b = fol[f].b /\ Key(f)' = Key(f)
<1> DEFINE r == [fol[f] EXCEPT !.pc = pc]
<1>1. /\ r \in Follower /\ r.pc = pc /\ r.gone = fol[f].gone
      /\ r.b = fol[f].b /\ r.todo = fol[f].todo
    BY FollowerFields DEF Follower
<1>2. Become(f, r) /\ fol'[f] = Settled(r)
    BY DEF Go, Become, Typed, TypeOK
<1> DEFINE k == [[[[Off EXCEPT !.kind = r.kind] EXCEPT !.pc = r.pc] EXCEPT !.gone = r.gone]
                    EXCEPT !.gen = r.gen]
<1>3. k.b = 0
    BY DEF Off
<1>4. Settled(r) = k \/ Settled(r) = r
    BY DEF Settled
<1> HIDE DEF k, r
<1>5. /\ fol'[f].pc = pc /\ fol'[f].gone = fol[f].gone
      /\ pc \notin {"wait", "loop", "ticking"} => fol'[f] = r
    BY <1>1, <1>2, BecomeKept
<1>6. fol'[f].b \in {fol[f].b, 0}
    BY <1>1, <1>2, <1>3, <1>4
<1>7. pc \in BatchSteps => fol'[f].b = fol[f].b /\ fol'[f].todo = fol[f].todo
    BY <1>1, <1>5 DEF BatchSteps
<1> QED  BY <1>5, <1>6, <1>7 DEF Key, First

LEMMA QuietSends ==
    ASSUME Typed, NEW f \in Slots, parent' = parent,
           Exit(f) \/ \E pc \in Steps \ Sending :
                          /\ Go(f, pc)
                          /\ pc \in BatchSteps => fol[f].pc \in BatchSteps
    PROVE  Sends(f)
<1>1. CASE Exit(f)
    BY <1>1, ExitIs DEF Off, Sends, BatchSteps, Sending
<1>2. ASSUME NEW pc \in Steps \ Sending, Go(f, pc), pc \in BatchSteps => fol[f].pc \in BatchSteps
      PROVE  Sends(f)
    BY <1>2, GoSends DEF Sends, Sending
<1> QED  BY <1>1, <1>2

LEMMA AwaitedSends == ASSUME Typed, NEW f \in Slots, Awaited(f) PROVE Sends(f)
<1>0. parent' = parent
    BY DEF Awaited, LoopVars
<1>1. CASE fol[f].gone
    BY <1>0, <1>1, QuietSends DEF Awaited
<1>2. CASE ~fol[f].gone
    <2> DEFINE pc == IF IsReactor(f) THEN "wait" ELSE "loop"
               gen == IF Live THEN inc ELSE 0
               r == [[[fol[f] EXCEPT !.pc = pc] EXCEPT !.pred = Nobody] EXCEPT !.gen = gen]
    <2>1. Become(f, r)
        BY <1>2 DEF Awaited
    <2>2. pc \in {"wait", "loop"} /\ gen \in 0..MaxInc
        BY FollowerFields
    <2> HIDE DEF pc, gen
    <2>3. r \in Follower /\ r.pc = pc /\ r.gone = fol[f].gone /\ r.b = fol[f].b
        BY <2>2, FollowerFields DEF Follower, Steps
    <2> HIDE DEF r
    <2> QED  BY <1>0, <2>1, <2>2, <2>3, BecomeSends DEF Sending, BatchSteps
<1> QED  BY <1>1, <1>2

LEMMA SeedSends == ASSUME Typed, NEW f \in Slots, Seed(f) PROVE Sends(f)
<1> DEFINE pc == IF tickCur = Absent THEN "seedCommit" ELSE "await"
           r == [[[fol[f] EXCEPT !.pc = pc] EXCEPT !.b = inc] EXCEPT !.next = LogEnd]
<1>1. Become(f, r) /\ parent' = parent
    BY DEF Seed, LoopVars
<1>2. pc \in {"seedCommit", "await"}
    OBVIOUS
<1> HIDE DEF pc
<1>3. r \in Follower /\ r.pc = pc /\ r.gone = fol[f].gone /\ r.b = inc
    BY <1>2, FollowerFields, OffsetsOf DEF Follower, Steps
<1> HIDE DEF r
<1> QED  BY <1>1, <1>2, <1>3, BecomeSends DEF Sending, BatchSteps

LEMMA ReadSends == ASSUME Typed, NEW f \in Slots, Read(f) PROVE Sends(f)
<1> DEFINE cur == IF Rotated(f) THEN 0 ELSE At0(tickCur)
           todo == {o \in From(cur) : Triggers(log[o])}
           pc == IF From(cur) = {} THEN "wait" ELSE "commit"
           gen == IF Rotated(f) THEN inc ELSE fol[f].gen
           r == [[[[[fol[f] EXCEPT !.pc = pc] EXCEPT !.gen = gen] EXCEPT !.b = inc]
                    EXCEPT !.next = LogEnd] EXCEPT !.todo = todo]
<1>1. Become(f, r) /\ parent' = parent
    BY DEF Read, LoopVars
<1>2. pc \in {"wait", "commit"} /\ gen \in 0..MaxInc /\ todo \subseteq 1..MaxEvents
    BY FollowerFields, OffsetsOf DEF From
<1> HIDE DEF pc, gen, todo
<1>3. r \in Follower /\ r.pc = pc /\ r.gone = fol[f].gone /\ r.b = inc
    BY <1>2, FollowerFields, OffsetsOf DEF Follower, Steps
<1> HIDE DEF r
<1> QED  BY <1>1, <1>2, <1>3, BecomeSends DEF Sending, BatchSteps

LEMMA ReadForwardSends == ASSUME Typed, NEW f \in Slots, ReadForward(f) PROVE Sends(f)
<1> DEFINE cur == IF Rotated(f) THEN 0 ELSE At0(fwdCur)
           gen == IF Rotated(f) THEN inc ELSE fol[f].gen
           r == [[[fol[f] EXCEPT !.pc = "raise"] EXCEPT !.gen = gen] EXCEPT !.cur = cur]
<1>1. Become(f, r) /\ parent' = parent
    BY DEF ReadForward, LoopVars
<1>2. gen \in 0..MaxInc /\ cur \in 0..MaxEvents+1
    BY FollowerFields, OffsetsOf, DataTyped
<1> HIDE DEF gen, cur
<1>3. r \in Follower /\ r.pc = "raise" /\ r.gone = fol[f].gone /\ r.b = fol[f].b
    BY <1>2, FollowerFields DEF Follower, Steps
<1> HIDE DEF r
<1> QED  BY <1>1, <1>3, BecomeSends DEF Sending, BatchSteps

LEMMA RaiseSends == ASSUME Typed, NEW f \in Slots, Raise(f) PROVE Sends(f)
<1> DEFINE cur == Later(fol[f].cur, At0(tickCur))
           r == [[fol[f] EXCEPT !.pc = "list"] EXCEPT !.cur = cur]
<1>1. Become(f, r) /\ parent' = parent
    BY DEF Raise, RaiseTo, LoopVars
<1>2. cur \in 0..MaxEvents+1
    BY FollowerFields, DataTyped DEF Later
<1> HIDE DEF cur
<1>3. r \in Follower /\ r.pc = "list" /\ r.gone = fol[f].gone /\ r.b = fol[f].b
    BY <1>2, FollowerFields DEF Follower, Steps
<1> HIDE DEF r
<1> QED  BY <1>1, <1>3, BecomeSends DEF Sending, BatchSteps

(* A batch is of the row that is live when it is listed.                     *)
LEMMA ListSends == ASSUME Typed, NEW f \in Slots, List(f) PROVE Sends(f)
<1> DEFINE todo == {o \in From(fol[f].cur) : log[o] = "in"}
           pc == IF todo = {} THEN "wait" ELSE "each"
           next == Later(fol[f].cur, LogEnd)
           r == [[[[[fol[f] EXCEPT !.pc = pc] EXCEPT !.todo = todo] EXCEPT !.b = inc]
                    EXCEPT !.stop = LastStop] EXCEPT !.next = next]
<1>1. Become(f, r) /\ parent' = parent
    BY DEF List, LoopVars
<1>2. todo \subseteq 1..MaxEvents /\ todo \subseteq DOMAIN log
    BY OffsetsOf DEF From
<1>3. todo # {} => Live
    <2>1. log = <<>> => DOMAIN log = {}
        OBVIOUS
    <2> QED  BY <1>2, <2>1 DEF Typed
<1>4. pc \in {"wait", "each"} /\ (pc = "each" => todo # {})
    OBVIOUS
<1>5. next \in 0..MaxEvents+1
    BY FollowerFields, OffsetsOf DEF Later
<1> HIDE DEF todo, pc, next
<1>6. r \in Follower /\ r.pc = pc /\ r.gone = fol[f].gone /\ r.b = inc
    BY <1>2, <1>4, <1>5, FollowerFields, OffsetsOf DEF Follower, Steps
<1> HIDE DEF r
<1> QED  BY <1>1, <1>3, <1>4, <1>6, BecomeSends DEF Sending, BatchSteps

LEMMA PastSends == ASSUME Typed, NEW f \in Slots, Past(f) PROVE Sends(f)
<1> DEFINE rest == fol[f].todo \ {First(f)}
           pc == IF rest = {} THEN "wait" ELSE "each"
           r == [[fol[f] EXCEPT !.pc = pc] EXCEPT !.todo = rest]
<1>1. Become(f, r) /\ parent' = parent /\ fol[f].pc \in BatchSteps
    BY DEF Past, PastTo, LoopVars, At, BatchSteps
<1>2. rest \subseteq 1..MaxEvents
    BY FollowerFields
<1>3. pc \in {"wait", "each"}
    OBVIOUS
<1> HIDE DEF rest, pc
<1>4. r \in Follower /\ r.pc = pc /\ r.gone = fol[f].gone /\ r.b = fol[f].b
    BY <1>2, <1>3, FollowerFields DEF Follower, Steps
<1> HIDE DEF r
<1> QED  BY <1>1, <1>3, <1>4, BecomeSends DEF Sending

LEMMA EachSends ==
    ASSUME Typed, NEW f \in Slots, Each(f) \/ Request(f) \/ NoAncestor(f)
    PROVE  Sends(f)
<1>1. parent' = parent /\ fol[f].pc \in BatchSteps
    BY DEF Each, Request, NoAncestor, LoopVars, At, BatchSteps
<1>2. CASE Go(f, "check")
    <2>1. ~fol[f].gone
        <3>1. "check" \in Steps /\ \A pc \in {"wait", "past", "request"} : pc \in Steps /\ pc # "check"
            BY DEF Steps
        <3>2. fol'[f].pc = "check" /\ \A pc \in {"wait", "past", "request"} : ~Go(f, pc)
            BY <1>2, <3>1, GoSends
        <3> QED  BY <3>2 DEF Each, Request, NoAncestor
    <2> QED  BY <1>1, <1>2, <2>1, GoSends DEF Sends, Sending, BatchSteps, Steps
<1>3. CASE Go(f, "wait") \/ Go(f, "past") \/ Go(f, "request")
    BY <1>1, <1>3, QuietSends DEF Steps, Sending
<1> QED  BY <1>2, <1>3 DEF Each, Request, NoAncestor

(* The scan keeps what the target has; the append is behind the scan.        *)
LEMMA CheckSends == ASSUME Typed, NEW f \in Slots, Check(f) PROVE Sends(f)
<1>1. parent' = parent /\ At(f, "check")
    BY DEF Check, CheckAgainst, LoopVars
<1>2. CASE Go(f, "wait") \/ Go(f, "past")
    BY <1>1, <1>2, QuietSends DEF Steps, Sending, At, BatchSteps
<1>3. CASE Live /\ Key(f) \notin Recent /\ Go(f, "append")
    BY <1>1, <1>3, GoSends DEF Sends, Sending, BatchSteps, Steps, At
<1> QED  BY <1>2, <1>3 DEF Check, CheckAgainst, Key

LEMMA PushSends == ASSUME Typed, NEW f \in Slots, Push(f) PROVE Sends(f)
<1>1. At(f, "append") /\ Go(f, "past") /\ parent' = Append(parent, Key(f))
    BY DEF Push, Key
<1> QED  BY <1>1, GoSends DEF Sends, Sending, BatchSteps, Steps, At

LEMMA StepSends ==
    ASSUME Typed, NEW f \in Slots, FollowerStep(f) \/ HeartbeatTick(f) \/ StoreFails(f)
    PROVE  Sends(f)
<1>1. CASE Loop(f) \/ Wait(f) \/ StoreFails(f) \/ SeedCommit(f) \/ Commit(f) \/ BeginTick(f)
           \/ HeartbeatTick(f) \/ EndTick(f)
    <2>1. parent' = parent
        BY <1>1 DEF Loop, Wait, StoreFails, SeedCommit, Commit, CommitTo, BeginTick, HeartbeatTick,
                    EndTick, LoopVars
    <2>2. \/ Exit(f) \/ Go(f, "read") \/ Go(f, "wait") \/ Go(f, "loop") \/ Go(f, "await")
          \/ Go(f, "tick") \/ Go(f, "ticking")
        BY <1>1 DEF Loop, Wait, StoreFails, SeedCommit, Commit, CommitTo, BeginTick, HeartbeatTick,
                    EndTick
    <2>3. /\ {"read", "wait", "loop", "await", "tick", "ticking"} \subseteq Steps \ Sending
          /\ {"read", "wait", "loop", "await", "tick", "ticking"} \cap BatchSteps = {}
        BY DEF Steps, Sending, BatchSteps
    <2> QED  BY <2>1, <2>2, <2>3, QuietSends
<1> QED  BY <1>1, AwaitedSends, SeedSends, ReadSends, ReadForwardSends, RaiseSends, ListSends,
            PastSends, EachSends, CheckSends, PushSends DEF FollowerStep
-------------------------------------------------------------------------------
(* The target's latest events, and what one more makes of them.              *)
LEMMA AppendedOnce ==
    ASSUME Typed, RelayedOnce, NEW k \in Keys \cup {Noise}, parent' = Append(parent, k),
           k = Noise \/ k \notin Recent
    PROVE  RelayedOnce' /\ Recent' \subseteq Recent \cup {k}
<1>1. parent \in Seq(Keys \cup {Noise}) /\ Window \in Nat \ {0} /\ Len(parent) \in Nat
    BY DEF Typed, TypeOK
<1>2. /\ Len(parent') = Len(parent) + 1 /\ DOMAIN parent' = 1..Len(parent) + 1
      /\ DOMAIN parent = 1..Len(parent)
      /\ parent'[Len(parent) + 1] = k /\ \A i \in 1..Len(parent) : parent'[i] = parent[i]
    BY <1>1
<1>3. ASSUME NEW x \in Recent', x # k
      PROVE  x \in Recent
    <2>1. PICK i \in DOMAIN parent' : i > Len(parent') - Window /\ x = parent'[i]
        BY <1>3 DEF Recent
    <2>2. i \in DOMAIN parent /\ x = parent[i]
        BY <1>1, <1>2, <1>3, <2>1
    <2>3. i > Len(parent) - Window
        BY <1>1, <1>2, <2>1, <2>2
    <2> QED  BY <2>2, <2>3 DEF Recent
<1>4. ASSUME NEW i \in DOMAIN parent', NEW j \in DOMAIN parent',
             i < j, parent'[i] = parent'[j], parent'[i] # Noise
      PROVE  j - i > Window
    <2>1. i \in DOMAIN parent
        BY <1>1, <1>2, <1>4
    <2>2. CASE j \in DOMAIN parent
        BY <1>2, <1>4, <2>1, <2>2 DEF RelayedOnce
    <2>3. CASE j = Len(parent) + 1
        <3>1. parent[i] \notin Recent
            BY <1>2, <1>4, <2>1, <2>3
        <3>2. ~(i > Len(parent) - Window)
            BY <2>1, <3>1 DEF Recent
        <3> QED  BY <1>1, <1>2, <2>1, <2>3, <3>2
    <2> QED  BY <1>1, <1>2, <2>2, <2>3
<1> QED  BY <1>3, <1>4 DEF RelayedOnce

(* A follower's step leaves its line unbroken, or the line it was left behind.*)
LEMMA StepLined ==
    ASSUME Typed, Born, Lined, NEW f \in Slots, Moved(f), Sends(f)
    PROVE  Born' /\ Lined'
<1>1. /\ inc' = inc /\ Live' = Live /\ Entry' = Entry /\ Alive(f)
      /\ \A g \in Slots \ {f} : fol'[g] = fol[g]
    BY DEF Moved, Only, Live, Entry, supVars, WorksOn, WaitsOn, Begins, Returns, Alive, Working, At
<1>2. inc \in Nat
    BY DEF Typed, TypeOK
<1>3. Born'
    BY <1>1, <1>2 DEF Born, Sends
<1>4. PICK G \in SUBSET Slots, e \in Nat :
          /\ \E ord \in [Slots -> Nat] : Links(G, ord) /\ Last(G, ord)
          /\ Outside(G, e) /\ Inside(G, e) /\ Reached(e)
    BY DEF Lined
<1>5. \E ord \in [Slots -> Nat] : Links(G, ord)' /\ Last(G, ord)'
    BY <1>4, MovedLinks
<1>6. Outside(G, e)'
    <2> SUFFICES ASSUME NEW g \in Slots \ G, Alive(g)'
                 PROVE  fol'[g].gone /\ (fol'[g].pc \in Sending => fol'[g].b < e)
        BY DEF Outside
    <2>1. Alive(g)
        BY <1>1 DEF Alive, At
    <2>2. fol[g].gone /\ (fol[g].pc \in Sending => fol[g].b < e)
        BY <1>4, <2>1 DEF Outside
    <2>3. CASE g = f
        BY <2>2, <2>3 DEF Sends, Alive, At
    <2> QED  BY <1>1, <2>2, <2>3
<1>7. Inside(G, e)'
    <2> SUFFICES ASSUME NEW g \in G
                 PROVE  /\ fol'[g].pc \in BatchSteps => e <= fol'[g].b
                        /\ Alive(g)' /\ g # Entry' => fol'[g].gone
        BY DEF Inside
    <2>1. /\ fol[g].pc \in BatchSteps => e <= fol[g].b
          /\ Alive(g) /\ g # Entry => fol[g].gone
        BY <1>4 DEF Inside
    <2>2. CASE g = f
        <3>1. Live => e <= inc
            BY <1>4 DEF Reached
        <3>2. fol'[g].pc \in BatchSteps => e <= fol'[g].b
            BY <2>1, <2>2, <3>1 DEF Sends
        <3> QED  BY <1>1, <2>1, <2>2, <3>2 DEF Sends, Alive, At
    <2>3. CASE g # f
        BY <1>1, <2>1, <2>3 DEF Alive, At
    <2> QED  BY <2>2, <2>3
<1>8. Reached(e)'
    BY <1>1, <1>4 DEF Reached
<1> QED  BY <1>3, <1>5, <1>6, <1>7, <1>8 DEF Lined

(* In the line only one works, and outside it a follower's row is an older    *)
(* one: a follower that begins to send has its row to itself.                *)
LEMMA StepApart ==
    ASSUME Typed, Lined, Apart, NEW f \in Slots, Moved(f), Sends(f)
    PROVE  Apart'
<1>1. \A g \in Slots \ {f} : fol'[g] = fol[g]
    BY DEF Moved, Only
<1>2. ASSUME NEW g \in Slots \ {f}, fol'[f].pc \in Sending, fol'[g].pc \in Sending
      PROVE  fol'[f].b # fol'[g].b
    <2>1. fol[f].pc \in BatchSteps /\ fol'[f].b = fol[f].b /\ fol[g].pc \in Sending /\ fol'[g].b = fol[g].b
        BY <1>1, <1>2 DEF Sends
    <2>2. CASE fol[f].pc \in Sending
        BY <2>1, <2>2 DEF Apart
    <2>3. CASE ~fol[f].gone
        <3>1. PICK G \in SUBSET Slots, e \in Nat :
                  /\ \E ord \in [Slots -> Nat] : Links(G, ord) /\ Last(G, ord)
                  /\ Outside(G, e) /\ Inside(G, e) /\ Reached(e)
            BY DEF Lined
        <3>2. Working(f) /\ Working(g) /\ Alive(f) /\ Alive(g)
            BY <2>1 DEF Working, Alive, At, Sending, BatchSteps
        <3>3. f \in G
            BY <2>3, <3>1, <3>2 DEF Outside
        <3>4. g \notin G
            BY <3>1, <3>2, <3>3, LinksExclusive
        <3>5. fol[g].b < e /\ e <= fol[f].b
            BY <2>1, <3>1, <3>2, <3>3, <3>4 DEF Outside, Inside
        <3>6. fol[g].b \in Nat /\ fol[f].b \in Nat
            BY FollowerFields
        <3> QED  BY <2>1, <3>1, <3>5, <3>6
    <2> QED  BY <1>2, <2>2, <2>3 DEF Sends
<1> QED  BY <1>1, <1>2 DEF Apart

(* So the key it appends is its own, and was looked for.                     *)
LEMMA StepSent ==
    ASSUME Typed, Sent, NEW f \in Slots, Moved(f), Sends(f)
    PROVE  Sent'
<1>1. Born /\ Lined /\ Apart /\ Unseen /\ RelayedOnce
    BY DEF Sent
<1>2. Born' /\ Lined' /\ Apart'
    BY <1>1, StepLined, StepApart
<1>3. \A g \in Slots \ {f} : fol'[g] = fol[g] /\ Key(g)' = Key(g)
    BY DEF Moved, Only, Key, First
<1>4. CASE parent' = parent
    <2>1. Recent' = Recent /\ RelayedOnce'
        BY <1>1, <1>4 DEF Recent, RelayedOnce
    <2>2. At(f, "append")' => Key(f)' \notin Recent'
        BY <2>1 DEF Sends, At
    <2>3. \A g \in Slots \ {f} : At(g, "append")' => Key(g)' \notin Recent'
        BY <1>1, <1>3, <2>1 DEF Unseen, At
    <2> QED  BY <1>2, <2>1, <2>2, <2>3 DEF Sent, Unseen
<1>5. CASE At(f, "append") /\ fol'[f].pc \notin Sending /\ parent' = Append(parent, Key(f))
    <2> DEFINE k == Key(f)
    <2>1. k \in Keys /\ k \notin Recent
        <3>1. fol[f].todo # {} /\ fol[f].b \in 1..MaxInc
            BY <1>5, FollowerFields DEF Batched, BatchSteps, At
        <3> QED  BY <1>1, <1>5, <3>1, FirstIs DEF Keys, Key, Unseen
    <2>2. parent' = Append(parent, k)
        BY <1>5
    <2> HIDE DEF k
    <2>3. RelayedOnce' /\ Recent' \subseteq Recent \cup {k}
        BY <1>1, <2>1, <2>2, AppendedOnce
    <2>4. ASSUME NEW g \in Slots, At(g, "append")'
          PROVE  Key(g)' \notin Recent'
        <3>1. g # f /\ At(g, "append") /\ Key(g)' = Key(g)
            BY <1>3, <1>5, <2>4 DEF At, Sending
        <3>2. Key(g) \notin Recent
            BY <1>1, <3>1 DEF Unseen
        <3>3. fol[g].b # fol[f].b
            BY <1>1, <1>5, <3>1 DEF Apart, Sending, At
        <3>4. Key(g) # k
            BY <3>3 DEF Key, k
        <3> QED  BY <2>3, <3>1, <3>2, <3>4
    <2> QED  BY <1>2, <2>3, <2>4 DEF Sent, Unseen
<1> QED  BY <1>4, <1>5 DEF Sends

(* The supervisor's pass: the new goroutine joins the line, or the line ends *)
(* with the row it was of.                                                   *)
LEMMA StartedSent ==
    ASSUME Typed, Born, Lined, UNCHANGED <<inc, row>>, NEW n \in Slots, Starts(n)
    PROVE  /\ Born' /\ Lined'
           /\ fol'[n].pc \in {"seed", "await"}
           /\ \A f \in Slots \ {n} : /\ fol'[f].pc = fol[f].pc /\ fol'[f].b = fol[f].b
                                     /\ fol'[f].todo = fol[f].todo
<1>1. PICK kind \in {"reactor", "forwarder"} : Handover(kind, Entry, Entry)
    BY DEF Starts
<1>2. PICK h \in Slots \cup {Nobody} : h = Entry
    BY DEF Entry, Typed, TypeOK
<1>3. n = Fresh /\ n \in Free /\ Live /\ Entry' = n /\ Live' /\ inc' = inc /\ inc \in Nat
    BY <1>1, FreshIs DEF Starts, Handover, Live, Typed, TypeOK
<1>4. fol' = [Cancelled({h}) EXCEPT ![n] = Started(kind, h)] /\ Cancelled({h}) \in [Slots -> Follower]
    BY <1>1, <1>2, <1>3, CancelledIs DEF Handover
<1>5. fol'[n] = Started(kind, h) /\ \A f \in Slots \ {n} : fol'[f] = Cancelled({h})[f]
    BY <1>4
<1>6. ASSUME NEW f \in Slots \ {n}
      PROVE  /\ fol'[f].pc = fol[f].pc /\ fol'[f].b = fol[f].b /\ fol'[f].todo = fol[f].todo
             /\ fol[f].gone \/ (f = Entry /\ Alive(f)) => fol'[f].gone
    BY <1>2, <1>5, CancelledKeeps
<1>7. fol'[n].pc \in {"seed", "await"} /\ fol'[n].b = 0
    <2> DEFINE pc == IF kind = "reactor" THEN "seed" ELSE "await"
               r == [[[Off EXCEPT !.kind = kind] EXCEPT !.pred = h] EXCEPT !.pc = pc]
    <2>1. fol'[n] = r
        BY <1>5 DEF Started
    <2>2. r.b = 0 /\ r.pc = pc
        BY DEF Off
    <2> QED  BY <2>1, <2>2
<1>8. Born'
    BY <1>3, <1>6, <1>7 DEF Born
<1>9. PICK G \in SUBSET Slots, e \in Nat :
          /\ \E ord \in [Slots -> Nat] : Links(G, ord) /\ Last(G, ord)
          /\ Outside(G, e) /\ Inside(G, e) /\ Reached(e)
    BY DEF Lined
<1> DEFINE K == G \cup {n}
<1>10. \E ord \in [Slots -> Nat] : Links(K, ord)' /\ Last(K, ord)'
    BY <1>1, <1>3, <1>9, StartedLinks
<1>11. Outside(K, e)'
    <2> SUFFICES ASSUME NEW f \in Slots \ K, Alive(f)'
                 PROVE  fol'[f].gone /\ (fol'[f].pc \in Sending => fol'[f].b < e)
        BY DEF Outside
    <2> QED  BY <1>6, <1>9 DEF Outside, Alive, At
<1>12. Inside(K, e)'
    <2> SUFFICES ASSUME NEW f \in K
                 PROVE  /\ fol'[f].pc \in BatchSteps => e <= fol'[f].b
                        /\ Alive(f)' /\ f # Entry' => fol'[f].gone
        BY DEF Inside
    <2>1. CASE f = n
        BY <1>3, <1>7, <2>1 DEF BatchSteps
    <2>2. CASE f # n
        <3>1. f \in G /\ f \in Slots \ {n}
            BY <2>2
        <3>2. Alive(f)' => fol[f].gone \/ (f = Entry /\ Alive(f))
            BY <1>6, <1>9, <3>1 DEF Inside, Alive, At
        <3> QED  BY <1>6, <1>9, <3>1, <3>2 DEF Inside
    <2> QED  BY <2>1, <2>2
<1>13. Reached(e)'
    BY <1>3, <1>9 DEF Reached
<1>14. K \in SUBSET Slots
    OBVIOUS
<1> HIDE DEF K
<1>15. Lined'
    BY <1>9, <1>10, <1>11, <1>12, <1>13, <1>14 DEF Lined
<1> QED  BY <1>6, <1>7, <1>8, <1>15

(* Nobody is of a line: all alive are cancelled and of earlier rows.         *)
LEMMA NobodyLined ==
    ASSUME NEW e \in Nat, Outside({}, e)', Reached(e)'
    PROVE  Lined'
<1> DEFINE o == [f \in Slots |-> 0]
<1>1. o \in [Slots -> Nat] /\ {} \in SUBSET Slots
    OBVIOUS
<1> HIDE DEF o
<1>2. Links({}, o)' /\ Last({}, o)'
    BY DEF Links, Last
<1>3. Inside({}, e)'
    BY DEF Inside
<1> QED  BY <1>1, <1>2, <1>3 DEF Lined

(* The row is gone: the line is left behind, all of it cancelled, and an      *)
(* empty one begins for later rows.                                          *)
LEMMA CancelledSent ==
    ASSUME Typed, Born, Lined, UNCHANGED <<inc, row>>, CancelBoth
    PROVE  /\ Born' /\ Lined'
           /\ \A f \in Slots : /\ fol'[f].pc = fol[f].pc /\ fol'[f].b = fol[f].b
                               /\ fol'[f].todo = fol[f].todo
<1>1. inc \in Nat /\ inc' = inc /\ ~Live /\ ~Live'
    BY DEF CancelBoth, Live, Typed, TypeOK
<1>2. ASSUME NEW f \in Slots
      PROVE  /\ fol'[f].pc = fol[f].pc /\ fol'[f].b = fol[f].b /\ fol'[f].todo = fol[f].todo
             /\ fol[f].gone \/ (f = Entry /\ Alive(f)) => fol'[f].gone
    <2>1. fol' = Cancelled({active, forwarding}) /\ (f = Entry => f \in {active, forwarding})
        BY DEF CancelBoth, Entry
    <2> QED  BY <2>1, CancelledKeeps
<1>3. Born'
    BY <1>1, <1>2 DEF Born
<1>4. PICK G \in SUBSET Slots, e \in Nat : Outside(G, e) /\ Inside(G, e)
    BY DEF Lined
<1>5. ASSUME NEW f \in Slots, Alive(f)'
      PROVE  fol'[f].gone /\ (fol'[f].pc \in Sending => fol'[f].b < inc + 1)
    <2>1. Alive(f)
        BY <1>2, <1>5 DEF Alive, At
    <2>2. fol[f].gone \/ f = Entry
        BY <1>4, <2>1 DEF Outside, Inside
    <2>3. fol[f].b <= inc /\ fol[f].b \in Nat
        BY FollowerFields DEF Born
    <2> QED  BY <1>1, <1>2, <2>1, <2>2, <2>3
<1>6. Outside({}, inc + 1)'
    BY <1>1, <1>5 DEF Outside
<1>7. Reached(inc + 1)'
    BY <1>1 DEF Reached
<1>8. PICK k \in Nat : k = inc + 1
    BY <1>1
<1>9. Outside({}, k)' /\ Reached(k)'
    BY <1>1, <1>5, <1>8 DEF Outside, Reached
<1>10. Lined'
    BY <1>9, NobodyLined
<1> QED  BY <1>2, <1>3, <1>10

(* The supervisor starts a goroutine at the end of the line, or leaves it.   *)
LEMMA ReconcileSent ==
    ASSUME Typed, Sent, Reconcile
    PROVE  Sent'
<1>1. UNCHANGED <<inc, row>> /\ parent' = parent /\ Born /\ Lined /\ Apart /\ Unseen /\ RelayedOnce
    BY DEF Reconcile, rowVars, Sent
<1>2. Recent' = Recent /\ RelayedOnce'
    BY <1>1 DEF Recent, RelayedOnce
<1>3. /\ Born' /\ Lined'
      /\ \A f \in Slots : \/ fol'[f].pc \in {"seed", "await"}
                          \/ /\ fol'[f].pc = fol[f].pc /\ fol'[f].b = fol[f].b
                             /\ fol'[f].todo = fol[f].todo
    BY <1>1, ReconcileStarts, StartedSent, CancelledSent
<1>4. ASSUME NEW f \in Slots, fol'[f].pc \in Sending
      PROVE  fol'[f].pc = fol[f].pc /\ fol'[f].b = fol[f].b /\ Key(f)' = Key(f)
    BY <1>3, <1>4 DEF Sending, Key, First
<1>5. Apart'
    BY <1>1, <1>4 DEF Apart
<1>6. Unseen'
    BY <1>1, <1>2, <1>4 DEF Unseen, At, Sending
<1> QED  BY <1>2, <1>3, <1>5, <1>6 DEF Sent

(* Arithmetic the steps above the row's number need.                         *)
LEMMA Farther ==
    ASSUME NEW a \in Nat, NEW b \in Nat, NEW n \in Nat, a <= b, n <= a + 1
    PROVE  n <= b + 1
OBVIOUS

(* A command, a sibling's event, a death and a new row.                      *)
LEMMA EnvironmentSent ==
    ASSUME Typed, Sent, Environment \/ StopRecorded \/ UNCHANGED vars
    PROVE  Sent'
<1>0. Born /\ Lined /\ Apart /\ Unseen /\ RelayedOnce /\ inc \in Nat
    BY DEF Sent, Typed, TypeOK
<1>1. CASE Crash
    <2>1. parent' = parent /\ inc' = inc /\ \A f \in Slots : fol'[f].pc = "off" /\ fol'[f].b = 0
        BY <1>1 DEF Crash, rowVars, Off
    <2>2. Born' /\ Apart' /\ Unseen' /\ RelayedOnce'
        BY <1>0, <2>1 DEF Born, Apart, Unseen, RelayedOnce, At, Sending
    <2>3. Outside({}, 0)' /\ Reached(0)'
        BY <1>0, <2>1 DEF Outside, Alive, At, Reached
    <2>4. Lined'
        BY <2>3, NobodyLined
    <2> QED  BY <2>2, <2>4 DEF Sent
<1>2. CASE ~Crash
    <2>1. fol' = fol /\ Entry' = Entry
        BY <1>2 DEF Environment, Create, Destroy, Up, Sleep, Stop, Inbound, Siblings, StopRecorded,
                    vars, supVars, Entry
    <2>2. \/ inc' = inc /\ (Live' => Live)
          \/ ~Live /\ inc' = inc + 1
        BY <1>2 DEF Environment, Create, Destroy, Up, Sleep, Stop, Inbound, Siblings, StopRecorded,
                    vars, rowVars, Live
    <2>3. inc <= inc' /\ inc' \in Nat /\ inc' <= inc + 1
        BY <1>0, <2>2
    <2>4. \A f \in Slots : fol[f].b \in Nat
        BY FollowerFields
    <2>5. Born'
        BY <1>0, <2>1, <2>3, <2>4 DEF Born
    <2>6. Apart'
        BY <1>0, <2>1 DEF Apart
    <2>7. Lined'
        <3>1. PICK G \in SUBSET Slots, e \in Nat :
                  /\ \E ord \in [Slots -> Nat] : Links(G, ord) /\ Last(G, ord)
                  /\ Outside(G, e) /\ Inside(G, e) /\ Reached(e)
            BY <1>0 DEF Lined
        <3>2. \E ord \in [Slots -> Nat] : Links(G, ord)' /\ Last(G, ord)'
            BY <2>1, <3>1, SameLinks
        <3>3. Outside(G, e)' /\ Inside(G, e)'
            BY <2>1, <3>1 DEF Outside, Inside, Alive, At
        <3>4. Reached(e)'
            <4>1. e \in Nat /\ e <= inc + 1 /\ (Live => e <= inc)
                BY <3>1 DEF Reached
            <4>2. e <= inc' + 1
                BY <1>0, <2>3, <4>1, Farther
            <4>3. inc \in Nat
                BY <1>0
            <4>4. CASE ~Live /\ inc' = inc + 1
                BY <4>1, <4>2, <4>3, <4>4 DEF Reached
            <4>5. CASE inc' = inc /\ (Live' => Live)
                BY <4>1, <4>2, <4>3, <4>5 DEF Reached
            <4> QED  BY <2>2, <4>4, <4>5
        <3> QED  BY <3>1, <3>2, <3>3, <3>4 DEF Lined
    <2>8. Unseen' /\ RelayedOnce'
        <3>1. CASE parent' = parent
            BY <1>0, <2>1, <3>1 DEF Unseen, RelayedOnce, Recent, Key, First, At
        <3>2. CASE parent' = Append(parent, Noise)
            <4>1. RelayedOnce' /\ Recent' \subseteq Recent \cup {Noise}
                BY <1>0, <3>2, AppendedOnce
            <4>2. ASSUME NEW f \in Slots, At(f, "append")
                  PROVE  Key(f)' = Key(f) /\ Key(f) \notin Recent /\ Key(f) # Noise
                <5>1. fol[f].b # 0
                    BY <4>2, FollowerFields DEF Batched, BatchSteps, At
                <5> QED  BY <1>0, <2>1, <4>2, <5>1 DEF Key, First, Noise, Unseen
            <4> QED  BY <2>1, <4>1, <4>2 DEF Unseen, At
        <3>3. parent' = parent \/ parent' = Append(parent, Noise)
            BY <1>2 DEF Environment, Create, Destroy, Up, Sleep, Stop, Inbound, Siblings, StopRecorded, vars
        <3> QED  BY <3>1, <3>2, <3>3
    <2> QED  BY <2>5, <2>6, <2>7, <2>8 DEF Sent
<1> QED  BY <1>1, <1>2

LEMMA NextSent == Typed /\ Sent /\ [Next]_vars => Sent'
<1> SUFFICES ASSUME Typed, Sent, [Next]_vars PROVE Sent'
    OBVIOUS
<1>1. CASE Environment \/ StopRecorded \/ UNCHANGED vars
    BY <1>1, EnvironmentSent
<1>2. CASE Reconcile
    BY <1>2, ReconcileSent
<1>3. ASSUME NEW f \in Slots, FollowerStep(f) \/ HeartbeatTick(f) \/ StoreFails(f)
      PROVE  Sent'
    BY <1>3, StepMoved, StepSends, StepSent
<1> QED  BY <1>1, <1>2, <1>3 DEF Next

LEMMA InitSent == Init => Sent
<1> SUFFICES ASSUME Init PROVE Sent
    OBVIOUS
<1>1. \A f \in Slots : fol[f].pc = "off" /\ fol[f].b = 0
    BY DEF Init, Off
<1>2. Born /\ Apart /\ Unseen /\ RelayedOnce
    BY <1>1 DEF Init, Born, Apart, Unseen, RelayedOnce, At, Sending
<1> DEFINE o == [f \in Slots |-> 0]
<1>3. o \in [Slots -> Nat]
    OBVIOUS
<1> HIDE DEF o
<1>4. /\ Links({}, o) /\ Last({}, o) /\ Inside({}, 0) /\ Outside({}, 0) /\ Reached(0)
    BY <1>1 DEF Init, Links, Last, Inside, Outside, Reached, Alive, At
<1>5. Lined
    <2>1. {} \in SUBSET Slots /\ 0 \in Nat
        OBVIOUS
    <2> QED  BY <1>3, <1>4, <2>1 DEF Lined
<1> QED  BY <1>2, <1>5 DEF Sent

(* The ancestor sees an event of a session twice only when more than a       *)
(* window's worth of others came between, whatever crashes, failures, hand-  *)
(* overs and recreations of the name make followers send again, and however  *)
(* many of them live (ForwardDownSessionEvent's scan before the append).     *)
THEOREM SendsOnce == Spec => []RelayedOnce
<1>1. Init => Typed /\ Sent
    BY InitTyped, InitSent
<1>2. Typed /\ Sent /\ [Next]_vars => Typed' /\ Sent'
    BY NextTyped, NextSent
<1>3. Sent => RelayedOnce
    BY DEF Sent
<1> QED  BY <1>1, <1>2, <1>3, PTL DEF Spec
===============================================================================
