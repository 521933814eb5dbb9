---------------------------- MODULE GoalLoop_proofs ----------------------------
(***************************************************************************)
(* What GoalLoop keeps for any children, command lines, budget and bounds.  *)
(***************************************************************************)
EXTENDS GoalLoop, FiniteSetTheorems, TLAPS

USE GoalLoopAssumption

(* Types without the bounds that the counting below gives.                   *)
Event    == [key : Keys, from : Children, kind : {"satisfied", "escalate"},
             esc : 0..MaxEscs, copy : Nat \ {0}]
Reviewer == [exists : BOOLEAN, asked : SUBSET Revs, kicks : [Revs -> Nat]]
Typed == /\ world \in [Children -> [rev : Revs, green : BOOLEAN]]
         /\ row \in [Children -> Instance]
         /\ parent \subseteq Event /\ IsFiniteSet(parent)
         /\ told \in [Children -> Prints]
         /\ reviewer \in [Children -> Reviewer]
         /\ proc \in [Procs -> Process]
         /\ moves \in 0..MaxMoves

(* What a tick is about to do, made from row i of its child by process r.    *)
AtTick == {"publish", "push", "append", "persist"}
Due(r, i, m) ==
    LET a == r.act
    IN  /\ a.trig = r.trig /\ a.kind # "none"
        /\ a.kind = "escalate" => a.trig = "heartbeat" /\ a.esc = i.escs + 1 /\ a.esc <= MaxEscs /\ a.say
        /\ a.kind \in {"review", "kick"} /\ a.trig = "heartbeat" => a.ticks < Budget
        /\ a.kind = "wait" => ~Judged /\ (a.trig = "heartbeat" => a.ticks <= m)
        /\ ~Judged /\ i.obs.rev = 0 => a.kind = "wait"
        /\ Judged => a.print.who = r.c

(* Process p in state r, its child's row being i after m moves.              *)
FitsOf(p, r, i, m) ==
    /\ p \in Children => r.c = p
    /\ r.trig # "manual" => p \in Children
    /\ r.pc \in {"eval"} \cup AtTick => r.op = "tick"
    /\ r.pc \in {"confirm", "finish"} => r.op = "finalize"
    /\ r.pc = "save" => r.seen.rev # 0
    /\ r.pc \in {"push", "append"} => r.act.kind \in {"satisfied", "escalate"}
    /\ r.pc = "kick" => r.act.rev # 0
    /\ r.trig = "heartbeat" /\ r.pc \in {"read", "save", "eval"} => i.escs < MaxEscs
    /\ r.trig = "heartbeat" /\ r.pc = "eval" /\ ~Judged /\ i.obs.rev = 0 => i.ticks < m
    /\ r.pc \in AtTick => Due(r, i, m)
TicksOf(i, m) == /\ Judged => i.ticks < Budget
                 /\ i.ticks < Budget \/ i.ticks <= m
                 /\ ~Judged /\ i.obs.rev = 0 => i.ticks <= m
Fits == /\ \A c \in Children : TicksOf(row[c], moves)
        /\ \A p \in Procs : FitsOf(p, proc[p], row[proc[p].c], moves)

(* The copies of a key, and the processes about to add one.                  *)
Saying(k) == {p \in Procs : At(p, "append") /\ Key(proc[p].c, proc[p].act) = k}
Sayers(k) == IF Judged THEN Clis \cup {k[2].who} ELSE Procs
Kicking(c, n) == {p \in Procs : At(p, "kick") /\ proc[p].c = c /\ proc[p].act.rev = n}
CopiesCounted ==
    /\ \A k \in Keys : Copies(k) # {} =>
           Cardinality(Copies(k)) + Cardinality(Saying(k)) <= Cardinality(Sayers(k))
    /\ \A e \in parent : /\ e.copy <= Cardinality(Copies(e.key))
                         /\ Judged => e.key[2].who = e.from
KicksCounted ==
    \A c \in Children, n \in Revs : Kicked(c, n) =>
        reviewer[c].kicks[n] + Cardinality(Kicking(c, n)) <= Cardinality(Clis \cup {c})

(* What the parent has heard, with a judge leaf.                             *)
Heard(c, kind, n) == \E e \in parent : e.kind = kind /\ e.from = c /\ e.esc = n
Announces(p) ==
    LET r == proc[p]
        a == r.act
    IN  /\ r.pc = "persist" /\ a.kind = "satisfied" => Heard(r.c, "satisfied", 0)
        /\ r.pc = "persist" /\ a.kind = "escalate" => Heard(r.c, "escalate", a.esc)
        /\ r.pc \in AtTick /\ a.kind = "satisfied" /\ ~a.say => Heard(r.c, "satisfied", 0)
        /\ r.pc = "append" /\ a.kind = "escalate" => Copies(Key(r.c, a)) = {}
Announced ==
    /\ \A e \in parent : /\ e.kind = e.key[1]
                         /\ e.kind = "satisfied" => e.esc = 0
                         /\ e.kind = "escalate" => e.key = <<"escalate", NoPrint(e.from), e.esc>>
    /\ \A d, e \in parent : d.kind = "escalate" /\ d.key = e.key => d = e
    /\ \A c \in Children : /\ row[c].last = "satisfied" => Heard(c, "satisfied", 0)
                           /\ \A n \in 1 .. row[c].escs : Heard(c, "escalate", n)
    /\ \A p \in Procs : Announces(p)

(* A finalize that has been alone knows its child's row.                     *)
Alone(p) ==
    LET r == proc[p]
    IN  r.op = "finalize" /\ r.pc # "idle" /\ r.alone =>
            /\ \A q \in Procs \ {p} : At(q, "idle") \/ proc[q].c # r.c
            /\ r.pc = "confirm" => row[r.c].obs.rev = r.seen.rev
            /\ r.pc = "finish" => r.act.rev = r.seen.rev
-------------------------------------------------------------------------------
(* What the operators return.                                                *)
LEMMA Finite ==
    /\ IsFiniteSet(Procs) /\ IsFiniteSet(Clis) /\ IsFiniteSet(Children)
    /\ Clis \subseteq Procs /\ Children \subseteq Procs
    /\ \A c \in Children : IsFiniteSet(Clis \cup {c}) /\ Clis \cup {c} \subseteq Procs
<1>1. IsFiniteSet(Procs) /\ Clis \subseteq Procs /\ Children \subseteq Procs
    BY DEF Procs
<1>2. \A S \in SUBSET Procs : IsFiniteSet(S)
    BY <1>1, FS_Subset
<1> QED  BY <1>1, <1>2

LEMMA FactsIs ==
    ASSUME NEW i \in Instance
    PROVE  /\ i.obs \in Reading /\ i.judge \in Verdict /\ i.last \in Kinds /\ i.print \in Prints
           /\ i.ticks \in 0..Budget+MaxMoves /\ i.escs \in 0..MaxEscs /\ i.final \in 0..MaxRev
           /\ i.obs.rev \in 0..MaxRev /\ i.ticks \in Nat /\ i.escs \in Nat
           /\ [obs |-> i.obs, judge |-> i.judge] \in Facts
<1>1. /\ i.obs \in Reading /\ i.judge \in Verdict /\ i.last \in Kinds /\ i.print \in Prints
      /\ i.ticks \in 0..Budget+MaxMoves /\ i.escs \in 0..MaxEscs /\ i.final \in 0..MaxRev
    BY DEF Instance
<1>2. i.obs.rev \in 0..MaxRev /\ [obs |-> i.obs, judge |-> i.judge] \in Facts
    BY <1>1 DEF Reading, Facts
<1>3. i.ticks \in Nat /\ i.escs \in Nat
    BY <1>1
<1> QED  BY <1>1, <1>2, <1>3

LEMMA PrintIs ==
    ASSUME NEW c \in Children, NEW f \in Facts
    PROVE  Fingerprint(c, f) \in Prints /\ (Judged => Fingerprint(c, f).who = c)
<1>1. CASE Judged
    BY <1>1 DEF Fingerprint, Prints
<1>2. CASE ~Judged
    <2> DEFINE rev == IF f.obs.rev = 0 THEN 0 ELSE 1
               o == [f.obs EXCEPT !.rev = rev]
               g == [[f EXCEPT !.obs = o] EXCEPT !.judge = Unjudged]
    <2>1. f.obs \in Reading /\ f.judge \in Verdict /\ rev \in 0..MaxRev
        BY DEF Facts
    <2> HIDE DEF rev
    <2>2. o \in Reading
        BY <2>1 DEF Reading
    <2>3. Unjudged \in Verdict
        BY DEF Unjudged, Verdict
    <2>4. g \in Facts
        <3> HIDE DEF o
        <3> QED  BY <2>2, <2>3 DEF Facts
    <2>5. Fingerprint(c, f) = [who |-> "any", facts |-> g]
        BY <1>2 DEF Fingerprint, rev
    <2> HIDE DEF g
    <2> QED  BY <1>2, <2>4, <2>5 DEF Prints
<1> QED  BY <1>1, <1>2

LEMMA NoPrintIs ==
    ASSUME NEW c \in Children
    PROVE  NoPrint(c) \in Prints /\ (Judged => NoPrint(c).who = c)
<1>1. [obs |-> Unread, judge |-> Unjudged] \in Facts
    BY DEF Facts, Unread, Unjudged, Reading, Verdict
<1> QED  BY <1>1, PrintIs DEF NoPrint

LEMMA IdleIs ==
    ASSUME NEW c \in Children
    PROVE  /\ Idle(c) \in Process /\ Idle(c).c = c /\ Idle(c).pc = "idle" /\ Idle(c).trig = "manual"
           /\ Idle(c).op = "tick" /\ Idle(c).act = NoAction(c) /\ Idle(c).act \in Actions
           /\ NewInstance(c) \in Instance
<1>1. NoPrint(c) \in Prints
    BY NoPrintIs
<1>2. NoAction(c) \in Actions
    BY <1>1 DEF NoAction, Actions, Kinds, Triggers
<1>3. Unread \in Reading /\ Unjudged \in Verdict
    BY DEF Unread, Unjudged, Reading, Verdict
<1>4. NewInstance(c) \in Instance
    BY <1>1, <1>3 DEF NewInstance, Instance, Kinds
<1> QED  BY <1>2, <1>3, <1>4 DEF Idle, Process, Steps, Triggers

LEMMA RestingIs ==
    ASSUME NEW p \in Procs
    PROVE  /\ Resting(p) \in Process /\ Resting(p).pc = "idle" /\ Resting(p).c \in Children
           /\ Resting(p).trig = "manual" /\ Resting(p).op = "tick" /\ (p \in Children => Resting(p).c = p)
<1>1. PICK c \in Children : c = IF p \in Children THEN p ELSE CHOOSE d \in Children : TRUE
    OBVIOUS
<1>2. Resting(p) = Idle(c)
    BY <1>1 DEF Resting
<1> QED  BY <1>1, <1>2, IdleIs

LEMMA ProcessIs ==
    ASSUME Typed, NEW p \in Procs
    PROVE  /\ proc[p] \in Process /\ proc[p].pc \in Steps /\ proc[p].op \in {"tick", "finalize"}
           /\ proc[p].c \in Children /\ proc[p].trig \in Triggers /\ proc[p].seen \in Reading
           /\ proc[p].act \in Actions /\ proc[p].alone \in BOOLEAN
           /\ row[proc[p].c] \in Instance /\ moves \in Nat /\ moves <= MaxMoves
BY DEF Typed, Process

LEMMA ActionIs ==
    ASSUME NEW a \in Actions
    PROVE  /\ a.kind \in Kinds /\ a.print \in Prints /\ a.say \in BOOLEAN /\ a.trig \in Triggers
           /\ a.ticks \in 0..Budget+MaxMoves /\ a.esc \in 1..MaxEscs+1 /\ a.rev \in 0..MaxRev
           /\ a.active \in BOOLEAN
BY DEF Actions

LEMMA LeavesIs ==
    ASSUME NEW f \in Facts
    PROVE  /\ ~Judged /\ f.obs.rev = 0 => Overall(f) = "pending"
           /\ ~Judged /\ f.obs.rev # 0 => Overall(f) # "pending"
           /\ Judged /\ Overall(f) = "pending" => AwaitsJudge(f) \/ f.obs.rev = 0
           /\ f.obs.rev = 0 /\ Judged => AwaitsJudge(f)
           /\ AwaitsJudge(f) => Judged
           /\ Overall(f) = "satisfied" => f.obs.rev # 0
BY DEF Overall, Leaves, CheckLeaf, JudgeLeaf, AwaitsJudge
LEMMA ActionForIs ==
    ASSUME Typed, Fits, NEW c \in Children, NEW trig \in Triggers,
           trig = "heartbeat" => row[c].escs < MaxEscs
    PROVE  LET a == ActionFor(c, row[c], trig)
               i == row[c]
               f == [obs |-> i.obs, judge |-> i.judge]
           IN  /\ a \in Actions /\ a.trig = trig
               /\ a.kind = Kind(f, trig, Consumed(i, trig))
               /\ a.ticks = Consumed(i, trig) /\ a.esc = i.escs + 1
               /\ a.say = ~Repeats(i, a.kind, a.print, trig)
               /\ Judged => a.print.who = c
<1> DEFINE i == row[c]
           f == [obs |-> i.obs, judge |-> i.judge]
           n == Consumed(i, trig)
           k == Kind(f, trig, n)
           fp == Fingerprint(c, f)
           say == ~Repeats(i, k, fp, trig)
           rev == IF AwaitsJudge(f) THEN f.obs.rev ELSE 0
           active == reviewer[c].exists
           a == [kind |-> k, print |-> fp, say |-> say, trig |-> trig, ticks |-> n, esc |-> i.escs + 1,
                 rev |-> rev, active |-> active]
<1>1. i \in Instance /\ TicksOf(i, moves) /\ moves \in 0..MaxMoves
    BY DEF Typed, Fits
<1>2. f \in Facts /\ f.obs.rev \in 0..MaxRev /\ i.ticks \in 0..Budget+MaxMoves /\ i.escs \in 0..MaxEscs
    <2> HIDE DEF i
    <2> QED  BY <1>1, FactsIs
<1>3. fp \in Prints /\ (Judged => fp.who = c)
    <2> HIDE DEF f
    <2> QED  BY <1>2, PrintIs
<1>4. k \in Kinds
    BY DEF Kind, Kinds
<1>5. n \in 0..Budget+MaxMoves
    <2> HIDE DEF i
    <2>1. i.ticks <= Budget - 1 \/ i.ticks <= moves
        BY <1>1, <1>2 DEF TicksOf
    <2>2. n = i.ticks \/ (n = i.ticks + 1 /\ trig = "heartbeat")
        BY <1>2 DEF Consumed
    <2>3. i.ticks <= Budget + MaxMoves - 1
        BY <1>1, <1>2, <2>1
    <2> HIDE DEF n
    <2> QED  BY <1>2, <2>2, <2>3
<1>6. rev \in 0..MaxRev /\ active \in BOOLEAN
    <2>1. reviewer[c] \in Reviewer
        BY DEF Typed
    <2>2. active \in BOOLEAN
        BY <2>1 DEF Reviewer
    <2> HIDE DEF f
    <2> QED  BY <1>2, <2>2
<1>7. say \in BOOLEAN
    BY DEF Repeats, RepeatsPrint
<1>8. ActionFor(c, row[c], trig) = a
    BY DEF ActionFor
<1> HIDE DEF f, n, k, fp, say, rev, active
<1>9. i.escs + 1 \in 1..MaxEscs+1
    <2> HIDE DEF i
    <2> QED  BY <1>2
<1>10. a \in Actions
    BY <1>3, <1>4, <1>5, <1>6, <1>7, <1>9 DEF Actions
<1> QED  BY <1>3, <1>8, <1>10 DEF f, n, k, fp, say

(* What Kind says of the row it is made from.                                *)
LEMMA KindIs ==
    ASSUME NEW f \in Facts, NEW trig \in Triggers, NEW n \in Nat
    PROVE  /\ Kind(f, trig, n) # "none"
           /\ Kind(f, trig, n) = "escalate" => trig = "heartbeat"
           /\ Kind(f, trig, n) \in {"review", "kick"} /\ trig = "heartbeat" => n < Budget
           /\ Kind(f, trig, n) = "wait" => ~Judged /\ f.obs.rev = 0
           /\ ~Judged /\ f.obs.rev = 0 => Kind(f, trig, n) = "wait"
<1>1. ~(Overall(f) = "satisfied" /\ Overall(f) = "pending")
    OBVIOUS
<1>2. Overall(f) = "pending" /\ ~AwaitsJudge(f) => ~Judged /\ f.obs.rev = 0
    BY LeavesIs
<1>3. ~Judged /\ f.obs.rev = 0 => Overall(f) = "pending" /\ ~AwaitsJudge(f)
    BY LeavesIs
<1>4. n < Budget \/ n >= Budget
    OBVIOUS
<1> QED  BY <1>1, <1>2, <1>3, <1>4 DEF Kind, Triggers
-------------------------------------------------------------------------------
(* Steps and what they leave of Fits.                                        *)
LEMMA TicksLater ==
    ASSUME NEW i \in Instance, NEW m \in Nat, NEW n \in Nat, m <= n, TicksOf(i, m)
    PROVE  TicksOf(i, n)
<1>1. i.ticks \in Nat
    BY FactsIs
<1> QED  BY <1>1 DEF TicksOf

LEMMA FitsLater ==
    ASSUME NEW q, NEW r \in Process, NEW i \in Instance, NEW j \in Instance,
           NEW m \in Nat, NEW n \in Nat, m <= n, FitsOf(q, r, i, m),
           j.obs.rev = 0 => i.obs.rev = 0,
           r.trig # "heartbeat" \/ (j.escs = i.escs /\ j.ticks \in {i.ticks, 0})
    PROVE  FitsOf(q, r, j, n)
<1>1. i.ticks \in Nat /\ j.ticks \in Nat /\ i.escs \in Nat /\ j.escs \in Nat
    BY FactsIs
<1>2. r.act \in Actions /\ r.act.ticks \in Nat
    BY DEF Process, Actions
<1>3. ASSUME r.pc \in AtTick
      PROVE  Due(r, j, n)
    <2>1. Due(r, i, m)
        BY <1>3 DEF FitsOf
    <2>2. r.act.kind = "escalate" => r.act.esc = j.escs + 1
        BY <2>1 DEF Due
    <2>3. r.act.kind = "wait" => ~Judged /\ (r.act.trig = "heartbeat" => r.act.ticks <= n)
        BY <1>2, <2>1 DEF Due
    <2> QED  BY <2>1, <2>2, <2>3 DEF Due
<1>4. r.trig = "heartbeat" /\ r.pc = "eval" /\ ~Judged /\ j.obs.rev = 0 => j.ticks < n
    BY <1>1 DEF FitsOf
<1>5. r.trig = "heartbeat" /\ r.pc \in {"read", "save", "eval"} => j.escs < MaxEscs
    BY DEF FitsOf
<1> QED  BY <1>3, <1>4, <1>5 DEF FitsOf

(* Process p goes to r, and its child's row to j: the others still fit.      *)
LEMMA StepFits ==
    ASSUME Typed, Fits, NEW p \in Procs, NEW r \in Process, NEW j \in Instance,
           Become(p, r), row' = [row EXCEPT ![proc[p].c] = j],
           moves' \in 0..MaxMoves, moves <= moves', TicksOf(j, moves'),
           j.obs.rev = 0 => row[proc[p].c].obs.rev = 0,
           \/ j.escs = row[proc[p].c].escs /\ j.ticks \in {row[proc[p].c].ticks, 0}
           \/ proc[p].trig = "heartbeat",
           r.c = proc[p].c => FitsOf(p, r, j, moves'),
           r.c # proc[p].c => FitsOf(p, r, row[r.c], moves')
    PROVE  Fits' /\ proc' \in [Procs -> Process] /\ row' \in [Children -> Instance]
<1> DEFINE c == proc[p].c
           i == row[c]
<1>1. c \in Children /\ i \in Instance /\ moves \in Nat /\ moves' \in Nat
    BY ProcessIs DEF Typed
<1>2. row' \in [Children -> Instance] /\ row'[c] = j /\ \A d \in Children \ {c} : row'[d] = row[d]
    BY <1>1 DEF Typed
<1>3. proc' \in [Procs -> Process] /\ proc'[p] = r /\ \A q \in Procs \ {p} : proc'[q] = proc[q]
    BY DEF Typed, Become
<1>4. ASSUME NEW d \in Children PROVE TicksOf(row'[d], moves')
    <2>1. CASE d = c
        BY <1>2, <2>1
    <2>2. CASE d # c
        <3>1. row[d] \in Instance /\ TicksOf(row[d], moves)
            BY DEF Fits, Typed
        <3> QED  BY <1>1, <1>2, <2>2, <3>1, TicksLater
    <2> QED  BY <2>1, <2>2
<1>5. FitsOf(p, proc'[p], row'[proc'[p].c], moves')
    <2>1. r.c \in Children
        BY DEF Process
    <2> QED  BY <1>2, <1>3, <2>1
<1>6. ASSUME NEW q \in Procs \ {p}
      PROVE  FitsOf(q, proc'[q], row'[proc'[q].c], moves')
    <2>1. /\ proc[q] \in Process /\ proc[q].c \in Children /\ row[proc[q].c] \in Instance
          /\ FitsOf(q, proc[q], row[proc[q].c], moves)
        BY ProcessIs DEF Fits
    <2>2. CASE proc[q].c = c
        <3>1. proc[q].trig # "heartbeat" \/ (j.escs = i.escs /\ j.ticks \in {i.ticks, 0})
            <4>1. CASE proc[p].trig = "heartbeat"
                <5>1. p = c
                    BY <4>1 DEF Fits, FitsOf
                <5>2. proc[q].trig = "heartbeat" => q = c
                    BY <2>1, <2>2 DEF FitsOf
                <5> QED  BY <5>1, <5>2
            <4>2. CASE ~(proc[p].trig = "heartbeat")
                BY <4>2
            <4> QED  BY <4>1, <4>2
        <3>2. FitsOf(q, proc[q], j, moves')
            BY <1>1, <2>1, <2>2, <3>1, FitsLater
        <3> QED  BY <1>2, <1>3, <2>2, <3>2
    <2>3. CASE proc[q].c # c
        <3>1. row'[proc[q].c] = row[proc[q].c]
            BY <1>2, <2>1, <2>3
        <3>2. FitsOf(q, proc[q], row[proc[q].c], moves')
            BY <1>1, <2>1, FitsLater
        <3> QED  BY <1>3, <3>1, <3>2
    <2> QED  BY <2>2, <2>3
<1> QED  BY <1>2, <1>3, <1>4, <1>5, <1>6 DEF Fits

(* The same, when no row changes.                                            *)
LEMMA ProcFits ==
    ASSUME Typed, Fits, NEW p \in Procs, NEW r \in Process, Become(p, r), row' = row,
           moves' \in 0..MaxMoves, moves <= moves', FitsOf(p, r, row[r.c], moves')
    PROVE  Fits' /\ proc' \in [Procs -> Process] /\ row' \in [Children -> Instance]
<1> DEFINE c == proc[p].c
           j == row[c]
<1>1. c \in Children /\ j \in Instance /\ moves \in Nat /\ moves' \in Nat
    BY ProcessIs DEF Typed
<1>2. row' = [row EXCEPT ![c] = j]
    BY <1>1 DEF Typed
<1>3. TicksOf(j, moves')
    BY <1>1, TicksLater DEF Fits
<1> QED  BY <1>1, <1>2, <1>3, StepFits

LEMMA CalmFits ==
    ASSUME NEW p \in Procs, NEW r \in Process, NEW i, NEW m,
           p \in Children => r.c = p, r.trig # "manual" => p \in Children,
           r.pc \in {"idle", "chain"} \/ (r.pc = "kick" /\ r.act.rev # 0)
    PROVE  FitsOf(p, r, i, m)
BY DEF FitsOf, AtTick
-------------------------------------------------------------------------------
(* Types through every action.                                               *)
LEMMA InitFits == Init => Typed /\ Fits
<1> SUFFICES ASSUME Init PROVE Typed /\ Fits
    OBVIOUS
<1>1. \A p \in Procs : proc[p] = Resting(p)
    BY DEF Init
<1>2. proc \in [Procs -> Process]
    BY RestingIs DEF Init
<1>3. row \in [Children -> Instance] /\ told \in [Children -> Prints]
    BY IdleIs, NoPrintIs DEF Init
<1>4. world \in [Children -> [rev : Revs, green : BOOLEAN]]
    BY DEF Init, Revs
<1>5. reviewer \in [Children -> Reviewer]
    BY DEF Init, Reviewer
<1>6. parent \subseteq Event /\ IsFiniteSet(parent) /\ moves \in 0..MaxMoves
    BY FS_EmptySet DEF Init
<1>7. \A c \in Children : TicksOf(row[c], moves)
    BY DEF Init, NewInstance, TicksOf
<1>8. ASSUME NEW p \in Procs PROVE FitsOf(p, proc[p], row[proc[p].c], moves)
    <2>1. PICK r \in Process : /\ r = proc[p] /\ r.pc = "idle" /\ r.trig = "manual"
                               /\ (p \in Children => r.c = p)
        BY <1>1, <1>2, RestingIs
    <2> QED  BY <2>1, CalmFits
<1> QED  BY <1>2, <1>3, <1>4, <1>5, <1>6, <1>7, <1>8 DEF Typed, Fits

LEMMA CountedIs ==
    ASSUME Typed, Counted
    PROVE  moves' \in 0..MaxMoves /\ moves <= moves' /\ moves' = moves + 1
BY DEF Typed, Counted

LEMMA ChangeFits == ASSUME Typed, Fits, NEW c \in Children, Change(c) PROVE Typed' /\ Fits'
<1>1. world' \in [Children -> [rev : Revs, green : BOOLEAN]]
    <2>1. PICK w \in [rev : {world[c].rev, world[c].rev + 1} \cap Revs, green : BOOLEAN] :
              world' = [world EXCEPT ![c] = w]
        BY DEF Change
    <2>2. w \in [rev : Revs, green : BOOLEAN]
        OBVIOUS
    <2> QED  BY <2>1, <2>2 DEF Typed
<1>2. UNCHANGED <<row, parent, told, reviewer, proc>> /\ moves' \in 0..MaxMoves /\ moves <= moves'
    BY CountedIs DEF Change
<1>3. moves \in Nat /\ moves' \in Nat
    BY <1>2 DEF Typed
<1>4. Typed'
    BY <1>1, <1>2 DEF Typed
<1>5. \A d \in Children : TicksOf(row[d], moves')
    BY <1>2, <1>3, TicksLater DEF Typed, Fits
<1>6. \A q \in Procs : FitsOf(q, proc[q], row[proc[q].c], moves')
    <2> TAKE q \in Procs
    <2>1. proc[q] \in Process /\ row[proc[q].c] \in Instance /\ FitsOf(q, proc[q], row[proc[q].c], moves)
        BY ProcessIs DEF Fits
    <2>2. row[proc[q].c].ticks \in {row[proc[q].c].ticks, 0}
        OBVIOUS
    <2> QED  BY <1>2, <1>3, <2>1, <2>2, FitsLater
<1> QED  BY <1>2, <1>4, <1>5, <1>6 DEF Fits

LEMMA RecordJudgeFits == ASSUME Typed, Fits, NEW c \in Children, RecordJudge(c) PROVE Typed' /\ Fits'
<1>1. PICK v \in [rev : 1 .. world[c].rev, act : {"approve", "changes"}] : row' = [row EXCEPT ![c].judge = v]
    BY DEF RecordJudge
<1> DEFINE i == row[c]
           j == [i EXCEPT !.judge = v]
<1>2. v \in Verdict
    <2>1. world[c].rev \in 1..MaxRev
        BY DEF Typed, Revs
    <2> QED  BY <2>1 DEF Verdict
<1>3. i \in Instance
    BY DEF Typed
<1>4. j \in Instance /\ j.obs = i.obs /\ j.escs = i.escs /\ j.ticks = i.ticks
    <2> HIDE DEF i
    <2> QED  BY <1>2, <1>3 DEF Instance
<1>5. row' = [row EXCEPT ![c] = j]
    BY <1>1
<1>6. row' \in [Children -> Instance] /\ row'[c] = j /\ \A d \in Children \ {c} : row'[d] = row[d]
    <2> HIDE DEF j
    <2> QED  BY <1>4, <1>5 DEF Typed
<1>7. UNCHANGED <<world, parent, told, reviewer, proc>> /\ moves' \in 0..MaxMoves /\ moves <= moves'
    BY CountedIs DEF RecordJudge
<1>8. moves \in Nat /\ moves' \in Nat
    BY <1>7 DEF Typed
<1>9. Typed'
    BY <1>6, <1>7 DEF Typed
<1> HIDE DEF j
<1>10. ASSUME NEW d \in Children
       PROVE  TicksOf(row'[d], moves')
    <2>1. row[d] \in Instance /\ TicksOf(row[d], moves') /\ row'[d] \in Instance
        BY <1>6, <1>7, <1>8, TicksLater DEF Typed, Fits
    <2>2. row'[d].obs = row[d].obs /\ row'[d].ticks = row[d].ticks
        BY <1>4, <1>6
    <2> QED  BY <2>1, <2>2 DEF TicksOf
<1>11. \A q \in Procs : FitsOf(q, proc[q], row'[proc[q].c], moves')
    <2> TAKE q \in Procs
    <2> DEFINE d == proc[q].c
    <2>1. proc[q] \in Process /\ d \in Children /\ row[d] \in Instance /\ FitsOf(q, proc[q], row[d], moves)
        BY ProcessIs DEF Fits
    <2>2. /\ row'[d] \in Instance /\ row'[d].obs = row[d].obs
          /\ row'[d].ticks \in {row[d].ticks, 0} /\ row'[d].escs = row[d].escs
        BY <1>4, <1>6, <2>1
    <2> QED  BY <1>7, <1>8, <2>1, <2>2, FitsLater
<1> QED  BY <1>7, <1>9, <1>10, <1>11 DEF Fits

(* A process that begins, and what the finalizes beside it become.           *)
LEMMA BeginIs ==
    ASSUME Typed, Fits, NEW p \in Procs, NEW c \in Children, NEW op \in {"tick", "finalize"},
           NEW trig \in Triggers, Begin(p, c, op, trig),
           p \in Children => c = p, trig # "manual" => p \in Children,
           trig = "heartbeat" => row[c].escs < MaxEscs, moves' \in 0..MaxMoves, moves <= moves'
    PROVE  /\ Typed' /\ Fits'
           /\ At(p, "idle") /\ proc'[p].pc = "read" /\ proc'[p].c = c /\ proc'[p].op = op
           /\ op = "finalize" => (proc'[p].alone <=> \A q \in Procs \ {p} : At(q, "idle") \/ proc[q].c # c)
           /\ \A q \in Procs \ {p} :
                  /\ proc'[q].pc = proc[q].pc /\ proc'[q].c = proc[q].c /\ proc'[q].op = proc[q].op
                  /\ proc'[q].act = proc[q].act /\ proc'[q].seen = proc[q].seen
                  /\ proc'[q].op = "finalize" /\ proc'[q].alone => proc[q].alone
                  /\ ~At(q, "idle") /\ proc[q].c = c /\ proc[q].op = "finalize" => ~proc'[q].alone
<1> DEFINE others == {q \in Procs \ {p} : ~At(q, "idle") /\ proc[q].c = c}
           alone == op = "tick" \/ others = {}
           r == [[[[Idle(c) EXCEPT !.pc = "read"] EXCEPT !.op = op] EXCEPT !.trig = trig]
                    EXCEPT !.alone = alone]
<1>1. UNCHANGED <<world, row, parent, told, reviewer>> /\ At(p, "idle")
    BY DEF Begin
<1>2. proc' = [q \in Procs |-> IF q = p THEN r
                              ELSE IF q \in others /\ proc[q].op = "finalize"
                              THEN [proc[q] EXCEPT !.alone = FALSE] ELSE proc[q]]
    BY DEF Begin
<1>3. alone \in BOOLEAN
    OBVIOUS
<1>4. op = "finalize" => (alone <=> \A q \in Procs \ {p} : At(q, "idle") \/ proc[q].c # c)
    OBVIOUS
<1> HIDE DEF alone
<1>5. r \in Process /\ r.pc = "read" /\ r.op = op /\ r.trig = trig /\ r.alone = alone /\ r.c = c
    <2>1. PICK u \in Process : u = Idle(c) /\ u.c = c
        BY IdleIs
    <2>2. r = [[[[u EXCEPT !.pc = "read"] EXCEPT !.op = op] EXCEPT !.trig = trig] EXCEPT !.alone = alone]
        BY <2>1
    <2>3. "read" \in Steps
        BY DEF Steps
    <2> HIDE DEF r
    <2> QED  BY <1>3, <2>1, <2>2, <2>3 DEF Process
<1> HIDE DEF r
<1>6. proc'[p] = r
    BY <1>2
<1>7. ASSUME NEW q \in Procs \ {p}
      PROVE  /\ proc'[q] \in Process /\ proc'[q].trig = proc[q].trig
             /\ proc'[q].pc = proc[q].pc /\ proc'[q].c = proc[q].c /\ proc'[q].op = proc[q].op
             /\ proc'[q].act = proc[q].act /\ proc'[q].seen = proc[q].seen
             /\ proc'[q].op = "finalize" /\ proc'[q].alone => proc[q].alone
             /\ ~At(q, "idle") /\ proc[q].c = c /\ proc[q].op = "finalize" => ~proc'[q].alone
    <2> DEFINE u == [proc[q] EXCEPT !.alone = FALSE]
    <2>1. /\ u \in Process /\ u.trig = proc[q].trig /\ u.pc = proc[q].pc /\ u.c = proc[q].c
          /\ u.op = proc[q].op /\ u.act = proc[q].act /\ u.seen = proc[q].seen /\ u.alone = FALSE
        BY ProcessIs DEF Process
    <2>2. proc'[q] = IF q \in others /\ proc[q].op = "finalize" THEN u ELSE proc[q]
        BY <1>2
    <2> HIDE DEF u
    <2>3. CASE q \in others /\ proc[q].op = "finalize"
        BY <2>1, <2>2, <2>3
    <2>4. CASE ~(q \in others /\ proc[q].op = "finalize")
        BY <2>2, <2>4, ProcessIs
    <2> QED  BY <2>3, <2>4
<1>8. proc' \in [Procs -> Process]
    <2>1. \A q \in Procs : proc'[q] \in Process
        BY <1>5, <1>6, <1>7
    <2>2. proc' = [q \in Procs |-> proc'[q]]
        BY <1>2
    <2> QED  BY <2>1, <2>2
<1>9. Typed'
    BY <1>1, <1>8 DEF Typed
<1>10. moves \in Nat /\ moves' \in Nat
    BY DEF Typed
<1>11. \A d \in Children : TicksOf(row[d], moves')
    BY <1>10, TicksLater DEF Typed, Fits
<1>12. FitsOf(p, r, row[c], moves')
    BY <1>5 DEF FitsOf, AtTick
<1>13. ASSUME NEW q \in Procs \ {p}
       PROVE  FitsOf(q, proc'[q], row[proc'[q].c], moves')
    <2>1. proc[q] \in Process /\ row[proc[q].c] \in Instance /\ FitsOf(q, proc[q], row[proc[q].c], moves)
        BY ProcessIs DEF Fits
    <2>2. row[proc[q].c].ticks \in {row[proc[q].c].ticks, 0}
        OBVIOUS
    <2>3. FitsOf(q, proc[q], row[proc[q].c], moves')
        BY <1>10, <2>1, <2>2, FitsLater
    <2> QED  BY <1>7, <2>3 DEF FitsOf, Due
<1>14. Fits'
    BY <1>1, <1>5, <1>6, <1>11, <1>12, <1>13 DEF Fits
<1> QED  BY <1>1, <1>4, <1>5, <1>6, <1>7, <1>9, <1>14

LEMMA GoIs ==
    ASSUME Typed, NEW p \in Procs, NEW pc \in Steps
    PROVE  \E r \in Process :
               /\ r = [proc[p] EXCEPT !.pc = pc] /\ r.pc = pc /\ r.op = proc[p].op /\ r.c = proc[p].c
               /\ r.trig = proc[p].trig /\ r.seen = proc[p].seen /\ r.act = proc[p].act
               /\ r.alone = proc[p].alone
<1>1. PICK u \in Process : u = proc[p]
    BY ProcessIs
<1> DEFINE r == [u EXCEPT !.pc = pc]
<1>2. /\ r \in Process /\ r.pc = pc /\ r.op = u.op /\ r.c = u.c /\ r.trig = u.trig /\ r.seen = u.seen
      /\ r.act = u.act /\ r.alone = u.alone
    BY DEF Process
<1>3. r = [proc[p] EXCEPT !.pc = pc]
    BY <1>1
<1> HIDE DEF r
<1> QED  BY <1>1, <1>2, <1>3

LEMMA EndFits ==
    ASSUME Typed, Fits, NEW p \in Procs, End(p), row' = row, moves' \in 0..MaxMoves, moves <= moves'
    PROVE  Fits' /\ proc' \in [Procs -> Process]
<1>1. PICK r \in Process : /\ r = Resting(p) /\ r.pc = "idle" /\ r.trig = "manual"
                           /\ (p \in Children => r.c = p)
    BY RestingIs
<1>2. Become(p, r)
    BY <1>1 DEF End
<1>3. FitsOf(p, r, row[r.c], moves')
    BY <1>1, CalmFits
<1> QED  BY <1>1, <1>2, <1>3, ProcFits

LEMMA MovesStay == ASSUME Typed, moves' = moves PROVE moves' \in 0..MaxMoves /\ moves <= moves' /\ moves \in Nat
BY DEF Typed

LEMMA FailsFits == ASSUME Typed, Fits, NEW p \in Procs, Fails(p) PROVE Typed' /\ Fits'
<1>1. UNCHANGED <<world, row, parent, told, reviewer>> /\ End(p) /\ moves' \in 0..MaxMoves /\ moves <= moves'
    BY CountedIs DEF Fails
<1> QED  BY <1>1, EndFits DEF Typed

LEMMA ReadFailsFits == ASSUME Typed, Fits, NEW p \in Procs, ReadFails(p) PROVE Typed' /\ Fits'
<1>1. /\ UNCHANGED <<world, row, parent, told, reviewer>> /\ Go(p, "eval") /\ At(p, "read")
      /\ proc[p].op = "tick" /\ moves' \in 0..MaxMoves /\ moves <= moves' /\ moves' = moves + 1
    BY CountedIs DEF ReadFails
<1>2. PICK r \in Process :
          /\ r = [proc[p] EXCEPT !.pc = "eval"] /\ r.pc = "eval" /\ r.op = proc[p].op /\ r.c = proc[p].c
          /\ r.trig = proc[p].trig
    BY GoIs DEF Steps
<1>3. Become(p, r)
    BY <1>1, <1>2 DEF Go
<1>4. FitsOf(p, r, row[r.c], moves')
    <2> DEFINE i == row[proc[p].c]
    <2>1. FitsOf(p, proc[p], i, moves) /\ proc[p].pc = "read"
        BY <1>1 DEF Fits, At
    <2>2. ~Judged /\ i.obs.rev = 0 => i.ticks < moves'
        <3>1. i \in Instance /\ TicksOf(i, moves) /\ moves \in Nat
            BY ProcessIs DEF Fits
        <3> HIDE DEF i
        <3>2. i.ticks \in Nat
            BY <3>1, FactsIs
        <3>3. ~Judged /\ i.obs.rev = 0 => i.ticks <= moves
            BY <3>1 DEF TicksOf
        <3> QED  BY <1>1, <3>1, <3>2, <3>3
    <2> HIDE DEF i
    <2>3. FitsOf(p, r, i, moves')
        BY <1>1, <1>2, <2>1, <2>2 DEF FitsOf, AtTick
    <2> QED  BY <1>2, <2>3 DEF i
<1> QED  BY <1>1, <1>3, <1>4, ProcFits DEF Typed

LEMMA ReadResourceFits == ASSUME Typed, Fits, NEW p \in Procs, ReadResource(p) PROVE Typed' /\ Fits'
<1> DEFINE w == world[proc[p].c]
           r == [[proc[p] EXCEPT !.pc = "save"] EXCEPT !.seen = w]
<1>1. UNCHANGED <<world, row, parent, told, reviewer, moves>> /\ Become(p, r) /\ At(p, "read")
    BY DEF ReadResource
<1>2. w \in Reading /\ w.rev # 0
    <2>1. w \in [rev : Revs, green : BOOLEAN]
        BY ProcessIs DEF Typed
    <2> HIDE DEF w
    <2> QED  BY <2>1 DEF Reading, Revs
<1> HIDE DEF w
<1>3. /\ r \in Process /\ r.pc = "save" /\ r.seen = w /\ r.op = proc[p].op /\ r.c = proc[p].c
      /\ r.trig = proc[p].trig
    BY <1>2, ProcessIs DEF Process, Steps
<1> HIDE DEF r
<1>4. FitsOf(p, r, row[r.c], moves')
    BY <1>1, <1>2, <1>3 DEF Fits, FitsOf, AtTick, At
<1> QED  BY <1>1, <1>3, <1>4, MovesStay, ProcFits DEF Typed

LEMMA PersistObservedIs ==
    ASSUME Typed, Fits, NEW p \in Procs, PersistObserved(p)
    PROVE  LET c == proc[p].c
               r == Read(p)
               j == [row[c] EXCEPT !.obs = proc[p].seen]
           IN  /\ c \in Children /\ At(p, "save") /\ Become(p, r) /\ row' = [row EXCEPT ![c] = j]
               /\ UNCHANGED <<world, parent, told, reviewer, moves>>
               /\ r \in Process /\ r.c = c /\ r.op = proc[p].op /\ r.trig = proc[p].trig
               /\ r.pc = (IF proc[p].op = "tick" THEN "eval" ELSE "confirm")
               /\ proc[p].op = "finalize" => r.seen = proc[p].seen /\ r.alone = proc[p].alone
               /\ r.act = proc[p].act
               /\ j \in Instance /\ j.obs = proc[p].seen /\ j.obs.rev # 0
               /\ j.judge = row[c].judge /\ j.last = row[c].last /\ j.ticks = row[c].ticks /\ j.escs = row[c].escs
               /\ row'[c] = j /\ \A d \in Children \ {c} : row'[d] = row[d]
<1> DEFINE c == proc[p].c
           i == row[c]
           seen == proc[p].seen
           j == [i EXCEPT !.obs = seen]
<1>1. At(p, "save") /\ Become(p, Read(p)) /\ UNCHANGED <<world, parent, told, reviewer, moves>>
    BY DEF PersistObserved
<1>2. row' = [row EXCEPT ![c] = j]
    BY DEF PersistObserved
<1>3. /\ c \in Children /\ i \in Instance /\ seen \in Reading /\ proc[p] \in Process
      /\ proc[p].op \in {"tick", "finalize"}
    BY ProcessIs
<1>4. seen.rev # 0
    BY <1>1 DEF Fits, FitsOf, At
<1>5. /\ j \in Instance /\ j.obs = seen /\ j.judge = i.judge /\ j.last = i.last /\ j.ticks = i.ticks
      /\ j.escs = i.escs
    <2> HIDE DEF i, seen
    <2> QED  BY <1>3 DEF Instance
<1> HIDE DEF j
<1>6. row'[c] = j /\ \A d \in Children \ {c} : row'[d] = row[d]
    BY <1>2, <1>3 DEF Typed
<1>7. CASE proc[p].op = "tick"
    <2> DEFINE r == [[proc[p] EXCEPT !.pc = "eval"] EXCEPT !.seen = Unread]
    <2>1. Unread \in Reading
        BY DEF Unread, Reading
    <2>2. Read(p) = r
        BY <1>7 DEF Read
    <2>3. /\ r \in Process /\ r.c = c /\ r.op = proc[p].op /\ r.trig = proc[p].trig /\ r.pc = "eval"
          /\ r.act = proc[p].act
        BY <1>3, <2>1 DEF Process, Steps
    <2> HIDE DEF r
    <2> QED  BY <1>1, <1>2, <1>3, <1>4, <1>5, <1>6, <1>7, <2>2, <2>3 DEF j
<1>8. CASE proc[p].op = "finalize"
    <2> DEFINE r == [proc[p] EXCEPT !.pc = "confirm"]
    <2>1. Read(p) = r
        BY <1>8 DEF Read
    <2>2. /\ r \in Process /\ r.c = c /\ r.op = proc[p].op /\ r.trig = proc[p].trig /\ r.pc = "confirm"
          /\ r.act = proc[p].act /\ r.seen = seen /\ r.alone = proc[p].alone
        BY <1>3 DEF Process, Steps
    <2> HIDE DEF r
    <2> QED  BY <1>1, <1>2, <1>3, <1>4, <1>5, <1>6, <1>8, <2>1, <2>2 DEF j
<1> QED  BY <1>3, <1>7, <1>8

LEMMA PersistObservedFits == ASSUME Typed, Fits, NEW p \in Procs, PersistObserved(p) PROVE Typed' /\ Fits'
<1>1. PICK c \in Children, r \in Process, j \in Instance :
          /\ c = proc[p].c /\ At(p, "save") /\ Become(p, r) /\ row' = [row EXCEPT ![c] = j]
          /\ UNCHANGED <<world, parent, told, reviewer, moves>>
          /\ r.c = c /\ r.op = proc[p].op /\ r.trig = proc[p].trig
          /\ r.pc = (IF proc[p].op = "tick" THEN "eval" ELSE "confirm")
          /\ j.obs.rev # 0 /\ j.ticks = row[c].ticks /\ j.escs = row[c].escs
    BY PersistObservedIs
<1>2. FitsOf(p, proc[p], row[c], moves) /\ proc[p].op \in {"tick", "finalize"}
    BY <1>1, ProcessIs DEF Fits
<1>3. FitsOf(p, r, j, moves')
    BY <1>1, <1>2 DEF FitsOf, AtTick, At
<1>4. TicksOf(j, moves')
    <2>1. TicksOf(row[c], moves) /\ moves' = moves
        BY <1>1 DEF Fits
    <2> QED  BY <1>1, <2>1 DEF TicksOf
<1>5. j.ticks \in {row[proc[p].c].ticks, 0}
    BY <1>1
<1> QED  BY <1>1, <1>3, <1>4, <1>5, MovesStay, StepFits DEF Typed

LEMMA EvaluateIs ==
    ASSUME Typed, Fits, NEW p \in Procs, Evaluate(p)
    PROVE  LET c == proc[p].c
           IN  \E r \in Process :
               /\ c \in Children /\ At(p, "eval") /\ Become(p, r) /\ proc[p].op = "tick"
               /\ UNCHANGED <<world, row, parent, told, reviewer, moves>>
               /\ r.pc = "publish" /\ r.c = c /\ r.op = proc[p].op /\ r.trig = proc[p].trig
               /\ r.act = ActionFor(c, row[c], r.trig)
               /\ r.trig = "heartbeat" => row[c].escs < MaxEscs
<1>1. PICK u \in Process : u = proc[p] /\ u.c \in Children /\ u.trig \in Triggers /\ u.pc = "eval"
    BY ProcessIs DEF Evaluate, At
<1>2. FitsOf(p, u, row[u.c], moves)
    BY <1>1 DEF Fits
<1>3. u.op = "tick" /\ (u.trig = "heartbeat" => row[u.c].escs < MaxEscs)
    BY <1>1, <1>2 DEF FitsOf
<1> DEFINE a == ActionFor(u.c, row[u.c], u.trig)
           r == [[u EXCEPT !.pc = "publish"] EXCEPT !.act = a]
<1>4. a \in Actions
    BY <1>1, <1>3, ActionForIs
<1>5. Become(p, r) /\ UNCHANGED <<world, row, parent, told, reviewer, moves>> /\ At(p, "eval")
    BY <1>1 DEF Evaluate
<1> HIDE DEF a
<1>6. r \in Process /\ r.pc = "publish" /\ r.c = u.c /\ r.op = u.op /\ r.trig = u.trig /\ r.act = a
    BY <1>4 DEF Process, Steps
<1> HIDE DEF r
<1>7. r.act = ActionFor(u.c, row[u.c], r.trig)
    BY <1>6 DEF a
<1> QED  BY <1>1, <1>3, <1>5, <1>6, <1>7

LEMMA EvaluateFits == ASSUME Typed, Fits, NEW p \in Procs, Evaluate(p) PROVE Typed' /\ Fits'
<1>1. PICK c \in Children, r \in Process :
          /\ c = proc[p].c /\ At(p, "eval") /\ Become(p, r) /\ proc[p].op = "tick"
          /\ UNCHANGED <<world, row, parent, told, reviewer, moves>>
          /\ r.pc = "publish" /\ r.c = c /\ r.op = proc[p].op /\ r.trig = proc[p].trig
          /\ r.act = ActionFor(c, row[c], r.trig)
          /\ r.trig = "heartbeat" => row[c].escs < MaxEscs
    BY EvaluateIs
<1> DEFINE i == row[c]
           f == [obs |-> i.obs, judge |-> i.judge]
           a == ActionFor(c, i, r.trig)
           n == Consumed(i, r.trig)
<1>2. i \in Instance /\ r.trig \in Triggers /\ FitsOf(p, proc[p], i, moves)
    BY <1>1, ProcessIs DEF Fits
<1>3. /\ a.trig = r.trig /\ a.kind = Kind(f, r.trig, n) /\ a.ticks = n /\ a.esc = i.escs + 1
      /\ a.say = ~Repeats(i, a.kind, a.print, r.trig) /\ (Judged => a.print.who = c)
    BY <1>1, <1>2, ActionForIs
<1> HIDE DEF a
<1>4. i.ticks \in Nat /\ i.escs \in Nat /\ f \in Facts /\ f.obs = i.obs
    <2> HIDE DEF i
    <2> QED  BY <1>2, FactsIs
<1>5. n = IF r.trig = "heartbeat" THEN i.ticks + 1 ELSE i.ticks
    <2> HIDE DEF i
    <2> QED  BY <1>4 DEF Consumed
<1>6. n \in Nat
    <2> HIDE DEF i, n
    <2> QED  BY <1>4, <1>5
<1> HIDE DEF f
<1>7. /\ a.kind # "none" /\ (a.kind = "escalate" => r.trig = "heartbeat")
      /\ a.kind \in {"review", "kick"} /\ r.trig = "heartbeat" => n < Budget
      /\ a.kind = "wait" => ~Judged /\ i.obs.rev = 0
      /\ ~Judged /\ i.obs.rev = 0 => a.kind = "wait"
    <2> HIDE DEF i, n
    <2> QED  BY <1>2, <1>3, <1>4, <1>6, KindIs
<1>8. a.kind = "escalate" => a.esc <= MaxEscs /\ a.say
    <2>1. a.kind = "escalate" => i.escs + 1 <= MaxEscs
        BY <1>1, <1>4, <1>7
    <2>2. a.kind = "escalate" => ~Repeats(i, a.kind, a.print, r.trig)
        BY <1>7 DEF Repeats, RepeatsPrint
    <2> QED  BY <1>3, <2>1, <2>2
<1>9. a.kind = "wait" /\ r.trig = "heartbeat" => n <= moves
    <2>1. r.trig = "heartbeat" /\ ~Judged /\ i.obs.rev = 0 => i.ticks < moves
        BY <1>1, <1>2 DEF FitsOf, At
    <2>2. moves \in Nat
        BY ProcessIs
    <2> HIDE DEF i, n
    <2> QED  BY <1>4, <1>5, <1>7, <2>1, <2>2
<1>10. Due(r, i, moves)
    <2>1. r.act = a
        BY <1>1 DEF a
    <2> HIDE DEF i, n
    <2> QED  BY <1>1, <1>3, <1>7, <1>8, <1>9, <2>1 DEF Due
<1>11. FitsOf(p, r, i, moves)
    <2> HIDE DEF i
    <2> QED  BY <1>1, <1>2, <1>10 DEF FitsOf, AtTick
<1>12. FitsOf(p, r, row[r.c], moves')
    BY <1>1, <1>11
<1> QED  BY <1>1, <1>12, MovesStay, ProcFits DEF Typed

(* A tick goes on: what it is to do stays.                                   *)
LEMMA TickGoes ==
    ASSUME Typed, Fits, NEW p \in Procs, NEW pc \in AtTick, Go(p, pc), proc[p].pc \in AtTick,
           pc \in {"push", "append"} => proc[p].act.kind \in {"satisfied", "escalate"},
           UNCHANGED <<row, moves>>
    PROVE  Fits' /\ proc' \in [Procs -> Process]
<1>1. PICK r \in Process :
          /\ r = [proc[p] EXCEPT !.pc = pc] /\ r.pc = pc /\ r.op = proc[p].op /\ r.c = proc[p].c
          /\ r.trig = proc[p].trig /\ r.act = proc[p].act
    BY GoIs DEF AtTick, Steps
<1>2. FitsOf(p, proc[p], row[proc[p].c], moves)
    BY DEF Fits
<1>3. FitsOf(p, r, row[proc[p].c], moves)
    BY <1>1, <1>2 DEF FitsOf, AtTick, Due
<1>4. FitsOf(p, r, row[r.c], moves')
    BY <1>1, <1>3
<1> QED  BY <1>1, <1>4, MovesStay, ProcFits DEF Go

LEMMA PublishFits == ASSUME Typed, Fits, NEW p \in Procs, Publish(p) PROVE Typed' /\ Fits'
<1> DEFINE a == proc[p].act
           pc == IF a.say /\ a.kind \in {"satisfied", "escalate"} THEN "push" ELSE "persist"
<1>1. At(p, "publish") /\ Go(p, pc) /\ UNCHANGED <<world, row, parent, reviewer, moves>>
    BY DEF Publish
<1>2. told' \in [Children -> Prints]
    <2>1. a.print \in Prints /\ told \in [Children -> Prints]
        BY ProcessIs, ActionIs DEF Typed
    <2>2. told' = told \/ told' = [told EXCEPT ![proc[p].c] = a.print]
        BY DEF Publish
    <2> QED  BY <2>1, <2>2
<1>3. pc \in AtTick /\ (pc \in {"push", "append"} => a.kind \in {"satisfied", "escalate"})
    BY DEF AtTick
<1> HIDE DEF pc
<1>4. Fits' /\ proc' \in [Procs -> Process]
    BY <1>1, <1>3, TickGoes DEF At, AtTick
<1> QED  BY <1>1, <1>2, <1>4 DEF Typed

LEMMA PushFits == ASSUME Typed, Fits, NEW p \in Procs, Push(p) PROVE Typed' /\ Fits'
<1>1. /\ At(p, "push") /\ (Go(p, "persist") \/ Go(p, "append"))
      /\ UNCHANGED <<world, row, parent, told, reviewer, moves>>
    BY DEF Push
<1>2. proc[p].act.kind \in {"satisfied", "escalate"}
    BY <1>1 DEF Fits, FitsOf, At, Push
<1>3. Fits' /\ proc' \in [Procs -> Process]
    BY <1>1, <1>2, TickGoes DEF At, AtTick, Push
<1> QED  BY <1>1, <1>3 DEF Typed

(* The key of what process p appends.                                        *)
LEMMA KeyIs ==
    ASSUME Typed, Fits, NEW p \in Procs, proc[p].pc \in {"push", "append"}
    PROVE  LET c == proc[p].c
               a == proc[p].act
               k == Key(c, a)
           IN  /\ k \in Keys /\ k[1] = a.kind /\ a.kind \in {"satisfied", "escalate"}
               /\ Judged => k[2].who = c
               /\ a.kind = "escalate" => k = <<"escalate", NoPrint(c), a.esc>> /\ a.esc \in 0..MaxEscs
               /\ c \in Children
<1> DEFINE c == proc[p].c
           a == proc[p].act
<1>1. c \in Children /\ a \in Actions
    BY ProcessIs
<1>2. FitsOf(p, proc[p], row[c], moves)
    BY DEF Fits
<1>3. a.kind \in {"satisfied", "escalate"} /\ Due(proc[p], row[c], moves)
    BY <1>2 DEF FitsOf, AtTick
<1>4. (Judged => a.print.who = c) /\ (a.kind = "escalate" => a.esc <= MaxEscs)
    BY <1>3 DEF Due
<1>5. a.print \in Prints /\ a.esc \in 1..MaxEscs+1
    BY <1>1, ActionIs
<1> HIDE DEF c, a
<1>6. NoPrint(c) \in Prints /\ (Judged => NoPrint(c).who = c)
    BY <1>1, NoPrintIs
<1>7. CASE a.kind = "escalate"
    <2>1. Key(c, a) = <<"escalate", NoPrint(c), a.esc>> /\ a.esc \in 0..MaxEscs
        BY <1>4, <1>5, <1>7 DEF Key
    <2> QED  BY <1>1, <1>6, <1>7, <2>1 DEF Keys, c, a
<1>8. CASE a.kind = "satisfied"
    <2>1. Key(c, a) = <<"satisfied", a.print, 0>> /\ 0 \in 0..MaxEscs
        BY <1>8 DEF Key
    <2> QED  BY <1>1, <1>4, <1>5, <1>8, <2>1 DEF Keys, c, a
<1> QED  BY <1>3, <1>7, <1>8 DEF a

(* The event it appends is new.                                              *)
NewEvent(p) == [key |-> Key(proc[p].c, proc[p].act), from |-> proc[p].c, kind |-> proc[p].act.kind,
                esc |-> IF proc[p].act.kind = "escalate" THEN proc[p].act.esc ELSE 0,
                copy |-> Cardinality(Copies(Key(proc[p].c, proc[p].act))) + 1]

LEMMA CopiesFinite == ASSUME Typed, NEW k PROVE IsFiniteSet(Copies(k)) /\ Cardinality(Copies(k)) \in Nat
<1>1. Copies(k) \subseteq parent /\ IsFiniteSet(parent)
    BY DEF Typed, Copies
<1> QED  BY <1>1, FS_Subset, FS_CardinalityType

LEMMA AppendIs ==
    ASSUME Typed, Fits, NEW p \in Procs, AppendTerminal(p)
    PROVE  /\ At(p, "append") /\ Go(p, "persist") /\ parent' = parent \cup {NewEvent(p)}
           /\ UNCHANGED <<world, row, told, reviewer, moves>> /\ NewEvent(p) \in Event
<1>1. /\ At(p, "append") /\ Go(p, "persist") /\ parent' = parent \cup {NewEvent(p)}
      /\ UNCHANGED <<world, row, told, reviewer, moves>>
    BY DEF AppendTerminal, NewEvent
<1> DEFINE c == proc[p].c
           a == proc[p].act
           k == Key(c, a)
           esc == IF a.kind = "escalate" THEN a.esc ELSE 0
           copy == Cardinality(Copies(k)) + 1
<1>2. /\ k \in Keys /\ a.kind \in {"satisfied", "escalate"} /\ c \in Children
      /\ a.kind = "escalate" => a.esc \in 0..MaxEscs
    BY <1>1, KeyIs DEF At
<1>3. Cardinality(Copies(k)) \in Nat
    <2> HIDE DEF k
    <2> QED  BY CopiesFinite
<1>4. copy \in Nat \ {0}
    BY <1>3
<1>5. esc \in 0..MaxEscs
    BY <1>2
<1>6. NewEvent(p) = [key |-> k, from |-> c, kind |-> a.kind, esc |-> esc, copy |-> copy]
    BY DEF NewEvent
<1> HIDE DEF copy, k, esc
<1> QED  BY <1>1, <1>2, <1>4, <1>5, <1>6 DEF Event

LEMMA AppendFits == ASSUME Typed, Fits, NEW p \in Procs, AppendTerminal(p) PROVE Typed' /\ Fits'
<1>1. Fits' /\ proc' \in [Procs -> Process]
    BY AppendIs, TickGoes DEF At, AtTick
<1>2. parent' \subseteq Event /\ IsFiniteSet(parent')
    BY AppendIs, FS_AddElement DEF Typed
<1> QED  BY <1>1, <1>2, AppendIs DEF Typed

LEMMA PersistActionIs ==
    ASSUME Typed, Fits, NEW p \in Procs, PersistAction(p)
    PROVE  LET c == proc[p].c
               a == proc[p].act
               i == row[c]
           IN  \E r \in Process, j \in Instance :
               /\ c \in Children /\ At(p, "persist") /\ Become(p, r) /\ row' = [row EXCEPT ![c] = j]
               /\ UNCHANGED <<world, parent, told, reviewer, moves>>
               /\ r.pc = "chain" /\ r.c = c /\ r.trig = "manual" /\ r.op = "tick"
               /\ j.obs = i.obs /\ j.judge = i.judge /\ j.last = a.kind
               /\ j.ticks = (IF a.kind \in {"satisfied", "escalate"} THEN 0
                             ELSE IF a.trig = "heartbeat" THEN a.ticks ELSE i.ticks)
               /\ j.escs = (IF a.kind = "escalate" THEN a.esc ELSE i.escs)
               /\ row'[c] = j /\ \A d \in Children \ {c} : row'[d] = row[d]
<1> DEFINE c == proc[p].c
           a == proc[p].act
           i == row[c]
           ticks == IF a.kind \in {"satisfied", "escalate"} THEN 0
                    ELSE IF a.trig = "heartbeat" THEN a.ticks ELSE i.ticks
           escs == IF a.kind = "escalate" THEN a.esc ELSE i.escs
           j == [[[[i EXCEPT !.last = a.kind] EXCEPT !.print = a.print] EXCEPT !.ticks = ticks]
                    EXCEPT !.escs = escs]
           b == [[NoAction(c) EXCEPT !.rev = a.rev] EXCEPT !.active = a.active]
           r == [[Idle(c) EXCEPT !.pc = "chain"] EXCEPT !.act = b]
<1>1. c \in Children /\ a \in Actions /\ i \in Instance
    BY ProcessIs
<1>2. /\ a.kind \in Kinds /\ a.print \in Prints /\ a.ticks \in 0..Budget+MaxMoves
      /\ a.rev \in 0..MaxRev /\ a.active \in BOOLEAN /\ a.esc \in 1..MaxEscs+1
    BY <1>1, ActionIs
<1>3. At(p, "persist") /\ UNCHANGED <<world, parent, told, reviewer, moves>>
    BY DEF PersistAction
<1>4. a.kind = "escalate" => a.esc \in 0..MaxEscs
    <2>1. FitsOf(p, proc[p], i, moves)
        BY DEF Fits
    <2>2. Due(proc[p], i, moves)
        BY <1>3, <2>1 DEF FitsOf, AtTick, At
    <2>3. a.kind = "escalate" => a.esc <= MaxEscs
        BY <2>2 DEF Due
    <2> HIDE DEF a
    <2> QED  BY <1>2, <2>3
<1>5. row' = [row EXCEPT ![c] = j]
    <2>1. Recorded(i, a) = j
        <3> HIDE DEF a, i
        <3> QED  BY DEF Recorded
    <2> QED  BY <2>1 DEF PersistAction
<1>6. i.ticks \in 0..Budget+MaxMoves /\ i.escs \in 0..MaxEscs
    <2> HIDE DEF i
    <2> QED  BY <1>1, FactsIs
<1>7. ticks \in 0..Budget+MaxMoves /\ escs \in 0..MaxEscs
    <2> HIDE DEF i, a
    <2> QED  BY <1>2, <1>4, <1>6
<1> HIDE DEF ticks, escs
<1>8. /\ j \in Instance /\ j.obs = i.obs /\ j.judge = i.judge /\ j.last = a.kind /\ j.ticks = ticks
      /\ j.escs = escs
    <2> HIDE DEF i, a
    <2> QED  BY <1>1, <1>2, <1>7 DEF Instance
<1> HIDE DEF j
<1>9. row'[c] = j /\ \A d \in Children \ {c} : row'[d] = row[d]
    BY <1>1, <1>5 DEF Typed
<1>10. PICK u \in Process : /\ u = Idle(c) /\ u.c = c /\ u.act = NoAction(c) /\ u.trig = "manual"
                            /\ u.op = "tick"
    BY <1>1, IdleIs
<1>11. b \in Actions
    <2>1. PICK v \in Actions : v = NoAction(c)
        BY <1>1, IdleIs
    <2>2. b = [[v EXCEPT !.rev = a.rev] EXCEPT !.active = a.active]
        BY <2>1
    <2> HIDE DEF a, b
    <2> QED  BY <1>2, <2>2 DEF Actions
<1>12. Become(p, r)
    <2>1. r = [Idle(c) EXCEPT !.pc = "chain", !.act.rev = a.rev, !.act.active = a.active]
        <3>1. Idle(c).act = NoAction(c) /\ Idle(c) \in Process
            BY <1>1, IdleIs
        <3> HIDE DEF a, c
        <3> QED  BY <1>10, <3>1 DEF Process
    <2> QED  BY <2>1 DEF PersistAction
<1> HIDE DEF b
<1>13. r \in Process /\ r.pc = "chain" /\ r.c = c /\ r.trig = "manual" /\ r.op = "tick"
    <2>1. r = [[u EXCEPT !.pc = "chain"] EXCEPT !.act = b]
        BY <1>10
    <2> HIDE DEF r
    <2> QED  BY <1>10, <1>11, <2>1 DEF Process, Steps
<1> HIDE DEF r
<1> QED  BY <1>1, <1>3, <1>5, <1>8, <1>9, <1>12, <1>13 DEF ticks, escs

LEMMA PersistActionFits == ASSUME Typed, Fits, NEW p \in Procs, PersistAction(p) PROVE Typed' /\ Fits'
<1>1. PICK c \in Children, a \in Actions, i \in Instance :
          c = proc[p].c /\ a = proc[p].act /\ i = row[c]
    BY ProcessIs
<1>2. PICK r \in Process, j \in Instance :
               /\ At(p, "persist") /\ Become(p, r) /\ row' = [row EXCEPT ![c] = j]
               /\ UNCHANGED <<world, parent, told, reviewer, moves>>
               /\ r.pc = "chain" /\ r.c = c /\ r.trig = "manual" /\ j.obs = i.obs
               /\ j.ticks = (IF a.kind \in {"satisfied", "escalate"} THEN 0
                             ELSE IF a.trig = "heartbeat" THEN a.ticks ELSE i.ticks)
               /\ j.escs = (IF a.kind = "escalate" THEN a.esc ELSE i.escs)
    BY <1>1, PersistActionIs
<1>3. FitsOf(p, proc[p], i, moves) /\ TicksOf(i, moves)
    BY <1>1 DEF Fits
<1>4. Due(proc[p], i, moves)
    BY <1>2, <1>3 DEF FitsOf, AtTick, At
<1>5. TicksOf(j, moves)
    <2>1. a.ticks \in Nat /\ i.ticks \in Nat /\ moves \in Nat
        <3>1. a.ticks \in 0..Budget+MaxMoves
            BY ActionIs
        <3>2. i.ticks \in Nat
            BY FactsIs
        <3>3. moves \in Nat
            BY DEF Typed
        <3>4. a.ticks \in Nat
            BY <3>1
        <3> QED  BY <3>2, <3>3, <3>4
    <2>2. a.kind \in Kinds /\ a.kind # "none"
        BY <1>1, <1>4, ActionIs DEF Due
    <2>3. CASE a.kind \in {"satisfied", "escalate"}
        BY <1>2, <2>1, <2>3 DEF TicksOf
    <2>4. CASE a.kind \in {"review", "kick"}
        <3>1. a.trig = "heartbeat" => a.ticks < Budget
            BY <1>1, <1>4, <2>4 DEF Due
        <3>2. ~(~Judged /\ i.obs.rev = 0)
            BY <1>1, <1>4, <2>4 DEF Due
        <3> QED  BY <1>2, <1>3, <2>4, <3>1, <3>2 DEF TicksOf
    <2>5. CASE a.kind = "wait"
        <3>1. ~Judged /\ (a.trig = "heartbeat" => a.ticks <= moves)
            BY <1>1, <1>4, <2>5 DEF Due
        <3> QED  BY <1>2, <1>3, <2>5, <3>1 DEF TicksOf
    <2> QED  BY <2>2, <2>3, <2>4, <2>5 DEF Kinds
<1>6. \/ j.escs = i.escs /\ j.ticks \in {i.ticks, 0}
      \/ proc[p].trig = "heartbeat"
    BY <1>1, <1>2, <1>4 DEF Due
<1>7. FitsOf(p, r, j, moves')
    BY <1>1, <1>2, <1>3, CalmFits DEF FitsOf
<1>8. TicksOf(j, moves')
    BY <1>2, <1>5
<1> QED  BY <1>1, <1>2, <1>6, <1>7, <1>8, MovesStay, StepFits DEF Typed

(* The reviewer: a spawn or a kick is for a revision.                        *)
LEMMA ChainFits ==
    ASSUME Typed, Fits, NEW p \in Procs, Spawn(p) \/ CheckKick(p) \/ Kick(p) \/ NoChain(p)
    PROVE  Typed' /\ Fits'
<1>1. UNCHANGED <<world, row, parent, told, moves>>
    BY DEF Spawn, CheckKick, Kick, NoChain
<1>2. PICK c \in Children, n \in 0..MaxRev : c = proc[p].c /\ n = proc[p].act.rev
    BY ProcessIs, ActionIs
<1>3. reviewer' \in [Children -> Reviewer]
    <2>1. PICK v \in Reviewer : v = reviewer[c]
        BY DEF Typed
    <2>2. CASE Spawn(p)
        <3> DEFINE w == [[v EXCEPT !.exists = TRUE] EXCEPT !.asked = v.asked \cup {n}]
        <3>1. n \in Revs
            BY <1>2, <2>2 DEF Spawn, Revs
        <3>2. w \in Reviewer
            BY <3>1 DEF Reviewer
        <3>3. reviewer' = reviewer \/ reviewer' = [reviewer EXCEPT ![c] = w]
            BY <1>2, <2>1, <2>2 DEF Spawn, Typed
        <3> HIDE DEF w
        <3> QED  BY <3>2, <3>3 DEF Typed
    <2>3. CASE Kick(p)
        <3> DEFINE kicks == [v.kicks EXCEPT ![n] = v.kicks[n] + 1]
                   w == [[v EXCEPT !.kicks = kicks] EXCEPT !.asked = v.asked \cup {n}]
        <3>1. n \in Revs
            BY <1>2, <2>3 DEF Kick, Revs, Fits, FitsOf, At
        <3>2. kicks \in [Revs -> Nat]
            BY <3>1 DEF Reviewer
        <3> HIDE DEF kicks
        <3>3. w \in Reviewer
            BY <3>1, <3>2 DEF Reviewer
        <3>4. reviewer' = [reviewer EXCEPT ![c] = w]
            BY <1>2, <2>1, <2>3 DEF Kick, Typed, kicks
        <3> HIDE DEF w
        <3> QED  BY <3>3, <3>4 DEF Typed
    <2>4. CASE CheckKick(p) \/ NoChain(p)
        BY <2>4 DEF CheckKick, NoChain, Typed
    <2> QED  BY <2>2, <2>3, <2>4
<1>4. Fits' /\ proc' \in [Procs -> Process]
    <2>1. CASE End(p)
        BY <1>1, <2>1, MovesStay, EndFits
    <2>2. CASE ~End(p)
        <3>1. At(p, "chain") /\ Go(p, "kick") /\ n # 0
            BY <1>2, <2>2 DEF Spawn, CheckKick, Kick, NoChain
        <3>2. PICK r \in Process :
                  /\ r = [proc[p] EXCEPT !.pc = "kick"] /\ r.pc = "kick" /\ r.c = proc[p].c
                  /\ r.trig = proc[p].trig /\ r.act = proc[p].act
            BY GoIs DEF Steps
        <3>3. FitsOf(p, proc[p], row[c], moves)
            BY <1>2 DEF Fits
        <3>4. /\ p \in Children => r.c = p
              /\ r.trig # "manual" => p \in Children
              /\ r.pc = "kick" /\ r.act.rev # 0
            BY <1>2, <3>1, <3>2, <3>3 DEF FitsOf
        <3>5. FitsOf(p, r, row[r.c], moves')
            BY <3>4, CalmFits
        <3> QED  BY <1>1, <3>1, <3>2, <3>5, MovesStay, ProcFits DEF Go
    <2> QED  BY <2>1, <2>2
<1> QED  BY <1>1, <1>3, <1>4 DEF Typed

LEMMA ConfirmIs ==
    ASSUME Typed, Fits, NEW p \in Procs, Confirm(p)
    PROVE  /\ At(p, "confirm") /\ UNCHANGED <<world, row, parent, told, reviewer, moves>>
           /\ proc[p].op = "finalize"
           /\ \/ End(p)
              \/ \E r \in Process :
                     /\ Become(p, r) /\ r.pc = "finish" /\ r.c = proc[p].c /\ r.op = proc[p].op
                     /\ r.trig = proc[p].trig /\ r.seen = proc[p].seen /\ r.alone = proc[p].alone
                     /\ r.act.rev = row[proc[p].c].obs.rev
<1>1. At(p, "confirm") /\ UNCHANGED <<world, row, parent, told, reviewer, moves>>
    BY DEF Confirm
<1>2. proc[p].op = "finalize"
    BY <1>1 DEF Fits, FitsOf, At
<1>3. PICK u \in Process, n \in 0..MaxRev : u = proc[p] /\ n = row[proc[p].c].obs.rev
    BY ProcessIs, FactsIs
<1> DEFINE b == [u.act EXCEPT !.rev = n]
           r == [[u EXCEPT !.pc = "finish"] EXCEPT !.act = b]
<1>4. b \in Actions /\ b.rev = n
    BY DEF Process, Actions
<1>5. End(p) \/ Become(p, r)
    BY <1>3 DEF Confirm, Process
<1> HIDE DEF b
<1>6. /\ r \in Process /\ r.pc = "finish" /\ r.c = u.c /\ r.op = u.op /\ r.trig = u.trig
      /\ r.seen = u.seen /\ r.alone = u.alone /\ r.act = b
    BY <1>4 DEF Process, Steps
<1> HIDE DEF r
<1> QED  BY <1>1, <1>2, <1>3, <1>4, <1>5, <1>6

LEMMA ConfirmFits == ASSUME Typed, Fits, NEW p \in Procs, Confirm(p) PROVE Typed' /\ Fits'
<1>1. UNCHANGED <<world, row, parent, told, reviewer, moves>> /\ At(p, "confirm")
    BY DEF Confirm
<1>2. CASE End(p)
    BY <1>1, <1>2, MovesStay, EndFits DEF Typed
<1>3. ASSUME NEW r \in Process, Become(p, r), r.pc = "finish", r.c = proc[p].c, r.op = proc[p].op,
             r.trig = proc[p].trig
      PROVE  Typed' /\ Fits'
    <2>1. FitsOf(p, proc[p], row[r.c], moves)
        BY <1>3 DEF Fits
    <2>2. FitsOf(p, r, row[r.c], moves')
        BY <1>1, <1>3, <2>1 DEF FitsOf, AtTick, At
    <2> QED  BY <1>1, <1>3, <2>2, MovesStay, ProcFits DEF Typed
<1> QED  BY <1>2, <1>3, ConfirmIs

LEMMA FinishFits == ASSUME Typed, Fits, NEW p \in Procs, Finish(p) PROVE Typed' /\ Fits'
<1>1. UNCHANGED <<world, parent, told, reviewer, moves>> /\ End(p)
    BY DEF Finish
<1>2. PICK i \in Instance, n \in 0..MaxRev : i = row[proc[p].c] /\ n = proc[p].act.rev
    BY ProcessIs, ActionIs
<1> DEFINE j == [i EXCEPT !.final = n]
<1>3. j \in Instance /\ j.obs = i.obs /\ j.escs = i.escs /\ j.ticks = i.ticks
    BY DEF Instance
<1>4. row' = [row EXCEPT ![proc[p].c] = j]
    BY <1>2 DEF Finish
<1> HIDE DEF j
<1>5. TicksOf(j, moves')
    <2>1. TicksOf(i, moves)
        BY <1>2, ProcessIs DEF Fits
    <2> QED  BY <1>1, <1>3, <2>1 DEF TicksOf
<1>6. PICK r \in Process : /\ r = Resting(p) /\ r.pc = "idle" /\ r.trig = "manual"
                           /\ (p \in Children => r.c = p)
    BY RestingIs
<1>7. Become(p, r)
    BY <1>1, <1>6 DEF End
<1>8. FitsOf(p, r, j, moves') /\ FitsOf(p, r, row[r.c], moves')
    BY <1>6, CalmFits
<1>9. j.ticks \in {row[proc[p].c].ticks, 0} /\ j.escs = row[proc[p].c].escs /\ j.obs = row[proc[p].c].obs
    BY <1>2, <1>3
<1> QED  BY <1>1, <1>3, <1>4, <1>5, <1>7, <1>8, <1>9, MovesStay, StepFits DEF Typed

LEMMA BeginFits ==
    ASSUME Typed, Fits, NEW c \in Children,
           \/ HeartbeatTick(c) \/ EventTick(c)
           \/ \E p \in Clis : ManualTick(p, c) \/ FinalizeTask(p, c)
    PROVE  Typed' /\ Fits'
<1>1. CASE HeartbeatTick(c)
    <2> DEFINE trig == IF row[c].escs < MaxEscs THEN "heartbeat" ELSE "manual"
    <2>1. Begin(c, c, "tick", trig) /\ moves' \in 0..MaxMoves /\ moves <= moves'
        BY <1>1, MovesStay DEF HeartbeatTick
    <2>2. trig \in Triggers /\ (trig = "heartbeat" => row[c].escs < MaxEscs)
        BY DEF Triggers
    <2> HIDE DEF trig
    <2> QED  BY <2>1, <2>2, BeginIs, Finite
<1>2. CASE EventTick(c)
    <2>1. Begin(c, c, "tick", "event") /\ moves' \in 0..MaxMoves /\ moves <= moves' /\ "event" \in Triggers
        BY <1>2, CountedIs DEF EventTick, Triggers
    <2> QED  BY <2>1, BeginIs, Finite
<1>3. ASSUME NEW p \in Clis, ManualTick(p, c) \/ FinalizeTask(p, c)
      PROVE  Typed' /\ Fits'
    <2>1. PICK op \in {"tick", "finalize"} : Begin(p, c, op, "manual")
        BY <1>3 DEF ManualTick, FinalizeTask
    <2>2. moves' \in 0..MaxMoves /\ moves <= moves' /\ "manual" \in Triggers
        BY <1>3, CountedIs DEF ManualTick, FinalizeTask, Triggers
    <2>3. p \in Procs /\ p \notin Children
        BY Finite
    <2> QED  BY <2>1, <2>2, <2>3, BeginIs
<1> QED  BY <1>1, <1>2, <1>3

LEMMA NextFits == Typed /\ Fits /\ [Next]_vars => Typed' /\ Fits'
<1> SUFFICES ASSUME Typed, Fits, [Next]_vars PROVE Typed' /\ Fits'
    OBVIOUS
<1>1. ASSUME NEW c \in Children, Change(c) \/ RecordJudge(c) PROVE Typed' /\ Fits'
    BY <1>1, ChangeFits, RecordJudgeFits
<1>2. ASSUME NEW p \in Procs, Fails(p) \/ ReadFails(p) PROVE Typed' /\ Fits'
    BY <1>2, FailsFits, ReadFailsFits
<1>3. ASSUME NEW p \in Procs, Step(p) PROVE Typed' /\ Fits'
    BY <1>3, ReadResourceFits, PersistObservedFits, EvaluateFits, PublishFits, PushFits, AppendFits,
       PersistActionFits, ChainFits, ConfirmFits, FinishFits DEF Step
<1>4. CASE UNCHANGED vars
    BY <1>4 DEF vars, Typed, Fits, FitsOf, TicksOf, Due
<1> QED  BY <1>1, <1>2, <1>3, <1>4, BeginFits DEF Next
-------------------------------------------------------------------------------
(* Where a step takes its process.                                           *)
LEMMA Becomes ==
    ASSUME Typed, NEW p \in Procs, NEW r, Become(p, r)
    PROVE  proc'[p] = r /\ \A q \in Procs \ {p} : proc'[q] = proc[q]
BY DEF Typed, Become

LEMMA Goes ==
    ASSUME Typed, NEW p \in Procs, NEW pc \in Steps, Go(p, pc)
    PROVE  /\ proc'[p].pc = pc /\ proc'[p].op = proc[p].op /\ proc'[p].c = proc[p].c
           /\ proc'[p].act = proc[p].act /\ proc'[p].seen = proc[p].seen
           /\ proc'[p].alone = proc[p].alone /\ \A q \in Procs \ {p} : proc'[q] = proc[q]
<1>1. PICK r \in Process :
          /\ r = [proc[p] EXCEPT !.pc = pc] /\ r.pc = pc /\ r.op = proc[p].op /\ r.c = proc[p].c
          /\ r.seen = proc[p].seen /\ r.act = proc[p].act /\ r.alone = proc[p].alone
    BY GoIs
<1> QED  BY <1>1, Becomes DEF Go

LEMMA Ends ==
    ASSUME Typed, NEW p \in Procs, End(p)
    PROVE  proc'[p].pc = "idle" /\ proc'[p].op = "tick" /\ \A q \in Procs \ {p} : proc'[q] = proc[q]
BY Becomes, RestingIs DEF End

LEMMA WhereTo ==
    ASSUME Typed, Fits, NEW p \in Procs, Step(p) \/ Fails(p) \/ ReadFails(p)
    PROVE  /\ \A q \in Procs \ {p} : proc'[q] = proc[q]
           /\ proc'[p].pc = "append" => Push(p)
           /\ proc'[p].pc = "kick" => CheckKick(p)
           /\ proc'[p].pc = "persist" => Publish(p) \/ Push(p) \/ AppendTerminal(p)
           /\ proc'[p].pc = "push" => Publish(p)
           /\ proc'[p].pc = "publish" => Evaluate(p)
           /\ proc'[p].pc \in {"chain", "eval"} => proc'[p].op = "tick"
           /\ proc'[p].pc = "idle" => proc'[p].op = "tick"
           /\ parent' = parent \/ AppendTerminal(p)
           /\ row' = row \/ PersistObserved(p) \/ PersistAction(p) \/ Finish(p)
           /\ \A c \in Children : reviewer'[c].kicks = reviewer[c].kicks \/ Kick(p)
<1> DEFINE Goal ==
           /\ \A q \in Procs \ {p} : proc'[q] = proc[q]
           /\ proc'[p].pc = "append" => Push(p)
           /\ proc'[p].pc = "kick" => CheckKick(p)
           /\ proc'[p].pc = "persist" => Publish(p) \/ Push(p) \/ AppendTerminal(p)
           /\ proc'[p].pc = "push" => Publish(p)
           /\ proc'[p].pc = "publish" => Evaluate(p)
           /\ proc'[p].pc \in {"chain", "eval"} => proc'[p].op = "tick"
           /\ proc'[p].pc = "idle" => proc'[p].op = "tick"
<1>1. ASSUME Fails(p) \/ NoChain(p) \/ Spawn(p) \/ Kick(p) \/ Finish(p) PROVE Goal
    BY <1>1, Ends DEF Fails, NoChain, Spawn, Kick, Finish
<1>2. ASSUME ReadFails(p) PROVE Goal
    <2>1. Go(p, "eval") /\ "eval" \in Steps /\ proc[p].op = "tick"
        BY <1>2 DEF ReadFails, Steps
    <2> QED  BY <2>1, Goes
<1>3. ASSUME ReadResource(p) PROVE Goal
    <2> DEFINE w == world[proc[p].c]
               r == [[proc[p] EXCEPT !.pc = "save"] EXCEPT !.seen = w]
    <2>1. Become(p, r)
        BY <1>3 DEF ReadResource
    <2>2. r.pc = "save"
        BY ProcessIs DEF Process
    <2> HIDE DEF r
    <2> QED  BY <2>1, <2>2, Becomes
<1>4. ASSUME PersistObserved(p) PROVE Goal
    <2>1. PICK r \in Process : /\ Become(p, r) /\ r.op = proc[p].op
                               /\ r.pc = (IF proc[p].op = "tick" THEN "eval" ELSE "confirm")
        BY <1>4, PersistObservedIs
    <2> QED  BY <2>1, Becomes
<1>5. ASSUME Evaluate(p) PROVE Goal
    <2>1. PICK r \in Process : Become(p, r) /\ r.pc = "publish"
        BY <1>5, EvaluateIs
    <2> QED  BY <1>5, <2>1, Becomes
<1>6. ASSUME Publish(p) PROVE Goal
    <2>1. Go(p, "push") \/ Go(p, "persist")
        BY <1>6 DEF Publish
    <2>2. "push" \in Steps /\ "persist" \in Steps
        BY DEF Steps
    <2> QED  BY <1>6, <2>1, <2>2, Goes
<1>7. ASSUME Push(p) PROVE Goal
    <2>1. Go(p, "append") \/ Go(p, "persist")
        BY <1>7 DEF Push
    <2>2. "append" \in Steps /\ "persist" \in Steps
        BY DEF Steps
    <2> QED  BY <1>7, <2>1, <2>2, Goes
<1>8. ASSUME AppendTerminal(p) PROVE Goal
    <2>1. Go(p, "persist") /\ "persist" \in Steps
        BY <1>8 DEF AppendTerminal, Steps
    <2> QED  BY <1>8, <2>1, Goes
<1>9. ASSUME PersistAction(p) PROVE Goal
    <2>1. PICK r \in Process : Become(p, r) /\ r.pc = "chain" /\ r.op = "tick"
        BY <1>9, PersistActionIs
    <2> QED  BY <2>1, Becomes
<1>10. ASSUME CheckKick(p) PROVE Goal
    <2>1. End(p) \/ (Go(p, "kick") /\ "kick" \in Steps)
        BY <1>10 DEF CheckKick, Steps
    <2> QED  BY <1>10, <2>1, Ends, Goes
<1>11. ASSUME Confirm(p) PROVE Goal
    <2>1. End(p) \/ \E r \in Process : Become(p, r) /\ r.pc = "finish"
        BY <1>11, ConfirmIs
    <2> QED  BY <2>1, Ends, Becomes
<1>12. Goal
    BY <1>1, <1>2, <1>3, <1>4, <1>5, <1>6, <1>7, <1>8, <1>9, <1>10, <1>11 DEF Step
<1>13. parent' = parent \/ AppendTerminal(p)
    BY DEF Step, Fails, ReadFails, ReadResource, PersistObserved, Evaluate, Publish, Push, PersistAction,
           Spawn, CheckKick, Kick, NoChain, Confirm, Finish
<1>14. row' = row \/ PersistObserved(p) \/ PersistAction(p) \/ Finish(p)
    BY DEF Step, Fails, ReadFails, ReadResource, Evaluate, Publish, Push, AppendTerminal,
           Spawn, CheckKick, Kick, NoChain, Confirm
<1>15. ASSUME NEW c \in Children, ~Kick(p)
       PROVE  reviewer'[c].kicks = reviewer[c].kicks
    <2>1. CASE Spawn(p)
        <3>1. PICK d \in Children, v \in Reviewer : d = proc[p].c /\ v = reviewer[d]
            BY ProcessIs DEF Typed
        <3> DEFINE n == proc[p].act.rev
        <3> DEFINE w == [[v EXCEPT !.exists = TRUE] EXCEPT !.asked = v.asked \cup {n}]
        <3>2. reviewer' = reviewer \/ reviewer' = [reviewer EXCEPT ![d] = w]
            BY <2>1, <3>1 DEF Spawn, Typed
        <3>3. w.kicks = v.kicks
            BY DEF Reviewer
        <3> HIDE DEF w, n
        <3> QED  BY <3>1, <3>2, <3>3 DEF Typed
    <2>2. CASE ~Spawn(p)
        BY <1>15, <2>2 DEF Step, Fails, ReadFails, ReadResource, PersistObserved, Evaluate, Publish, Push,
           AppendTerminal, PersistAction, CheckKick, NoChain, Confirm, Finish
    <2> QED  BY <2>1, <2>2
<1> QED  BY <1>12, <1>13, <1>14, <1>15
-------------------------------------------------------------------------------
(* How often a thing is said.                                                *)
LEMMA SayingIs ==
    ASSUME Typed, Fits, NEW k
    PROVE  /\ Saying(k) \subseteq Procs /\ IsFiniteSet(Saying(k)) /\ Cardinality(Saying(k)) \in Nat
           /\ k \in Keys => /\ Saying(k) \subseteq Sayers(k) /\ IsFiniteSet(Sayers(k))
                            /\ Cardinality(Sayers(k)) \in Nat
                            /\ Cardinality(Saying(k)) <= Cardinality(Sayers(k))
<1>1. Saying(k) \subseteq Procs /\ IsFiniteSet(Saying(k)) /\ Cardinality(Saying(k)) \in Nat
    <2>1. Saying(k) \subseteq Procs
        BY DEF Saying
    <2> QED  BY <2>1, Finite, FS_Subset, FS_CardinalityType
<1>2. ASSUME k \in Keys
      PROVE  Saying(k) \subseteq Sayers(k) /\ IsFiniteSet(Sayers(k))
    <2>1. CASE Judged
        <3>1. ASSUME NEW q \in Saying(k) PROVE q \in Clis \cup {k[2].who}
            <4>1. q \in Procs /\ proc[q].pc = "append" /\ Key(proc[q].c, proc[q].act) = k
                BY DEF Saying, At
            <4>2. k[2].who = proc[q].c
                BY <2>1, <4>1, KeyIs
            <4>3. q \in Children => proc[q].c = q
                BY <4>1 DEF Fits, FitsOf
            <4> QED  BY <4>1, <4>2, <4>3 DEF Procs
        <3>2. IsFiniteSet(Clis \cup {k[2].who})
            BY Finite, FS_AddElement
        <3> QED  BY <2>1, <3>1, <3>2 DEF Sayers
    <2>2. CASE ~Judged
        BY <1>1, <2>2, Finite DEF Sayers
    <2> QED  BY <2>1, <2>2
<1> QED  BY <1>1, <1>2, FS_Subset, FS_CardinalityType

(* Nothing is appended, and nobody new is about to append a key with copies. *)
LEMMA CopiesQuiet ==
    ASSUME Typed, Fits, CopiesCounted, parent' = parent,
           \A q \in Procs : proc'[q].pc = "append" =>
               \/ Copies(Key(proc'[q].c, proc'[q].act)) = {}
               \/ /\ proc[q].pc = "append"
                  /\ proc'[q].c = proc[q].c /\ proc'[q].act = proc[q].act
    PROVE  CopiesCounted'
<1>1. ASSUME NEW k PROVE Copies(k)' = Copies(k)
    BY DEF Copies
<1>2. ASSUME NEW k \in Keys, Copies(k) # {}
      PROVE  Cardinality(Copies(k)) + Cardinality(Saying(k)') <= Cardinality(Sayers(k))
    <2>1. Saying(k)' \subseteq Saying(k)
        BY <1>2 DEF Saying, At
    <2>2. Cardinality(Saying(k)') <= Cardinality(Saying(k)) /\ Cardinality(Saying(k)') \in Nat
        BY <2>1, SayingIs, FS_Subset, FS_CardinalityType
    <2>3. Cardinality(Copies(k)) + Cardinality(Saying(k)) <= Cardinality(Sayers(k))
        BY <1>2 DEF CopiesCounted
    <2>4. /\ Cardinality(Copies(k)) \in Nat /\ Cardinality(Saying(k)) \in Nat
          /\ Cardinality(Sayers(k)) \in Nat
        BY CopiesFinite, SayingIs
    <2> QED  BY <2>2, <2>3, <2>4
<1>3. \A e \in parent : /\ e.copy <= Cardinality(Copies(e.key))
                        /\ Judged => e.key[2].who = e.from
    BY DEF CopiesCounted
<1> QED  BY <1>1, <1>2, <1>3 DEF CopiesCounted, Sayers

LEMMA CopiesAppended ==
    ASSUME Typed, Fits, CopiesCounted, NEW p \in Procs, AppendTerminal(p)
    PROVE  CopiesCounted'
<1>0. PICK k0, e0 : k0 = Key(proc[p].c, proc[p].act) /\ e0 = NewEvent(p)
    OBVIOUS
<1>1. /\ At(p, "append") /\ Go(p, "persist") /\ parent' = parent \cup {e0} /\ e0 \in Event
    BY <1>0, AppendIs
<1>2. /\ e0.key = k0 /\ e0.from = proc[p].c /\ e0.copy = Cardinality(Copies(k0)) + 1
    BY <1>0 DEF NewEvent
<1>3. k0 \in Keys /\ (Judged => k0[2].who = proc[p].c)
    BY <1>0, <1>1, KeyIs DEF At
<1>4. e0 \notin parent
    <2>1. e0 \in parent => e0.copy <= Cardinality(Copies(k0))
        BY <1>2 DEF CopiesCounted
    <2>2. Cardinality(Copies(k0)) \in Nat
        BY CopiesFinite
    <2> QED  BY <1>2, <2>1, <2>2
<1>5. p \in Saying(k0)
    BY <1>0, <1>1 DEF Saying
<1>6. proc'[p].pc = "persist" /\ \A q \in Procs \ {p} : proc'[q] = proc[q]
    BY <1>1, Goes DEF Steps
<1>7. ASSUME NEW k
      PROVE  Copies(k)' = IF k = k0 THEN Copies(k) \cup {e0} ELSE Copies(k)
    BY <1>1, <1>2 DEF Copies
<1>8. ASSUME NEW k PROVE Saying(k)' \subseteq Saying(k) \ {p}
    BY <1>6 DEF Saying, At
<1>9. Cardinality(Copies(k0)') = Cardinality(Copies(k0)) + 1
    <2>1. e0 \notin Copies(k0)
        BY <1>4 DEF Copies
    <2>2. Copies(k0) \cup {e0} = Copies(k0)'
        BY <1>7
    <2> QED  BY <2>1, <2>2, CopiesFinite, FS_AddElement
<1>10. ASSUME NEW k PROVE Cardinality(Saying(k)') \in Nat /\ Cardinality(Saying(k)') <= Cardinality(Saying(k))
    BY <1>8, SayingIs, FS_Subset, FS_CardinalityType
<1>11. Cardinality(Saying(k0)') + 1 <= Cardinality(Saying(k0))
    <2>1. IsFiniteSet(Saying(k0) \ {p}) /\ Cardinality(Saying(k0) \ {p}) = Cardinality(Saying(k0)) - 1
        BY <1>5, SayingIs, FS_RemoveElement
    <2>2. Cardinality(Saying(k0)') <= Cardinality(Saying(k0) \ {p})
        BY <1>8, <2>1, FS_Subset
    <2> QED  BY <1>10, <2>1, <2>2, SayingIs
<1>12. ASSUME NEW k \in Keys, Copies(k)' # {}
       PROVE  Cardinality(Copies(k)') + Cardinality(Saying(k)') <= Cardinality(Sayers(k))
    <2>1. /\ Cardinality(Copies(k)) \in Nat /\ Cardinality(Saying(k)) \in Nat
          /\ Cardinality(Sayers(k)) \in Nat /\ Cardinality(Saying(k)) <= Cardinality(Sayers(k))
          /\ Cardinality(Saying(k)') \in Nat
        BY <1>10, CopiesFinite, SayingIs
    <2>2. Copies(k) # {} => Cardinality(Copies(k)) + Cardinality(Saying(k)) <= Cardinality(Sayers(k))
        BY DEF CopiesCounted
    <2>3. CASE k = k0 /\ Copies(k) # {}
        <3>1. Cardinality(Copies(k)') = Cardinality(Copies(k)) + 1
            BY <1>9, <2>3
        <3>2. Cardinality(Saying(k)') + 1 <= Cardinality(Saying(k))
            BY <1>11, <2>3
        <3> QED  BY <2>1, <2>2, <2>3, <3>1, <3>2
    <2>4. CASE k = k0 /\ Copies(k) = {}
        <3>1. Cardinality(Copies(k)') = 1
            BY <1>9, <2>4, FS_EmptySet
        <3>2. Cardinality(Saying(k)') + 1 <= Cardinality(Saying(k))
            BY <1>11, <2>4
        <3> QED  BY <2>1, <3>1, <3>2
    <2>5. CASE k # k0
        <3>1. Copies(k)' = Copies(k)
            BY <1>7, <2>5
        <3>2. Cardinality(Saying(k)') <= Cardinality(Saying(k))
            BY <1>10
        <3> QED  BY <1>12, <2>1, <2>2, <3>1, <3>2
    <2> QED  BY <2>3, <2>4, <2>5
<1>13. ASSUME NEW e \in parent'
       PROVE  e.copy <= Cardinality(Copies(e.key)') /\ (Judged => e.key[2].who = e.from)
    <2>1. CASE e = e0
        <3>1. Cardinality(Copies(e0.key)') = Cardinality(Copies(k0)) + 1
            BY <1>2, <1>9
        <3>2. Cardinality(Copies(k0)) \in Nat
            BY CopiesFinite
        <3>3. e0.copy <= Cardinality(Copies(e0.key)')
            BY <1>2, <3>1, <3>2
        <3> QED  BY <1>2, <1>3, <2>1, <3>3
    <2>2. CASE e \in parent
        <3>1. e.copy <= Cardinality(Copies(e.key)) /\ (Judged => e.key[2].who = e.from) /\ e.copy \in Nat
            BY <2>2 DEF CopiesCounted, Typed, Event
        <3>2. PICK k : k = e.key
            OBVIOUS
        <3>3. Cardinality(Copies(k)) \in Nat
            BY CopiesFinite
        <3>4. \/ Cardinality(Copies(k)') = Cardinality(Copies(k))
              \/ Cardinality(Copies(k)') = Cardinality(Copies(k)) + 1
            BY <1>7, <1>9
        <3>5. e.copy <= Cardinality(Copies(k)')
            BY <3>1, <3>2, <3>3, <3>4
        <3> QED  BY <3>1, <3>2, <3>5
    <2> QED  BY <1>1, <2>1, <2>2
<1> QED  BY <1>12, <1>13 DEF CopiesCounted, Sayers

(* The steps that begin, and those of the world, leave what is under way.    *)
LEMMA OutsideIs ==
    ASSUME Typed, Fits, NEW c \in Children,
           \/ Change(c) \/ RecordJudge(c) \/ HeartbeatTick(c) \/ EventTick(c)
           \/ \E p \in Clis : ManualTick(p, c) \/ FinalizeTask(p, c)
    PROVE  /\ UNCHANGED <<parent, reviewer>>
           /\ \A q \in Procs : proc'[q].pc \notin {"idle", "read"} =>
                  /\ proc'[q].pc = proc[q].pc /\ proc'[q].c = proc[q].c /\ proc'[q].act = proc[q].act
<1>1. CASE Change(c) \/ RecordJudge(c)
    BY <1>1 DEF Change, RecordJudge
<1>2. ASSUME NEW p \in Procs, NEW op \in {"tick", "finalize"}, NEW trig \in Triggers,
             Begin(p, c, op, trig), p \in Children => c = p, trig # "manual" => p \in Children,
             trig = "heartbeat" => row[c].escs < MaxEscs, moves' \in 0..MaxMoves, moves <= moves'
      PROVE  /\ UNCHANGED <<parent, reviewer>>
             /\ \A q \in Procs : proc'[q].pc \notin {"idle", "read"} =>
                  /\ proc'[q].pc = proc[q].pc /\ proc'[q].c = proc[q].c /\ proc'[q].act = proc[q].act
    <2>1. UNCHANGED <<parent, reviewer>>
        BY <1>2 DEF Begin
    <2>2. proc'[p].pc = "read"
        BY <1>2, BeginIs
    <2>3. \A q \in Procs \ {p} :
              proc'[q].pc = proc[q].pc /\ proc'[q].c = proc[q].c /\ proc'[q].act = proc[q].act
        BY <1>2, BeginIs
    <2> QED  BY <2>1, <2>2, <2>3
<1>3. CASE HeartbeatTick(c)
    <2> DEFINE trig == IF row[c].escs < MaxEscs THEN "heartbeat" ELSE "manual"
    <2>1. Begin(c, c, "tick", trig) /\ moves' \in 0..MaxMoves /\ moves <= moves'
        BY <1>3, MovesStay DEF HeartbeatTick
    <2>2. trig \in Triggers /\ (trig = "heartbeat" => row[c].escs < MaxEscs)
        BY DEF Triggers
    <2> HIDE DEF trig
    <2> QED  BY <1>2, <2>1, <2>2, Finite
<1>4. CASE EventTick(c)
    <2>1. Begin(c, c, "tick", "event") /\ moves' \in 0..MaxMoves /\ moves <= moves' /\ "event" \in Triggers
        BY <1>4, CountedIs DEF EventTick, Triggers
    <2> QED  BY <1>2, <2>1, Finite
<1>5. CASE \E p \in Clis : ManualTick(p, c) \/ FinalizeTask(p, c)
    <2>1. PICK p \in Clis, op \in {"tick", "finalize"} : Begin(p, c, op, "manual") /\ Counted
        BY <1>5 DEF ManualTick, FinalizeTask
    <2>2. moves' \in 0..MaxMoves /\ moves <= moves' /\ "manual" \in Triggers
        BY <2>1, CountedIs DEF Triggers
    <2>3. p \in Procs /\ p \notin Children
        BY Finite
    <2> QED  BY <1>2, <2>1, <2>2, <2>3
<1> QED  BY <1>1, <1>3, <1>4, <1>5

LEMMA NextCopies == Typed /\ Fits /\ CopiesCounted /\ [Next]_vars => CopiesCounted'
<1> SUFFICES ASSUME Typed, Fits, CopiesCounted, [Next]_vars PROVE CopiesCounted'
    OBVIOUS
<1>1. ASSUME NEW c \in Children,
             \/ Change(c) \/ RecordJudge(c) \/ HeartbeatTick(c) \/ EventTick(c)
             \/ \E p \in Clis : ManualTick(p, c) \/ FinalizeTask(p, c)
      PROVE  CopiesCounted'
    <2>1. /\ parent' = parent
          /\ \A q \in Procs : proc'[q].pc = "append" =>
                  /\ proc'[q].pc = proc[q].pc /\ proc'[q].c = proc[q].c /\ proc'[q].act = proc[q].act
        BY <1>1, OutsideIs
    <2> QED  BY <2>1, CopiesQuiet
<1>2. ASSUME NEW p \in Procs, Step(p) \/ Fails(p) \/ ReadFails(p)
      PROVE  CopiesCounted'
    <2>1. CASE AppendTerminal(p)
        BY <2>1, CopiesAppended
    <2>2. CASE ~AppendTerminal(p)
        <3>1. parent' = parent /\ \A q \in Procs \ {p} : proc'[q] = proc[q]
            BY <1>2, <2>2, WhereTo
        <3>2. proc'[p].pc = "append" => Copies(Key(proc'[p].c, proc'[p].act)) = {}
            <4>1. SUFFICES ASSUME proc'[p].pc = "append"
                           PROVE  Copies(Key(proc'[p].c, proc'[p].act)) = {}
                OBVIOUS
            <4>2. Push(p)
                BY <1>2, <4>1, WhereTo
            <4>3. CASE Copies(Key(proc[p].c, proc[p].act)) # {}
                <5>1. Go(p, "persist") /\ "persist" \in Steps
                    BY <4>2, <4>3 DEF Push, Steps
                <5> QED  BY <4>1, <5>1, Goes
            <4>4. CASE Copies(Key(proc[p].c, proc[p].act)) = {}
                <5>1. Go(p, "append") /\ "append" \in Steps
                    BY <4>2, <4>4 DEF Push, Steps
                <5> QED  BY <4>4, <5>1, Goes
            <4> QED  BY <4>3, <4>4
        <3> QED  BY <3>1, <3>2, CopiesQuiet
    <2> QED  BY <2>1, <2>2
<1>3. CASE UNCHANGED vars
    BY <1>3, CopiesQuiet DEF vars
<1> QED  BY <1>1, <1>2, <1>3 DEF Next

(* The same for the kicks.                                                   *)
LEMMA KickingIs ==
    ASSUME Typed, Fits, NEW c \in Children, NEW n \in Revs
    PROVE  /\ Kicking(c, n) \subseteq Clis \cup {c} /\ IsFiniteSet(Kicking(c, n))
           /\ Cardinality(Kicking(c, n)) \in Nat /\ Cardinality(Clis \cup {c}) \in Nat
           /\ Cardinality(Kicking(c, n)) <= Cardinality(Clis \cup {c})
           /\ reviewer[c].kicks[n] \in Nat
<1>1. Kicking(c, n) \subseteq Clis \cup {c}
    BY DEF Kicking, Fits, FitsOf, Procs
<1>2. reviewer[c].kicks[n] \in Nat
    BY DEF Typed, Reviewer
<1> QED  BY <1>1, <1>2, Finite, FS_Subset, FS_CardinalityType

LEMMA KicksQuiet ==
    ASSUME Typed, Fits, KicksCounted, \A c \in Children : reviewer'[c].kicks = reviewer[c].kicks,
           \A q \in Procs : proc'[q].pc = "kick" =>
               \/ ~Kicked(proc'[q].c, proc'[q].act.rev)
               \/ /\ proc[q].pc = "kick"
                  /\ proc'[q].c = proc[q].c /\ proc'[q].act = proc[q].act
    PROVE  KicksCounted'
<1>1. ASSUME NEW c \in Children, NEW n \in Revs, Kicked(c, n)'
      PROVE  reviewer'[c].kicks[n] + Cardinality(Kicking(c, n)') <= Cardinality(Clis \cup {c})
    <2>1. Kicked(c, n) /\ reviewer'[c].kicks[n] = reviewer[c].kicks[n]
        BY <1>1 DEF Kicked
    <2>2. Kicking(c, n)' \subseteq Kicking(c, n)
        BY <2>1 DEF Kicking, At
    <2>3. Cardinality(Kicking(c, n)') <= Cardinality(Kicking(c, n)) /\ Cardinality(Kicking(c, n)') \in Nat
        BY <2>2, KickingIs, FS_Subset, FS_CardinalityType
    <2>4. reviewer[c].kicks[n] + Cardinality(Kicking(c, n)) <= Cardinality(Clis \cup {c})
        BY <2>1 DEF KicksCounted
    <2>5. /\ reviewer[c].kicks[n] \in Nat /\ Cardinality(Kicking(c, n)) \in Nat
          /\ Cardinality(Clis \cup {c}) \in Nat
        BY KickingIs
    <2> QED  BY <2>1, <2>3, <2>4, <2>5
<1> QED  BY <1>1 DEF KicksCounted

LEMMA KicksMore ==
    ASSUME Typed, Fits, KicksCounted, NEW p \in Procs, Kick(p)
    PROVE  KicksCounted'
<1>1. PICK c0 \in Children, n0 \in Revs, v \in Reviewer :
          c0 = proc[p].c /\ n0 = proc[p].act.rev /\ v = reviewer[c0] /\ proc[p].pc = "kick"
    <2>1. proc[p].act.rev \in 0..MaxRev /\ proc[p].c \in Children
        BY ProcessIs, ActionIs
    <2>2. proc[p].act.rev # 0 /\ proc[p].pc = "kick"
        BY DEF Kick, At, Fits, FitsOf
    <2> QED  BY <2>1, <2>2 DEF Revs, Typed
<1> DEFINE kicks == [v.kicks EXCEPT ![n0] = v.kicks[n0] + 1]
           w == [[v EXCEPT !.kicks = kicks] EXCEPT !.asked = v.asked \cup {n0}]
<1>2. reviewer' = [reviewer EXCEPT ![c0] = w]
    BY <1>1 DEF Kick, Typed
<1>3. w.kicks = kicks
    BY DEF Reviewer
<1>4. kicks[n0] = v.kicks[n0] + 1 /\ \A n \in Revs \ {n0} : kicks[n] = v.kicks[n]
    BY DEF Reviewer
<1> HIDE DEF w
<1>5. /\ reviewer'[c0].kicks[n0] = reviewer[c0].kicks[n0] + 1
      /\ \A n \in Revs \ {n0} : reviewer'[c0].kicks[n] = reviewer[c0].kicks[n]
      /\ \A c \in Children \ {c0} : reviewer'[c] = reviewer[c]
    BY <1>1, <1>2, <1>3, <1>4 DEF Typed
<1>6. proc'[p].pc = "idle" /\ \A q \in Procs \ {p} : proc'[q] = proc[q]
    BY Ends DEF Kick
<1>7. ASSUME NEW c \in Children, NEW n \in Revs, Kicked(c, n)'
      PROVE  reviewer'[c].kicks[n] + Cardinality(Kicking(c, n)') <= Cardinality(Clis \cup {c})
    <2>1. Kicking(c, n)' \subseteq Kicking(c, n) \ {p}
        BY <1>6 DEF Kicking, At
    <2>2. Cardinality(Kicking(c, n)') <= Cardinality(Kicking(c, n)) /\ Cardinality(Kicking(c, n)') \in Nat
        BY <2>1, KickingIs, FS_Subset, FS_CardinalityType
    <2>3. Kicked(c, n) => reviewer[c].kicks[n] + Cardinality(Kicking(c, n)) <= Cardinality(Clis \cup {c})
        BY DEF KicksCounted
    <2>4. /\ reviewer[c].kicks[n] \in Nat /\ Cardinality(Kicking(c, n)) \in Nat
          /\ Cardinality(Clis \cup {c}) \in Nat /\ Cardinality(Kicking(c, n)) <= Cardinality(Clis \cup {c})
        BY KickingIs
    <2>5. CASE c = c0 /\ n = n0
        <3>1. p \in Kicking(c, n)
            BY <1>1, <2>5 DEF Kicking, At
        <3>2. /\ IsFiniteSet(Kicking(c, n) \ {p})
              /\ Cardinality(Kicking(c, n) \ {p}) = Cardinality(Kicking(c, n)) - 1
            BY <3>1, KickingIs, FS_RemoveElement
        <3>3. Cardinality(Kicking(c, n)') <= Cardinality(Kicking(c, n) \ {p})
            BY <2>1, <3>2, FS_Subset
        <3>4. reviewer'[c].kicks[n] = reviewer[c].kicks[n] + 1
            BY <1>5, <2>5
        <3>5. Cardinality(Kicking(c, n)') + 1 <= Cardinality(Kicking(c, n))
            BY <2>2, <2>4, <3>2, <3>3
        <3>6. CASE Kicked(c, n)
            BY <2>2, <2>3, <2>4, <3>4, <3>5, <3>6
        <3>7. CASE ~Kicked(c, n)
            <4>1. reviewer[c].kicks[n] = 0
                BY <2>4, <3>7 DEF Kicked
            <4> QED  BY <2>2, <2>4, <3>4, <3>5, <4>1
        <3> QED  BY <3>6, <3>7
    <2>6. CASE ~(c = c0 /\ n = n0)
        <3>1. reviewer'[c].kicks[n] = reviewer[c].kicks[n]
            BY <1>5, <2>6
        <3>2. Kicked(c, n)
            BY <1>7, <3>1 DEF Kicked
        <3> QED  BY <2>2, <2>3, <2>4, <3>1, <3>2
    <2> QED  BY <2>5, <2>6
<1> QED  BY <1>7 DEF KicksCounted

LEMMA NextKicks == Typed /\ Fits /\ KicksCounted /\ [Next]_vars => KicksCounted'
<1> SUFFICES ASSUME Typed, Fits, KicksCounted, [Next]_vars PROVE KicksCounted'
    OBVIOUS
<1>1. ASSUME NEW c \in Children,
             \/ Change(c) \/ RecordJudge(c) \/ HeartbeatTick(c) \/ EventTick(c)
             \/ \E p \in Clis : ManualTick(p, c) \/ FinalizeTask(p, c)
      PROVE  KicksCounted'
    <2>1. /\ reviewer' = reviewer
          /\ \A q \in Procs : proc'[q].pc = "kick" =>
                  /\ proc'[q].pc = proc[q].pc /\ proc'[q].c = proc[q].c /\ proc'[q].act = proc[q].act
        BY <1>1, OutsideIs
    <2> QED  BY <2>1, KicksQuiet
<1>2. ASSUME NEW p \in Procs, Step(p) \/ Fails(p) \/ ReadFails(p)
      PROVE  KicksCounted'
    <2>1. CASE Kick(p)
        BY <2>1, KicksMore
    <2>2. CASE ~Kick(p)
        <3>1. /\ \A c \in Children : reviewer'[c].kicks = reviewer[c].kicks
              /\ \A q \in Procs \ {p} : proc'[q] = proc[q]
            BY <1>2, <2>2, WhereTo
        <3>2. proc'[p].pc = "kick" => ~Kicked(proc'[p].c, proc'[p].act.rev)
            <4>1. SUFFICES ASSUME proc'[p].pc = "kick"
                           PROVE  ~Kicked(proc'[p].c, proc'[p].act.rev)
                OBVIOUS
            <4>2. CheckKick(p)
                BY <1>2, <4>1, WhereTo
            <4>3. CASE Kicked(proc[p].c, proc[p].act.rev)
                <5>1. End(p)
                    BY <4>2, <4>3 DEF CheckKick
                <5> QED  BY <4>1, <5>1, Ends
            <4>4. CASE ~Kicked(proc[p].c, proc[p].act.rev)
                <5>1. Go(p, "kick") /\ "kick" \in Steps
                    BY <4>2, <4>4 DEF CheckKick, Steps
                <5> QED  BY <4>4, <5>1, Goes
            <4> QED  BY <4>3, <4>4
        <3> QED  BY <3>1, <3>2, KicksQuiet
    <2> QED  BY <2>1, <2>2
<1>3. CASE UNCHANGED vars
    BY <1>3, KicksQuiet DEF vars
<1> QED  BY <1>1, <1>2, <1>3 DEF Next
-------------------------------------------------------------------------------
(* The inductive invariant so far, and what follows from it.                 *)
Counts == Typed /\ Fits /\ CopiesCounted /\ KicksCounted

LEMMA InitCounts == Init => Counts
<1> SUFFICES ASSUME Init PROVE Counts
    OBVIOUS
<1>1. CopiesCounted
    BY DEF Init, CopiesCounted, Copies
<1>2. KicksCounted
    BY DEF Init, KicksCounted, Kicked
<1> QED  BY <1>1, <1>2, InitFits DEF Counts

LEMMA NextCounts == Counts /\ [Next]_vars => Counts'
BY NextFits, NextCopies, NextKicks DEF Counts

LEMMA CountsHold == Spec => []Counts
BY InitCounts, NextCounts, PTL DEF Spec

LEMMA OneMore == \A x : Cardinality(Clis \cup {x}) <= 1 + Cardinality(Clis)
<1> TAKE x
<1>1. Cardinality(Clis) \in Nat /\ IsFiniteSet(Clis)
    BY Finite, FS_CardinalityType
<1>2. Cardinality(Clis \cup {x}) = IF x \in Clis THEN Cardinality(Clis) ELSE Cardinality(Clis) + 1
    BY <1>1, FS_AddElement
<1> QED  BY <1>1, <1>2

LEMMA CopyBound ==
    ASSUME Counts, NEW e \in parent
    PROVE  /\ e.copy \in 1..Cardinality(Procs)
           /\ Judged => e.copy <= 1 + Cardinality(Clis)
<1>1. e \in Event /\ e.copy \in Nat /\ e.copy >= 1
    BY DEF Counts, Typed, Event
<1>2. PICK k \in Keys : k = e.key
    BY <1>1 DEF Event
<1>3. e.copy <= Cardinality(Copies(k)) /\ (Judged => k[2].who \in Children)
    BY <1>1, <1>2 DEF Counts, CopiesCounted, Event
<1>4. Copies(k) # {}
    BY <1>2 DEF Copies
<1>5. Cardinality(Copies(k)) + Cardinality(Saying(k)) <= Cardinality(Sayers(k))
    BY <1>4 DEF Counts, CopiesCounted
<1>6. /\ Cardinality(Copies(k)) \in Nat /\ Cardinality(Saying(k)) \in Nat
      /\ Cardinality(Sayers(k)) \in Nat
    BY CopiesFinite, SayingIs DEF Counts
<1>7. Sayers(k) \subseteq Procs
    BY <1>3, Finite DEF Sayers
<1>8. Cardinality(Sayers(k)) <= Cardinality(Procs) /\ Cardinality(Procs) \in Nat
    BY <1>7, Finite, FS_Subset, FS_CardinalityType
<1>9. e.copy <= Cardinality(Sayers(k))
    BY <1>1, <1>3, <1>5, <1>6
<1>10. ASSUME Judged PROVE Cardinality(Sayers(k)) <= 1 + Cardinality(Clis)
    <2> QED  BY <1>10, OneMore DEF Sayers
<1>11. Cardinality(Clis) \in Nat
    BY Finite, FS_CardinalityType
<1>12. e.copy \in 1..Cardinality(Procs)
    BY <1>1, <1>6, <1>8, <1>9
<1> QED  BY <1>1, <1>6, <1>9, <1>10, <1>11, <1>12

LEMMA KickBound ==
    ASSUME Counts, NEW c \in Children, NEW n \in Revs
    PROVE  /\ reviewer[c].kicks[n] \in 0..Cardinality(Procs)
           /\ reviewer[c].kicks[n] <= 1 + Cardinality(Clis)
<1>1. /\ reviewer[c].kicks[n] \in Nat /\ Cardinality(Kicking(c, n)) \in Nat
    BY KickingIs DEF Counts
<1>2. /\ Cardinality(Clis \cup {c}) <= Cardinality(Procs) /\ Cardinality(Procs) \in Nat
      /\ Cardinality(Clis \cup {c}) \in Nat
    BY Finite, FS_Subset, FS_CardinalityType
<1>3. Cardinality(Clis \cup {c}) <= 1 + Cardinality(Clis) /\ Cardinality(Clis) \in Nat
    BY OneMore, Finite, FS_CardinalityType
<1>4. CASE Kicked(c, n)
    <2>1. reviewer[c].kicks[n] + Cardinality(Kicking(c, n)) <= Cardinality(Clis \cup {c})
        BY <1>4 DEF Counts, KicksCounted
    <2> QED  BY <1>1, <1>2, <1>3, <2>1
<1>5. CASE ~Kicked(c, n)
    <2>1. reviewer[c].kicks[n] = 0
        BY <1>1, <1>5 DEF Kicked
    <2> QED  BY <1>2, <1>3, <2>1
<1> QED  BY <1>4, <1>5

(* Every state is well formed, for any children, command lines and bounds;   *)
(* with a judge leaf no heartbeat is counted past the budget, and no event   *)
(* or kick is sent more often than there are processes.                      *)
THEOREM TypeCorrect == Spec => []TypeOK
<1>1. Counts => TypeOK
    <2> SUFFICES ASSUME Counts PROVE TypeOK
        OBVIOUS
    <2>1. Typed /\ Fits
        BY DEF Counts
    <2>2. ASSUME NEW e \in parent PROVE e \in Events
        <3>1. e \in Event /\ e.copy \in 1..Cardinality(Procs)
            BY <2>1, CopyBound DEF Typed
        <3> QED  BY <3>1 DEF Event, Events
    <2>3. ASSUME NEW c \in Children
          PROVE  reviewer[c] \in [exists : BOOLEAN, asked : SUBSET Revs,
                                  kicks : [Revs -> 0..Cardinality(Procs)]]
        <3>1. reviewer[c] \in Reviewer /\ \A n \in Revs : reviewer[c].kicks[n] \in 0..Cardinality(Procs)
            BY <2>1, KickBound DEF Typed
        <3>2. reviewer[c].kicks \in [Revs -> 0..Cardinality(Procs)]
            BY <3>1 DEF Reviewer
        <3> QED  BY <3>1, <3>2 DEF Reviewer
    <2>4. Judged => \A c \in Children : row[c].ticks < Budget
        BY <2>1 DEF Fits, TicksOf
    <2>5. reviewer \in [Children -> [exists : BOOLEAN, asked : SUBSET Revs,
                                     kicks : [Revs -> 0..Cardinality(Procs)]]]
        BY <2>1, <2>3 DEF Typed
    <2> QED  BY <2>1, <2>2, <2>4, <2>5 DEF Typed, TypeOK
<1> QED  BY <1>1, CountsHold, PTL

(* With a judge leaf a done event, an escalation and a kick are sent again   *)
(* only by processes that were at it together: at most the session's own     *)
(* reactor and each command line once (scan and append are two steps of      *)
(* pushTerminalEvent, check and send two of the chain's kick).               *)
THEOREM SaysItOnce == ASSUME Judged PROVE Spec => []SaidOnce
<1>1. Counts => SaidOnce
    BY CopyBound, KickBound DEF SaidOnce
<1> QED  BY <1>1, CountsHold, PTL
-------------------------------------------------------------------------------
(* A finalize that is alone.                                                 *)
LEMMA StaysAt ==
    ASSUME Typed, Fits, NEW p \in Procs, Step(p) \/ Fails(p) \/ ReadFails(p)
    PROVE  /\ ~At(p, "idle") /\ \A d \in Children \ {proc[p].c} : row'[d] = row[d]
           /\ proc'[p].pc # "idle" => proc'[p].c = proc[p].c
           /\ proc'[p].pc # "idle" /\ proc'[p].op = "finalize" =>
                 /\ proc[p].op = "finalize" /\ proc'[p].alone = proc[p].alone
                 /\ proc'[p].pc = "confirm" => PersistObserved(p)
                 /\ proc'[p].pc = "finish" => Confirm(p)
<1> DEFINE Goal ==
           /\ proc'[p].pc # "idle" => proc'[p].c = proc[p].c
           /\ proc'[p].pc # "idle" /\ proc'[p].op = "finalize" =>
                 /\ proc[p].op = "finalize" /\ proc'[p].alone = proc[p].alone
                 /\ proc'[p].pc = "confirm" => PersistObserved(p)
                 /\ proc'[p].pc = "finish" => Confirm(p)
<1>1. ~At(p, "idle")
    BY DEF Step, Fails, ReadFails, ReadResource, PersistObserved, Evaluate, Publish, Push, AppendTerminal,
           PersistAction, Spawn, CheckKick, Kick, NoChain, Confirm, Finish, At
<1>2. ASSUME NEW d \in Children \ {proc[p].c} PROVE row'[d] = row[d]
    <2>1. CASE PersistObserved(p)
        BY <2>1, PersistObservedIs
    <2>2. CASE PersistAction(p)
        BY <2>2, PersistActionIs
    <2>3. CASE Finish(p)
        BY <2>3, ProcessIs DEF Finish, Typed
    <2> QED  BY <2>1, <2>2, <2>3, WhereTo
<1>3. ASSUME Fails(p) \/ NoChain(p) \/ Spawn(p) \/ Kick(p) \/ Finish(p) PROVE Goal
    BY <1>3, Ends DEF Fails, NoChain, Spawn, Kick, Finish
<1>4. ASSUME NEW pc \in Steps \ {"confirm", "finish"}, Go(p, pc) PROVE Goal
    BY <1>4, Goes
<1>5. ASSUME ReadFails(p) \/ Publish(p) \/ Push(p) \/ AppendTerminal(p) PROVE Goal
    <2>1. Go(p, "eval") \/ Go(p, "push") \/ Go(p, "append") \/ Go(p, "persist")
        BY <1>5 DEF ReadFails, Publish, Push, AppendTerminal
    <2>2. "eval" \in Steps /\ "push" \in Steps /\ "append" \in Steps /\ "persist" \in Steps
        BY DEF Steps
    <2> QED  BY <1>4, <2>1, <2>2
<1>6. ASSUME ReadResource(p) PROVE Goal
    <2> DEFINE w == world[proc[p].c]
               r == [[proc[p] EXCEPT !.pc = "save"] EXCEPT !.seen = w]
    <2>1. Become(p, r)
        BY <1>6 DEF ReadResource
    <2>2. r.pc = "save" /\ r.c = proc[p].c /\ r.op = proc[p].op /\ r.alone = proc[p].alone
        BY ProcessIs DEF Process
    <2> HIDE DEF r
    <2> QED  BY <2>1, <2>2, Becomes
<1>7. ASSUME PersistObserved(p) PROVE Goal
    <2>1. PICK r \in Process : /\ Become(p, r) /\ r.op = proc[p].op /\ r.c = proc[p].c
                               /\ r.pc \in {"eval", "confirm"}
                               /\ proc[p].op = "finalize" => r.alone = proc[p].alone
        BY <1>7, PersistObservedIs
    <2> QED  BY <1>7, <2>1, Becomes
<1>8. ASSUME Evaluate(p) PROVE Goal
    <2>1. PICK r \in Process : Become(p, r) /\ r.pc = "publish" /\ r.op = "tick" /\ r.c = proc[p].c
        BY <1>8, EvaluateIs
    <2> QED  BY <2>1, Becomes
<1>9. ASSUME PersistAction(p) PROVE Goal
    <2>1. PICK r \in Process : Become(p, r) /\ r.pc = "chain" /\ r.op = "tick" /\ r.c = proc[p].c
        BY <1>9, PersistActionIs
    <2> QED  BY <2>1, Becomes
<1>10. ASSUME CheckKick(p) PROVE Goal
    <2>1. End(p) \/ (Go(p, "kick") /\ "kick" \in Steps)
        BY <1>10 DEF CheckKick, Steps
    <2> QED  BY <1>4, <2>1, Ends
<1>11. ASSUME Confirm(p) PROVE Goal
    <2>1. \/ End(p)
          \/ \E r \in Process : /\ Become(p, r) /\ r.pc = "finish" /\ r.c = proc[p].c
                                /\ r.op = proc[p].op /\ r.alone = proc[p].alone
        BY <1>11, ConfirmIs
    <2> QED  BY <1>11, <2>1, Ends, Becomes
<1>12. Goal
    BY <1>3, <1>5, <1>6, <1>7, <1>8, <1>9, <1>10, <1>11 DEF Step
<1> QED  BY <1>1, <1>2, <1>12

LEMMA StepAlone ==
    ASSUME Typed, Fits, \A q \in Procs : Alone(q), NEW p \in Procs, Step(p) \/ Fails(p) \/ ReadFails(p)
    PROVE  \A q \in Procs : Alone(q)'
<1> DEFINE c == proc[p].c
<1>1. c \in Children /\ ~At(p, "idle") /\ \A d \in Children \ {c} : row'[d] = row[d]
    BY ProcessIs, StaysAt
<1>2. (proc'[p].pc # "idle" => proc'[p].c = c) /\ \A q \in Procs \ {p} : proc'[q] = proc[q]
    BY StaysAt, WhereTo
<1>3. ASSUME NEW q \in Procs \ {p}
      PROVE  Alone(q)'
    <2>1. SUFFICES ASSUME proc[q].op = "finalize", proc[q].pc # "idle", proc[q].alone PROVE Alone(q)'
        BY <1>2 DEF Alone
    <2>2. /\ \A s \in Procs \ {q} : At(s, "idle") \/ proc[s].c # proc[q].c
          /\ proc[q].pc = "confirm" => row[proc[q].c].obs.rev = proc[q].seen.rev
          /\ proc[q].pc = "finish" => proc[q].act.rev = proc[q].seen.rev
        BY <2>1 DEF Alone
    <2>3. c # proc[q].c /\ row'[proc[q].c] = row[proc[q].c]
        BY <1>1, <2>2, ProcessIs
    <2>4. \A s \in Procs \ {q} : proc'[s].pc = "idle" \/ proc'[s].c # proc[q].c
        BY <1>2, <2>2, <2>3 DEF At
    <2> QED  BY <1>2, <2>2, <2>3, <2>4 DEF Alone, At
<1>4. Alone(p)'
    <2>1. SUFFICES ASSUME proc'[p].op = "finalize", proc'[p].pc # "idle", proc'[p].alone PROVE Alone(p)'
        BY DEF Alone
    <2>2. proc[p].op = "finalize" /\ proc[p].alone /\ proc'[p].c = c
        BY <2>1, <1>2, StaysAt
    <2>3. /\ \A s \in Procs \ {p} : At(s, "idle") \/ proc[s].c # c
          /\ At(p, "confirm") => row[c].obs.rev = proc[p].seen.rev
        BY <1>1, <2>2 DEF Alone, At
    <2>4. \A s \in Procs \ {p} : proc'[s].pc = "idle" \/ proc'[s].c # c
        BY <1>2, <2>3 DEF At
    <2>5. proc'[p].pc = "confirm" => row'[c].obs.rev = proc'[p].seen.rev
        <3>1. SUFFICES ASSUME PersistObserved(p) PROVE row'[c].obs.rev = proc'[p].seen.rev
            BY <2>1, StaysAt
        <3>2. PICK r \in Process, j \in Instance :
                  /\ Become(p, r) /\ r.seen = proc[p].seen /\ j.obs = proc[p].seen /\ row'[c] = j
            BY <2>2, <3>1, PersistObservedIs
        <3> QED  BY <3>2, Becomes
    <2>6. proc'[p].pc = "finish" => proc'[p].act.rev = proc'[p].seen.rev
        <3>1. SUFFICES ASSUME proc'[p].pc = "finish", Confirm(p) PROVE proc'[p].act.rev = proc'[p].seen.rev
            BY <2>1, StaysAt
        <3>2. At(p, "confirm") /\ ~End(p)
            BY <3>1, ConfirmIs, Ends
        <3>3. PICK r \in Process : Become(p, r) /\ r.seen = proc[p].seen /\ r.act.rev = row[c].obs.rev
            BY <3>1, <3>2, ConfirmIs
        <3> QED  BY <2>3, <3>2, <3>3, Becomes
    <2> QED  BY <2>2, <2>4, <2>5, <2>6 DEF Alone, At
<1> QED  BY <1>3, <1>4

LEMMA BeginAlone ==
    ASSUME Typed, Fits, \A q \in Procs : Alone(q),
           NEW p \in Procs, NEW c \in Children, NEW op \in {"tick", "finalize"},
           NEW trig \in Triggers, Begin(p, c, op, trig),
           p \in Children => c = p, trig # "manual" => p \in Children,
           trig = "heartbeat" => row[c].escs < MaxEscs, moves' \in 0..MaxMoves, moves <= moves'
    PROVE  \A q \in Procs : Alone(q)'
<1>1. /\ proc'[p].pc = "read" /\ proc'[p].c = c /\ proc'[p].op = op
      /\ op = "finalize" => (proc'[p].alone <=> \A q \in Procs \ {p} : At(q, "idle") \/ proc[q].c # c)
    BY BeginIs
<1>2. ASSUME NEW q \in Procs \ {p}
      PROVE  /\ proc'[q].pc = proc[q].pc /\ proc'[q].c = proc[q].c /\ proc'[q].op = proc[q].op
             /\ proc'[q].act = proc[q].act /\ proc'[q].seen = proc[q].seen
             /\ proc'[q].op = "finalize" /\ proc'[q].alone => proc[q].alone
             /\ ~At(q, "idle") /\ proc[q].c = c /\ proc[q].op = "finalize" => ~proc'[q].alone
    BY BeginIs
<1>3. row' = row
    BY DEF Begin
<1>4. Alone(p)'
    <2>1. SUFFICES ASSUME op = "finalize", proc'[p].alone PROVE Alone(p)'
        BY <1>1 DEF Alone
    <2>2. \A s \in Procs \ {p} : proc'[s].pc = "idle" \/ proc'[s].c # c
        BY <1>1, <1>2, <2>1 DEF At
    <2> QED  BY <1>1, <2>2 DEF Alone, At
<1>5. ASSUME NEW q \in Procs \ {p} PROVE Alone(q)'
    <2>1. SUFFICES ASSUME proc'[q].op = "finalize", proc'[q].pc # "idle", proc'[q].alone PROVE Alone(q)'
        BY DEF Alone
    <2>2. proc[q].op = "finalize" /\ proc[q].pc # "idle" /\ proc[q].alone /\ proc[q].c # c
        BY <1>2, <2>1 DEF At
    <2>3. /\ \A s \in Procs \ {q} : At(s, "idle") \/ proc[s].c # proc[q].c
          /\ proc[q].pc = "confirm" => row[proc[q].c].obs.rev = proc[q].seen.rev
          /\ proc[q].pc = "finish" => proc[q].act.rev = proc[q].seen.rev
        BY <2>2 DEF Alone
    <2>4. \A s \in Procs \ {q} : proc'[s].pc = "idle" \/ proc'[s].c # proc[q].c
        BY <1>1, <1>2, <2>2, <2>3 DEF At
    <2>5. /\ proc'[q].c = proc[q].c /\ proc'[q].pc = proc[q].pc
          /\ proc'[q].act = proc[q].act /\ proc'[q].seen = proc[q].seen
        BY <1>2
    <2> QED  BY <1>3, <2>3, <2>4, <2>5 DEF Alone, At
<1> QED  BY <1>4, <1>5

LEMMA NextAlone ==
    Typed /\ Fits /\ (\A q \in Procs : Alone(q)) /\ [Next]_vars => (\A q \in Procs : Alone(q))'
<1> SUFFICES ASSUME Typed, Fits, \A q \in Procs : Alone(q), [Next]_vars PROVE \A q \in Procs : Alone(q)'
    OBVIOUS
<1>1. ASSUME NEW p \in Procs, Step(p) \/ Fails(p) \/ ReadFails(p) PROVE \A q \in Procs : Alone(q)'
    BY <1>1, StepAlone
<1>2. ASSUME proc' = proc, \A c \in Children : row'[c].obs = row[c].obs PROVE \A q \in Procs : Alone(q)'
    BY <1>2, ProcessIs DEF Alone, At
<1>3. ASSUME NEW c \in Children, Change(c) PROVE \A q \in Procs : Alone(q)'
    BY <1>2, <1>3 DEF Change
<1>4. ASSUME NEW c \in Children, RecordJudge(c) PROVE \A q \in Procs : Alone(q)'
    <2>1. PICK v : row' = [row EXCEPT ![c].judge = v]
        BY <1>4 DEF RecordJudge
    <2>2. \A d \in Children : row'[d].obs = row[d].obs
        BY <2>1 DEF Typed, Instance
    <2> QED  BY <1>2, <1>4, <2>2 DEF RecordJudge
<1>5. ASSUME NEW c \in Children, HeartbeatTick(c) PROVE \A q \in Procs : Alone(q)'
    <2> DEFINE trig == IF row[c].escs < MaxEscs THEN "heartbeat" ELSE "manual"
    <2>1. Begin(c, c, "tick", trig) /\ moves' \in 0..MaxMoves /\ moves <= moves'
        BY <1>5, MovesStay DEF HeartbeatTick
    <2>2. trig \in Triggers /\ (trig = "heartbeat" => row[c].escs < MaxEscs)
        BY DEF Triggers
    <2> HIDE DEF trig
    <2> QED  BY <2>1, <2>2, BeginAlone, Finite
<1>6. ASSUME NEW c \in Children, EventTick(c) PROVE \A q \in Procs : Alone(q)'
    <2>1. Begin(c, c, "tick", "event") /\ moves' \in 0..MaxMoves /\ moves <= moves' /\ "event" \in Triggers
        BY <1>6, CountedIs DEF EventTick, Triggers
    <2> QED  BY <2>1, BeginAlone, Finite
<1>7. ASSUME NEW c \in Children, NEW p \in Clis, ManualTick(p, c) \/ FinalizeTask(p, c)
      PROVE  \A q \in Procs : Alone(q)'
    <2>1. PICK op \in {"tick", "finalize"} : Begin(p, c, op, "manual") /\ Counted
        BY <1>7 DEF ManualTick, FinalizeTask
    <2>2. moves' \in 0..MaxMoves /\ moves <= moves' /\ "manual" \in Triggers
        BY <2>1, CountedIs DEF Triggers
    <2>3. p \in Procs /\ p \notin Children
        BY Finite
    <2> QED  BY <2>1, <2>2, <2>3, BeginAlone
<1>8. CASE UNCHANGED vars
    BY <1>2, <1>8 DEF vars
<1> QED  BY <1>1, <1>3, <1>4, <1>5, <1>6, <1>7, <1>8 DEF Next

(* A finalize that had the session to itself marks the revision it observed  *)
(* (FinalizeTask observes without a lock, and reads the row again).          *)
THEOREM FinalizesItsOwnRead == Spec => []FinalizesWhatItSaw
<1> DEFINE Inv == Counts /\ \A q \in Procs : Alone(q)
<1>1. Init => Inv
    <2>1. Init => \A q \in Procs : Alone(q)
        BY RestingIs DEF Init, Alone
    <2> QED  BY <2>1, InitCounts
<1>2. Inv /\ [Next]_vars => Inv'
    BY NextCounts, NextAlone DEF Counts
<1>3. Inv => FinalizesWhatItSaw
    <2> SUFFICES ASSUME Inv, NEW p \in Procs, At(p, "finish"), proc[p].alone
                 PROVE  proc[p].act.rev = proc[p].seen.rev
        BY DEF FinalizesWhatItSaw
    <2>1. proc[p].op = "finalize" /\ proc[p].pc # "idle"
        BY DEF Counts, Fits, FitsOf, At
    <2> QED  BY <2>1 DEF Alone, At
<1> HIDE DEF Inv
<1> QED  BY <1>1, <1>2, <1>3, PTL DEF Spec
-------------------------------------------------------------------------------
(* What the parent has heard, with a judge leaf: the keys name the child.    *)
LEMMA HeardStays ==
    ASSUME parent \subseteq parent', NEW c, NEW kind, NEW n, Heard(c, kind, n)
    PROVE  Heard(c, kind, n)'
BY DEF Heard

(* A copy of what process p is about to push speaks for p's child.           *)
LEMMA CopyHeard ==
    ASSUME Judged, Counts, Announced, NEW p \in Procs, proc[p].pc = "push",
           Copies(Key(proc[p].c, proc[p].act)) # {}
    PROVE  /\ proc[p].act.kind = "satisfied" => Heard(proc[p].c, "satisfied", 0)
           /\ proc[p].act.kind = "escalate" => Heard(proc[p].c, "escalate", proc[p].act.esc)
<1>1. PICK c, a, k : c = proc[p].c /\ a = proc[p].act /\ k = Key(c, a)
    OBVIOUS
<1>2. /\ k[1] = a.kind /\ a.kind \in {"satisfied", "escalate"} /\ k[2].who = c
      /\ a.kind = "escalate" => k = <<"escalate", NoPrint(c), a.esc>>
    BY <1>1, KeyIs DEF Counts
<1>3. PICK e \in parent : e.key = k
    BY <1>1 DEF Copies
<1>4. e.from = c /\ e.kind = a.kind
    BY <1>2, <1>3 DEF Counts, CopiesCounted, Announced
<1>5. a.kind = "satisfied" => e.esc = 0
    BY <1>4 DEF Announced
<1>6. a.kind = "escalate" => e.esc = a.esc
    <2>1. a.kind = "escalate" => e.key[3] = e.esc
        BY <1>4 DEF Announced
    <2> QED  BY <1>2, <1>3, <2>1
<1> QED  BY <1>1, <1>3, <1>4, <1>5, <1>6 DEF Heard

(* Only a child's own reactor escalates, so nobody else adds its key.        *)
LEMMA OneEscalates ==
    ASSUME Judged, Counts, NEW p \in Procs, NEW q \in Procs, proc[p].pc = "append", proc[q].pc = "append",
           proc[q].act.kind = "escalate", Key(proc[p].c, proc[p].act) = Key(proc[q].c, proc[q].act)
    PROVE  p = q
<1>1. /\ Key(proc[p].c, proc[p].act)[1] = proc[p].act.kind /\ Key(proc[q].c, proc[q].act)[1] = proc[q].act.kind
      /\ Key(proc[p].c, proc[p].act)[2].who = proc[p].c /\ Key(proc[q].c, proc[q].act)[2].who = proc[q].c
    BY KeyIs DEF Counts
<1>2. proc[p].act.kind = "escalate" /\ proc[p].c = proc[q].c
    BY <1>1
<1>3. ASSUME NEW r \in Procs, proc[r].pc = "append", proc[r].act.kind = "escalate"
      PROVE  proc[r].c = r
    <2>1. FitsOf(r, proc[r], row[proc[r].c], moves)
        BY DEF Counts, Fits
    <2>2. Due(proc[r], row[proc[r].c], moves)
        BY <1>3, <2>1 DEF FitsOf, AtTick
    <2>3. proc[r].trig = "heartbeat"
        BY <1>3, <2>2 DEF Due
    <2> QED  BY <2>1, <2>3 DEF FitsOf
<1> QED  BY <1>2, <1>3

(* The log and the other processes.                                          *)
LEMMA EventsStay ==
    ASSUME Judged, Counts, Announced, NEW p \in Procs, parent' = parent \/ AppendTerminal(p)
    PROVE  /\ parent \subseteq parent'
           /\ \A e \in parent' : /\ e.kind = e.key[1]
                                 /\ e.kind = "satisfied" => e.esc = 0
                                 /\ e.kind = "escalate" => e.key = <<"escalate", NoPrint(e.from), e.esc>>
           /\ \A d, e \in parent' : d.kind = "escalate" /\ d.key = e.key => d = e
<1>1. CASE parent' = parent
    BY <1>1 DEF Announced
<1>2. CASE AppendTerminal(p)
    <2>1. PICK e0, c, a, k : e0 = NewEvent(p) /\ c = proc[p].c /\ a = proc[p].act /\ k = Key(c, a)
        OBVIOUS
    <2>2. parent' = parent \cup {e0} /\ proc[p].pc = "append" /\ Typed /\ Fits
        BY <1>2, <2>1, AppendIs DEF Counts, At
    <2>3. e0.key = k /\ e0.from = c /\ e0.kind = a.kind /\ e0.esc = IF a.kind = "escalate" THEN a.esc ELSE 0
        BY <2>1 DEF NewEvent
    <2>4. /\ k[1] = a.kind /\ a.kind \in {"satisfied", "escalate"}
          /\ a.kind = "escalate" => k = <<"escalate", NoPrint(c), a.esc>>
        BY <2>1, <2>2, KeyIs
    <2>5. a.kind = "escalate" => Copies(k) = {}
        BY <2>1, <2>2 DEF Announced, Announces
    <2>6. /\ e0.kind = e0.key[1] /\ (e0.kind = "satisfied" => e0.esc = 0)
          /\ e0.kind = "escalate" => e0.key = <<"escalate", NoPrint(e0.from), e0.esc>>
        BY <2>3, <2>4
    <2>7. ASSUME NEW e \in parent, e.key = e0.key, e.kind = "escalate" \/ e0.kind = "escalate"
          PROVE  FALSE
        <3>1. e.kind = e.key[1]
            BY DEF Announced
        <3>2. a.kind = "escalate"
            BY <2>3, <2>6, <2>7, <3>1
        <3> QED  BY <2>3, <2>5, <2>7, <3>2 DEF Copies
    <2>8. ASSUME NEW d \in parent', NEW e \in parent', d.kind = "escalate", d.key = e.key
          PROVE  d = e
        <3>1. CASE d \in parent /\ e \in parent
            BY <2>8, <3>1 DEF Announced
        <3>2. CASE d = e0 /\ e \in parent
            BY <2>7, <2>8, <3>2
        <3>3. CASE d \in parent /\ e = e0
            BY <2>7, <2>8, <3>3
        <3> QED  BY <2>2, <3>1, <3>2, <3>3
    <2>9. \A e \in parent' : /\ e.kind = e.key[1]
                             /\ e.kind = "satisfied" => e.esc = 0
                             /\ e.kind = "escalate" => e.key = <<"escalate", NoPrint(e.from), e.esc>>
        BY <2>2, <2>6 DEF Announced
    <2> QED  BY <2>2, <2>8, <2>9
<1> QED  BY <1>1, <1>2

LEMMA OthersAnnounce ==
    ASSUME Judged, Counts, Announced, NEW p \in Procs, parent' = parent \/ AppendTerminal(p),
           NEW q \in Procs, proc'[q].c = proc[q].c, proc'[q].act = proc[q].act, proc'[q].pc = proc[q].pc,
           AppendTerminal(p) => p # q
    PROVE  Announces(q)'
<1>1. PICK c, a, pc : c = proc[q].c /\ a = proc[q].act /\ pc = proc[q].pc
    OBVIOUS
<1>2. /\ pc = "persist" /\ a.kind = "satisfied" => Heard(c, "satisfied", 0)
      /\ pc = "persist" /\ a.kind = "escalate" => Heard(c, "escalate", a.esc)
      /\ pc \in AtTick /\ a.kind = "satisfied" /\ ~a.say => Heard(c, "satisfied", 0)
      /\ pc = "append" /\ a.kind = "escalate" => Copies(Key(c, a)) = {}
    BY <1>1 DEF Announced, Announces
<1>3. \A kind, n : Heard(c, kind, n) => Heard(c, kind, n)'
    BY EventsStay, HeardStays
<1>4. ASSUME pc = "append", a.kind = "escalate" PROVE Copies(Key(c, a))' = {}
    <2>1. CASE parent' = parent
        BY <1>2, <1>4, <2>1 DEF Copies
    <2>2. CASE AppendTerminal(p)
        <3>1. PICK e0, k : e0 = NewEvent(p) /\ k = Key(c, a)
            OBVIOUS
        <3>2. parent' = parent \cup {e0} /\ proc[p].pc = "append"
            BY <2>2, <3>1, AppendIs DEF Counts, At
        <3>3. e0.key = Key(proc[p].c, proc[p].act)
            BY <3>1 DEF NewEvent
        <3>4. e0.key # k
            BY <1>1, <1>4, <2>2, <3>1, <3>2, <3>3, OneEscalates
        <3>5. Copies(k)' = {e \in parent' : e.key = k} /\ Copies(k) = {}
            BY <1>2, <1>4, <3>1 DEF Copies
        <3>6. Copies(k)' = {}
            BY <3>2, <3>4, <3>5 DEF Copies
        <3> QED  BY <3>1, <3>6
    <2> QED  BY <2>1, <2>2
<1> QED  BY <1>1, <1>2, <1>3, <1>4 DEF Announces

LEMMA StepperAnnounces ==
    ASSUME Judged, Counts, Announced, NEW p \in Procs, Step(p) \/ Fails(p) \/ ReadFails(p)
    PROVE  Announces(p)'
<1>1. PICK c \in Children, a \in Actions : c = proc[p].c /\ a = proc[p].act
    BY ProcessIs DEF Counts
<1>2. Typed /\ Fits /\ (parent' = parent \/ AppendTerminal(p))
    BY WhereTo DEF Counts
<1>3. \A d, kind, n : Heard(d, kind, n) => Heard(d, kind, n)'
    BY <1>2, EventsStay, HeardStays
<1>4. proc[p].pc \in AtTick /\ a.kind = "satisfied" /\ ~a.say => Heard(c, "satisfied", 0)
    BY <1>1 DEF Announced, Announces
<1>5. CASE Evaluate(p)
    <2>1. PICK r \in Process : /\ Become(p, r) /\ r.pc = "publish" /\ r.c = c /\ r.trig \in Triggers
                               /\ r.act = ActionFor(c, row[c], r.trig)
                               /\ r.trig = "heartbeat" => row[c].escs < MaxEscs
        BY <1>1, <1>2, <1>5, EvaluateIs DEF Process
    <2>2. r.act.say = ~Repeats(row[c], r.act.kind, r.act.print, r.trig)
        <3>1. PICK trig \in Triggers : trig = r.trig
            BY <2>1
        <3> DEFINE i == row[c]
                   f == [obs |-> i.obs, judge |-> i.judge]
                   b == ActionFor(c, i, trig)
        <3>2. /\ b \in Actions /\ b.trig = trig
              /\ b.kind = Kind(f, trig, Consumed(i, trig))
              /\ b.ticks = Consumed(i, trig) /\ b.esc = i.escs + 1
              /\ b.say = ~Repeats(i, b.kind, b.print, trig)
              /\ Judged => b.print.who = c
            <4>1. trig = "heartbeat" => row[c].escs < MaxEscs
                BY <2>1, <3>1
            <4>2. Typed /\ Fits
                BY <1>2
            <4> QED  BY <4>1, <4>2, ActionForIs
        <3>3. r.act = b
            BY <2>1, <3>1
        <3> HIDE DEF b
        <3> QED  BY <3>1, <3>2, <3>3
    <2>3. r.act.kind = "satisfied" /\ ~r.act.say => Heard(c, "satisfied", 0)
        BY <2>2 DEF Repeats, Announced
    <2>4. proc'[p] = r
        BY <1>2, <2>1, Becomes
    <2> QED  BY <1>3, <2>1, <2>3, <2>4 DEF Announces
<1>6. CASE Publish(p)
    <2> DEFINE pc == IF a.say /\ a.kind \in {"satisfied", "escalate"} THEN "push" ELSE "persist"
    <2>1. Go(p, pc) /\ proc[p].pc = "publish"
        BY <1>1, <1>6 DEF Publish, At
    <2>2. pc \in Steps
        BY DEF Steps
    <2>3. proc'[p].pc = pc /\ proc'[p].c = c /\ proc'[p].act = a
        BY <1>1, <1>2, <2>1, <2>2, Goes
    <2>4. a.kind = "escalate" => a.say
        <3>1. FitsOf(p, proc[p], row[c], moves)
            BY <1>1, <1>2 DEF Fits
        <3>2. Due(proc[p], row[c], moves)
            BY <2>1, <3>1 DEF FitsOf, AtTick
        <3> QED  BY <1>1, <3>2 DEF Due
    <2>5. a.kind = "satisfied" /\ ~a.say => Heard(c, "satisfied", 0)'
        BY <1>3, <1>4, <2>1 DEF AtTick
    <2> QED  BY <2>3, <2>4, <2>5 DEF Announces
<1>7. CASE Push(p)
    <2> DEFINE pc == IF Copies(Key(c, a)) # {} THEN "persist" ELSE "append"
    <2>1. Go(p, pc) /\ proc[p].pc = "push" /\ parent' = parent
        BY <1>1, <1>7 DEF Push, At
    <2>2. pc \in Steps
        BY DEF Steps
    <2>3. proc'[p].pc = pc /\ proc'[p].c = c /\ proc'[p].act = a
        BY <1>1, <1>2, <2>1, <2>2, Goes
    <2>4. a.kind = "satisfied" /\ ~a.say => Heard(c, "satisfied", 0)'
        BY <1>3, <1>4, <2>1 DEF AtTick
    <2>5. pc = "persist" => /\ a.kind = "satisfied" => Heard(c, "satisfied", 0)'
                            /\ a.kind = "escalate" => Heard(c, "escalate", a.esc)'
        BY <1>1, <1>3, <2>1, CopyHeard
    <2>6. pc = "append" => Copies(Key(c, a))' = {}
        BY <2>1 DEF Copies
    <2> QED  BY <2>3, <2>4, <2>5, <2>6 DEF Announces
<1>8. CASE AppendTerminal(p)
    <2>1. PICK e0 : e0 = NewEvent(p)
        OBVIOUS
    <2>2. Go(p, "persist") /\ "persist" \in Steps /\ parent' = parent \cup {e0} /\ e0 \in Event
        BY <1>2, <1>8, <2>1, AppendIs DEF Steps
    <2>3. proc'[p].pc = "persist" /\ proc'[p].c = c /\ proc'[p].act = a
        BY <1>1, <1>2, <2>2, Goes
    <2>4. e0.from = c /\ e0.kind = a.kind /\ e0.esc = IF a.kind = "escalate" THEN a.esc ELSE 0
        BY <1>1, <2>1 DEF NewEvent
    <2>5. /\ a.kind = "satisfied" => Heard(c, "satisfied", 0)'
          /\ a.kind = "escalate" => Heard(c, "escalate", a.esc)'
        BY <2>2, <2>4 DEF Heard
    <2> QED  BY <2>3, <2>5 DEF Announces
<1>9. CASE ~(Evaluate(p) \/ Publish(p) \/ Push(p) \/ AppendTerminal(p))
    <2>1. proc'[p].pc \notin AtTick
        BY <1>2, <1>9, WhereTo DEF AtTick
    <2> QED  BY <2>1 DEF Announces, AtTick
<1> QED  BY <1>5, <1>6, <1>7, <1>8, <1>9

(* What the rows say has been announced.                                     *)
LEMMA RowsAnnounced ==
    ASSUME Judged, Counts, Announced, NEW p \in Procs, Step(p) \/ Fails(p) \/ ReadFails(p), NEW c \in Children
    PROVE  /\ row'[c].last = "satisfied" => Heard(c, "satisfied", 0)'
           /\ \A n \in 1 .. row'[c].escs : Heard(c, "escalate", n)'
<1>1. Typed /\ Fits /\ (parent' = parent \/ AppendTerminal(p))
    BY WhereTo DEF Counts
<1>2. \A d, kind, n : Heard(d, kind, n) => Heard(d, kind, n)'
    BY <1>1, EventsStay, HeardStays
<1>3. /\ row[c].last = "satisfied" => Heard(c, "satisfied", 0)
      /\ \A n \in 1 .. row[c].escs : Heard(c, "escalate", n)
    BY DEF Announced
<1>4. CASE row'[c].last = row[c].last /\ row'[c].escs = row[c].escs
    BY <1>2, <1>3, <1>4
<1>5. CASE PersistObserved(p)
    <2>1. row'[c].last = row[c].last /\ row'[c].escs = row[c].escs
        BY <1>1, <1>5, PersistObservedIs
    <2> QED  BY <1>4, <2>1
<1>6. CASE Finish(p)
    <2>1. row[proc[p].c] \in Instance /\ row' = [row EXCEPT ![proc[p].c].final = proc[p].act.rev]
        BY <1>1, <1>6, ProcessIs DEF Finish
    <2>2. row'[c].last = row[c].last /\ row'[c].escs = row[c].escs
        BY <1>1, <2>1 DEF Typed, Instance
    <2> QED  BY <1>4, <2>2
<1>7. CASE PersistAction(p) /\ c = proc[p].c
    <2>1. PICK a \in Actions, i \in Instance : a = proc[p].act /\ i = row[c]
        BY <1>1, ProcessIs DEF Typed
    <2>2. /\ row'[c].last = a.kind /\ proc[p].pc = "persist"
          /\ row'[c].escs = (IF a.kind = "escalate" THEN a.esc ELSE i.escs)
        BY <1>1, <1>7, <2>1, PersistActionIs DEF At
    <2>3. /\ a.kind = "satisfied" => Heard(c, "satisfied", 0)
          /\ a.kind = "escalate" => Heard(c, "escalate", a.esc)
        BY <1>7, <2>1, <2>2 DEF Announced, Announces
    <2>4. a.kind = "escalate" => a.esc = i.escs + 1
        <3>1. FitsOf(p, proc[p], i, moves)
            BY <1>1, <1>7, <2>1 DEF Fits
        <3>2. Due(proc[p], i, moves)
            BY <2>2, <3>1 DEF FitsOf, AtTick
        <3> QED  BY <2>1, <3>2 DEF Due
    <2>5. i.escs \in Nat
        BY FactsIs
    <2>6. ASSUME NEW n \in 1 .. row'[c].escs PROVE Heard(c, "escalate", n)
        <3>1. n \in 1 .. i.escs \/ (a.kind = "escalate" /\ n = a.esc)
            BY <2>2, <2>4, <2>5, <2>6
        <3> QED  BY <1>3, <2>1, <2>3, <3>1
    <2> QED  BY <1>2, <2>2, <2>3, <2>6
<1>8. CASE PersistAction(p) /\ c # proc[p].c
    <2>1. row'[c] = row[c]
        BY <1>1, <1>8, PersistActionIs
    <2> QED  BY <1>4, <2>1
<1> QED  BY <1>1, <1>4, <1>5, <1>6, <1>7, <1>8, WhereTo

LEMMA NextAnnounced == Judged /\ Counts /\ Announced /\ [Next]_vars => Announced'
<1> SUFFICES ASSUME Judged, Counts, Announced, [Next]_vars PROVE Announced'
    OBVIOUS
<1>1. ASSUME NEW p \in Procs, Step(p) \/ Fails(p) \/ ReadFails(p)
      PROVE  Announced'
    <2>1. (parent' = parent \/ AppendTerminal(p)) /\ \A q \in Procs \ {p} : proc'[q] = proc[q]
        BY <1>1, WhereTo DEF Counts
    <2>2. \A q \in Procs \ {p} : Announces(q)'
        BY <2>1, OthersAnnounce
    <2>3. Announces(p)'
        BY <1>1, StepperAnnounces
    <2>4. \A c \in Children : /\ row'[c].last = "satisfied" => Heard(c, "satisfied", 0)'
                              /\ \A n \in 1 .. row'[c].escs : Heard(c, "escalate", n)'
        BY <1>1, RowsAnnounced
    <2>5. /\ \A e \in parent' : /\ e.kind = e.key[1]
                                /\ e.kind = "satisfied" => e.esc = 0
                                /\ e.kind = "escalate" => e.key = <<"escalate", NoPrint(e.from), e.esc>>
          /\ \A d, e \in parent' : d.kind = "escalate" /\ d.key = e.key => d = e
        BY <2>1, EventsStay
    <2> QED  BY <2>2, <2>3, <2>4, <2>5 DEF Announced
<1>2. ASSUME parent' = parent,
             \A c \in Children : row'[c].last = row[c].last /\ row'[c].escs = row[c].escs,
             \A q \in Procs : proc'[q].pc \notin {"idle", "read"} =>
                  /\ proc'[q].pc = proc[q].pc /\ proc'[q].c = proc[q].c /\ proc'[q].act = proc[q].act
      PROVE  Announced'
    <2>1. \A q \in Procs : Announces(q)'
        <3> TAKE q \in Procs
        <3>1. CASE proc'[q].pc \in {"idle", "read"}
            BY <3>1 DEF Announces, AtTick
        <3>2. CASE proc'[q].pc \notin {"idle", "read"}
            BY <1>2, <3>2 DEF Announced, Announces, Heard, Copies
        <3> QED  BY <3>1, <3>2
    <2> QED  BY <1>2, <2>1 DEF Announced, Heard
<1>3. ASSUME NEW c \in Children,
             \/ Change(c) \/ RecordJudge(c) \/ HeartbeatTick(c) \/ EventTick(c)
             \/ \E p \in Clis : ManualTick(p, c) \/ FinalizeTask(p, c)
      PROVE  Announced'
    <2>1. /\ parent' = parent
          /\ \A q \in Procs : proc'[q].pc \notin {"idle", "read"} =>
                  /\ proc'[q].pc = proc[q].pc /\ proc'[q].c = proc[q].c /\ proc'[q].act = proc[q].act
        BY <1>3, OutsideIs DEF Counts
    <2>2. \A d \in Children : row'[d].last = row[d].last /\ row'[d].escs = row[d].escs
        <3>1. CASE RecordJudge(c)
            <4>1. PICK v : row' = [row EXCEPT ![c].judge = v]
                BY <3>1 DEF RecordJudge
            <4> QED  BY <4>1 DEF Counts, Typed, Instance
        <3>2. CASE ~RecordJudge(c)
            <4>1. row' = row
                BY <1>3, <3>2 DEF Change, HeartbeatTick, EventTick, ManualTick, FinalizeTask, Begin
            <4> QED  BY <4>1
        <3> QED  BY <3>1, <3>2
    <2> QED  BY <1>2, <2>1, <2>2
<1>4. CASE UNCHANGED vars
    BY <1>2, <1>4 DEF vars
<1> QED  BY <1>1, <1>3, <1>4 DEF Next

LEMMA AnnouncedHolds == ASSUME Judged PROVE Spec => [](Counts /\ Announced)
<1>1. Init => Counts /\ Announced
    <2> SUFFICES ASSUME Init PROVE Announced
        BY InitCounts
    <2>1. \A p \in Procs : Announces(p)
        BY RestingIs DEF Init, Announces, AtTick
    <2>2. \A c \in Children : row[c].last = "none" /\ row[c].escs = 0
        BY DEF Init, NewInstance
    <2>3. parent = {}
        BY DEF Init
    <2> QED  BY <2>1, <2>2, <2>3 DEF Announced
<1>2. Counts /\ Announced /\ [Next]_vars => Counts' /\ Announced'
    BY NextCounts, NextAnnounced
<1> QED  BY <1>1, <1>2, PTL DEF Spec

(* With a judge leaf the parent has the done event of every instance that is *)
(* recorded as satisfied, whatever fails in between (TickSession publishes   *)
(* before it persists).                                                      *)
THEOREM DoneIsAnnounced == ASSUME Judged PROVE Spec => []DoneAnnounced
<1>1. Announced => DoneAnnounced
    BY DEF Announced, DoneAnnounced, Heard
<1> QED  BY <1>1, AnnouncedHolds, PTL

(* With a judge leaf the parent has heard every escalation an instance       *)
(* counts, each number once, although an escalation whose record failed is   *)
(* pushed again.                                                             *)
THEOREM EscalationsAreHeard == ASSUME Judged PROVE Spec => []EscalationsHeard
<1>1. Announced => EscalationsHeard
    <2> SUFFICES ASSUME Announced, NEW c \in Children, NEW n \in 1 .. MaxEscs
                 PROVE  LET heard == {e \in parent : e.kind = "escalate" /\ e.from = c /\ e.esc = n}
                        IN  Cardinality(heard) <= 1 /\ (n <= row[c].escs => heard # {})
        BY DEF EscalationsHeard
    <2> DEFINE heard == {e \in parent : e.kind = "escalate" /\ e.from = c /\ e.esc = n}
    <2>1. \A d, e \in heard : d = e
        BY DEF Announced
    <2>2. n <= row[c].escs => heard # {}
        BY DEF Announced, Heard
    <2> HIDE DEF heard
    <2>3. CASE heard = {}
        <3>1. Cardinality(heard) = 0
            BY <2>3, FS_EmptySet
        <3> QED  BY <2>2, <3>1 DEF heard
    <2>4. CASE heard # {}
        <3>1. PICK d \in heard : heard = {d}
            BY <2>1, <2>4
        <3>2. Cardinality(heard) = 1
            BY <3>1, FS_Singleton
        <3> QED  BY <2>2, <3>2 DEF heard
    <2> QED  BY <2>3, <2>4
<1> QED  BY <1>1, AnnouncedHolds, PTL
===============================================================================
