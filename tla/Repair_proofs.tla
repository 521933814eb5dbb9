------------------------------ MODULE Repair_proofs ------------------------------
(***************************************************************************)
(* What Repair keeps for any number of sessions and commands and any limit. *)
(***************************************************************************)
EXTENDS Repair, FiniteSetTheorems, SequenceTheorems, TLAPS

LockSteps   == {"decide", "up", "result", "command"}
GateSteps   == {"lock", "decide", "up", "result"}
HealthSteps == {"persist", "count", "reset"}

(* A process is in a step under a lock exactly if it holds the lock, and a   *)
(* follower that waits for one or has it holds the slot.                     *)
Fits(r, p) ==
    /\ p \in Sessions => r.s = p
    /\ r.pc \in HealthSteps => p \in Sessions
    /\ r.pc = "command" => p \in Clis
    /\ p \in Clis => r.pc \in {"idle", "command"}
Locks(r, p, l) == \A s \in Sessions : l[s] = p <=> r.pc \in LockSteps /\ r.s = s
Slot(r, p, g)  == g = p <=> p \in Followers /\ r.pc \in GateSteps
Holds(r, p, l, g) == Fits(r, p) /\ Locks(r, p, l) /\ Slot(r, p, g)
Held == \A p \in Procs : Holds(proc[p], p, lock, gate)

(* Whom a follower under the lock has found to be up is so until it is done. *)
Found(p) == At(p, "up") \/ (At(p, "decide") /\ proc[p].cand)
Ready == \A p \in Followers : Found(p) => row[S(p)].status = "up"

(* What a log says of the repairs since the last reset: no more began than   *)
(* the limit, and one suspension, when all had begun, was the end of it.     *)
Since(l, i)   == \A k \in i..Len(l) : l[k] # "reset"
Bounded(l) ==
    /\ Attempts(l) <= Limit
    /\ \A i \in 1..Len(l) : l[i] = "suspended" /\ Since(l, i) =>
          /\ Attempts(l) >= Limit
          /\ \A k \in i..Len(l) : l[k] # "started" /\ (l[k] = "suspended" => k = i)

Inv == TypeOK /\ Held /\ Ready /\ \A s \in Sessions : Bounded(log[s])

USE RepairAssumption

-------------------------------------------------------------------------------
(* A log grows at its end.                                                   *)
Tried(l) == {i \in 1..Len(l) : l[i] = "started" /\ Since(l, i)}

LEMMA TriedIs ==
    ASSUME NEW l \in Seq(Results)
    PROVE  /\ Attempts(l) = Cardinality(Tried(l))
           /\ IsFiniteSet(Tried(l)) /\ Attempts(l) \in Nat
<1>1. Attempts(l) = Cardinality(Tried(l))
    BY DEF Attempts, Tried, Since
<1>2. Len(l) \in Nat
    OBVIOUS
<1>3. IsFiniteSet(1..Len(l))
    BY <1>2, FS_Interval
<1>4. IsFiniteSet(Tried(l))
    BY <1>3, FS_Subset DEF Tried
<1> QED  BY <1>1, <1>4, FS_CardinalityType

LEMMA AppendIs ==
    ASSUME NEW l \in Seq(Results), NEW e \in Results
    PROVE  /\ Append(l, e) \in Seq(Results)
           /\ Len(Append(l, e)) = Len(l) + 1 /\ Len(l) \in Nat
           /\ \A i \in 1..Len(l) : Append(l, e)[i] = l[i]
           /\ Append(l, e)[Len(l) + 1] = e
BY AppendProperties

(* What began since the last reset, after an event that is none.             *)
LEMMA TriedGrows ==
    ASSUME NEW l \in Seq(Results), NEW e \in Results, e # "reset"
    PROVE  /\ \A i \in 1..Len(l) : Since(Append(l, e), i) <=> Since(l, i)
           /\ Tried(Append(l, e)) = IF e = "started" THEN Tried(l) \cup {Len(l) + 1} ELSE Tried(l)
<1> DEFINE m == Append(l, e)
<1>1. Len(m) = Len(l) + 1 /\ Len(l) \in Nat /\ (\A i \in 1..Len(l) : m[i] = l[i]) /\ m[Len(l) + 1] = e
    BY AppendIs
<1> HIDE DEF m
<1>2. ASSUME NEW i \in 1..Len(l) PROVE Since(m, i) <=> Since(l, i)
    <2>1. i..Len(m) = (i..Len(l)) \cup {Len(l) + 1}
        BY <1>1
    <2>2. \A k \in i..Len(l) : k \in 1..Len(l)
        BY <1>1
    <2> QED  BY <1>1, <2>1, <2>2 DEF Since
<1>3. Since(m, Len(l) + 1)
    BY <1>1 DEF Since
<1>4. 1..Len(m) = (1..Len(l)) \cup {Len(l) + 1}
    BY <1>1
<1>5. Len(l) + 1 \notin 1..Len(l)
    BY <1>1
<1>6. Tried(m) = IF e = "started" THEN Tried(l) \cup {Len(l) + 1} ELSE Tried(l)
    BY <1>1, <1>2, <1>3, <1>4, <1>5 DEF Tried
<1> QED  BY <1>2, <1>6 DEF m

LEMMA AttemptsGrow ==
    ASSUME NEW l \in Seq(Results), NEW e \in Results, e # "reset"
    PROVE  Attempts(Append(l, e)) = IF e = "started" THEN Attempts(l) + 1 ELSE Attempts(l)
<1>1. Append(l, e) \in Seq(Results) /\ Len(l) \in Nat
    BY AppendIs
<1>2. Len(l) + 1 \notin Tried(l)
    BY <1>1 DEF Tried
<1>3. Tried(Append(l, e)) = IF e = "started" THEN Tried(l) \cup {Len(l) + 1} ELSE Tried(l)
    BY TriedGrows
<1>4. Attempts(Append(l, e)) = Cardinality(Tried(Append(l, e)))
    BY <1>1, TriedIs
<1>5. Attempts(l) = Cardinality(Tried(l)) /\ IsFiniteSet(Tried(l))
    BY TriedIs
<1>6. Cardinality(Tried(l) \cup {Len(l) + 1}) = Cardinality(Tried(l)) + 1
    BY <1>2, <1>5, FS_AddElement
<1> QED  BY <1>3, <1>4, <1>5, <1>6

(* A reset is a new beginning.                                               *)
LEMMA ResetBounded ==
    ASSUME NEW l \in Seq(Results)
    PROVE  Bounded(Append(l, "reset"))
<1> DEFINE m == Append(l, "reset")
<1>1. m \in Seq(Results) /\ Len(m) = Len(l) + 1 /\ Len(l) \in Nat /\ m[Len(l) + 1] = "reset"
    BY AppendIs DEF Results
<1> HIDE DEF m
<1>2. ASSUME NEW i \in 1..Len(m) PROVE ~Since(m, i)
    BY <1>1 DEF Since
<1>3. Tried(m) = {}
    BY <1>2 DEF Tried
<1>4. Attempts(m) = 0
    BY <1>1, <1>3, TriedIs, FS_EmptySet
<1> QED  BY <1>2, <1>4 DEF Bounded, m

(* An attempt below the limit, or what does not count.                       *)
LEMMA OtherBounded ==
    ASSUME NEW l \in Seq(Results), Bounded(l), NEW e \in {"started", "succeeded", "failed"},
           e = "started" => Attempts(l) < Limit
    PROVE  Bounded(Append(l, e))
<1> DEFINE m == Append(l, e)
<1>1. /\ m \in Seq(Results) /\ Len(m) = Len(l) + 1 /\ Len(l) \in Nat /\ m[Len(l) + 1] = e
      /\ \A i \in 1..Len(l) : m[i] = l[i]
    BY AppendIs DEF Results
<1>2. /\ Attempts(m) = IF e = "started" THEN Attempts(l) + 1 ELSE Attempts(l)
      /\ \A i \in 1..Len(l) : Since(m, i) <=> Since(l, i)
    BY AttemptsGrow, TriedGrows DEF Results
<1> HIDE DEF m
<1>3. Attempts(l) \in Nat
    BY TriedIs
<1>4. Attempts(m) <= Limit
    BY <1>2, <1>3 DEF Bounded
<1>5. ASSUME NEW i \in 1..Len(m), m[i] = "suspended", Since(m, i)
      PROVE  /\ Attempts(m) >= Limit
             /\ \A k \in i..Len(m) : m[k] # "started" /\ (m[k] = "suspended" => k = i)
    <2>1. i \in 1..Len(l)
        BY <1>1, <1>5
    <2>2. Attempts(l) >= Limit /\ \A k \in i..Len(l) : l[k] # "started" /\ (l[k] = "suspended" => k = i)
        BY <1>1, <1>2, <1>5, <2>1 DEF Bounded
    <2>3. e # "started"
        BY <1>3, <2>2
    <2>4. ASSUME NEW k \in i..Len(m) PROVE m[k] # "started" /\ (m[k] = "suspended" => k = i)
        <3>1. k \in i..Len(l) \/ k = Len(l) + 1
            BY <1>1
        <3>2. CASE k \in i..Len(l)
            <4>1. k \in 1..Len(l)
                BY <2>1, <3>2
            <4> QED  BY <1>1, <2>2, <3>2, <4>1
        <3>3. CASE k = Len(l) + 1
            BY <1>1, <2>3, <3>3
        <3> QED  BY <3>1, <3>2, <3>3
    <2> QED  BY <1>2, <2>2, <2>3, <2>4
<1> QED  BY <1>4, <1>5 DEF Bounded, m

(* A suspension, where none stands and the attempts are used up.             *)
LEMMA SuspensionBounded ==
    ASSUME NEW l \in Seq(Results), Bounded(l), ~Suspended(l), ~(Attempts(l) < Limit)
    PROVE  Bounded(Append(l, "suspended"))
<1> DEFINE m == Append(l, "suspended")
<1>1. /\ m \in Seq(Results) /\ Len(m) = Len(l) + 1 /\ Len(l) \in Nat /\ m[Len(l) + 1] = "suspended"
      /\ \A i \in 1..Len(l) : m[i] = l[i]
    BY AppendIs DEF Results
<1>2. /\ Attempts(m) = Attempts(l)
      /\ \A i \in 1..Len(l) : Since(m, i) <=> Since(l, i)
    BY AttemptsGrow, TriedGrows DEF Results
<1> HIDE DEF m
<1>3. Attempts(l) \in Nat
    BY TriedIs
<1>4. Attempts(m) <= Limit /\ Attempts(m) >= Limit
    BY <1>2, <1>3 DEF Bounded
<1>5. ASSUME NEW i \in 1..Len(l), l[i] = "suspended", Since(l, i) PROVE FALSE
    <2>1. \A k \in i..Len(l) : l[k] # "started" /\ l[k] # "reset"
        BY <1>5 DEF Bounded, Since
    <2> QED  BY <1>5, <2>1 DEF Suspended
<1>6. ASSUME NEW i \in 1..Len(m), m[i] = "suspended", Since(m, i)
      PROVE  \A k \in i..Len(m) : m[k] # "started" /\ (m[k] = "suspended" => k = i)
    <2>1. i \notin 1..Len(l)
        BY <1>1, <1>2, <1>5, <1>6
    <2>2. i = Len(l) + 1
        BY <1>1, <2>1
    <2> QED  BY <1>1, <2>2
<1> QED  BY <1>4, <1>6 DEF Bounded, m

LEMMA AtMostOne ==
    ASSUME NEW X, \A a, b \in X : a = b PROVE Cardinality(X) <= 1
<1>1. X = {} => Cardinality(X) = 0
    BY FS_EmptySet
<1>2. ASSUME NEW a \in X PROVE Cardinality(X) = 1
    <2>1. X = {a}
        OBVIOUS
    <2>2. Cardinality({a}) = 1
        BY FS_Singleton
    <2> QED  BY <2>1, <2>2
<1> QED  BY <1>1, <1>2

LEMMA BoundedKeepsBudget ==
    ASSUME TypeOK, \A s \in Sessions : Bounded(log[s]) PROVE BudgetKept
<1> SUFFICES ASSUME NEW s \in Sessions, NEW i \in 1..Len(log[s]), Since(log[s], i)
             PROVE  LET l == log[s]
                        Tries(j) == {k \in i..j : l[k] = "started"}
                    IN  /\ Cardinality(Tries(Len(l))) <= Limit
                        /\ Cardinality({k \in i..Len(l) : l[k] = "suspended"}) <= 1
                        /\ \A k \in i..Len(l) : l[k] = "suspended" => Tries(Len(l)) = Tries(k)
    BY DEF BudgetKept, Since
<1> DEFINE l == log[s]
           Tries(j) == {k \in i..j : l[k] = "started"}
<1>1. l \in Seq(Results) /\ Len(l) \in Nat /\ Bounded(l) /\ i \in 1..Len(l) /\ Since(l, i)
    BY DEF TypeOK
<1> HIDE DEF l
<1>2. ASSUME NEW k \in i..Len(l) PROVE k \in 1..Len(l) /\ Since(l, k)
    BY <1>1 DEF Since
<1>3. Cardinality(Tries(Len(l))) <= Limit
    <2>1. Tries(Len(l)) \subseteq Tried(l)
        BY <1>2 DEF Tried
    <2>2. Attempts(l) = Cardinality(Tried(l)) /\ IsFiniteSet(Tried(l)) /\ Attempts(l) \in Nat
        BY <1>1, TriedIs
    <2> HIDE DEF Tries
    <2>3. /\ IsFiniteSet(Tries(Len(l)))
          /\ Cardinality(Tries(Len(l))) <= Cardinality(Tried(l))
        BY <2>1, <2>2, FS_Subset
    <2>4. Cardinality(Tries(Len(l))) \in Nat
        BY <2>3, FS_CardinalityType
    <2> QED  BY <1>1, <2>2, <2>3, <2>4 DEF Bounded
<1>4. Cardinality({k \in i..Len(l) : l[k] = "suspended"}) <= 1
    <2> DEFINE X == {k \in i..Len(l) : l[k] = "suspended"}
    <2>1. ASSUME NEW a \in X, NEW b \in X PROVE a = b
        <3>1. a \in 1..Len(l) /\ b \in 1..Len(l) /\ Since(l, a) /\ Since(l, b)
            BY <1>2
        <3>2. (b \in a..Len(l) => b = a) /\ (a \in b..Len(l) => a = b)
            BY <1>1, <3>1 DEF Bounded
        <3> QED  BY <1>1, <3>1, <3>2
    <2> HIDE DEF X
    <2> QED  BY <2>1, AtMostOne DEF X
<1>5. ASSUME NEW k \in i..Len(l), l[k] = "suspended" PROVE Tries(Len(l)) = Tries(k)
    <2>1. \A j \in k..Len(l) : l[j] # "started"
        BY <1>1, <1>2, <1>5 DEF Bounded
    <2>2. \A j \in i..Len(l) : j \in i..k \/ j \in k..Len(l)
        BY <1>1
    <2>3. \A j \in i..k : j \in i..Len(l)
        BY <1>1
    <2> QED  BY <2>1, <2>2, <2>3
<1> QED  BY <1>3, <1>4, <1>5 DEF l

-------------------------------------------------------------------------------
(* What a step of one process leaves of the others: what ends a report's     *)
(* freshness touches nothing else.                                           *)
Like(a, b) == a.pc = b.pc /\ a.s = b.s /\ a.cand = b.cand /\ a.rep = b.rep /\ a.op = b.op
Alone(p)   == proc' \in [Procs -> Process] /\ \A q \in Procs \ {p} : Like(proc'[q], proc[q])

LEMMA Kinds ==
    /\ Sessions \subseteq Followers /\ Sweep \in Followers /\ Followers \subseteq Procs
    /\ Clis \subseteq Procs /\ Followers \cap Clis = {} /\ None \notin Procs
    /\ \A p \in Procs : p \in Followers \/ p \in Clis
BY DEF Followers, Procs, None

LEMMA IdleIs ==
    ASSUME NEW s \in Sessions
    PROVE  /\ Idle(s) \in Process /\ Idle(s).pc = "idle" /\ Idle(s).s = s /\ ~Idle(s).cand
           /\ Idle(s).rep = None
BY DEF Idle, Process, Steps, Probes, Commands, None

LEMMA RestingIs ==
    ASSUME NEW p \in Procs
    PROVE  /\ Resting(p) \in Process /\ Resting(p).pc = "idle" /\ ~Resting(p).cand
           /\ p \in Sessions => Resting(p).s = p
<1> DEFINE s == IF p \in Sessions THEN p ELSE CHOOSE t \in Sessions : TRUE
<1>1. s \in Sessions
    BY Kinds
<1>2. Resting(p) = Idle(s)
    BY DEF Resting
<1> HIDE DEF s
<1>3. Resting(p) \in Process /\ Resting(p).pc = "idle" /\ ~Resting(p).cand /\ Resting(p).s = s
    BY <1>1, <1>2, IdleIs
<1> QED  BY <1>3 DEF s

LEMMA StampedIs ==
    ASSUME NEW f \in [Procs -> Process], NEW s \in Sessions
    PROVE  Stamped(f, s) \in [Procs -> Process] /\ \A q \in Procs : Like(Stamped(f, s)[q], f[q])
<1>1. ASSUME NEW q \in Procs
      PROVE  Stamped(f, s)[q] \in Process /\ Like(Stamped(f, s)[q], f[q])
    <2> DEFINE r == f[q]
    <2>1. r \in Process
        OBVIOUS
    <2>2. Stamped(f, s)[q] = IF r.s = s THEN [r EXCEPT !.fresh = FALSE] ELSE r
        BY DEF Stamped
    <2> HIDE DEF r
    <2>3. [r EXCEPT !.fresh = FALSE] \in Process /\ Like([r EXCEPT !.fresh = FALSE], r) /\ Like(r, r)
        BY <2>1 DEF Process, Like
    <2>4. Stamped(f, s)[q] \in Process /\ Like(Stamped(f, s)[q], r)
        BY <2>1, <2>2, <2>3
    <2> QED  BY <2>4 DEF r
<1> QED  BY <1>1 DEF Stamped

LEMMA OutdatedIs ==
    ASSUME NEW f \in [Procs -> Process], NEW s \in Sessions
    PROVE  Outdated(f, s) \in [Procs -> Process] /\ \A q \in Procs : Like(Outdated(f, s)[q], f[q])
<1>1. ASSUME NEW q \in Procs
      PROVE  Outdated(f, s)[q] \in Process /\ Like(Outdated(f, s)[q], f[q])
    <2> DEFINE r == f[q]
    <2>1. r \in Process
        OBVIOUS
    <2>2. \/ Outdated(f, s)[q] = [r EXCEPT !.begun = TRUE]
          \/ Outdated(f, s)[q] = r
        BY DEF Outdated
    <2> HIDE DEF r
    <2>3. [r EXCEPT !.begun = TRUE] \in Process /\ Like([r EXCEPT !.begun = TRUE], r) /\ Like(r, r)
        BY <2>1 DEF Process, Like
    <2>4. Outdated(f, s)[q] \in Process /\ Like(Outdated(f, s)[q], r)
        BY <2>1, <2>2, <2>3
    <2> QED  BY <2>4 DEF r
<1> QED  BY <1>1 DEF Outdated

(* A process that becomes r while the others, as f has them, stay alike.     *)
LEMMA AloneIs ==
    ASSUME NEW f \in [Procs -> Process], NEW p \in Procs, NEW r \in Process,
           \A q \in Procs : Like(f[q], proc[q]), proc' = [f EXCEPT ![p] = r]
    PROVE  Alone(p) /\ proc'[p] = r
BY DEF Alone

LEMMA AllKeep ==
    ASSUME proc' \in [Procs -> Process],
           world' \in [Sessions -> Probes], row' \in [Sessions -> Row],
           log' \in [Sessions -> Seq(Results)], \A s \in Sessions : Bounded(log'[s]),
           lock' \in [Sessions -> Procs \cup {None}], gate' \in Followers \cup {None},
           moves' \in 0..MaxMoves,
           \A q \in Procs : Holds(proc'[q], q, lock', gate'),
           \A q \in Followers : proc'[q].pc = "up" \/ (proc'[q].pc = "decide" /\ proc'[q].cand) =>
               row'[proc'[q].s].status = "up"
    PROVE  Inv'
<1>1. Held'
    BY DEF Held
<1>2. Ready'
    BY DEF Ready, Found, At, S
<1>3. ASSUME NEW q \in Followers
      PROVE  gate' = q <=> proc'[q].pc = "lock" \/ \E s \in Sessions : lock'[s] = q
    <2>1. q \in Procs /\ q \notin Clis
        BY Kinds
    <2>2. Holds(proc'[q], q, lock', gate') /\ proc'[q].s \in Sessions /\ proc'[q].pc # "command"
        BY <2>1 DEF Process, Holds, Fits
    <2>3. (\E s \in Sessions : lock'[s] = q) <=> proc'[q].pc \in LockSteps
        BY <2>2 DEF Holds, Locks
    <2>4. gate' = q <=> proc'[q].pc \in GateSteps
        BY <2>2 DEF Holds, Slot
    <2> QED  BY <2>2, <2>3, <2>4 DEF LockSteps, GateSteps
<1>4. TypeOK'
    BY <1>3 DEF TypeOK, At
<1> QED  BY <1>1, <1>2, <1>4 DEF Inv

(* What holds for the process that takes a step holds for all.               *)
LEMMA StepKeeps ==
    ASSUME Inv, NEW p \in Procs, Alone(p),
           world' \in [Sessions -> Probes], row' \in [Sessions -> Row],
           log' \in [Sessions -> Seq(Results)], \A s \in Sessions : Bounded(log'[s]),
           lock' \in [Sessions -> Procs \cup {None}], gate' \in Followers \cup {None},
           moves' \in 0..MaxMoves,
           Holds(proc'[p], p, lock', gate'),
           \A q \in Procs \ {p} : /\ \A s \in Sessions : lock'[s] = q <=> lock[s] = q
                                  /\ gate' = q <=> gate = q,
           \A s \in Sessions : row'[s].status = row[s].status \/ lock[s] = p,
           proc'[p].pc = "up" \/ (proc'[p].pc = "decide" /\ proc'[p].cand) =>
               row'[proc'[p].s].status = "up"
    PROVE  Inv'
<1>1. proc \in [Procs -> Process] /\ proc' \in [Procs -> Process] /\ Held /\ Ready
    BY DEF Alone, Inv, TypeOK
<1>2. ASSUME NEW q \in Procs PROVE Holds(proc'[q], q, lock', gate')
    <2>1. CASE q = p
        BY <2>1
    <2>2. CASE q # p
        <3>1. Holds(proc[q], q, lock, gate)
            BY <1>1 DEF Held
        <3>2. proc'[q].pc = proc[q].pc /\ proc'[q].s = proc[q].s
            BY <2>2 DEF Alone, Like
        <3>3. Fits(proc'[q], q)
            BY <3>1, <3>2 DEF Holds, Fits
        <3>4. Locks(proc'[q], q, lock')
            BY <2>2, <3>1, <3>2 DEF Holds, Locks
        <3>5. Slot(proc'[q], q, gate')
            BY <2>2, <3>1, <3>2 DEF Holds, Slot
        <3> QED  BY <3>3, <3>4, <3>5 DEF Holds
    <2> QED  BY <2>1, <2>2
<1>3. ASSUME NEW q \in Followers, proc'[q].pc = "up" \/ (proc'[q].pc = "decide" /\ proc'[q].cand)
      PROVE  row'[proc'[q].s].status = "up"
    <2>1. CASE q = p
        BY <1>3, <2>1
    <2>2. CASE q # p
        <3>1. q \in Procs
            BY Kinds
        <3>2. proc'[q].pc = proc[q].pc /\ proc'[q].s = proc[q].s /\ proc'[q].cand = proc[q].cand
            BY <2>2, <3>1 DEF Alone, Like
        <3>3. proc[q].s \in Sessions /\ Holds(proc[q], q, lock, gate)
            BY <1>1, <3>1 DEF Process, Held
        <3>4. lock[proc[q].s] = q
            BY <1>3, <3>2, <3>3 DEF Holds, Locks, LockSteps
        <3>5. row[proc[q].s].status = "up"
            BY <1>1, <1>3, <3>2 DEF Ready, Found, At, S
        <3> QED  BY <2>2, <3>2, <3>3, <3>4, <3>5
    <2> QED  BY <2>1, <2>2
<1> QED  BY <1>1, <1>2, <1>3, AllKeep

LEMMA Now ==
    ASSUME Inv, NEW p \in Procs
    PROVE  /\ proc \in [Procs -> Process] /\ proc[p] \in Process /\ S(p) \in Sessions
           /\ proc[p].s \in Sessions /\ Holds(proc[p], p, lock, gate)
           /\ world \in [Sessions -> Probes] /\ row \in [Sessions -> Row]
           /\ log \in [Sessions -> Seq(Results)] /\ \A s \in Sessions : Bounded(log[s])
           /\ lock \in [Sessions -> Procs \cup {None}] /\ gate \in Followers \cup {None}
           /\ moves \in 0..MaxMoves
           /\ \A q \in Procs : Like(proc[q], proc[q])
BY DEF Inv, TypeOK, Held, Process, S, Like

(* A step that takes and gives no lock and no slot.                          *)
LEMMA QuietStep ==
    ASSUME Inv, NEW p \in Procs, Alone(p), lock' = lock, gate' = gate,
           world' \in [Sessions -> Probes], row' \in [Sessions -> Row],
           log' \in [Sessions -> Seq(Results)], \A s \in Sessions : Bounded(log'[s]),
           moves' \in 0..MaxMoves,
           Fits(proc'[p], p), proc'[p].s = proc[p].s,
           proc'[p].pc \in LockSteps <=> proc[p].pc \in LockSteps,
           proc'[p].pc \in GateSteps <=> proc[p].pc \in GateSteps,
           \A s \in Sessions : row'[s].status = row[s].status \/ lock[s] = p,
           proc'[p].pc = "up" \/ (proc'[p].pc = "decide" /\ proc'[p].cand) =>
               row'[proc'[p].s].status = "up"
    PROVE  Inv'
<1>1. lock' \in [Sessions -> Procs \cup {None}] /\ gate' \in Followers \cup {None}
    BY Now
<1>2. Holds(proc[p], p, lock, gate)
    BY Now
<1>3. Locks(proc'[p], p, lock')
    BY <1>2 DEF Holds, Locks
<1>4. Slot(proc'[p], p, gate')
    BY <1>2 DEF Holds, Slot
<1>5. Holds(proc'[p], p, lock', gate')
    BY <1>3, <1>4 DEF Holds
<1> QED  BY <1>1, <1>5, StepKeeps

(* A step of nobody's, which at most ends a report's freshness.              *)
LEMMA OutsideStep ==
    ASSUME Inv, NEW f \in [Procs -> Process], \A q \in Procs : Like(f[q], proc[q]), proc' = f,
           lock' = lock, gate' = gate, log' = log,
           world' \in [Sessions -> Probes], row' \in [Sessions -> Row], moves' \in 0..MaxMoves,
           \A s \in Sessions : row'[s].status = row[s].status
    PROVE  Inv'
<1> DEFINE p == Sweep
<1>1. p \in Procs /\ p \in Followers
    BY Kinds
<1> HIDE DEF p
<1>2. Alone(p) /\ Like(proc'[p], proc[p])
    BY <1>1 DEF Alone
<1>3. /\ proc[p].s \in Sessions /\ Holds(proc[p], p, lock, gate)
      /\ log' \in [Sessions -> Seq(Results)] /\ \A s \in Sessions : Bounded(log'[s])
    BY <1>1, Now
<1>4. proc'[p].pc = proc[p].pc /\ proc'[p].s = proc[p].s /\ proc'[p].cand = proc[p].cand
    BY <1>2 DEF Like
<1>5. Fits(proc'[p], p)
    BY <1>3, <1>4 DEF Holds, Fits
<1>6. Found(p) => row[S(p)].status = "up"
    BY <1>1 DEF Inv, Ready
<1>7. proc'[p].pc = "up" \/ (proc'[p].pc = "decide" /\ proc'[p].cand) =>
          row'[proc'[p].s].status = "up"
    BY <1>3, <1>4, <1>6 DEF Found, At, S
<1> QED  BY <1>1, <1>2, <1>3, <1>4, <1>5, <1>7, QuietStep

LEMMA CountedIs == ASSUME Inv, Counted PROVE moves' \in 0..MaxMoves
<1>1. moves \in 0..MaxMoves /\ MaxMoves \in Nat
    BY DEF Inv, TypeOK
<1> QED  BY <1>1 DEF Counted
-------------------------------------------------------------------------------
(* The health cycle.                                                         *)
LEMMA ObserveKeeps == ASSUME Inv, NEW p \in Procs, Observe(p) PROVE Inv'
<1> DEFINE r == [proc[p] EXCEPT !.pc = "persist", !.rep = world[p], !.cand = row[p].status = "up"]
<1>1. p \in Sessions /\ proc[p].pc = "idle" /\ UNCHANGED <<world, row, log, lock, gate, moves>>
    BY DEF Observe, At
<1>2. proc' = [proc EXCEPT ![p] = r]
    BY Now DEF Observe
<1>3. /\ proc[p] \in Process /\ world[p] \in Probes
    BY <1>1, Now
<1>4. r \in Process /\ r.pc = "persist" /\ r.s = proc[p].s
    BY <1>3 DEF Process, Steps
<1> HIDE DEF r
<1>5. Alone(p) /\ proc'[p] = r
    BY <1>2, <1>4, Now, AloneIs
<1>6. Fits(proc'[p], p)
    BY <1>1, <1>4, <1>5, Now, Kinds DEF Holds, Fits, HealthSteps
<1>7. /\ proc'[p].pc \in LockSteps <=> proc[p].pc \in LockSteps
      /\ proc'[p].pc \in GateSteps <=> proc[p].pc \in GateSteps
    BY <1>1, <1>4, <1>5 DEF LockSteps, GateSteps
<1>8. /\ world' \in [Sessions -> Probes] /\ row' \in [Sessions -> Row] /\ moves' \in 0..MaxMoves
      /\ log' \in [Sessions -> Seq(Results)] /\ \A s \in Sessions : Bounded(log'[s])
    BY <1>1, Now
<1> QED  BY <1>1, <1>4, <1>5, <1>6, <1>7, <1>8, QuietStep

LEMMA PersistKeeps == ASSUME Inv, NEW p \in Procs, PersistHealth(p) PROVE Inv'
<1> DEFINE f == Stamped(proc, S(p))
           c == proc[p].cand
           r == [f[p] EXCEPT !.fresh = TRUE, !.pc = IF c THEN "count" ELSE "gate",
                             !.begun = proc[p].begun /\ c]
<1>1. proc[p].pc = "persist" /\ UNCHANGED <<world, row, log, lock, gate, moves>>
    BY DEF PersistHealth, At
<1>2. f \in [Procs -> Process] /\ (\A q \in Procs : Like(f[q], proc[q])) /\ p \in Sessions
    BY <1>1, Now, StampedIs DEF Holds, Fits, HealthSteps
<1>3. proc' = [f EXCEPT ![p] = r]
    BY <1>2 DEF PersistHealth
<1> HIDE DEF f
<1>4. f[p] \in Process /\ f[p].s = proc[p].s /\ c \in BOOLEAN /\ proc[p].begun \in BOOLEAN
    BY <1>2, Now DEF Like, Process
<1> HIDE DEF c
<1>5. r \in Process /\ r.pc \in {"count", "gate"} /\ r.s = proc[p].s
    BY <1>4 DEF Process, Steps
<1> HIDE DEF r
<1>6. Alone(p) /\ proc'[p] = r
    BY <1>2, <1>3, <1>5, AloneIs
<1>7. Fits(proc'[p], p)
    BY <1>2, <1>5, <1>6, Now, Kinds DEF Holds, Fits, HealthSteps
<1>8. /\ proc'[p].pc \in LockSteps <=> proc[p].pc \in LockSteps
      /\ proc'[p].pc \in GateSteps <=> proc[p].pc \in GateSteps
    BY <1>1, <1>5, <1>6 DEF LockSteps, GateSteps
<1>9. /\ world' \in [Sessions -> Probes] /\ row' \in [Sessions -> Row] /\ moves' \in 0..MaxMoves
      /\ log' \in [Sessions -> Seq(Results)] /\ \A s \in Sessions : Bounded(log'[s])
    BY <1>1, Now
<1> QED  BY <1>1, <1>5, <1>6, <1>7, <1>8, <1>9, QuietStep

LEMMA CountKeeps == ASSUME Inv, NEW p \in Procs, CountCycle(p) PROVE Inv'
<1> DEFINE v == IF proc[p].rep # "error" THEN 0
                ELSE IF row[p].cycles = 3 THEN 3 ELSE row[p].cycles + 1
           r == [proc[p] EXCEPT !.pc = "reset"]
           o == [proc[p] EXCEPT !.pc = "gate", !.begun = FALSE]
<1>1. proc[p].pc = "count" /\ UNCHANGED <<world, log, lock, gate, moves>>
    BY DEF CountCycle, At
<1>2. p \in Sessions /\ proc[p] \in Process /\ row[p] \in Row
    BY <1>1, Now DEF Holds, Fits, HealthSteps
<1>3. row' = [row EXCEPT ![p].cycles = v]
    BY <1>2, Now DEF CountCycle
<1>4. v \in 0..3
    BY <1>2 DEF Row
<1> HIDE DEF v
<1>5. row' \in [Sessions -> Row] /\ \A s \in Sessions : row'[s].status = row[s].status
    BY <1>2, <1>3, <1>4, Now DEF Row
<1>6. proc' = [proc EXCEPT ![p] = r] \/ proc' = [proc EXCEPT ![p] = o]
    BY Now DEF CountCycle, Go, Looked
<1>7. /\ r \in Process /\ r.pc = "reset" /\ r.s = proc[p].s
      /\ o \in Process /\ o.pc = "gate" /\ o.s = proc[p].s
    BY <1>2 DEF Process, Steps
<1> HIDE DEF r, o
<1>8. Alone(p) /\ (proc'[p] = r \/ proc'[p] = o)
    BY <1>6, <1>7, Now, AloneIs
<1>9. Fits(proc'[p], p)
    BY <1>2, <1>7, <1>8, Now, Kinds DEF Holds, Fits, HealthSteps
<1>10. /\ proc'[p].pc \in LockSteps <=> proc[p].pc \in LockSteps
       /\ proc'[p].pc \in GateSteps <=> proc[p].pc \in GateSteps
       /\ proc'[p].pc \notin {"up", "decide"} /\ proc'[p].s = proc[p].s
    BY <1>1, <1>7, <1>8 DEF LockSteps, GateSteps
<1>11. /\ world' \in [Sessions -> Probes] /\ moves' \in 0..MaxMoves
       /\ log' \in [Sessions -> Seq(Results)] /\ \A s \in Sessions : Bounded(log'[s])
    BY <1>1, Now
<1> QED  BY <1>1, <1>5, <1>8, <1>9, <1>10, <1>11, QuietStep

(* A session's log with one event more.                                      *)
LEMMA LogGrows ==
    ASSUME Inv, NEW s \in Sessions, NEW e \in Results, Bounded(Append(log[s], e)),
           NEW m, m = [log EXCEPT ![s] = Append(log[s], e)]
    PROVE  m \in [Sessions -> Seq(Results)] /\ \A t \in Sessions : Bounded(m[t])
<1>1. log \in [Sessions -> Seq(Results)] /\ \A t \in Sessions : Bounded(log[t])
    BY DEF Inv, TypeOK
<1>2. Append(log[s], e) \in Seq(Results)
    BY <1>1, AppendIs
<1>3. \A t \in Sessions : m[t] = IF t = s THEN Append(log[s], e) ELSE log[t]
    BY <1>1
<1> QED  BY <1>1, <1>2, <1>3

LEMMA RenewedKeeps ==
    ASSUME Inv, NEW s \in Sessions
    PROVE  Renewed(s) \in [Sessions -> Seq(Results)] /\ \A t \in Sessions : Bounded(Renewed(s)[t])
<1>1. log \in [Sessions -> Seq(Results)] /\ \A t \in Sessions : Bounded(log[t])
    BY DEF Inv, TypeOK
<1>2. CASE Renewed(s) = log
    BY <1>1, <1>2
<1>3. CASE Renewed(s) = [log EXCEPT ![s] = Append(log[s], "reset")]
    <2>1. Bounded(Append(log[s], "reset"))
        BY <1>1, ResetBounded
    <2>2. "reset" \in Results
        BY DEF Results
    <2> QED  BY <1>3, <2>1, <2>2, LogGrows
<1> QED  BY <1>2, <1>3 DEF Renewed

LEMMA ResetKeeps == ASSUME Inv, NEW p \in Procs, ResetStreak(p) PROVE Inv'
<1> DEFINE o == [proc[p] EXCEPT !.pc = "gate", !.begun = FALSE]
<1>1. proc[p].pc = "reset" /\ UNCHANGED <<world, row, lock, gate, moves>>
    BY DEF ResetStreak, At
<1>2. p \in Sessions /\ proc[p] \in Process
    BY <1>1, Now DEF Holds, Fits, HealthSteps
<1>3. log' = log \/ log' = Renewed(p)
    BY DEF ResetStreak
<1>4. log' \in [Sessions -> Seq(Results)] /\ \A s \in Sessions : Bounded(log'[s])
    BY <1>2, <1>3, RenewedKeeps, Now
<1>5. proc' = [proc EXCEPT ![p] = o]
    BY Now DEF ResetStreak, Looked
<1>6. o \in Process /\ o.pc = "gate" /\ o.s = proc[p].s
    BY <1>2 DEF Process, Steps
<1> HIDE DEF o
<1>7. Alone(p) /\ proc'[p] = o
    BY <1>5, <1>6, Now, AloneIs
<1>8. Fits(proc'[p], p)
    BY <1>2, <1>6, <1>7, Now, Kinds DEF Holds, Fits, HealthSteps
<1>9. /\ proc'[p].pc \in LockSteps <=> proc[p].pc \in LockSteps
      /\ proc'[p].pc \in GateSteps <=> proc[p].pc \in GateSteps
    BY <1>1, <1>6, <1>7 DEF LockSteps, GateSteps
<1>10. world' \in [Sessions -> Probes] /\ row' \in [Sessions -> Row] /\ moves' \in 0..MaxMoves
    BY <1>1, Now
<1> QED  BY <1>1, <1>4, <1>6, <1>7, <1>8, <1>9, <1>10, QuietStep
-------------------------------------------------------------------------------
(* A repair.                                                                 *)
LEMMA SweepKeeps == ASSUME Inv, NEW s \in Sessions, SweepSession(s) PROVE Inv'
<1> DEFINE r == [Idle(s) EXCEPT !.pc = "gate"]
<1>1. proc[Sweep].pc = "idle" /\ UNCHANGED <<world, row, log, lock, gate, moves>>
    BY DEF SweepSession, At
<1>2. Sweep \in Procs /\ Sweep \in Followers /\ Sweep \notin Sessions /\ Sweep \notin Clis
    BY Kinds
<1>3. proc' = [proc EXCEPT ![Sweep] = r]
    BY DEF SweepSession
<1>4. r \in Process /\ r.pc = "gate" /\ r.s = s
    BY IdleIs DEF Process, Steps
<1> HIDE DEF r
<1>5. Alone(Sweep) /\ proc'[Sweep] = r
    BY <1>2, <1>3, <1>4, Now, AloneIs
<1>6. Fits(r, Sweep)
    BY <1>2, <1>4 DEF Fits, HealthSteps
<1>7. Locks(r, Sweep, lock')
    <2>1. \A t \in Sessions : lock[t] # Sweep
        BY <1>1, <1>2, Now DEF Holds, Locks, LockSteps
    <2> QED  BY <1>1, <1>4, <2>1 DEF Locks, LockSteps
<1>8. Slot(r, Sweep, gate')
    <2>1. gate # Sweep
        BY <1>1, <1>2, Now DEF Holds, Slot, GateSteps
    <2> QED  BY <1>1, <1>4, <2>1 DEF Slot, GateSteps
<1>9. Holds(proc'[Sweep], Sweep, lock', gate')
    BY <1>5, <1>6, <1>7, <1>8 DEF Holds
<1>10. /\ world' \in [Sessions -> Probes] /\ row' \in [Sessions -> Row] /\ moves' \in 0..MaxMoves
       /\ log' \in [Sessions -> Seq(Results)] /\ \A t \in Sessions : Bounded(log'[t])
       /\ lock' \in [Sessions -> Procs \cup {None}] /\ gate' \in Followers \cup {None}
    BY <1>1, <1>2, Now
<1> QED  BY <1>1, <1>2, <1>4, <1>5, <1>9, <1>10, StepKeeps

LEMMA TakeGateKeeps == ASSUME Inv, NEW p \in Procs, TakeGate(p) PROVE Inv'
<1> DEFINE r == [proc[p] EXCEPT !.pc = "lock"]
           o == Resting(p)
<1>1. proc[p].pc = "gate" /\ UNCHANGED <<world, row, log, lock, moves>>
    BY DEF TakeGate, At
<1>2. p \in Followers /\ p \notin Clis /\ proc[p] \in Process
    BY <1>1, Now, Kinds DEF Holds, Fits
<1>3. \/ gate = None /\ gate' = p /\ proc' = [proc EXCEPT ![p] = r]
      \/ gate' = gate /\ proc' = [proc EXCEPT ![p] = o]
    BY <1>1, Now DEF TakeGate, Go, End
<1>4. r \in Process /\ r.pc = "lock" /\ r.s = proc[p].s
    BY <1>2 DEF Process, Steps
<1>5. o \in Process /\ o.pc = "idle" /\ (p \in Sessions => o.s = p)
    BY RestingIs
<1> HIDE DEF r, o
<1>6. /\ Alone(p)
      /\ \/ gate = None /\ gate' = p /\ proc'[p] = r
         \/ gate' = gate /\ proc'[p] = o
    <2>1. CASE gate' = gate /\ proc' = [proc EXCEPT ![p] = o]
        BY <1>5, <2>1, Now, AloneIs
    <2>2. CASE gate = None /\ gate' = p /\ proc' = [proc EXCEPT ![p] = r]
        <3>1. proc \in [Procs -> Process] /\ \A q \in Procs : Like(proc[q], proc[q])
            BY Now
        <3>2. proc' = [proc EXCEPT ![p] = r]
            BY <2>2
        <3>3. Alone(p) /\ proc'[p] = r
            BY <1>4, <3>1, <3>2, AloneIs
        <3> QED  BY <2>2, <3>3
    <2> QED  BY <1>3, <2>1, <2>2
<1>7. Fits(proc'[p], p)
    BY <1>2, <1>4, <1>5, <1>6, Now DEF Holds, Fits, HealthSteps
<1>8. Locks(proc'[p], p, lock')
    <2>1. \A t \in Sessions : lock[t] # p
        BY <1>1, Now DEF Holds, Locks, LockSteps
    <2> QED  BY <1>1, <1>4, <1>5, <1>6, <2>1 DEF Locks, LockSteps
<1>9. Slot(proc'[p], p, gate')
    <2>1. gate # p
        BY <1>1, Now DEF Holds, Slot, GateSteps
    <2> QED  BY <1>2, <1>4, <1>5, <1>6, <2>1 DEF Slot, GateSteps
<1>10. Holds(proc'[p], p, lock', gate')
    BY <1>7, <1>8, <1>9 DEF Holds
<1>11. /\ world' \in [Sessions -> Probes] /\ row' \in [Sessions -> Row] /\ moves' \in 0..MaxMoves
       /\ log' \in [Sessions -> Seq(Results)] /\ \A t \in Sessions : Bounded(log'[t])
       /\ lock' \in [Sessions -> Procs \cup {None}] /\ gate' \in Followers \cup {None}
    BY <1>1, <1>2, <1>6, Now
<1>12. \A q \in Procs \ {p} : gate' = q <=> gate = q
    BY <1>6, Kinds
<1>13. proc'[p].pc \in {"lock", "idle"}
    BY <1>4, <1>5, <1>6
<1> QED  BY <1>1, <1>6, <1>10, <1>11, <1>12, <1>13, StepKeeps

LEMMA TakeLockKeeps == ASSUME Inv, NEW p \in Procs, TakeLock(p) PROVE Inv'
<1> DEFINE c == Candidate(row[S(p)], Observed(S(p)))
           r == [proc[p] EXCEPT !.pc = "decide", !.cand = c]
<1>1. /\ proc[p].pc = "lock" /\ UNCHANGED <<world, row, log, gate, moves>>
      /\ lock[S(p)] = None /\ lock' = [lock EXCEPT ![S(p)] = p]
    BY DEF TakeLock, At
<1>2. p \in Followers /\ p \notin Clis /\ proc[p] \in Process /\ proc[p].s \in Sessions /\ S(p) = proc[p].s
    BY <1>1, Now, Kinds DEF Holds, Fits, S
<1>3. proc' = [proc EXCEPT ![p] = r]
    BY Now DEF TakeLock
<1>4. c \in BOOLEAN /\ (c => row[S(p)].status = "up")
    BY DEF Candidate
<1> HIDE DEF c
<1>5. r \in Process /\ r.pc = "decide" /\ r.s = proc[p].s /\ r.cand = c
    BY <1>2, <1>4 DEF Process, Steps
<1> HIDE DEF r
<1>6. Alone(p) /\ proc'[p] = r
    BY <1>3, <1>5, Now, AloneIs
<1>7. Fits(r, p)
    BY <1>2, <1>5, Now DEF Holds, Fits, HealthSteps
<1>8. \A t \in Sessions : lock[t] # p
    BY <1>1, Now DEF Holds, Locks, LockSteps
<1>9. \A t \in Sessions : lock'[t] = IF t = S(p) THEN p ELSE lock[t]
    BY <1>1, Now
<1>10. Locks(r, p, lock')
    BY <1>2, <1>5, <1>8, <1>9 DEF Locks, LockSteps
<1>11. Slot(r, p, gate')
    <2>1. Slot(proc[p], p, gate)
        BY Now DEF Holds
    <2> QED  BY <1>1, <1>5, <2>1 DEF Slot, GateSteps
<1>12. Holds(proc'[p], p, lock', gate')
    BY <1>6, <1>7, <1>10, <1>11 DEF Holds
<1>13. /\ world' \in [Sessions -> Probes] /\ row' \in [Sessions -> Row] /\ moves' \in 0..MaxMoves
       /\ log' \in [Sessions -> Seq(Results)] /\ \A t \in Sessions : Bounded(log'[t])
       /\ lock' \in [Sessions -> Procs \cup {None}] /\ gate' \in Followers \cup {None}
    BY <1>1, Now
<1>14. ASSUME NEW q \in Procs \ {p}, NEW t \in Sessions PROVE lock'[t] = q <=> lock[t] = q
    <2>1. q # None /\ q # p
        BY Kinds
    <2>2. CASE t = S(p)
        BY <1>1, <1>2, <1>9, <2>1, <2>2
    <2>3. CASE t # S(p)
        BY <1>9, <2>3
    <2> QED  BY <2>2, <2>3
<1>15. \A q \in Procs \ {p} : /\ \A t \in Sessions : lock'[t] = q <=> lock[t] = q
                              /\ gate' = q <=> gate = q
    BY <1>1, <1>14
<1>16. proc'[p].pc = "decide" /\ (proc'[p].cand => row'[proc'[p].s].status = "up")
    BY <1>1, <1>2, <1>4, <1>5, <1>6
<1>17. \A t \in Sessions : row'[t].status = row[t].status
    BY <1>1
<1> QED  BY <1>6, <1>12, <1>13, <1>15, <1>16, <1>17, StepKeeps

(* A process that has its session's lock and goes back to rest.              *)
LEMMA RestKeeps ==
    ASSUME Inv, NEW p \in Procs, proc[p].pc \in LockSteps,
           NEW f \in [Procs -> Process], \A q \in Procs : Like(f[q], proc[q]),
           proc' = [f EXCEPT ![p] = Resting(p)], Free(p),
           gate' = IF p \in Followers THEN None ELSE gate,
           world' \in [Sessions -> Probes], row' \in [Sessions -> Row],
           log' \in [Sessions -> Seq(Results)], \A s \in Sessions : Bounded(log'[s]),
           moves' \in 0..MaxMoves,
           \A s \in Sessions : row'[s].status = row[s].status \/ s = S(p)
    PROVE  Inv'
<1> DEFINE r == Resting(p)
<1>1. r \in Process /\ r.pc = "idle" /\ (p \in Sessions => r.s = p)
    BY RestingIs
<1> HIDE DEF r
<1>2. Alone(p) /\ proc'[p] = r
    BY <1>1, AloneIs DEF r
<1>3. proc[p].s \in Sessions /\ Holds(proc[p], p, lock, gate) /\ S(p) = proc[p].s
    BY Now DEF S
<1>4. lock[S(p)] = p /\ (p \in Followers => gate = p) /\ (p \in Clis => gate # p)
    <2>1. p \in Followers => proc[p].pc # "command"
        BY <1>3, Kinds DEF Holds, Fits
    <2> QED  BY <1>3, <2>1, Kinds DEF Holds, Locks, Slot, LockSteps, GateSteps
<1>5. lock \in [Sessions -> Procs \cup {None}] /\ gate \in Followers \cup {None}
    BY Now
<1>6. \A t \in Sessions : lock'[t] = IF lock[t] = p THEN None ELSE lock[t]
    BY DEF Free
<1>7. lock' \in [Sessions -> Procs \cup {None}] /\ gate' \in Followers \cup {None}
    BY <1>5 DEF Free
<1>8. Fits(r, p)
    BY <1>1 DEF Fits, HealthSteps
<1>9. Locks(r, p, lock')
    BY <1>1, <1>6, Kinds DEF Locks, LockSteps
<1>10. Slot(r, p, gate')
    BY <1>1, <1>4, Kinds DEF Slot, GateSteps
<1>11. Holds(proc'[p], p, lock', gate')
    BY <1>2, <1>8, <1>9, <1>10 DEF Holds
<1>12. ASSUME NEW q \in Procs \ {p}
       PROVE  (\A t \in Sessions : lock'[t] = q <=> lock[t] = q) /\ (gate' = q <=> gate = q)
    BY <1>4, <1>6, Kinds
<1> QED  BY <1>1, <1>2, <1>4, <1>7, <1>11, <1>12, StepKeeps

LEMMA DecideKeeps == ASSUME Inv, NEW p \in Procs, Decide(p) PROVE Inv'
<1> DEFINE s == S(p)
           f == IF row[s].live THEN Stamped(proc, s) ELSE proc
           g == Outdated(f, s)
           r == [g[p] EXCEPT !.pc = "up"]
           try == proc[p].cand /\ Attempts(log[s]) < Limit
<1>1. proc[p].pc = "decide" /\ UNCHANGED <<world, row, moves>>
    BY DEF Decide, At
<1>2. /\ p \in Followers /\ p \notin Clis /\ proc[p] \in Process
      /\ s \in Sessions /\ s = proc[p].s
    BY <1>1, Now, Kinds DEF Holds, Fits, S
<1>3. /\ world' \in [Sessions -> Probes] /\ row' \in [Sessions -> Row] /\ moves' \in 0..MaxMoves
      /\ log[s] \in Seq(Results) /\ Bounded(log[s])
    BY <1>1, <1>2, Now
<1>4. log' \in [Sessions -> Seq(Results)] /\ \A t \in Sessions : Bounded(log'[t])
    <2>1. CASE try
        <3>1. log' = [log EXCEPT ![s] = Append(log[s], "started")]
            BY <2>1 DEF Decide
        <3>2. Bounded(Append(log[s], "started")) /\ "started" \in Results
            BY <1>3, <2>1, OtherBounded DEF Results
        <3> QED  BY <1>2, <3>1, <3>2, LogGrows
    <2>2. CASE ~try /\ proc[p].cand /\ ~Suspended(log[s])
        <3>1. log' = [log EXCEPT ![s] = Append(log[s], "suspended")]
            BY <2>2 DEF Decide
        <3>2. ~(Attempts(log[s]) < Limit)
            BY <2>2
        <3>3. Bounded(Append(log[s], "suspended")) /\ "suspended" \in Results
            BY <1>3, <2>2, <3>2, SuspensionBounded DEF Results
        <3> QED  BY <1>2, <3>1, <3>3, LogGrows
    <2>3. CASE ~try /\ ~(proc[p].cand /\ ~Suspended(log[s]))
        <3>1. log' = log
            BY <2>3 DEF Decide
        <3> QED  BY <3>1, Now
    <2> QED  BY <2>1, <2>2, <2>3
<1>5. f \in [Procs -> Process] /\ \A q \in Procs : Like(f[q], proc[q])
    <2>1. Stamped(proc, s) \in [Procs -> Process] /\ \A q \in Procs : Like(Stamped(proc, s)[q], proc[q])
        BY <1>2, Now, StampedIs
    <2> QED  BY <2>1, Now
<1>6. CASE ~try
    <2>1. proc' = [f EXCEPT ![p] = Resting(p)] /\ Free(p) /\ gate' = None
        BY <1>6 DEF Decide, Release
    <2>2. proc[p].pc \in LockSteps
        BY <1>1 DEF LockSteps
    <2> HIDE DEF f
    <2> QED  BY <1>1, <1>2, <1>3, <1>4, <1>5, <2>1, <2>2, RestKeeps
<1>7. CASE try
    <2>1. proc' = [g EXCEPT ![p].pc = "up"] /\ UNCHANGED <<lock, gate>>
        BY <1>7 DEF Decide
    <2> HIDE DEF f
    <2>2. g \in [Procs -> Process] /\ \A q \in Procs : Like(g[q], f[q])
        BY <1>2, <1>5, OutdatedIs
    <2> HIDE DEF g
    <2>3. \A q \in Procs : Like(g[q], proc[q])
        BY <1>5, <2>2 DEF Like
    <2>4. proc' = [g EXCEPT ![p] = r]
        BY <2>1, <2>2
    <2>5. g[p] \in Process /\ g[p].s = proc[p].s
        BY <2>2, <2>3 DEF Like
    <2>6. r \in Process /\ r.pc = "up" /\ r.s = proc[p].s
        BY <2>5 DEF Process, Steps
    <2> HIDE DEF r
    <2>7. Alone(p) /\ proc'[p] = r
        BY <2>2, <2>3, <2>4, <2>6, AloneIs
    <2>8. Fits(proc'[p], p)
        BY <1>2, <2>6, <2>7, Now DEF Holds, Fits, HealthSteps
    <2>9. /\ proc'[p].pc \in LockSteps <=> proc[p].pc \in LockSteps
          /\ proc'[p].pc \in GateSteps <=> proc[p].pc \in GateSteps
        BY <1>1, <2>6, <2>7 DEF LockSteps, GateSteps
    <2>10. row[s].status = "up"
        BY <1>1, <1>2, <1>7 DEF Inv, Ready, Found, At
    <2>11. row'[proc'[p].s].status = "up" /\ proc'[p].s = proc[p].s
        BY <1>1, <1>2, <2>6, <2>7, <2>10
    <2>12. \A t \in Sessions : row'[t].status = row[t].status
        BY <1>1
    <2> HIDE DEF s, try
    <2> QED  BY <1>3, <1>4, <2>1, <2>7, <2>8, <2>9, <2>11, <2>12, QuietStep
<1> QED  BY <1>6, <1>7

LEMMA OutcomeIs ==
    ASSUME Inv, NEW s \in Sessions, NEW o \in UpOutcomes(s)
    PROVE  o.row \in Row /\ o.world \in Probes /\ o.ok \in BOOLEAN
<1>1. world[s] \in Probes /\ row[s] \in Row
    BY DEF Inv, TypeOK
<1>2. /\ [row[s] EXCEPT !.status = "up", !.live = TRUE] \in Row
      /\ [row[s] EXCEPT !.status = "down"] \in Row
      /\ \A l \in BOOLEAN : [row[s] EXCEPT !.live = l] \in Row
    BY <1>1 DEF Row
<1> DEFINE up == [row[s] EXCEPT !.status = "up", !.live = TRUE]
           down == [row[s] EXCEPT !.status = "down"]
           part(l) == [row[s] EXCEPT !.live = l]
<1>3. up \in Row /\ down \in Row /\ \A l \in BOOLEAN : part(l) \in Row
    BY <1>2
<1>4. \/ o = Outcome(TRUE, TRUE, up, "pass")
      \/ o = Outcome(FALSE, FALSE, row[s], world[s])
      \/ \E l \in BOOLEAN : o = Outcome(FALSE, TRUE, part(l), "exit")
      \/ o = Outcome(TRUE, TRUE, down, world[s])
    BY DEF UpOutcomes
<1> HIDE DEF up, down, part
<1>5. ASSUME NEW ok \in BOOLEAN, NEW wrote, NEW r \in Row, NEW w \in Probes
      PROVE  LET x == Outcome(ok, wrote, r, w)
             IN  x.row \in Row /\ x.world \in Probes /\ x.ok \in BOOLEAN
    BY DEF Outcome
<1>6. "pass" \in Probes /\ "exit" \in Probes
    BY DEF Probes
<1>7. CASE o = Outcome(TRUE, TRUE, up, "pass")
    BY <1>3, <1>5, <1>6, <1>7
<1>8. CASE o = Outcome(FALSE, FALSE, row[s], world[s])
    BY <1>1, <1>5, <1>8
<1>9. CASE \E l \in BOOLEAN : o = Outcome(FALSE, TRUE, part(l), "exit")
    <2>1. PICK l \in BOOLEAN : o = Outcome(FALSE, TRUE, part(l), "exit")
        BY <1>9
    <2>2. part(l) \in Row
        BY <1>3
    <2> QED  BY <1>5, <1>6, <2>1, <2>2
<1>10. CASE o = Outcome(TRUE, TRUE, down, world[s])
    BY <1>1, <1>3, <1>5, <1>10
<1> QED  BY <1>4, <1>7, <1>8, <1>9, <1>10

(* What an up did to the stored row and the world.                           *)
LEMMA UppedIs ==
    ASSUME Inv, NEW s \in Sessions, NEW o \in UpOutcomes(s), Upped(s, o)
    PROVE  /\ row' \in [Sessions -> Row] /\ world' \in [Sessions -> Probes]
           /\ \A t \in Sessions : t # s => row'[t].status = row[t].status
           /\ After(s, o) \in [Procs -> Process]
           /\ \A q \in Procs : Like(After(s, o)[q], proc[q])
<1>1. o.row \in Row /\ o.world \in Probes
    BY OutcomeIs
<1>2. /\ row \in [Sessions -> Row] /\ world \in [Sessions -> Probes]
      /\ proc \in [Procs -> Process] /\ \A q \in Procs : Like(proc[q], proc[q])
    BY DEF Inv, TypeOK, Like
<1>3. row' = [row EXCEPT ![s] = o.row] /\ world' = [world EXCEPT ![s] = o.world]
    BY DEF Upped
<1>4. /\ row' \in [Sessions -> Row] /\ world' \in [Sessions -> Probes]
      /\ \A t \in Sessions : t # s => row'[t].status = row[t].status
    BY <1>1, <1>2, <1>3
<1>5. /\ After(s, o) \in [Procs -> Process]
      /\ \A q \in Procs : Like(After(s, o)[q], proc[q])
    BY <1>2, StampedIs DEF After
<1> QED  BY <1>4, <1>5

LEMMA RepairUpKeeps == ASSUME Inv, NEW p \in Procs, RepairUp(p) PROVE Inv'
<1> DEFINE s == S(p)
<1>1. proc[p].pc = "up" /\ UNCHANGED <<log, lock, gate, moves>>
    BY DEF RepairUp, At
<1>2. s \in Sessions /\ s = proc[p].s /\ p \notin Clis /\ Holds(proc[p], p, lock, gate)
    BY <1>1, Now DEF Holds, Fits, S
<1>3. PICK o \in UpOutcomes(s) :
         Upped(s, o) /\ proc' = [After(s, o) EXCEPT ![p].pc = "result", ![p].cand = o.ok]
    BY DEF RepairUp
<1> DEFINE f == After(s, o)
           r == [f[p] EXCEPT !.pc = "result", !.cand = o.ok]
<1>4. /\ row' \in [Sessions -> Row] /\ world' \in [Sessions -> Probes]
      /\ \A t \in Sessions : t # s => row'[t].status = row[t].status
      /\ f \in [Procs -> Process] /\ \A q \in Procs : Like(f[q], proc[q])
    BY <1>2, <1>3, UppedIs
<1>5. o.ok \in BOOLEAN
    BY <1>2, OutcomeIs
<1>6. proc' = [f EXCEPT ![p] = r]
    BY <1>3, <1>4
<1> HIDE DEF f
<1>7. f[p] \in Process /\ f[p].s = proc[p].s
    BY <1>4 DEF Like
<1>8. r \in Process /\ r.pc = "result" /\ r.s = proc[p].s
    BY <1>5, <1>7 DEF Process, Steps
<1> HIDE DEF r
<1>9. Alone(p) /\ proc'[p] = r
    BY <1>4, <1>6, <1>8, AloneIs
<1>10. Fits(proc'[p], p)
    BY <1>2, <1>8, <1>9 DEF Holds, Fits, HealthSteps
<1>11. /\ proc'[p].pc \in LockSteps <=> proc[p].pc \in LockSteps
       /\ proc'[p].pc \in GateSteps <=> proc[p].pc \in GateSteps
    BY <1>1, <1>8, <1>9 DEF LockSteps, GateSteps
<1>12. lock[s] = p
    BY <1>1, <1>2 DEF Holds, Locks, LockSteps
<1>13. /\ log' \in [Sessions -> Seq(Results)] /\ \A t \in Sessions : Bounded(log'[t])
       /\ moves' \in 0..MaxMoves
    BY <1>1, Now
<1> HIDE DEF s
<1> QED  BY <1>1, <1>4, <1>8, <1>9, <1>10, <1>11, <1>12, <1>13, QuietStep

LEMMA RecordKeeps == ASSUME Inv, NEW p \in Procs, RecordResult(p) PROVE Inv'
<1> DEFINE s == S(p)
           e == IF proc[p].cand THEN "succeeded" ELSE "failed"
<1>1. /\ proc[p].pc = "result" /\ UNCHANGED <<world, row, moves>>
      /\ proc' = [proc EXCEPT ![p] = Resting(p)] /\ Free(p) /\ gate' = None
    BY DEF RecordResult, At, End, Release
<1>2. p \in Followers /\ s \in Sessions /\ proc[p].pc \in LockSteps
    BY <1>1, Now, Kinds DEF Holds, Fits, LockSteps
<1>3. log' = [log EXCEPT ![s] = Append(log[s], e)]
    BY DEF RecordResult
<1>4. log[s] \in Seq(Results) /\ Bounded(log[s]) /\ e \in {"succeeded", "failed"} /\ e \in Results
    BY <1>2, Now DEF Results
<1> HIDE DEF e, s
<1>5. Bounded(Append(log[s], e))
    BY <1>4, OtherBounded
<1>6. log' \in [Sessions -> Seq(Results)] /\ \A t \in Sessions : Bounded(log'[t])
    BY <1>2, <1>3, <1>4, <1>5, LogGrows
<1>7. /\ world' \in [Sessions -> Probes] /\ row' \in [Sessions -> Row] /\ moves' \in 0..MaxMoves
      /\ proc \in [Procs -> Process] /\ \A q \in Procs : Like(proc[q], proc[q])
      /\ \A t \in Sessions : row'[t].status = row[t].status
    BY <1>1, Now
<1> QED  BY <1>1, <1>2, <1>6, <1>7, RestKeeps
-------------------------------------------------------------------------------
(* The commands, and what nobody commands.                                   *)
LEMMA CommandKeeps ==
    ASSUME Inv, NEW p \in Clis, NEW s \in Sessions, NEW op \in Commands, Command(p, s, op) PROVE Inv'
<1> DEFINE r == [Idle(s) EXCEPT !.pc = "command", !.op = op]
<1>1. /\ proc[p].pc = "idle" /\ UNCHANGED <<world, row, log, gate>> /\ Counted
      /\ lock[s] = None /\ lock' = [lock EXCEPT ![s] = p] /\ proc' = [proc EXCEPT ![p] = r]
    BY DEF Command, At
<1>2. p \in Procs /\ p \notin Followers /\ p \notin Sessions
    BY Kinds
<1>3. r \in Process /\ r.pc = "command" /\ r.s = s
    <2> DEFINE a == [Idle(s) EXCEPT !.pc = "command"]
    <2>1. a \in Process /\ a.pc = "command" /\ a.s = s
        BY IdleIs DEF Process, Steps
    <2>2. r = [a EXCEPT !.op = op]
        BY IdleIs DEF Process
    <2> HIDE DEF a, r
    <2>3. [a EXCEPT !.op = op] \in Process
        BY <2>1 DEF Process
    <2>4. [a EXCEPT !.op = op].pc = a.pc /\ [a EXCEPT !.op = op].s = a.s
        BY <2>1 DEF Process
    <2> QED  BY <2>1, <2>2, <2>3, <2>4
<1> HIDE DEF r
<1>4. Alone(p) /\ proc'[p] = r
    <2>1. proc \in [Procs -> Process] /\ \A q \in Procs : Like(proc[q], proc[q])
        BY <1>2, Now
    <2> QED  BY <1>1, <1>2, <1>3, <2>1, AloneIs
<1>5. Holds(proc[p], p, lock, gate) /\ lock \in [Sessions -> Procs \cup {None}]
    BY <1>2, Now
<1>6. \A t \in Sessions : lock'[t] = IF t = s THEN p ELSE lock[t]
    BY <1>1, <1>5
<1>7. \A t \in Sessions : lock[t] # p
    BY <1>1, <1>5 DEF Holds, Locks, LockSteps
<1>8. Fits(r, p) /\ Locks(r, p, lock')
    BY <1>2, <1>3, <1>6, <1>7 DEF Fits, Locks, HealthSteps, LockSteps
<1>9. Slot(r, p, gate')
    BY <1>1, <1>2, <1>5 DEF Holds, Slot
<1>10. Holds(proc'[p], p, lock', gate')
    BY <1>4, <1>8, <1>9 DEF Holds
<1>11. ASSUME NEW q \in Procs \ {p}, NEW t \in Sessions PROVE lock'[t] = q <=> lock[t] = q
    <2>1. q # None /\ q # p
        BY Kinds
    <2>2. CASE t = s
        BY <1>1, <1>6, <2>1, <2>2
    <2>3. CASE t # s
        BY <1>6, <2>3
    <2> QED  BY <2>2, <2>3
<1>12. \A q \in Procs \ {p} : /\ \A t \in Sessions : lock'[t] = q <=> lock[t] = q
                              /\ gate' = q <=> gate = q
    BY <1>1, <1>11
<1>13. /\ world' \in [Sessions -> Probes] /\ row' \in [Sessions -> Row] /\ moves' \in 0..MaxMoves
       /\ log' \in [Sessions -> Seq(Results)] /\ \A t \in Sessions : Bounded(log'[t])
       /\ gate' \in Followers \cup {None}
    BY <1>1, <1>2, CountedIs, Now
<1>14. lock' \in [Sessions -> Procs \cup {None}]
    BY <1>1, <1>2, <1>5
<1>15. (\A t \in Sessions : row'[t].status = row[t].status) /\ proc'[p].pc \notin {"up", "decide"}
    BY <1>1, <1>3, <1>4
<1> QED  BY <1>2, <1>4, <1>10, <1>12, <1>13, <1>14, <1>15, StepKeeps

LEMMA CommandUpKeeps == ASSUME Inv, NEW p \in Procs, CommandUp(p) PROVE Inv'
<1> DEFINE s == S(p)
<1>1. proc[p].pc = "command" /\ Free(p) /\ UNCHANGED <<gate, moves>>
    BY DEF CommandUp, At
<1>2. s \in Sessions /\ p \in Clis /\ p \notin Followers /\ proc[p].pc \in LockSteps
    BY <1>1, Now, Kinds DEF Holds, Fits, LockSteps
<1>3. PICK o \in UpOutcomes(s) :
         /\ Upped(s, o) /\ proc' = [After(s, o) EXCEPT ![p] = Resting(p)]
         /\ log' = IF o.ok /\ proc[p].op = "up" THEN Renewed(s) ELSE log
    BY DEF CommandUp
<1> DEFINE f == After(s, o)
<1>4. /\ row' \in [Sessions -> Row] /\ world' \in [Sessions -> Probes]
      /\ \A t \in Sessions : t # s => row'[t].status = row[t].status
      /\ f \in [Procs -> Process] /\ \A q \in Procs : Like(f[q], proc[q])
    BY <1>2, <1>3, UppedIs
<1>5. log' \in [Sessions -> Seq(Results)] /\ \A t \in Sessions : Bounded(log'[t])
    <2>1. log' = log \/ log' = Renewed(s)
        BY <1>3
    <2> QED  BY <1>2, <2>1, RenewedKeeps, Now
<1>6. moves' \in 0..MaxMoves /\ gate' = IF p \in Followers THEN None ELSE gate
    BY <1>1, <1>2, Now
<1>7. proc' = [f EXCEPT ![p] = Resting(p)]
    BY <1>3
<1> HIDE DEF f
<1> QED  BY <1>1, <1>2, <1>4, <1>5, <1>6, <1>7, RestKeeps

LEMMA CommandDownKeeps == ASSUME Inv, NEW p \in Procs, CommandDown(p) PROVE Inv'
<1> DEFINE s == S(p)
           f == Stamped(proc, s)
           r == [row[s] EXCEPT !.status = "down", !.live = FALSE]
<1>1. /\ proc[p].pc = "command" /\ Free(p) /\ UNCHANGED <<world, log, gate, moves>>
      /\ proc' = [f EXCEPT ![p] = Resting(p)]
    BY DEF CommandDown, At
<1>2. s \in Sessions /\ p \in Clis /\ p \notin Followers /\ proc[p].pc \in LockSteps
    BY <1>1, Now, Kinds DEF Holds, Fits, LockSteps
<1>3. row \in [Sessions -> Row]
    BY Now
<1>4. row' = [row EXCEPT ![s] = r]
    BY <1>3 DEF CommandDown
<1>5. r \in Row
    BY <1>2, <1>3 DEF Row
<1> HIDE DEF r
<1>6. row' \in [Sessions -> Row] /\ \A t \in Sessions : t # s => row'[t].status = row[t].status
    BY <1>3, <1>4, <1>5
<1>7. f \in [Procs -> Process] /\ \A q \in Procs : Like(f[q], proc[q])
    BY <1>2, Now, StampedIs
<1>8. /\ world' \in [Sessions -> Probes] /\ moves' \in 0..MaxMoves
      /\ log' \in [Sessions -> Seq(Results)] /\ \A t \in Sessions : Bounded(log'[t])
      /\ gate' = IF p \in Followers THEN None ELSE gate
    BY <1>1, <1>2, Now
<1> HIDE DEF f
<1> QED  BY <1>1, <1>2, <1>6, <1>7, <1>8, RestKeeps

LEMMA OutsideKeeps ==
    ASSUME Inv, NEW s \in Sessions, Finalize(s) \/ OtherObserver(s) \/ Turn(s) PROVE Inv'
<1> DEFINE f == Stamped(proc, s)
<1>1. /\ proc \in [Procs -> Process] /\ (\A q \in Procs : Like(proc[q], proc[q]))
      /\ row \in [Sessions -> Row] /\ world \in [Sessions -> Probes]
    BY DEF Inv, TypeOK, Like
<1>2. f \in [Procs -> Process] /\ \A q \in Procs : Like(f[q], proc[q])
    BY <1>1, StampedIs
<1> HIDE DEF f
<1>3. moves' \in 0..MaxMoves
    BY CountedIs DEF Finalize, OtherObserver, Turn
<1>4. CASE Finalize(s)
    <2>1. row' = [row EXCEPT ![s].final = TRUE] /\ proc' = f /\ UNCHANGED <<world, log, lock, gate>>
        BY <1>4 DEF Finalize, f
    <2>2. row' \in [Sessions -> Row] /\ \A t \in Sessions : row'[t].status = row[t].status
        BY <1>1, <2>1 DEF Row
    <2> QED  BY <1>1, <1>2, <1>3, <2>1, <2>2, OutsideStep
<1>5. CASE OtherObserver(s)
    <2>1. proc' = f /\ UNCHANGED <<world, row, log, lock, gate>>
        BY <1>5 DEF OtherObserver, f
    <2> QED  BY <1>1, <1>2, <1>3, <2>1, OutsideStep
<1>6. CASE Turn(s)
    <2>1. PICK w \in Probes : world' = [world EXCEPT ![s] = w] /\ UNCHANGED <<row, log, lock, gate, proc>>
        BY <1>6 DEF Turn
    <2> QED  BY <1>1, <1>3, <2>1, OutsideStep
<1> QED  BY <1>4, <1>5, <1>6

(* The death of the serve process or of a command.                           *)
LEMMA DiesKeeps ==
    ASSUME Inv, NEW ps, ps = Followers \/ (\E c \in Clis : ps = {c}), Dies(ps) PROVE Inv'
<1>1. ps \subseteq Procs /\ None \notin ps
    BY Kinds
<1>2. /\ proc' = [p \in Procs |-> IF p \in ps THEN Resting(p) ELSE proc[p]]
      /\ lock' = [s \in Sessions |-> IF lock[s] \in ps THEN None ELSE lock[s]]
      /\ gate' = IF gate \in ps THEN None ELSE gate
      /\ UNCHANGED <<world, row, log>>
    BY DEF Dies
<1>3. moves' \in 0..MaxMoves
    BY CountedIs DEF Dies
<1>4. /\ proc \in [Procs -> Process] /\ row \in [Sessions -> Row] /\ world \in [Sessions -> Probes]
      /\ lock \in [Sessions -> Procs \cup {None}] /\ gate \in Followers \cup {None}
      /\ log \in [Sessions -> Seq(Results)] /\ \A s \in Sessions : Bounded(log[s])
      /\ Held /\ Ready
    BY DEF Inv, TypeOK
<1>5. /\ proc' \in [Procs -> Process]
      /\ lock' \in [Sessions -> Procs \cup {None}] /\ gate' \in Followers \cup {None}
    BY <1>2, <1>4, RestingIs
<1>6. ASSUME NEW q \in Procs PROVE Holds(proc'[q], q, lock', gate')
    <2>1. CASE q \in ps
        <3>1. proc'[q].pc = "idle" /\ (q \in Sessions => proc'[q].s = q)
            BY <1>2, <2>1, RestingIs
        <3>2. q # None /\ (\A s \in Sessions : lock'[s] # q) /\ gate' # q
            BY <1>1, <1>2, <2>1
        <3> QED  BY <3>1, <3>2 DEF Holds, Fits, Locks, Slot, HealthSteps, LockSteps, GateSteps
    <2>2. CASE q \notin ps
        <3>1. proc'[q] = proc[q] /\ q # None
            BY <1>2, <2>2, Kinds
        <3>2. (\A s \in Sessions : lock'[s] = q <=> lock[s] = q) /\ (gate' = q <=> gate = q)
            BY <1>2, <2>2, <3>1
        <3>3. Holds(proc[q], q, lock, gate)
            BY <1>4 DEF Held
        <3> QED  BY <3>1, <3>2, <3>3 DEF Holds, Locks, Slot
    <2> QED  BY <2>1, <2>2
<1>7. ASSUME NEW q \in Followers, proc'[q].pc = "up" \/ (proc'[q].pc = "decide" /\ proc'[q].cand)
      PROVE  row'[proc'[q].s].status = "up"
    <2>1. q \in Procs
        BY Kinds
    <2>2. q \notin ps
        <3>1. q \in ps => proc'[q].pc = "idle"
            BY <1>2, <2>1, RestingIs
        <3> QED  BY <1>7, <3>1
    <2>3. proc'[q] = proc[q]
        BY <1>2, <2>1, <2>2
    <2> QED  BY <1>2, <1>4, <1>7, <2>3 DEF Ready, Found, At, S
<1>8. /\ world' \in [Sessions -> Probes] /\ row' \in [Sessions -> Row]
      /\ log' \in [Sessions -> Seq(Results)] /\ \A s \in Sessions : Bounded(log'[s])
    BY <1>2, <1>4
<1> QED  BY <1>3, <1>5, <1>6, <1>7, <1>8, AllKeep
-------------------------------------------------------------------------------
LEMMA InitInv == ASSUME Init PROVE Inv
<1>1. /\ world \in [Sessions -> Probes] /\ moves \in 0..MaxMoves
      /\ lock \in [Sessions -> Procs \cup {None}] /\ gate \in Followers \cup {None}
    BY DEF Init, Probes
<1>2. row \in [Sessions -> Row]
    BY DEF Init, Row
<1>3. proc \in [Procs -> Process]
    BY RestingIs DEF Init
<1>4. log \in [Sessions -> Seq(Results)] /\ \A s \in Sessions : log[s] = <<>>
    BY DEF Init
<1>5. ASSUME NEW q \in Procs
      PROVE  /\ q # None /\ proc[q].pc = "idle" /\ (q \in Sessions => proc[q].s = q)
             /\ gate # q /\ \A s \in Sessions : lock[s] # q
    BY RestingIs, Kinds DEF Init
<1>6. Held
    BY <1>5 DEF Held, Holds, Fits, Locks, Slot, HealthSteps, LockSteps, GateSteps, S
<1>7. ASSUME NEW q \in Followers
      PROVE  /\ q \in Procs /\ proc[q].pc = "idle" /\ gate # q /\ \A s \in Sessions : lock[s] # q
    BY <1>5, Kinds
<1>8. Ready
    BY <1>7 DEF Ready, Found, At
<1>9. TypeOK
    BY <1>1, <1>2, <1>3, <1>4, <1>7 DEF TypeOK, At
<1>10. Bounded(<<>>)
    <2>1. <<>> \in Seq(Results) /\ Len(<<>>) = 0
        OBVIOUS
    <2>2. Tried(<<>>) = {}
        BY <2>1 DEF Tried
    <2>3. Attempts(<<>>) = 0
        BY <2>1, <2>2, TriedIs, FS_EmptySet
    <2> QED  BY <2>1, <2>3 DEF Bounded
<1> QED  BY <1>4, <1>6, <1>8, <1>9, <1>10 DEF Inv

LEMMA StutterInv == ASSUME Inv, UNCHANGED vars PROVE Inv'
<1>1. /\ proc \in [Procs -> Process] /\ row \in [Sessions -> Row] /\ world \in [Sessions -> Probes]
      /\ \A q \in Procs : Like(proc[q], proc[q])
    BY DEF Inv, TypeOK, Like
<1>2. moves' \in 0..MaxMoves
    BY DEF Inv, TypeOK, vars
<1>3. UNCHANGED <<world, row, log, lock, gate, proc>>
    BY DEF vars
<1> QED  BY <1>1, <1>2, <1>3, OutsideStep

LEMMA NextInv == ASSUME Inv, [Next]_vars PROVE Inv'
<1>1. ASSUME NEW p \in Procs, Step(p) PROVE Inv'
    BY <1>1, ObserveKeeps, PersistKeeps, CountKeeps, ResetKeeps, TakeGateKeeps, TakeLockKeeps,
       DecideKeeps, RepairUpKeeps, RecordKeeps, CommandUpKeeps, CommandDownKeeps DEF Step
<1>2. ASSUME NEW s \in Sessions, SweepSession(s) \/ Finalize(s) \/ OtherObserver(s) \/ Turn(s)
      PROVE  Inv'
    BY <1>2, SweepKeeps, OutsideKeeps
<1>3. ASSUME NEW p \in Clis, NEW s \in Sessions, NEW op \in Commands, Command(p, s, op) PROVE Inv'
    BY <1>3, CommandKeeps
<1>4. ASSUME Dies(Followers) \/ \E p \in Clis : Dies({p}) PROVE Inv'
    BY <1>4, DiesKeeps
<1>5. CASE UNCHANGED vars
    BY <1>5, StutterInv
<1> QED  BY <1>1, <1>2, <1>3, <1>4, <1>5 DEF Next

(* The locks and the slot are held by who is at work under them, whom a      *)
(* repair has found up is up, and every log is within its budget.            *)
THEOREM Invariance == Spec => []Inv
<1>1. Init => Inv
    BY InitInv
<1>2. Inv /\ [Next]_vars => Inv'
    BY NextInv
<1> QED  BY <1>1, <1>2, PTL DEF Spec

(* The variables have their types, and a follower has the slot exactly while *)
(* it waits for a lock or has one (repairGate, RepairSession).               *)
THEOREM TypeCorrect == Spec => []TypeOK
<1>1. Inv => TypeOK
    BY DEF Inv
<1> QED  BY <1>1, Invariance, PTL

(* Across deaths of the serve process and any commands, no more than the     *)
(* limit of repairs begin between two resets, and the suspension is said     *)
(* once, after the last one (repairAttemptState, RepairSession).             *)
THEOREM WithinBudget == Spec => []BudgetKept
<1>1. Inv => BudgetKept
    BY BoundedKeepsBudget DEF Inv
<1> QED  BY <1>1, Invariance, PTL

(* A repair is never at work on a session somebody stopped, however long it  *)
(* waited (the second read in RepairSession, under the lock).                *)
THEOREM NoneStopped == Spec => []StoppedNotRepaired
<1>1. Inv => StoppedNotRepaired
    BY DEF Inv, Ready, Found, StoppedNotRepaired
<1> QED  BY <1>1, Invariance, PTL
===============================================================================
