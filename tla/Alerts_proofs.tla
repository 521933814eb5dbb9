------------------------------ MODULE Alerts_proofs ------------------------------
(***************************************************************************)
(* What Alerts keeps for every family tree of sessions and every bound.     *)
(***************************************************************************)
EXTENDS Alerts, TLAPS

InFlight == {"climb", "publish", "local", "record"}

(* The reactor of s is sending a notification of its health.                 *)
Notifies(s) == proc[s].pc \in InFlight /\ proc[s].alert.kind \in Bad

(* What a reactor has in hand fits what is stored: nobody else counts its    *)
(* session's notifications, and one that is to be recorded is on a log.      *)
InHand(s) ==
    /\ proc[s].pc \in InFlight => proc[s].alert.kind \in Bad \cup {"channel"}
    /\ At(s, "probe") => proc[s].prev.count = row[s].count
    /\ Notifies(s) => proc[s].alert.n = row[s].count + 1
    /\ At(s, "record") => Heard(Said(s))

(* A notification is owed to a turn of the session or to the end of a        *)
(* window, the first one to nothing.                                         *)
News(s) == row[s].state # health[s] \/ row[s].told # "recent"
Owed(s) ==
    /\ row[s].count <= moves + 1
    /\ ~Notifies(s) /\ News(s) => row[s].count <= moves
    /\ At(s, "probe") /\ ShouldNotify(proc[s].prev, health[s]) => row[s].count <= moves
    /\ Notifies(s) => row[s].count <= moves
    /\ Notifies(s) /\ row[s].state # health[s] => row[s].count + 1 <= moves

Clocks == \A s \in Sessions : streak[s].since <= moves /\ tick[s].last <= moves

Inv == /\ TypeOK /\ Clocks /\ NotifiedHeard
       /\ \A s \in Sessions : InHand(s) /\ Owed(s)

USE AlertsAssumption

-------------------------------------------------------------------------------
(* The records the steps make.                                               *)
LEMMA SomeOneIs == SomeOne \in Sessions
BY DEF SomeOne

Nobody(p) == IF p = Sweep THEN SomeOne ELSE p
LEMMA RestIs ==
    ASSUME NEW p \in Procs
    PROVE  /\ Nobody(p) \in Sessions
           /\ Rest(p) = [pc |-> "idle", at |-> Nobody(p), prev |-> NewRow,
                         alert |-> [from |-> Nobody(p), kind |-> "healthy", n |-> 0]]
           /\ Rest(p) \in Process
<1>1. Nobody(p) \in Sessions
    BY SomeOneIs DEF Nobody, Procs
<1>2. Rest(p) = [pc |-> "idle", at |-> Nobody(p), prev |-> NewRow,
                 alert |-> [from |-> Nobody(p), kind |-> "healthy", n |-> 0]]
    BY DEF Rest, Nobody
<1>3. 0 \in Counts
    BY DEF Counts
<1>4. NewRow \in Row
    BY <1>3 DEF NewRow, Row, States, Bad
<1>5. [from |-> Nobody(p), kind |-> "healthy", n |-> 0] \in Alert
    BY <1>1, <1>3 DEF Alert, States, Bad
<1>6. [pc |-> "idle", at |-> Nobody(p), prev |-> NewRow,
       alert |-> [from |-> Nobody(p), kind |-> "healthy", n |-> 0]] \in Process
    BY <1>1, <1>4, <1>5 DEF Process
<1> QED  BY <1>1, <1>2, <1>6

LEMMA GoIs ==
    ASSUME TypeOK, NEW p \in Procs, NEW x, Go(p, x)
    PROVE  proc' = [proc EXCEPT ![p] = [pc |-> x, alert |-> proc[p].alert,
                                        at |-> proc[p].at, prev |-> proc[p].prev]]
<1> DEFINE r == proc[p]
<1>1. r \in Process
    BY DEF TypeOK
<1>2. proc' = [proc EXCEPT ![p] = [r EXCEPT !.pc = x]]
    BY DEF Go
<1> HIDE DEF r
<1>3. [r EXCEPT !.pc = x] = [pc |-> x, alert |-> r.alert, at |-> r.at, prev |-> r.prev]
    BY <1>1 DEF Process
<1>4. proc' = [proc EXCEPT ![p] = [pc |-> x, alert |-> r.alert, at |-> r.at, prev |-> r.prev]]
    BY <1>2, <1>3
<1> QED  BY <1>4 DEF r

LEMMA SendIs ==
    ASSUME NEW p \in Procs, NEW s \in Sessions, NEW kind, NEW n, Send(p, s, kind, n)
    PROVE  proc' = [proc EXCEPT ![p] = [pc |-> "climb", at |-> s, prev |-> NewRow,
                                        alert |-> [from |-> s, kind |-> kind, n |-> n]]]
<1> DEFINE r == Rest(p)
           a == [r EXCEPT !.pc = "climb"]
           b == [a EXCEPT !.at = s]
           v == [from |-> s, kind |-> kind, n |-> n]
<1>1. r = [pc |-> "idle", at |-> Nobody(p), prev |-> NewRow,
           alert |-> [from |-> Nobody(p), kind |-> "healthy", n |-> 0]]
    BY RestIs
<1>2. proc' = [proc EXCEPT ![p] = [b EXCEPT !.alert = v]]
    BY DEF Send
<1> HIDE DEF r, v
<1>3. a = [pc |-> "climb", at |-> Nobody(p), prev |-> NewRow,
           alert |-> [from |-> Nobody(p), kind |-> "healthy", n |-> 0]]
    BY <1>1
<1> HIDE DEF a
<1>4. b = [pc |-> "climb", at |-> s, prev |-> NewRow,
           alert |-> [from |-> Nobody(p), kind |-> "healthy", n |-> 0]]
    BY <1>3
<1> HIDE DEF b
<1>5. [b EXCEPT !.alert = v] = [pc |-> "climb", at |-> s, prev |-> NewRow, alert |-> v]
    BY <1>4
<1>6. proc' = [proc EXCEPT ![p] = [pc |-> "climb", at |-> s, prev |-> NewRow, alert |-> v]]
    BY <1>2, <1>5
<1> QED  BY <1>6 DEF v

LEMMA EndIs ==
    ASSUME NEW p \in Procs, End(p)
    PROVE  proc' = [proc EXCEPT ![p] = [pc |-> "idle", at |-> Nobody(p), prev |-> NewRow,
                         alert |-> [from |-> Nobody(p), kind |-> "healthy", n |-> 0]]]
BY RestIs DEF End

(* One process moves to r and nobody else.                                   *)
Moves(p, r) == proc' = [proc EXCEPT ![p] = r]

LEMMA MovesTyped ==
    ASSUME TypeOK, NEW p \in Procs, NEW r \in Process, Moves(p, r),
           p \in Sessions => r.alert.from = p
    PROVE  /\ proc' \in [Procs -> Process]
           /\ proc'[p] = r
           /\ \A q \in Procs \ {p} : proc'[q] = proc[q]
           /\ \A s \in Sessions : proc'[s].alert.from = s
<1>1. proc \in [Procs -> Process] /\ \A s \in Sessions : proc[s].alert.from = s
    BY DEF TypeOK, Said
<1>2. Sessions \subseteq Procs
    BY DEF Procs
<1> QED  BY <1>1, <1>2 DEF Moves

(* The bounds of the counters.                                               *)
LEMMA CountsBound ==
    ASSUME NEW n \in Nat, NEW m \in 0..MaxMoves, n <= m + 1
    PROVE  n \in Counts
BY DEF Counts

LEMMA SetState ==
    ASSUME NEW r \in Row, NEW x \in States
    PROVE  LET k == [r EXCEPT !.state = x]
           IN  k \in Row /\ k.state = x /\ k.told = r.told /\ k.count = r.count
BY DEF Row

LEMMA StoredIs ==
    ASSUME TypeOK, NEW u \in Sessions, Stored(u)
    PROVE  /\ row' \in [Sessions -> Row]
           /\ row'[u].state = health[u] /\ row'[u].told = row[u].told
           /\ row'[u].count = row[u].count
           /\ \A s \in Sessions \ {u} : row'[s] = row[s]
<1> DEFINE k == [row[u] EXCEPT !.state = health[u]]
<1>1. row[u] \in Row /\ health[u] \in States /\ row \in [Sessions -> Row]
    BY DEF TypeOK
<1>2. k \in Row /\ k.state = health[u] /\ k.told = row[u].told /\ k.count = row[u].count
    BY <1>1, SetState
<1>3. row' = [row EXCEPT ![u] = k]
    BY DEF Stored
<1> HIDE DEF k
<1> QED  BY <1>1, <1>2, <1>3

-------------------------------------------------------------------------------
(* What the invariants of a session survive.  An alert heard stays heard.    *)
Grows == \A s \in Sessions : log[s] \subseteq log'[s]

LEMMA HeardStays ==
    ASSUME Grows, NEW a, Heard(a) PROVE Heard(a)'
BY DEF Grows, Heard

LEMMA RowNat ==
    ASSUME TypeOK, NEW s \in Sessions
    PROVE  /\ row[s].count \in Nat /\ row[s] \in Row /\ moves \in Nat
           /\ moves <= MaxMoves /\ health[s] \in States /\ proc[s] \in Process
<1>1. row[s] \in Row /\ moves \in 0..MaxMoves /\ health[s] \in States /\ proc[s] \in Process
    BY DEF TypeOK, Procs
<1> QED  BY <1>1 DEF Row, Counts

(* A step of somebody else, who may store what it finds of s.                *)
LEMMA OthersStep ==
    ASSUME TypeOK, NEW s \in Sessions, InHand(s), Owed(s), Grows,
           proc'[s] = proc[s], health'[s] = health[s], moves' = moves,
           row'[s].count = row[s].count, row'[s].told = row[s].told,
           row'[s].state = row[s].state \/ row'[s].state = health[s]
    PROVE  InHand(s)' /\ Owed(s)'
<1>1. At(s, "record") => Heard(Said(s))'
    BY HeardStays DEF InHand, Said
<1>2. InHand(s)'
    BY <1>1 DEF InHand, Notifies, At, Said
<1>3. Owed(s)'
    BY DEF Owed, Notifies, News, At, ShouldNotify
<1> QED  BY <1>2, <1>3

(* A counted event pays for what it may cause to be told.                    *)
LEMMA CountedStep ==
    ASSUME TypeOK, NEW s \in Sessions, InHand(s), Owed(s), Grows,
           proc'[s] = proc[s], moves' = moves + 1, row'[s].count = row[s].count
    PROVE  InHand(s)' /\ Owed(s)'
<1>1. At(s, "record") => Heard(Said(s))'
    BY HeardStays DEF InHand, Said
<1>2. InHand(s)'
    BY <1>1 DEF InHand, Notifies, At, Said
<1>3. row[s].count \in Nat /\ moves \in Nat
    BY RowNat
<1>4. row[s].count <= moves + 1 /\ (Notifies(s) => row[s].count <= moves)
    BY DEF Owed
<1>5. row'[s].count <= moves' /\ row'[s].count <= moves' + 1
      /\ (Notifies(s) => row'[s].count + 1 <= moves')
    BY <1>3, <1>4
<1>6. Notifies(s)' <=> Notifies(s)
    BY DEF Notifies
<1>7. Owed(s)'
    BY <1>5, <1>6 DEF Owed
<1> QED  BY <1>2, <1>7

(* A process that was at rest or whose work is given up.                     *)
LEMMA AtRest ==
    ASSUME TypeOK, NEW s \in Sessions, Owed(s), moves' = moves,
           health'[s] = health[s], proc'[s].pc = "idle", row'[s] = row[s]
    PROVE  InHand(s)' /\ Owed(s)'
<1>1. row[s].count \in Nat /\ moves \in Nat
    BY RowNat
<1>2. row[s].count <= moves + 1 /\ (News(s) => row[s].count <= moves)
    BY <1>1 DEF Owed
<1>3. ~Notifies(s)' /\ ~At(s, "probe")' /\ ~At(s, "record")' /\ proc'[s].pc \notin InFlight
    BY DEF Notifies, At, InFlight
<1>4. News(s)' <=> News(s)
    BY DEF News
<1> QED  BY <1>2, <1>3, <1>4 DEF InHand, Owed

-------------------------------------------------------------------------------
(* The steps by kind.  A step of a process that counts nothing.              *)
LEMMA NobodyForgets ==
    ASSUME NotifiedHeard, Grows, \A s \in Sessions : row'[s].count = row[s].count
    PROVE  NotifiedHeard'
<1> SUFFICES ASSUME NEW s \in Sessions, NEW n \in 1..row'[s].count
             PROVE  (\E b \in Bad : Heard(Of(s, b, n)))'
    BY DEF NotifiedHeard
<1>1. n \in 1..row[s].count
    OBVIOUS
<1>2. PICK b \in Bad : Heard(Of(s, b, n))
    BY <1>1 DEF NotifiedHeard
<1>3. Heard(Of(s, b, n))'
    BY <1>2, HeardStays DEF Of, Heard
<1> QED  BY <1>3

LEMMA ProcessStep ==
    ASSUME Inv, NEW p \in Procs, NEW r \in Process, Moves(p, r),
           p \in Sessions => r.alert.from = p,
           UNCHANGED <<health, streak, tick, moves, faults>>,
           Grows, log' \in [Sessions -> SUBSET Entry],
           row' \in [Sessions -> Row],
           \A s \in Sessions : /\ row'[s].count = row[s].count
                               /\ row'[s].told = row[s].told
                               /\ row'[s].state = row[s].state \/ row'[s].state = health[s],
           p \in Sessions => InHand(p)' /\ Owed(p)'
    PROVE  Inv'
<1>1. TypeOK
    BY DEF Inv
<1>2. /\ proc' \in [Procs -> Process]
      /\ \A q \in Procs \ {p} : proc'[q] = proc[q]
      /\ \A s \in Sessions : proc'[s].alert.from = s
    BY <1>1, MovesTyped
<1>3. TypeOK'
    BY <1>1, <1>2 DEF TypeOK, Said
<1>4. Clocks'
    BY DEF Inv, Clocks
<1>5. NotifiedHeard'
    BY NobodyForgets DEF Inv
<1>6. ASSUME NEW s \in Sessions PROVE InHand(s)' /\ Owed(s)'
    <2>1. CASE s = p
        BY <2>1
    <2>2. CASE s # p
        <3>1. proc'[s] = proc[s]
            BY <1>2, <2>2 DEF Procs
        <3>2. InHand(s) /\ Owed(s)
            BY DEF Inv
        <3> QED  BY <1>1, <3>1, <3>2, OthersStep
    <2> QED  BY <2>1, <2>2
<1> QED  BY <1>3, <1>4, <1>5, <1>6 DEF Inv

LEMMA WorldStep ==
    ASSUME Inv, Counted, UNCHANGED <<log, proc, faults>>,
           row' \in [Sessions -> Row], \A s \in Sessions : row'[s].count = row[s].count,
           health' \in [Sessions -> States], streak' \in [Sessions -> Streak],
           tick' \in [Sessions -> Tick], Clocks'
    PROVE  Inv'
<1>1. TypeOK
    BY DEF Inv
<1>2. moves' = moves + 1 /\ moves' \in 0..MaxMoves
    BY <1>1 DEF Counted, TypeOK
<1>3. TypeOK'
    BY <1>1, <1>2 DEF TypeOK, Said
<1>4. Grows
    BY DEF Grows
<1>5. NotifiedHeard'
    BY <1>4, NobodyForgets DEF Inv
<1>6. ASSUME NEW s \in Sessions PROVE InHand(s)' /\ Owed(s)'
    BY <1>1, <1>2, <1>4, CountedStep DEF Inv
<1> QED  BY <1>3, <1>5, <1>6 DEF Inv

(* Nothing but the process at p and nothing in the rows.                     *)
LEMMA QuietStep ==
    ASSUME Inv, NEW p \in Procs, NEW r \in Process, Moves(p, r),
           p \in Sessions => r.alert.from = p,
           UNCHANGED <<health, streak, tick, row, moves, faults>>,
           Grows, log' \in [Sessions -> SUBSET Entry],
           p \in Sessions => InHand(p)' /\ Owed(p)'
    PROVE  Inv'
<1>1. row' \in [Sessions -> Row]
    BY DEF Inv, TypeOK
<1> QED  BY <1>1, ProcessStep

LEMMA LogKept ==
    ASSUME TypeOK, UNCHANGED log
    PROVE  Grows /\ log' \in [Sessions -> SUBSET Entry]
BY DEF TypeOK, Grows
-------------------------------------------------------------------------------
(* The steps of the reactors and the sweep.                                  *)
LEMMA HealthcheckKeeps ==
    ASSUME Inv, NEW s \in Sessions, Healthcheck(s) PROVE Inv'
<1> DEFINE r == [pc |-> "probe", alert |-> proc[s].alert, at |-> proc[s].at, prev |-> row[s]]
<1>1. TypeOK /\ s \in Procs
    BY DEF Inv, Procs
<1>2. proc[s] \in Process /\ row[s] \in Row
    BY <1>1, RowNat
<1>3. r \in Process /\ proc[s].alert.from = s
    BY <1>1, <1>2 DEF Process, TypeOK, Said
<1>4. Moves(s, r)
    <2> DEFINE a == [proc[s] EXCEPT !.pc = "probe"]
    <2>1. a = [pc |-> "probe", alert |-> proc[s].alert, at |-> proc[s].at, prev |-> proc[s].prev]
        <3> DEFINE b == proc[s]
        <3>1. b \in Process
            BY <1>2
        <3> HIDE DEF b
        <3>2. [b EXCEPT !.pc = "probe"] = [pc |-> "probe", alert |-> b.alert, at |-> b.at,
                                           prev |-> b.prev]
            BY <3>1 DEF Process
        <3> QED  BY <3>2 DEF b
    <2>2. proc' = [proc EXCEPT ![s] = [a EXCEPT !.prev = row[s]]]
        BY DEF Healthcheck
    <2> HIDE DEF a
    <2>3. [a EXCEPT !.prev = row[s]] = r
        BY <2>1
    <2> QED  BY <2>2, <2>3 DEF Moves
<1>5. proc'[s] = r
    BY <1>1, <1>3, <1>4, MovesTyped
<1>6. Grows /\ log' \in [Sessions -> SUBSET Entry]
    BY <1>1, LogKept DEF Healthcheck
<1>7. UNCHANGED <<health, streak, tick, row, moves, faults>>
    BY DEF Healthcheck
<1>8. InHand(s)'
    BY <1>5, <1>7 DEF InHand, Notifies, InFlight, At
<1>9. Owed(s)'
    <2>1. Owed(s) /\ ~Notifies(s)
        BY DEF Inv, Healthcheck, Notifies, InFlight, At
    <2>2. ~Notifies(s)' /\ proc'[s].prev = row[s]
        BY <1>5 DEF Notifies, InFlight
    <2> QED  BY <1>7, <2>1, <2>2 DEF Owed, News, ShouldNotify
<1> HIDE DEF r
<1> QED  BY <1>1, <1>3, <1>4, <1>6, <1>7, <1>8, <1>9, QuietStep DEF r

LEMMA SendType ==
    ASSUME NEW s \in Sessions, NEW kind \in States \cup {"channel", "deadman"}, NEW n \in Counts
    PROVE  [pc |-> "climb", at |-> s, prev |-> NewRow,
            alert |-> [from |-> s, kind |-> kind, n |-> n]] \in Process
<1>1. [from |-> s, kind |-> kind, n |-> n] \in Alert
    BY DEF Alert
<1>2. NewRow \in Row
    BY RestIs DEF Process, Rest, NewRow, Row, Counts, States, Bad
<1> QED  BY <1>1, <1>2 DEF Process

LEMMA ProbeKeeps ==
    ASSUME Inv, NEW s \in Sessions, Probe(s) PROVE Inv'
<1>1. TypeOK /\ s \in Procs /\ InHand(s) /\ Owed(s)
    BY DEF Inv, Procs
<1>2. /\ At(s, "probe") /\ Stored(s)
      /\ UNCHANGED <<health, streak, tick, log, moves, faults>>
    BY DEF Probe
<1>3. Grows /\ log' \in [Sessions -> SUBSET Entry]
    BY <1>1, <1>2, LogKept
<1>4. /\ row' \in [Sessions -> Row]
      /\ row'[s].state = health[s] /\ row'[s].told = row[s].told
      /\ row'[s].count = row[s].count
      /\ \A q \in Sessions \ {s} : row'[q] = row[q]
    BY <1>1, <1>2, StoredIs
<1>5. row[s].count \in Nat /\ moves \in Nat /\ moves <= MaxMoves
    BY <1>1, RowNat
<1>6. ~Notifies(s)
    BY <1>2 DEF Notifies, InFlight, At
<1>7. CASE health[s] \in Bad /\ ShouldNotify(proc[s].prev, health[s])
    <2> DEFINE n == row[s].count + 1
               v == [from |-> s, kind |-> health[s], n |-> n]
               r == [pc |-> "climb", at |-> s, prev |-> NewRow, alert |-> v]
    <2>1. row[s].count <= moves
        BY <1>1, <1>2, <1>7 DEF Owed
    <2>2. n \in Nat /\ n <= moves + 1 /\ moves \in 0..MaxMoves
        BY <2>1, <1>1, <1>5 DEF TypeOK
    <2>3. n \in Counts
        BY <2>2, CountsBound
    <2>4. health[s] \in States
        BY <1>7 DEF States
    <2>5. Send(s, s, health[s], n)
        BY <1>1, <1>2, <1>7 DEF Probe, InHand
    <2> HIDE DEF n
    <2>6. r \in Process
        BY <2>3, <2>4, SendType
    <2>7. Moves(s, r)
        BY <1>1, <2>5, SendIs DEF Moves
    <2>8. r.alert.from = s
        OBVIOUS
    <2>9. proc'[s] = r
        BY <1>1, <2>6, <2>7, MovesTyped
    <2>10. Notifies(s)' /\ ~At(s, "probe")' /\ ~At(s, "record")'
        BY <1>7, <2>9 DEF Notifies, InFlight, At
    <2>11. InHand(s)'
        <3>1. proc'[s].alert.n = row'[s].count + 1 /\ proc'[s].alert.kind \in Bad
            BY <1>4, <1>7, <2>9 DEF n
        <3> QED  BY <2>10, <3>1 DEF InHand
    <2>12. Owed(s)'
        BY <1>2, <1>4, <1>5, <2>1, <2>10 DEF Owed
    <2> HIDE DEF r
    <2> QED  BY <1>1, <1>2, <1>3, <1>4, <2>6, <2>7, <2>8, <2>11, <2>12, ProcessStep DEF r
<1>8. CASE ~(health[s] \in Bad /\ ShouldNotify(proc[s].prev, health[s]))
    <2>1. End(s)
        BY <1>8 DEF Probe
    <2>2. Moves(s, Rest(s)) /\ Rest(s) \in Process
        BY <1>1, <2>1, RestIs DEF Moves, End
    <2>3. Rest(s).alert.from = s /\ Rest(s).pc = "idle"
        BY <1>1, RestIs DEF Nobody
    <2>4. proc'[s].pc = "idle"
        BY <1>1, <2>2, <2>3, MovesTyped
    <2>5. ~Notifies(s)' /\ ~At(s, "probe")' /\ ~At(s, "record")' /\ proc'[s].pc \notin InFlight
        BY <2>4 DEF Notifies, InFlight, At
    <2>6. InHand(s)'
        BY <2>5 DEF InHand
    <2>7. Owed(s)'
        BY <1>1, <1>2, <1>4, <1>6, <2>5 DEF Owed, News
    <2> QED  BY <1>1, <1>2, <1>3, <1>4, <2>2, <2>3, <2>6, <2>7, ProcessStep
<1> QED  BY <1>7, <1>8

(* A reactor that reports a channel, and the sweep, count nothing.           *)
LEMMA CheckChannelKeeps ==
    ASSUME Inv, NEW s \in Sessions, CheckChannel(s) PROVE Inv'
<1> DEFINE v == [from |-> s, kind |-> "channel", n |-> streak[s].since]
           r == [pc |-> "climb", at |-> s, prev |-> NewRow, alert |-> v]
<1>1. TypeOK /\ s \in Procs /\ InHand(s) /\ Owed(s)
    BY DEF Inv, Procs
<1>2. /\ At(s, "idle") /\ Send(s, s, "channel", streak[s].since)
      /\ UNCHANGED <<health, streak, tick, row, log, moves, faults>>
    BY DEF CheckChannel
<1>3. Grows /\ log' \in [Sessions -> SUBSET Entry]
    BY <1>1, <1>2, LogKept
<1>4. streak[s].since \in Counts
    BY <1>1 DEF TypeOK, Streak
<1>5. r \in Process
    BY <1>4, SendType
<1>6. Moves(s, r) /\ r.alert.from = s
    BY <1>1, <1>2, SendIs DEF Moves
<1>7. proc'[s] = r
    BY <1>1, <1>5, <1>6, MovesTyped
<1>8. /\ ~Notifies(s)' /\ ~At(s, "probe")' /\ ~At(s, "record")' /\ ~Notifies(s)
      /\ proc'[s].alert.kind = "channel"
    BY <1>2, <1>7 DEF Notifies, InFlight, At, Bad
<1>9. InHand(s)'
    BY <1>8 DEF InHand
<1>10. Owed(s)'
    BY <1>1, <1>2, <1>8 DEF Owed, News
<1> HIDE DEF r
<1> QED  BY <1>1, <1>2, <1>3, <1>5, <1>6, <1>9, <1>10, QuietStep DEF r

LEMMA CheckDeadmanKeeps ==
    ASSUME Inv, NEW s \in Sessions, CheckDeadman(s) PROVE Inv'
<1> DEFINE v == [from |-> s, kind |-> "deadman", n |-> tick[s].last]
           r == [pc |-> "climb", at |-> s, prev |-> NewRow, alert |-> v]
<1>1. TypeOK /\ Sweep \in Procs /\ Sweep \notin Sessions
    BY DEF Inv, Procs
<1>2. /\ Send(Sweep, s, "deadman", tick[s].last)
      /\ UNCHANGED <<health, streak, tick, row, log, moves, faults>>
    BY DEF CheckDeadman, Outage
<1>3. Grows /\ log' \in [Sessions -> SUBSET Entry]
    BY <1>1, <1>2, LogKept
<1>4. tick[s].last \in Counts
    BY <1>1 DEF TypeOK, Tick
<1>5. r \in Process
    BY <1>4, SendType
<1>6. Moves(Sweep, r)
    BY <1>1, <1>2, SendIs DEF Moves
<1> HIDE DEF r
<1> QED  BY <1>1, <1>2, <1>3, <1>5, <1>6, QuietStep

(* An alert under way stays the one it is.                                   *)
LEMMA FlightStep ==
    ASSUME TypeOK, NEW s \in Sessions, InHand(s), Owed(s),
           proc[s].pc \in InFlight, proc'[s].pc \in InFlight,
           proc'[s].alert = proc[s].alert, moves' = moves, health' = health,
           row'[s].count = row[s].count, row'[s].told = row[s].told,
           row'[s].state = row[s].state \/ row'[s].state = health[s],
           proc'[s].pc = "record" => Heard(proc[s].alert)'
    PROVE  InHand(s)' /\ Owed(s)'
<1>1. Notifies(s)' <=> Notifies(s)
    BY DEF Notifies
<1>2. ~At(s, "probe")'
    BY DEF At, InFlight
<1>3. InHand(s)'
    BY <1>1, <1>2 DEF InHand, Notifies, At, Said
<1>4. Owed(s)'
    BY <1>1, <1>2 DEF Owed, News
<1> QED  BY <1>3, <1>4

LEMMA ClimbKeeps ==
    ASSUME Inv, NEW p \in Procs, Climb(p) PROVE Inv'
<1> DEFINE up == Parent[proc[p].at]
<1>1. TypeOK /\ proc[p] \in Process /\ proc[p].at \in Sessions
      /\ (p \in Sessions => InHand(p) /\ Owed(p) /\ proc[p].alert.from = p)
    BY DEF Inv, TypeOK, Process, Said
<1>2. /\ At(p, "climb")
      /\ UNCHANGED <<health, streak, tick, log, moves, faults>>
    BY DEF Climb
<1>3. Grows /\ log' \in [Sessions -> SUBSET Entry]
    BY <1>1, <1>2, LogKept
<1>4. up \in Sessions \cup {None}
    BY <1>1
<1>5. CASE up = None
    <2> DEFINE r == [pc |-> "local", alert |-> proc[p].alert, at |-> proc[p].at,
                     prev |-> proc[p].prev]
    <2>1. Go(p, "local") /\ UNCHANGED row
        BY <1>5 DEF Climb
    <2>2. Moves(p, r)
        BY <1>1, <2>1, GoIs DEF Moves
    <2>3. r \in Process /\ r.alert = proc[p].alert
        BY <1>1 DEF Process
    <2>4. proc'[p] = r
        BY <1>1, <2>2, <2>3, MovesTyped
    <2>5. p \in Sessions => InHand(p)' /\ Owed(p)'
        BY <1>1, <1>2, <2>1, <2>4, FlightStep DEF InFlight, At
    <2> HIDE DEF r
    <2> QED  BY <1>1, <1>2, <1>3, <2>1, <2>2, <2>3, <2>5, QuietStep
<1>6. CASE up # None
    <2> DEFINE x == IF health[up] \in Bad THEN "climb" ELSE "publish"
               r == [pc |-> x, alert |-> proc[p].alert, at |-> up, prev |-> proc[p].prev]
    <2>1. Stored(up) /\ up \in Sessions
        BY <1>4, <1>6 DEF Climb
    <2>2. Moves(p, r)
        <3> DEFINE b == proc[p]
                   a == [b EXCEPT !.at = up]
        <3>1. proc' = [proc EXCEPT ![p] = [a EXCEPT !.pc = x]]
            BY <1>6 DEF Climb
        <3>2. b \in Process
            BY <1>1
        <3>3. r = [pc |-> x, alert |-> b.alert, at |-> up, prev |-> b.prev]
            OBVIOUS
        <3> HIDE DEF b, x, r, up
        <3>4. a = [pc |-> b.pc, alert |-> b.alert, at |-> up, prev |-> b.prev]
            BY <3>2 DEF Process
        <3> HIDE DEF a
        <3>5. [a EXCEPT !.pc = x] = [pc |-> x, alert |-> b.alert, at |-> up, prev |-> b.prev]
            BY <3>4
        <3> QED  BY <3>1, <3>3, <3>5 DEF Moves
    <2>3. r \in Process /\ r.alert = proc[p].alert /\ r.pc \in {"climb", "publish"}
        BY <1>1, <2>1 DEF Process
    <2>4. proc'[p] = r
        BY <1>1, <2>2, <2>3, MovesTyped
    <2>5. /\ row' \in [Sessions -> Row]
          /\ \A q \in Sessions : row'[q].count = row[q].count /\ row'[q].told = row[q].told
          /\ \A q \in Sessions : row'[q].state = row[q].state \/ row'[q].state = health[q]
        BY <1>1, <2>1, StoredIs
    <2>6. /\ proc'[p].alert = proc[p].alert /\ proc'[p].pc \in {"climb", "publish"}
          /\ proc[p].pc = "climb"
        BY <1>2, <2>3, <2>4 DEF At
    <2>7. ASSUME p \in Sessions PROVE InHand(p)' /\ Owed(p)'
        <3>1. proc[p].pc \in InFlight /\ proc'[p].pc \in InFlight /\ proc'[p].pc # "record"
            BY <2>6 DEF InFlight
        <3>2. /\ row'[p].count = row[p].count /\ row'[p].told = row[p].told
              /\ row'[p].state = row[p].state \/ row'[p].state = health[p]
            BY <2>5, <2>7
        <3> QED  BY <1>1, <1>2, <2>6, <2>7, <3>1, <3>2, FlightStep
    <2>8. p \in Sessions => r.alert.from = p
        BY <1>1, <2>3
    <2> HIDE DEF r
    <2>9. Moves(p, r) /\ r \in Process
        BY <2>2, <2>3
    <2> QED  BY <1>2, <1>3, <2>5, <2>7, <2>8, <2>9, ProcessStep
<1> QED  BY <1>5, <1>6

(* Two ends of a walk: an entry is put on one log, and the process goes on   *)
(* to its record or is done.                                                 *)
LEMMA EntryStep ==
    ASSUME Inv, NEW p \in Procs, NEW u \in Sessions, NEW w \in {"escalate", "dead"},
           proc[p].pc \in InFlight,
           log' = [log EXCEPT ![u] = @ \cup {<<w, Said(p)>>}],
           UNCHANGED <<health, streak, tick, row, moves, faults>>,
           \/ End(p) \/ Go(p, "local") \/ Go(p, "record")
    PROVE  Inv'
<1>1. TypeOK /\ proc[p] \in Process
      /\ (p \in Sessions => InHand(p) /\ Owed(p) /\ proc[p].alert.from = p)
    BY DEF Inv, TypeOK, Said
<1>2. <<w, Said(p)>> \in Entry
    BY <1>1 DEF Entry, Process, Said
<1>3. Grows /\ log' \in [Sessions -> SUBSET Entry] /\ <<w, proc[p].alert>> \in log'[u]
    <2>1. log \in [Sessions -> SUBSET Entry]
        BY <1>1 DEF TypeOK
    <2> DEFINE e == <<w, Said(p)>>
    <2>2. log' = [log EXCEPT ![u] = @ \cup {e}] /\ e \in Entry /\ e = <<w, proc[p].alert>>
        BY <1>2 DEF Said
    <2> HIDE DEF e
    <2> QED  BY <2>1, <2>2 DEF Grows
<1>4. CASE End(p)
    <2>1. Moves(p, Rest(p)) /\ Rest(p) \in Process
        BY <1>4, RestIs DEF Moves, End
    <2>2. Rest(p).pc = "idle" /\ (p \in Sessions => Rest(p).alert.from = p)
        BY RestIs DEF Nobody
    <2>3. proc'[p].pc = "idle"
        BY <1>1, <2>1, <2>2, MovesTyped
    <2>4. p \in Sessions => InHand(p)' /\ Owed(p)'
        BY <1>1, <2>3, AtRest
    <2> QED  BY <1>3, <2>1, <2>2, <2>4, QuietStep
<1>5. ASSUME NEW x \in {"local", "record"}, Go(p, x) PROVE Inv'
    <2> DEFINE r == [pc |-> x, alert |-> proc[p].alert, at |-> proc[p].at,
                     prev |-> proc[p].prev]
    <2>1. Moves(p, r)
        BY <1>1, <1>5, GoIs DEF Moves
    <2>2. r \in Process /\ r.alert = proc[p].alert
        BY <1>1 DEF Process
    <2>3. proc'[p] = r
        BY <1>1, <2>1, <2>2, MovesTyped
    <2>4. Heard(proc[p].alert)'
        BY <1>3, <2>2, <2>3 DEF Heard
    <2>5. p \in Sessions => InHand(p)' /\ Owed(p)'
        BY <1>1, <2>3, <2>4, FlightStep DEF InFlight
    <2> HIDE DEF r
    <2> QED  BY <1>1, <1>3, <2>1, <2>2, <2>5, QuietStep
<1> QED  BY <1>4, <1>5

LEMMA PublishKeeps ==
    ASSUME Inv, NEW p \in Procs, Publish(p) PROVE Inv'
<1>1. proc[p].at \in Sessions /\ proc[p].pc \in InFlight
    BY DEF Inv, TypeOK, Process, Publish, At, InFlight
<1>2. /\ log' = [log EXCEPT ![proc[p].at] = @ \cup {<<"escalate", Said(p)>>}]
      /\ UNCHANGED <<health, streak, tick, row, moves, faults>>
      /\ End(p) \/ Go(p, "local") \/ Go(p, "record")
    BY DEF Publish
<1> QED  BY <1>1, <1>2, EntryStep

LEMMA LocalKeeps ==
    ASSUME Inv, NEW p \in Procs, Local(p) PROVE Inv'
<1>1. Said(p).from \in Sessions /\ proc[p].pc \in InFlight
    BY DEF Inv, TypeOK, Process, Alert, Local, At, InFlight, Said
<1>2. /\ log' = [log EXCEPT ![Said(p).from] = @ \cup {<<"dead", Said(p)>>}]
      /\ UNCHANGED <<health, streak, tick, row, moves, faults>>
      /\ End(p) \/ Go(p, "record")
    BY DEF Local
<1> QED  BY <1>1, <1>2, EntryStep

(* The record: what it counts was heard, and is the next number.             *)
LEMMA SetTold ==
    ASSUME NEW r \in Row, NEW n \in Counts
    PROVE  LET k == [[r EXCEPT !.told = "recent"] EXCEPT !.count = n]
           IN  k \in Row /\ k.state = r.state /\ k.told = "recent" /\ k.count = n
<1> DEFINE a == [r EXCEPT !.told = "recent"]
<1>1. a \in Row /\ a.state = r.state /\ a.told = "recent"
    BY DEF Row
<1> HIDE DEF a
<1>2. LET k == [a EXCEPT !.count = n]
      IN  k \in Row /\ k.state = a.state /\ k.told = a.told /\ k.count = n
    BY <1>1 DEF Row
<1> QED  BY <1>1, <1>2 DEF a

LEMMA RecordKeeps ==
    ASSUME Inv, NEW s \in Sessions, Record(s) PROVE Inv'
<1>1. /\ TypeOK /\ s \in Procs /\ InHand(s) /\ Owed(s) /\ proc[s] \in Process
      /\ row[s] \in Row /\ row \in [Sessions -> Row] /\ NotifiedHeard /\ Clocks
    BY DEF Inv, Procs, TypeOK
<1>2. /\ At(s, "record") /\ End(s)
      /\ UNCHANGED <<health, tick, log, moves, faults>>
    BY DEF Record
<1>3. Grows /\ log' \in [Sessions -> SUBSET Entry]
    BY <1>1, <1>2, LogKept
<1>4. Moves(s, Rest(s)) /\ Rest(s) \in Process
    BY <1>1, <1>2, RestIs DEF Moves, End
<1>5. Rest(s).pc = "idle" /\ Rest(s).alert.from = s
    BY <1>1, RestIs DEF Nobody
<1>6. /\ proc' \in [Procs -> Process] /\ proc'[s].pc = "idle"
      /\ \A q \in Procs \ {s} : proc'[q] = proc[q]
      /\ \A q \in Sessions : proc'[q].alert.from = q
    BY <1>1, <1>4, <1>5, MovesTyped
<1>7. CASE Said(s).kind = "channel"
    <2>1. UNCHANGED row /\ streak' = [streak EXCEPT ![s].told = streak[s].n > 0]
        BY <1>7 DEF Record
    <2>2. /\ streak' \in [Sessions -> Streak]
          /\ \A q \in Sessions : streak'[q].since = streak[q].since
        <3>1. streak[s] \in Streak /\ streak \in [Sessions -> Streak]
            BY <1>1 DEF TypeOK
        <3> DEFINE b == streak[s].n > 0
                   k == [streak[s] EXCEPT !.told = b]
        <3>2. streak' = [streak EXCEPT ![s] = k] /\ b \in BOOLEAN
            BY <2>1
        <3> HIDE DEF b
        <3>3. k \in Streak /\ k.since = streak[s].since
            BY <3>1, <3>2 DEF Streak
        <3> HIDE DEF k
        <3> QED  BY <3>1, <3>2, <3>3
    <2>3. Clocks'
        BY <1>1, <1>2, <2>2 DEF Clocks
    <2>4. TypeOK'
        BY <1>1, <1>2, <1>3, <1>6, <2>1, <2>2 DEF TypeOK, Said
    <2>5. NotifiedHeard'
        BY <1>1, <1>3, <2>1, NobodyForgets
    <2>6. ASSUME NEW q \in Sessions PROVE InHand(q)' /\ Owed(q)'
        <3>1. CASE q = s
            BY <1>1, <1>2, <1>6, <2>1, <3>1, AtRest
        <3>2. CASE q # s
            <4>1. proc'[q] = proc[q] /\ InHand(q) /\ Owed(q)
                BY <1>6, <3>2 DEF Procs, Inv
            <4> QED  BY <1>1, <1>2, <1>3, <2>1, <4>1, OthersStep
        <3> QED  BY <3>1, <3>2
    <2> QED  BY <2>3, <2>4, <2>5, <2>6 DEF Inv
<1>8. CASE Said(s).kind # "channel"
    <2>1. UNCHANGED streak
        BY <1>8 DEF Record
    <2>2. Said(s).kind \in Bad /\ Notifies(s)
        BY <1>1, <1>2, <1>8 DEF InHand, Notifies, InFlight, At, Said
    <2>3. Said(s).n = row[s].count + 1 /\ Said(s).n \in Counts
        BY <1>1, <2>2 DEF InHand, Said, Process, Alert
    <2>4. /\ row' \in [Sessions -> Row] /\ \A q \in Sessions \ {s} : row'[q] = row[q]
          /\ row'[s].state = row[s].state /\ row'[s].told = "recent"
          /\ row'[s].count = Said(s).n
        <3> DEFINE n == Said(s).n
                   k == [[row[s] EXCEPT !.told = "recent"] EXCEPT !.count = n]
        <3>1. row' = [row EXCEPT ![s] = k]
            BY <1>1, <1>8 DEF Record
        <3>2. k \in Row /\ k.state = row[s].state /\ k.told = "recent" /\ k.count = n
            BY <1>1, <2>3, SetTold
        <3> HIDE DEF k
        <3> QED  BY <1>1, <3>1, <3>2
    <2>5. Clocks'
        BY <1>1, <1>2, <2>1 DEF Clocks
    <2>6. TypeOK'
        BY <1>1, <1>2, <1>3, <1>6, <2>1, <2>4 DEF TypeOK, Said
    <2>7. row[s].count \in Nat /\ moves \in Nat
        BY <1>1, RowNat
    <2>8. NotifiedHeard'
        <3> SUFFICES ASSUME NEW q \in Sessions, NEW n \in 1..row'[q].count
                     PROVE  \E b \in Bad : Heard(Of(q, b, n))'
            BY DEF NotifiedHeard, Of
        <3>1. CASE n \in 1..row[q].count
            <4>1. PICK b \in Bad : Heard(Of(q, b, n))
                BY <1>1, <3>1 DEF NotifiedHeard
            <4>2. Heard(Of(q, b, n))'
                BY <1>3, <4>1, HeardStays DEF Of, Heard
            <4> QED  BY <4>2
        <3>2. CASE n \notin 1..row[q].count
            <4>1. q = s /\ n = Said(s).n
                <5>1. q = s
                    BY <2>4, <3>2
                <5> QED  BY <2>3, <2>4, <2>7, <3>2, <5>1
            <4>2. Said(s) = Of(s, Said(s).kind, Said(s).n)
                BY <1>1 DEF TypeOK, Process, Alert, Said, Of
            <4>3. Heard(Said(s))
                BY <1>1, <1>2 DEF InHand
            <4>4. PICK b \in Bad : Heard(Of(q, b, n))
                BY <2>2, <4>1, <4>2, <4>3
            <4>5. Heard(Of(q, b, n))'
                BY <1>2, <4>4 DEF Heard, Of
            <4> QED  BY <4>5
        <3> QED  BY <3>1, <3>2
    <2>9. ASSUME NEW q \in Sessions PROVE InHand(q)' /\ Owed(q)'
        <3>1. CASE q = s
            <4>1. /\ ~Notifies(q)' /\ ~At(q, "probe")' /\ ~At(q, "record")'
                  /\ proc'[q].pc \notin InFlight
                BY <1>6, <3>1 DEF Notifies, InFlight, At
            <4>2. row[s].count <= moves /\ (row[s].state # health[s] => row[s].count + 1 <= moves)
                BY <1>1, <2>2 DEF Owed
            <4>3. News(q)' <=> row[s].state # health[s]
                BY <1>2, <2>4, <3>1 DEF News
            <4>4. row'[q].count = row[s].count + 1
                BY <2>3, <2>4, <3>1
            <4> QED  BY <1>2, <2>7, <4>1, <4>2, <4>3, <4>4 DEF InHand, Owed
        <3>2. CASE q # s
            <4>1. proc'[q] = proc[q] /\ InHand(q) /\ Owed(q) /\ row'[q] = row[q]
                BY <1>6, <2>4, <3>2 DEF Procs, Inv
            <4> QED  BY <1>1, <1>2, <1>3, <4>1, OthersStep
        <3> QED  BY <3>1, <3>2
    <2> QED  BY <2>5, <2>6, <2>8, <2>9 DEF Inv
<1> QED  BY <1>7, <1>8

-------------------------------------------------------------------------------
(* What happens meanwhile.                                                   *)
LEMMA CountedMoves ==
    ASSUME TypeOK, Counted
    PROVE  moves' = moves + 1 /\ moves \in Nat /\ moves' <= MaxMoves /\ moves' \in Nat
BY DEF TypeOK, Counted

LEMMA ClocksGrow ==
    ASSUME TypeOK, Clocks, Counted, UNCHANGED <<streak, tick>> PROVE Clocks'
<1>1. moves' = moves + 1 /\ moves \in Nat
    BY CountedMoves
<1>2. \A s \in Sessions : streak[s].since \in Nat /\ tick[s].last \in Nat
    BY DEF TypeOK, Streak, Tick, Counts
<1> QED  BY <1>1, <1>2 DEF Clocks

LEMMA TurnKeeps ==
    ASSUME Inv, NEW s \in Sessions, Turn(s) PROVE Inv'
<1>1. TypeOK /\ Clocks /\ Counted /\ UNCHANGED <<streak, tick, row, log, proc, faults>>
    BY DEF Inv, Turn
<1>2. health' \in [Sessions -> States]
    BY <1>1 DEF TypeOK, Turn
<1>3. Clocks'
    BY <1>1, ClocksGrow
<1>4. /\ row' \in [Sessions -> Row] /\ \A q \in Sessions : row'[q].count = row[q].count
      /\ streak' \in [Sessions -> Streak] /\ tick' \in [Sessions -> Tick]
    BY <1>1 DEF TypeOK
<1> QED  BY <1>1, <1>2, <1>3, <1>4, WorldStep

LEMMA WindowEndsKeeps ==
    ASSUME Inv, NEW s \in Sessions, WindowEnds(s) PROVE Inv'
<1>1. TypeOK /\ Clocks /\ Counted /\ UNCHANGED <<health, streak, tick, log, proc, faults>>
    BY DEF Inv, WindowEnds
<1>2. /\ row' \in [Sessions -> Row] /\ \A q \in Sessions : row'[q].count = row[q].count
    <2> DEFINE k == [row[s] EXCEPT !.told = "old"]
    <2>1. row[s] \in Row /\ row \in [Sessions -> Row]
        BY <1>1 DEF TypeOK
    <2>2. k \in Row /\ k.count = row[s].count
        BY <2>1 DEF Row
    <2>3. row' = [row EXCEPT ![s] = k]
        BY DEF WindowEnds
    <2> HIDE DEF k
    <2> QED  BY <2>1, <2>2, <2>3
<1>3. Clocks'
    BY <1>1, ClocksGrow
<1>4. /\ health' \in [Sessions -> States]
      /\ streak' \in [Sessions -> Streak] /\ tick' \in [Sessions -> Tick]
    BY <1>1 DEF TypeOK
<1> QED  BY <1>1, <1>2, <1>3, <1>4, WorldStep

(* A streak or a tick that changes has at most one more episode behind it.   *)
LEMMA StreakStep ==
    ASSUME Inv, NEW s \in Sessions, NEW k \in Streak, Counted,
           streak' = [streak EXCEPT ![s] = k], k.since <= streak[s].since + 1,
           UNCHANGED <<health, tick, row, log, proc, faults>>
    PROVE  Inv'
<1>1. TypeOK /\ Clocks
    BY DEF Inv
<1>2. moves' = moves + 1 /\ moves \in Nat
    BY <1>1, CountedMoves
<1>3. \A q \in Sessions : streak[q].since \in Nat /\ tick[q].last \in Nat
    BY <1>1 DEF TypeOK, Streak, Tick, Counts
<1>4. streak' \in [Sessions -> Streak] /\ streak'[s] = k
      /\ \A q \in Sessions \ {s} : streak'[q] = streak[q]
    BY <1>1 DEF TypeOK
<1>5. k.since \in Nat
    BY DEF Streak, Counts
<1>6. Clocks'
    <2> SUFFICES ASSUME NEW q \in Sessions
                 PROVE  streak'[q].since <= moves' /\ tick'[q].last <= moves'
        BY DEF Clocks
    <2>1. streak[q].since <= moves /\ tick[q].last <= moves /\ streak[s].since <= moves
        BY <1>1 DEF Clocks
    <2>2. tick'[q].last <= moves'
        BY <1>2, <1>3, <2>1
    <2>3. k.since <= moves'
        BY <1>2, <1>3, <1>5, <2>1
    <2>4. streak'[q].since <= moves'
        BY <1>2, <1>3, <1>4, <2>1, <2>3
    <2> QED  BY <2>2, <2>4
<1>7. /\ row' \in [Sessions -> Row] /\ \A q \in Sessions : row'[q].count = row[q].count
      /\ health' \in [Sessions -> States] /\ tick' \in [Sessions -> Tick]
    BY <1>1 DEF TypeOK
<1> QED  BY <1>4, <1>6, <1>7, WorldStep

LEMMA RecordFailureKeeps ==
    ASSUME Inv, NEW s \in Sessions, RecordFailure(s) PROVE Inv'
<1>1. TypeOK /\ Clocks /\ Counted /\ UNCHANGED <<health, tick, row, log, proc, faults>>
    BY DEF Inv, RecordFailure
<1>2. moves' = moves + 1 /\ moves \in Nat /\ moves' <= MaxMoves
    BY <1>1, CountedMoves
<1>3. streak[s] \in Streak /\ streak[s].since \in Nat /\ streak[s].since <= moves
    BY <1>1 DEF TypeOK, Streak, Counts, Clocks
<1>4. PICK n \in {1, 2} :
          streak' = [streak EXCEPT ![s].n = n,
                                   ![s].since = IF streak[s].n = 0 THEN @ + 1 ELSE @]
    BY DEF RecordFailure
<1> DEFINE m == IF streak[s].n = 0 THEN streak[s].since + 1 ELSE streak[s].since
           a == [streak[s] EXCEPT !.n = n]
           k == [a EXCEPT !.since = m]
<1>5. a \in Streak /\ a.since = streak[s].since
    BY <1>3 DEF Streak
<1>6. streak' = [streak EXCEPT ![s] = k]
    <2>1. streak' = [streak EXCEPT ![s] =
              [a EXCEPT !.since = IF streak[s].n = 0 THEN a.since + 1 ELSE a.since]]
        BY <1>4
    <2> HIDE DEF a
    <2> QED  BY <1>5, <2>1
<1>7. m \in Nat /\ m <= moves' /\ m <= streak[s].since + 1
    BY <1>2, <1>3
<1>8. m \in Counts
    BY <1>2, <1>7 DEF Counts
<1> HIDE DEF a, m
<1>9. k \in Streak /\ k.since = m
    BY <1>5, <1>8 DEF Streak
<1> HIDE DEF k
<1>10. k.since <= streak[s].since + 1
    BY <1>7, <1>9
<1> QED  BY <1>1, <1>6, <1>9, <1>10, StreakStep

LEMMA RecordSuccessKeeps ==
    ASSUME Inv, NEW s \in Sessions, RecordSuccess(s) PROVE Inv'
<1>1. TypeOK /\ Counted /\ UNCHANGED <<health, tick, row, log, proc, faults>>
    BY DEF Inv, RecordSuccess
<1>2. streak[s] \in Streak /\ streak[s].since \in Nat
    BY <1>1 DEF TypeOK, Streak, Counts
<1> DEFINE a == [streak[s] EXCEPT !.n = 0]
           k == [a EXCEPT !.told = FALSE]
<1>3. a \in Streak /\ a.since = streak[s].since
    BY <1>2 DEF Streak
<1>4. streak' = [streak EXCEPT ![s] = k]
    BY DEF RecordSuccess
<1> HIDE DEF a
<1>5. k \in Streak /\ k.since = a.since
    BY <1>3 DEF Streak
<1> HIDE DEF k
<1>6. k.since <= streak[s].since + 1
    BY <1>2, <1>3, <1>5
<1> QED  BY <1>1, <1>4, <1>5, <1>6, StreakStep

LEMMA TicksKeeps ==
    ASSUME Inv, NEW s \in Sessions, Ticks(s) PROVE Inv'
<1>1. TypeOK /\ Clocks /\ Counted /\ UNCHANGED <<health, streak, row, log, proc, faults>>
    BY DEF Inv, Ticks
<1>2. moves' = moves + 1 /\ moves \in Nat /\ moves' <= MaxMoves
    BY <1>1, CountedMoves
<1>3. \A q \in Sessions : /\ tick[q] \in Tick /\ tick[q].last \in Nat /\ tick[q].last <= moves
                          /\ streak[q].since \in Nat /\ streak[q].since <= moves
    BY <1>1 DEF TypeOK, Tick, Streak, Counts, Clocks
<1> DEFINE a == [last |-> tick[s].last + 1, overdue |-> FALSE]
           b == [tick[s] EXCEPT !.overdue = TRUE]
           k == IF tick[s].overdue THEN a ELSE b
<1>4. tick' = [tick EXCEPT ![s] = k]
    BY DEF Ticks
<1>5. tick[s].last + 1 \in Counts
    BY <1>2, <1>3 DEF Counts
<1>6. a \in Tick /\ a.last <= moves'
    BY <1>2, <1>3, <1>5 DEF Tick
<1>7. b \in Tick /\ b.last = tick[s].last
    BY <1>3 DEF Tick
<1> HIDE DEF a, b
<1>8. k \in Tick /\ k.last <= moves'
    BY <1>2, <1>3, <1>6, <1>7
<1> HIDE DEF k
<1>9. /\ tick' \in [Sessions -> Tick] /\ tick'[s] = k
      /\ \A q \in Sessions \ {s} : tick'[q] = tick[q]
    BY <1>1, <1>4, <1>8 DEF TypeOK
<1>10. Clocks'
    <2> SUFFICES ASSUME NEW q \in Sessions
                 PROVE  streak'[q].since <= moves' /\ tick'[q].last <= moves'
        BY DEF Clocks
    <2>1. streak'[q].since <= moves'
        BY <1>1, <1>2, <1>3
    <2>2. CASE q = s
        BY <1>8, <1>9, <2>1, <2>2
    <2>3. CASE q # s
        BY <1>2, <1>3, <1>9, <2>1, <2>3
    <2> QED  BY <2>2, <2>3
<1>11. /\ row' \in [Sessions -> Row] /\ \A q \in Sessions : row'[q].count = row[q].count
       /\ health' \in [Sessions -> States] /\ streak' \in [Sessions -> Streak]
    BY <1>1 DEF TypeOK
<1> QED  BY <1>1, <1>9, <1>10, <1>11, WorldStep

LEMMA StatusKeeps ==
    ASSUME Inv, NEW s \in Sessions, Status(s) PROVE Inv'
<1>1. TypeOK /\ UNCHANGED <<health, streak, tick, log, proc, moves, faults>>
    BY DEF Inv, Status
<1>2. /\ row' \in [Sessions -> Row]
      /\ row'[s].state = health[s] /\ row'[s].told = row[s].told
      /\ row'[s].count = row[s].count
      /\ \A q \in Sessions \ {s} : row'[q] = row[q]
    BY <1>1, StoredIs DEF Status
<1>3. Grows /\ log' \in [Sessions -> SUBSET Entry]
    BY <1>1, LogKept
<1>4. TypeOK'
    BY <1>1, <1>2 DEF TypeOK, Said
<1>5. NotifiedHeard'
    BY <1>2, <1>3, NobodyForgets DEF Inv
<1>6. Clocks'
    BY <1>1 DEF Inv, Clocks
<1>7. ASSUME NEW q \in Sessions PROVE InHand(q)' /\ Owed(q)'
    BY <1>1, <1>2, <1>3, OthersStep DEF Inv
<1> QED  BY <1>4, <1>5, <1>6, <1>7 DEF Inv

(* What serve forgets is told again or not at all, but nothing counted is    *)
(* unheard.                                                                  *)
LEMMA FaultKeeps ==
    ASSUME Inv, NEW ps \in SUBSET Procs, Fault(ps) PROVE Inv'
<1>1. TypeOK /\ UNCHANGED <<health, streak, tick, row, log, moves>>
    BY DEF Inv, Fault
<1>2. faults' \in 0..MaxFaults
    BY <1>1 DEF Fault, TypeOK
<1>3. proc' = [p \in Procs |-> IF p \in ps THEN Rest(p) ELSE proc[p]]
    BY DEF Fault
<1>4. \A p \in Procs : /\ Rest(p) \in Process /\ Rest(p).pc = "idle"
                       /\ p \in Sessions => Rest(p).alert.from = p
    BY RestIs DEF Nobody
<1>5. proc \in [Procs -> Process] /\ Sessions \subseteq Procs
      /\ \A s \in Sessions : proc[s].alert.from = s
    BY <1>1 DEF TypeOK, Procs, Said
<1>6. proc' \in [Procs -> Process] /\ \A s \in Sessions : proc'[s].alert.from = s
    BY <1>3, <1>4, <1>5
<1>7. TypeOK'
    BY <1>1, <1>2, <1>6 DEF TypeOK, Said
<1>8. Grows
    BY <1>1 DEF Grows
<1>9. NotifiedHeard'
    BY <1>1, <1>8, NobodyForgets DEF Inv
<1>10. Clocks'
    BY <1>1 DEF Inv, Clocks
<1>11. ASSUME NEW s \in Sessions PROVE InHand(s)' /\ Owed(s)'
    <2>1. InHand(s) /\ Owed(s)
        BY DEF Inv
    <2>2. CASE s \in ps
        <3>1. proc'[s].pc = "idle"
            BY <1>3, <1>4, <1>5, <2>2
        <3> QED  BY <1>1, <2>1, <3>1, AtRest
    <2>3. CASE s \notin ps
        <3>1. proc'[s] = proc[s]
            BY <1>3, <1>5, <2>3
        <3> QED  BY <1>1, <1>8, <2>1, <3>1, OthersStep
    <2> QED  BY <2>2, <2>3
<1> QED  BY <1>7, <1>9, <1>10, <1>11 DEF Inv
-------------------------------------------------------------------------------
LEMMA InitInv == Init => Inv
<1> SUFFICES ASSUME Init PROVE Inv
    OBVIOUS
<1>1. 0 \in Counts /\ "healthy" \in States
    BY DEF Counts, States, Bad
<1>2. NewRow \in Row /\ NewRow.count = 0
    BY <1>1 DEF NewRow, Row
<1>3. row \in [Sessions -> Row] /\ \A s \in Sessions : row[s].count = 0
    BY <1>2 DEF Init
<1>4. /\ streak \in [Sessions -> Streak] /\ tick \in [Sessions -> Tick]
      /\ \A s \in Sessions : streak[s].since = 0 /\ tick[s].last = 0
    BY <1>1 DEF Init, Streak, Tick
<1>5. /\ proc \in [Procs -> Process]
      /\ \A s \in Sessions : proc[s].pc = "idle" /\ proc[s].alert.from = s
    BY RestIs DEF Init, Procs, Nobody
<1>6. TypeOK
    BY <1>1, <1>3, <1>4, <1>5 DEF TypeOK, Init, Said
<1>7. Clocks
    <2>1. moves = 0
        BY DEF Init
    <2> SUFFICES ASSUME NEW s \in Sessions
                 PROVE  streak[s].since <= moves /\ tick[s].last <= moves
        BY DEF Clocks
    <2>2. streak[s].since = 0 /\ tick[s].last = 0
        BY <1>4
    <2> QED  BY <2>1, <2>2
<1>8. NotifiedHeard
    BY <1>3 DEF NotifiedHeard
<1>9. ASSUME NEW s \in Sessions PROVE InHand(s) /\ Owed(s)
    <2>1. /\ ~Notifies(s) /\ ~At(s, "probe") /\ ~At(s, "record")
          /\ proc[s].pc \notin InFlight
        BY <1>5 DEF Notifies, InFlight, At
    <2>2. row[s].count <= moves /\ row[s].count <= moves + 1
        BY <1>3 DEF Init
    <2> QED  BY <2>1, <2>2 DEF InHand, Owed
<1> QED  BY <1>6, <1>7, <1>8, <1>9 DEF Inv

LEMMA NextInv == Inv /\ [Next]_vars => Inv'
<1> SUFFICES ASSUME Inv, [Next]_vars PROVE Inv'
    OBVIOUS
<1>1. CASE UNCHANGED vars
    BY <1>1 DEF vars, Inv, TypeOK, Clocks, NotifiedHeard, Heard, InHand, Owed, Notifies,
                News, ShouldNotify, At, Said
<1>2. CASE Next
    <2>1. ASSUME NEW s \in Sessions, Healthcheck(s) PROVE Inv'
        BY <2>1, HealthcheckKeeps
    <2>2. ASSUME NEW s \in Sessions, CheckChannel(s) PROVE Inv'
        BY <2>2, CheckChannelKeeps
    <2>3. ASSUME NEW s \in Sessions, Probe(s) PROVE Inv'
        BY <2>3, ProbeKeeps
    <2>4. ASSUME NEW s \in Sessions, Record(s) PROVE Inv'
        BY <2>4, RecordKeeps
    <2>5. ASSUME NEW s \in Sessions, CheckDeadman(s) PROVE Inv'
        BY <2>5, CheckDeadmanKeeps
    <2>6. ASSUME NEW s \in Sessions, Turn(s) PROVE Inv'
        BY <2>6, TurnKeeps
    <2>7. ASSUME NEW s \in Sessions, WindowEnds(s) PROVE Inv'
        BY <2>7, WindowEndsKeeps
    <2>8. ASSUME NEW s \in Sessions, Status(s) PROVE Inv'
        BY <2>8, StatusKeeps
    <2>9. ASSUME NEW s \in Sessions, RecordFailure(s) PROVE Inv'
        BY <2>9, RecordFailureKeeps
    <2>10. ASSUME NEW s \in Sessions, RecordSuccess(s) PROVE Inv'
        BY <2>10, RecordSuccessKeeps
    <2>11. ASSUME NEW s \in Sessions, Ticks(s) PROVE Inv'
        BY <2>11, TicksKeeps
    <2>12. ASSUME NEW p \in Procs, Step(p) PROVE Inv'
        BY <2>12, ClimbKeeps, PublishKeeps, LocalKeeps DEF Step
    <2>13. ASSUME NEW ps \in SUBSET Procs, Fault(ps) PROVE Inv'
        BY <2>13, FaultKeeps
    <2>14. Sessions \subseteq Procs /\ Sweep \in Procs /\ Procs \in SUBSET Procs
           /\ \A s \in Sessions : {s} \in SUBSET Procs
        BY DEF Procs
    <2> QED  BY <1>2, <2>1, <2>2, <2>3, <2>4, <2>5, <2>6, <2>7, <2>8, <2>9, <2>10, <2>11,
                <2>12, <2>13, <2>14 DEF Next, Reactor
<1> QED  BY <1>1, <1>2 DEF vars

(* The invariant of the reports holds in every state.                        *)
THEOREM Invariance == Spec => []Inv
BY InitInv, NextInv, PTL DEF Spec

(* Every variable keeps its type: in particular no session is told of more   *)
(* often than it turned and its windows ended (HealthcheckSession).          *)
THEOREM TypeCorrect == Spec => []TypeOK
<1>1. Inv => TypeOK
    BY DEF Inv
<1> QED  BY <1>1, Invariance, PTL

(* Every notification that persistHealthNotification counted was put on some *)
(* log first, in every family of sessions, whatever fails and whenever serve *)
(* dies.                                                                     *)
THEOREM CountedWasHeard == Spec => []NotifiedHeard
<1>1. Inv => NotifiedHeard
    BY DEF Inv
<1> QED  BY <1>1, Invariance, PTL
===============================================================================
