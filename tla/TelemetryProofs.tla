--------------------------- MODULE TelemetryProofs ---------------------------
(***************************************************************************)
(* Theorems about Telemetry and Screens for every number of uploads and     *)
(* sweeps that overlap, every road, clock and threshold: what the live row, *)
(* the alert episodes and the screens may still say of a truck.             *)
(***************************************************************************)
EXTENDS Screens, TLAPS

\* A next-state relation without the fairness, which no safety proof needs.
LEMMA SpecIsSafe == Spec => Init /\ [][Next]_vars
BY PTL DEF Spec

-----------------------------------------------------------------------------
(* Types.                                                                   *)

\* What an upload works on was recorded, and a row it saw is still there.
Working(u) ==
  /\ session[u].op \in {"APPLY", "WRITE"} => session[u].ping \in Recorded
  /\ session[u].op = "WRITE" /\ session[u].seen # NoRow => live # NoRow

RowsSeen ==
  /\ stored \subseteq Recorded
  /\ \A u \in Uploader : Working(u)

TypeInv == TypeOK /\ RowsSeen

\* The records the module tells apart.
LEMMA Kinds ==
  /\ \A x \in Taken : x # NotTaken
  /\ \A x \in Row : x # NoRow
  /\ \A x \in Upload : x # Closed /\ x.op \in {"APPLY", "WRITE"}
  /\ \A x \in Pass : x # Closed /\ x.op = "SWEEP"
  /\ Closed.op = "none"
<1>1. \A x \in Taken : x.at \in Time
  BY DEF Taken
<1>2. \A x \in Row : x.at \in Time
  BY DEF Row
<1>3. NotTaken.at = -1 /\ NoRow.at = -1 /\ -1 \notin Time
  BY TelemetryAssumption DEF NotTaken, NoRow, Never, Time
<1>4. \A x \in Upload : x.op \in {"APPLY", "WRITE"}
  BY DEF Upload
<1>5. \A x \in Pass : x.op = "SWEEP"
  BY DEF Pass
<1>6. Closed.op = "none"
  BY DEF Closed
<1> QED BY <1>1, <1>2, <1>3, <1>4, <1>5, <1>6

\* A recorded fix has its time and its place.
LEMMA RecordedType ==
  ASSUME TypeOK, NEW n \in Recorded
  PROVE  n \in Fix /\ fix[n] \in Taken /\ fix[n].at \in Time /\ fix[n].place \in Place
BY DEF Recorded, TypeOK, Taken

\* An upload that is about to write holds a fix and what it saw.
LEMMA WritingType ==
  ASSUME TypeInv, NEW u \in Uploader, session[u].op = "WRITE"
  PROVE  /\ session[u] \in Upload
         /\ session[u].ping \in Recorded
         /\ session[u].received \in Time
         /\ session[u].truck \in Place
         /\ session[u].seen \in Row \cup {NoRow}
<1>1. session[u] \in Upload
  BY Kinds DEF TypeInv, TypeOK
<1>2. session[u].ping \in Recorded
  BY DEF TypeInv, RowsSeen, Working
<1> QED BY <1>1, <1>2 DEF Upload

\* The row of a fix.
LEMMA RowOfType ==
  ASSUME TypeOK, NEW n \in Recorded, NEW received \in Time, NEW seen \in Row \cup {NoRow}
  PROVE  RowOf(n, received, seen) \in Row
<1>1. fix[n].at \in Time /\ fix[n].place \in Place
  BY RecordedType
<1>2. Moving(n, seen) \in BOOLEAN
  BY DEF Moving
<1>3. DwellFrom(n, seen) \in Resting
  <2>1. seen # NoRow => seen.dwell \in Resting
    BY DEF Row
  <2> QED BY <1>1, <2>1 DEF DwellFrom, Resting, Never
<1> HIDE DEF Moving, DwellFrom
<1> QED BY <1>1, <1>2, <1>3 DEF RowOf, Row

\* What a commit leaves of the row: each column is its own or the one there.
LEMMA WrittenColumns ==
  ASSUME NEW row \in Row, NEW seen \in Row \cup {NoRow},
         seen # NoRow => live \in Row
  PROVE  /\ Written(row, seen) \in Row
         /\ seen = NoRow => Written(row, seen) = row
         /\ seen # NoRow =>
              \A c \in {"place", "moving", "dwell", "at", "received"} :
                Written(row, seen)[c] = IF row[c] # seen[c] THEN row[c] ELSE live[c]
<1>1. CASE seen = NoRow
  BY <1>1 DEF Written
<1>2. CASE seen # NoRow
  <2>1. DOMAIN row = {"place", "moving", "dwell", "at", "received"}
    BY DEF Row
  <2>2. Written(row, seen) = [c \in {"place", "moving", "dwell", "at", "received"} |->
                                IF row[c] # seen[c] THEN row[c] ELSE live[c]]
    BY <1>2, <2>1 DEF Written
  <2>3. live \in Row
    BY <1>2
  <2>4. \A c \in {"place", "moving", "dwell", "at", "received"} :
          Written(row, seen)[c] = IF row[c] # seen[c] THEN row[c] ELSE live[c]
    BY <2>2
  <2>5. Written(row, seen) \in Row
    <3> DEFINE w == Written(row, seen)
    <3>1. w = [c \in {"place", "moving", "dwell", "at", "received"} |-> w[c]]
      BY <2>2
    <3>2. /\ w["place"] \in Place /\ w["moving"] \in BOOLEAN /\ w["dwell"] \in Resting
          /\ w["at"] \in Time /\ w["received"] \in Time
      BY <2>3, <2>4 DEF Row
    <3> HIDE DEF w
    <3>3. w = [place |-> w["place"], moving |-> w["moving"], dwell |-> w["dwell"],
               at |-> w["at"], received |-> w["received"]]
      BY <3>1, Zenon
    <3>4. \A p \in Place, m \in BOOLEAN, d \in Resting, a, r \in Time :
            [place |-> p, moving |-> m, dwell |-> d, at |-> a, received |-> r] \in Row
      BY DEF Row
    <3>5. w \in Row
      BY <3>2, <3>3, <3>4, Zenon
    <3> QED BY <3>5 DEF w
  <2> QED BY <1>2, <2>4, <2>5
<1> QED BY <1>1, <1>2

\* Episodes keep their type whatever closes or doubts them.
LEMMA EpisodeTypes ==
  ASSUME NEW A \in SUBSET Alert
  PROVE  /\ \A types : AutoResolve(A, types) \subseteq Alert
         /\ \A seen : Unsure(A, seen) \subseteq Alert
         /\ \A a \in A : [a EXCEPT !.open = FALSE] \in Alert
BY DEF AutoResolve, Unsure, Alert

\* A finding is an episode of the row's own dwell or silence.
LEMMA FoundType ==
  ASSUME NEW row \in Row, NEW watched \in BOOLEAN, NEW f \in Found(row, watched)
  PROVE  /\ f \in Alert
         /\ f.open /\ f.sure
         /\ f.key = IF f.type = "DWELL" THEN row.dwell ELSE row.received
<1>1. CASE f = Finding("GPS_STALE", row.received)
  BY <1>1 DEF Finding, Alert, Row
<1>2. CASE f = Finding("DWELL", row.dwell) /\ row.dwell # Never
  BY <1>2 DEF Finding, Alert, Row, Resting, Never
<1> QED BY <1>1, <1>2 DEF Found, DwellLong

\* A session that becomes Closed, or gets what it loaded, leaves the others.
LEMMA SessionMoves ==
  ASSUME TypeInv, NEW s \in Uploader \cup Sweeper,
         NEW seen \in Upload \cup Pass \cup {Closed},
         session' = [session EXCEPT ![s] = seen],
         s \in Uploader => seen \in Upload \cup {Closed},
         s \in Sweeper => seen \in Pass \cup {Closed},
         seen \in Upload => seen.ping \in Recorded,
         seen.op = "WRITE" /\ seen.seen # NoRow => live' # NoRow,
         live # NoRow => live' # NoRow,
         fix' = fix
  PROVE  /\ session' \in [Uploader \cup Sweeper -> Upload \cup Pass \cup {Closed}]
         /\ \A u \in Uploader : session'[u] \in Upload \cup {Closed} /\ Working(u)'
         /\ \A w \in Sweeper : session'[w] \in Pass \cup {Closed}
<1>1. session' \in [Uploader \cup Sweeper -> Upload \cup Pass \cup {Closed}]
  BY DEF TypeInv, TypeOK
<1>2. \A t \in Uploader \cup Sweeper : session'[t] = IF t = s THEN seen ELSE session[t]
  BY DEF TypeInv, TypeOK
<1>3. ASSUME NEW u \in Uploader
      PROVE  session'[u] \in Upload \cup {Closed} /\ Working(u)'
  <2>1. Recorded' = Recorded
    BY DEF Recorded
  <2>2. CASE u = s
    BY <1>2, <2>1, <2>2, Kinds DEF Working
  <2>3. CASE u # s
    BY <1>2, <2>1, <2>3 DEF TypeInv, TypeOK, RowsSeen, Working
  <2> QED BY <2>2, <2>3
<1>4. \A w \in Sweeper : session'[w] \in Pass \cup {Closed}
  BY <1>2 DEF TypeInv, TypeOK
<1> QED BY <1>1, <1>3, <1>4

\* The rows, the episodes and the sessions keep their types at every step.
LEMMA TypeStep == TypeInv /\ [Next]_vars => TypeInv'
<1> SUFFICES ASSUME TypeInv, [Next]_vars
             PROVE  TypeInv'
  OBVIOUS
<1> USE DEF TypeInv
<1>1. CASE UNCHANGED vars
  BY <1>1 DEF vars, TypeOK, RowsSeen, Working, Recorded
<1>2. CASE Tick
  BY <1>2, TelemetryAssumption DEF Tick, TypeOK, RowsSeen, Working, Recorded, Time
<1>3. ASSUME NEW n \in Fix, Record(n)
      PROVE  TypeInv'
  <2>1. PICK p \in Place : fix' = [fix EXCEPT ![n] = [at |-> clock, place |-> p]]
    BY <1>3 DEF Record
  <2>2. [at |-> clock, place |-> p] \in Taken
    BY DEF TypeOK, Taken
  <2>3. Recorded \subseteq Recorded'
    BY <2>1, <2>2, Kinds DEF Recorded, TypeOK
  <2> QED BY <1>3, <2>1, <2>2, <2>3 DEF Record, TypeOK, RowsSeen, Working
<1>4. ASSUME NEW u \in Uploader, NEW batch \in SUBSET Fix, Receive(u, batch)
      PROVE  TypeInv'
  <2>1. stored' \subseteq Recorded' /\ Recorded' \subseteq Fix /\ fix' = fix
    BY <1>4 DEF Receive, RowsSeen, Recorded
  <2>2. CASE session' = session
    BY <1>4, <2>1, <2>2 DEF Receive, TypeOK, RowsSeen, Working, Recorded
  <2>3. ASSUME NEW n \in batch,
               session' = [session EXCEPT ![u] =
                             [op |-> "APPLY", ping |-> n, received |-> clock,
                              truck |-> parked]]
        PROVE  TypeInv'
    <3> DEFINE seen == [op |-> "APPLY", ping |-> n, received |-> clock, truck |-> parked]
    <3>1. n \in Recorded
      BY <1>4 DEF Receive
    <3>2. seen \in Upload /\ seen.ping = n /\ seen.op # "WRITE"
      BY DEF Upload, TypeOK
    <3>3. u \notin Sweeper
      BY TelemetryAssumption
    <3>4. session' = [session EXCEPT ![u] = seen]
      BY <2>3
    <3> HIDE DEF seen
    <3>5. /\ session' \in [Uploader \cup Sweeper -> Upload \cup Pass \cup {Closed}]
          /\ \A v \in Uploader : session'[v] \in Upload \cup {Closed} /\ Working(v)'
          /\ \A w \in Sweeper : session'[w] \in Pass \cup {Closed}
      BY <1>4, <2>1, <3>1, <3>2, <3>3, <3>4, SessionMoves DEF Receive
    <3> QED BY <1>4, <2>1, <3>5 DEF Receive, TypeOK, RowsSeen
  <2> QED BY <1>4, <2>2, <2>3 DEF Receive
<1>5. ASSUME NEW s \in Uploader \cup Sweeper, Done(s),
             UNCHANGED <<clock, fix, stored, sos>>,
             live' \in Row \cup {NoRow}, live # NoRow => live' # NoRow,
             parked' \in Place, alerts' \subseteq Alert
      PROVE  TypeInv'
  <2>1. Closed \notin Upload /\ Closed.op # "WRITE"
    BY Kinds
  <2>2. /\ session' \in [Uploader \cup Sweeper -> Upload \cup Pass \cup {Closed}]
        /\ \A v \in Uploader : session'[v] \in Upload \cup {Closed} /\ Working(v)'
        /\ \A w \in Sweeper : session'[w] \in Pass \cup {Closed}
    BY <1>5, <2>1, SessionMoves DEF Done
  <2> QED BY <1>5, <2>2 DEF TypeOK, RowsSeen, Recorded
<1>6. ASSUME NEW u \in Uploader, LoadRow(u)
      PROVE  TypeInv'
  <2> DEFINE seen == [op |-> "WRITE", ping |-> session[u].ping,
                      received |-> session[u].received,
                      truck |-> session[u].truck, seen |-> live]
  <2>1. session[u] \in Upload /\ session[u].op = "APPLY"
    BY <1>6, Kinds DEF LoadRow, TypeOK
  <2>2. session[u].ping \in Recorded
    BY <2>1 DEF RowsSeen, Working
  <2>3. seen \in Upload /\ seen.ping = session[u].ping /\ seen.seen = live
    BY <2>1 DEF Upload, TypeOK
  <2>4. u \notin Sweeper
    BY TelemetryAssumption
  <2>5. session' = [session EXCEPT ![u] = seen] /\ fix' = fix /\ live' = live
    BY <1>6 DEF LoadRow
  <2> HIDE DEF seen
  <2>6. /\ session' \in [Uploader \cup Sweeper -> Upload \cup Pass \cup {Closed}]
        /\ \A v \in Uploader : session'[v] \in Upload \cup {Closed} /\ Working(v)'
        /\ \A w \in Sweeper : session'[w] \in Pass \cup {Closed}
    BY <2>2, <2>3, <2>4, <2>5, SessionMoves
  <2> QED BY <1>6, <2>6 DEF LoadRow, TypeOK, RowsSeen, Recorded
<1>7. ASSUME NEW u \in Uploader, WriteRow(u)
      PROVE  TypeInv'
  <2> DEFINE n    == session[u].ping
             seen == session[u].seen
             row  == RowOf(n, session[u].received, seen)
  <2>1. /\ n \in Recorded /\ session[u].received \in Time
        /\ session[u].truck \in Place /\ seen \in Row \cup {NoRow}
    BY <1>7, WritingType DEF WriteRow
  <2>2. row \in Row /\ fix[n].place \in Place
    BY <2>1, RowOfType, RecordedType
  <2>3. Done(u) /\ UNCHANGED <<clock, fix, stored, sos>>
    BY <1>7 DEF WriteRow
  <2>4. CASE seen = NoRow /\ live # NoRow
    BY <1>5, <1>7, <2>3, <2>4 DEF WriteRow, TypeOK
  <2>5. CASE ~(seen = NoRow /\ live # NoRow)
    <3>1. live' = Written(row, seen)
      BY <1>7, <2>5 DEF WriteRow
    <3>2. seen # NoRow => live \in Row
      BY <1>7 DEF WriteRow, RowsSeen, Working, TypeOK
    <3>3. live' \in Row
      BY <2>1, <2>2, <3>1, <3>2, WrittenColumns
    <3>4. parked' \in Place
      BY <1>7, <2>2, <2>5 DEF WriteRow, TypeOK
    <3>5. AutoResolve(alerts, Cleared(n, seen)) \subseteq Alert
      BY EpisodeTypes DEF TypeOK
    <3>6. alerts' \subseteq Alert
      BY <1>7, <2>5, <3>5, EpisodeTypes DEF WriteRow
    <3> QED BY <1>5, <2>3, <3>3, <3>4, <3>6, Kinds
  <2> QED BY <2>4, <2>5
<1>8. ASSUME NEW u \in Uploader, Die(u)
      PROVE  TypeInv'
  BY <1>5, <1>8 DEF Die, TypeOK
<1>9. ASSUME NEW place \in Place, RaiseSos(place)
      PROVE  TypeInv'
  <2>1. Pinned(place) \in Row
    BY DEF Pinned, Row, TypeOK, Resting, Never
  <2>2. [at |-> clock, place |-> place] \in Taken
    BY DEF Taken, TypeOK
  <2> QED BY <1>9, <2>1, <2>2, Kinds DEF RaiseSos, TypeOK, RowsSeen, Working, Recorded
<1>10. ASSUME NEW w \in Sweeper, LoadPass(w)
       PROVE  TypeInv'
  <2>1. PICK watched \in BOOLEAN :
          \E new \in SUBSET Found(live, watched) :
            session' = [session EXCEPT ![w] = [op |-> "SWEEP", seen |-> live, found |-> new]]
    BY <1>10 DEF LoadPass
  <2>2. PICK new \in SUBSET Found(live, watched) :
          session' = [session EXCEPT ![w] = [op |-> "SWEEP", seen |-> live, found |-> new]]
    BY <2>1
  <2> DEFINE seen == [op |-> "SWEEP", seen |-> live, found |-> new]
  <2>3. live \in Row
    BY <1>10 DEF LoadPass, TypeOK
  <2>4. new \subseteq Alert
    BY <2>2, <2>3, FoundType
  <2>5. seen \in Pass /\ seen.op # "WRITE"
    BY <2>3, <2>4 DEF Pass
  <2>6. w \notin Uploader /\ seen \notin Upload
    BY <2>5, Kinds, TelemetryAssumption
  <2>7. session' = [session EXCEPT ![w] = seen]
    BY <2>2
  <2> HIDE DEF seen
  <2>8. /\ session' \in [Uploader \cup Sweeper -> Upload \cup Pass \cup {Closed}]
        /\ \A v \in Uploader : session'[v] \in Upload \cup {Closed} /\ Working(v)'
        /\ \A v \in Sweeper : session'[v] \in Pass \cup {Closed}
    BY <1>10, <2>5, <2>6, <2>7, SessionMoves DEF LoadPass
  <2> QED BY <1>10, <2>8 DEF LoadPass, TypeOK, RowsSeen, Recorded
<1>11. ASSUME NEW w \in Sweeper, CommitPass(w)
       PROVE  TypeInv'
  <2>1. session[w].found \subseteq Alert
    BY <1>11, Kinds DEF CommitPass, TypeOK, Pass
  <2>2. Opened(w) \subseteq Alert
    BY <2>1 DEF Opened, Alert
  <2> QED BY <1>5, <1>11, <2>2 DEF CommitPass, TypeOK
<1>12. ASSUME NEW a \in alerts, Acknowledge(a) \/ Resolve(a)
       PROVE  TypeInv'
  <2>1. /\ a \in Alert
        /\ [a EXCEPT !.open = TRUE, !.sure = a.sure /\ a.open] \in Alert
        /\ [a EXCEPT !.open = FALSE] \in Alert
    BY DEF TypeOK, Alert
  <2>2. alerts' \subseteq Alert /\ UNCHANGED <<clock, fix, stored, live, parked, sos, session>>
    BY <1>12, <2>1 DEF Acknowledge, Resolve, TypeOK
  <2> QED BY <2>2 DEF TypeOK, RowsSeen, Working, Recorded
<1> QED BY <1>1, <1>2, <1>3, <1>4, <1>6, <1>7, <1>8, <1>9, <1>10, <1>11, <1>12
        DEF Next

\* The types hold throughout, with what they rest on.
LEMMA TypeInvariant == Spec => []TypeInv
<1>1. Init => TypeInv
  BY TelemetryAssumption, Kinds
     DEF Init, TypeInv, TypeOK, RowsSeen, Working, Recorded, Time
<1> QED BY <1>1, TypeStep, SpecIsSafe, PTL

\* Whatever overlaps, the rows, the episodes and the sessions have values of
\* their types.
THEOREM TypeCorrect == Spec => []TypeOK
BY TypeInvariant, PTL DEF TypeInv

-----------------------------------------------------------------------------
(* Torn rows are mended.                                                    *)

\* An upload over the row it loaded writes the whole row of its fix.
LEMMA WholeRow ==
  ASSUME NEW row \in Row, live \in Row \cup {NoRow}
  PROVE  Written(row, live) = row
<1>1. CASE live = NoRow
  BY <1>1 DEF Written
<1>2. CASE live # NoRow
  <2>1. Written(row, live) = [c \in DOMAIN row |-> IF row[c] # live[c] THEN row[c] ELSE live[c]]
    BY <1>2 DEF Written
  <2>2. Written(row, live) = [c \in DOMAIN row |-> row[c]]
    BY <2>1
  <2>3. row = [c \in DOMAIN row |-> row[c]]
    BY DEF Row
  <2> QED BY <2>2, <2>3
<1> QED BY <1>1, <1>2

\* A row has its truck moving or dwelling, never both and never neither.
LEMMA MovingOrDwelling ==
  ASSUME TypeOK, NEW n \in Recorded, NEW seen \in Row \cup {NoRow}
  PROVE  Moving(n, seen) <=> DwellFrom(n, seen) = Never
<1>1. fix[n].at # Never
  BY RecordedType, TelemetryAssumption DEF Time, Never
<1>2. CASE Moving(n, seen)
  BY <1>2, Zenon DEF DwellFrom
<1>3. CASE ~Moving(n, seen)
  BY <1>1, <1>3 DEF DwellFrom
<1> QED BY <1>2, <1>3

\* An upload that loaded both rows as they stand leaves them describing its own
\* fix, at one place, moving or dwelling: however many uploads tore the rows
\* before it.
THEOREM TornRowsAreMended == Spec => RowFollowsItsFix
<1> DEFINE Follows(u) ==
      /\ session[u].op = "WRITE"
      /\ session[u].seen = live
      /\ session[u].truck = parked
      /\ live' # live
      /\ session'[u] = Closed
      => /\ live'.place = fix[session[u].ping].place
         /\ live'.at = fix[session[u].ping].at
         /\ parked' = live'.place
         /\ live'.moving <=> live'.dwell = Never
<1>1. ASSUME TypeInv, [Next]_vars, NEW u \in Uploader
      PROVE  Follows(u)
  <2> SUFFICES ASSUME session[u].op = "WRITE", session[u].seen = live,
                      session[u].truck = parked, live' # live, session'[u] = Closed
               PROVE  /\ live'.place = fix[session[u].ping].place
                      /\ live'.at = fix[session[u].ping].at
                      /\ parked' = live'.place
                      /\ live'.moving <=> live'.dwell = Never
    OBVIOUS
  <2> DEFINE n   == session[u].ping
             row == RowOf(n, session[u].received, live)
  <2>1. session[u] # session'[u]
    BY Kinds
  <2>2. WriteRow(u)
    <3>1. ASSUME NEW v \in Uploader, WriteRow(v)
          PROVE  v = u
      BY <1>1, <2>1, <3>1 DEF WriteRow, Done, TypeInv, TypeOK
    <3>2. session' # session
      BY <2>1
    <3>3. \/ UNCHANGED live \/ UNCHANGED session
          \/ \E v \in Uploader : WriteRow(v)
      BY <1>1 DEF Next, vars, Tick, Record, Receive, LoadRow, Die, RaiseSos,
                  LoadPass, CommitPass, Acknowledge, Resolve
    <3> QED BY <3>1, <3>2, <3>3
  <2>3. n \in Recorded /\ session[u].received \in Time /\ live \in Row \cup {NoRow}
    BY <1>1, WritingType
  <2>4. row \in Row
    BY <1>1, <2>3, RowOfType DEF TypeInv
  <2>5. live' = row /\ parked' = fix[n].place
    BY <2>2, <2>3, <2>4, WholeRow DEF WriteRow
  <2>6. Moving(n, live) <=> DwellFrom(n, live) = Never
    BY <1>1, <2>3, MovingOrDwelling DEF TypeInv
  <2> HIDE DEF n
  <2>7. /\ row.place = fix[n].place /\ row.at = fix[n].at
        /\ row.moving = Moving(n, live) /\ row.dwell = DwellFrom(n, live)
    BY DEF RowOf
  <2>8. /\ live'.place = fix[n].place /\ live'.at = fix[n].at /\ parked' = live'.place
        /\ live'.moving <=> live'.dwell = Never
    BY <2>5, <2>6, <2>7
  <2> QED BY <2>8 DEF n
<1>2. TypeInv /\ [Next]_vars => \A u \in Uploader : Follows(u)
  BY <1>1
<1> QED BY <1>2, SpecIsSafe, TypeInvariant, PTL DEF RowFollowsItsFix

-----------------------------------------------------------------------------
(* Episodes.                                                                *)

\* The dwell or the silence of a row that an episode is named after.
KeyOf(type, row) == IF type = "DWELL" THEN row.dwell ELSE row.received

\* An open episode that is sure is one of these.
Current(a) ==
  \/ a.key = KeyOf(a.type, live)
  \/ a.type = "GPS_STALE" /\ sos # NotTaken /\ live.received = sos.at

\* What a pass will open, it found in the row it loaded.
FoundInRow(w) ==
  session[w].op = "SWEEP" =>
    /\ live # NoRow
    /\ \A f \in session[w].found : f.key = KeyOf(f.type, session[w].seen)

EpisodeInv ==
  /\ alerts # {} => live # NoRow
  /\ \A w \in Sweeper : FoundInRow(w)
  /\ \A a \in alerts : a.open /\ a.sure => Current(a)

\* Where the row stays, or an episode ends, nothing becomes wrong.
LEMMA EpisodesKept ==
  ASSUME TypeInv, EpisodeInv, live' = live, sos' = sos,
         \A w \in Sweeper : session'[w] = session[w] \/ FoundInRow(w)',
         \A b \in alerts' : b.open /\ b.sure =>
           \/ b.key = KeyOf(b.type, live)
           \/ \E a \in alerts : /\ a.open /\ a.sure
                                /\ a.type = b.type /\ a.key = b.key,
         alerts' # {} => live # NoRow
  PROVE  EpisodeInv'
<1>1. \A w \in Sweeper : FoundInRow(w)'
  BY DEF EpisodeInv, FoundInRow
<1>2. \A b \in alerts' : b.open /\ b.sure => Current(b)'
  BY DEF EpisodeInv, Current, KeyOf
<1> QED BY <1>1, <1>2 DEF EpisodeInv

\* An upload closes what its fix contradicts, and doubts what it did not see.
LEMMA EpisodesAfterWrite ==
  ASSUME TypeInv, EpisodeInv, NEW u \in Uploader, WriteRow(u)
  PROVE  EpisodeInv'
<1> DEFINE n    == session[u].ping
           seen == session[u].seen
           row  == RowOf(n, session[u].received, seen)
           A    == AutoResolve(alerts, Cleared(n, seen))
<1>1. n \in Recorded /\ session[u].received \in Time /\ seen \in Row \cup {NoRow}
  BY WritingType DEF WriteRow
<1>2. row \in Row
  BY <1>1, RowOfType DEF TypeInv
<1>3. \A w \in Sweeper : session'[w] = session[w]
  BY TelemetryAssumption DEF WriteRow, Done, TypeInv, TypeOK
<1>4. CASE seen = NoRow /\ live # NoRow
  BY <1>3, <1>4, EpisodesKept DEF WriteRow, EpisodeInv
<1>5. CASE ~(seen = NoRow /\ live # NoRow)
  <2>1. live' = Written(row, seen) /\ alerts' = Unsure(A, seen)
    BY <1>5 DEF WriteRow
  <2>2. live' \in Row /\ live' # NoRow
    BY <1>1, <1>2, <2>1, WrittenColumns, Kinds
       DEF WriteRow, TypeInv, TypeOK, RowsSeen, Working
  <2>3. \A w \in Sweeper : FoundInRow(w)'
    BY <1>3, <2>2 DEF EpisodeInv, FoundInRow
  <2>4. ASSUME NEW b \in alerts', b.open, b.sure
        PROVE  Current(b)'
    <3>1. seen = live
      <4>1. \A a \in A : a.open => a.type # "GPS_STALE"
        BY DEF AutoResolve, Cleared, TypeInv, TypeOK, Alert
      <4>2. A \subseteq Alert
        BY EpisodeTypes DEF TypeInv, TypeOK
      <4> SUFFICES ASSUME seen # live
                   PROVE  FALSE
        OBVIOUS
      <4>3. PICK a \in A : b = IF a.type = "DWELL" THEN [a EXCEPT !.sure = FALSE] ELSE a
        BY <2>1, <2>4 DEF Unsure
      <4>4. a.type = "DWELL" \/ a.type = "GPS_STALE"
        BY <4>2 DEF Alert
      <4>5. CASE a.type = "DWELL"
        BY <2>4, <4>2, <4>3, <4>5 DEF Alert
      <4>6. CASE a.type = "GPS_STALE"
        BY <2>4, <4>1, <4>3, <4>6
      <4> QED BY <4>4, <4>5, <4>6
    <3>2. b \in A
      BY <2>1, <2>4, <3>1 DEF Unsure
    <3>3. b \in alerts /\ b.type \notin Cleared(n, seen) /\ b \in Alert
      BY <2>4, <3>2 DEF AutoResolve, TypeInv, TypeOK, Alert
    <3>4. b.type = "DWELL" /\ b.key \in Time
      BY <3>3 DEF Cleared, Alert
    <3>5. b.key = live.dwell /\ live \in Row
      BY <2>4, <3>3, <3>4 DEF EpisodeInv, Current, KeyOf, TypeInv, TypeOK
    <3>6. live.dwell # Never
      BY <3>4, <3>5, TelemetryAssumption DEF Time, Never
    <3>7. ~Moving(n, seen) /\ live # NoRow
      BY <3>1, <3>3, <3>4, <3>5, <3>6, Kinds DEF Cleared
    <3>8. live'.dwell = live.dwell
      <4>1. live' = row
        BY <1>2, <2>1, <3>1, WholeRow DEF TypeInv, TypeOK
      <4> QED BY <3>1, <3>6, <3>7, <4>1 DEF RowOf, DwellFrom
    <3> QED BY <3>4, <3>5, <3>8 DEF Current, KeyOf
  <2> QED BY <2>2, <2>3, <2>4 DEF EpisodeInv
<1> QED BY <1>4, <1>5

\* Every step keeps the episodes current.
LEMMA EpisodeStep == TypeInv /\ EpisodeInv /\ [Next]_vars => EpisodeInv'
<1> SUFFICES ASSUME TypeInv, EpisodeInv, [Next]_vars
             PROVE  EpisodeInv'
  OBVIOUS
<1>1. ASSUME UNCHANGED <<live, sos, alerts>>, \A w \in Sweeper : session'[w] = session[w]
      PROVE  EpisodeInv'
  BY <1>1, EpisodesKept DEF EpisodeInv
<1>2. ASSUME NEW u \in Uploader, NEW batch \in SUBSET Fix,
             Receive(u, batch) \/ LoadRow(u) \/ Die(u)
      PROVE  EpisodeInv'
  <2>1. \A w \in Sweeper : session'[w] = session[w]
    BY <1>2, TelemetryAssumption DEF Receive, LoadRow, Die, Done, TypeInv, TypeOK
  <2> QED BY <1>1, <1>2, <2>1 DEF Receive, LoadRow, Die
<1>3. ASSUME NEW u \in Uploader, WriteRow(u)
      PROVE  EpisodeInv'
  BY <1>3, EpisodesAfterWrite
<1>4. ASSUME NEW place \in Place, RaiseSos(place)
      PROVE  EpisodeInv'
  <2>1. sos'.at = clock /\ sos' # NotTaken
    <3>1. sos' \in Taken
      BY <1>4 DEF RaiseSos, Taken, TypeInv, TypeOK
    <3> QED BY <1>4, <3>1, Kinds DEF RaiseSos
  <2>2. /\ live'.received = clock
        /\ live # NoRow => live'.dwell = live.dwell
        /\ live' # NoRow
    <3>1. Pinned(place) \in Row
      BY DEF Pinned, Row, TypeInv, TypeOK, Resting, Never
    <3> QED BY <1>4, <3>1, Kinds DEF RaiseSos, Pinned
  <2>3. \A a \in alerts : a.type \in {"DWELL", "GPS_STALE"}
    BY DEF TypeInv, TypeOK, Alert
  <2> QED BY <1>4, <2>1, <2>2, <2>3
          DEF RaiseSos, EpisodeInv, Current, KeyOf, FoundInRow
<1>5. ASSUME NEW w \in Sweeper, LoadPass(w)
      PROVE  EpisodeInv'
  <2>1. PICK watched \in BOOLEAN :
          \E new \in SUBSET Found(live, watched) :
            session' = [session EXCEPT ![w] = [op |-> "SWEEP", seen |-> live, found |-> new]]
    BY <1>5 DEF LoadPass
  <2>2. PICK new \in SUBSET Found(live, watched) :
          session' = [session EXCEPT ![w] = [op |-> "SWEEP", seen |-> live, found |-> new]]
    BY <2>1
  <2>3. live \in Row /\ live # NoRow /\ live' = live
    BY <1>5 DEF LoadPass, TypeInv, TypeOK
  <2>4. \A f \in new : f.key = KeyOf(f.type, live)
    BY <2>3, FoundType DEF KeyOf
  <2>5. FoundInRow(w)'
    BY <2>2, <2>3, <2>4 DEF FoundInRow, TypeInv, TypeOK
  <2>6. \A v \in Sweeper \ {w} : session'[v] = session[v]
    BY <2>2 DEF TypeInv, TypeOK
  <2> QED BY <1>5, <2>5, <2>6, EpisodesKept DEF LoadPass, EpisodeInv
<1>6. ASSUME NEW w \in Sweeper, CommitPass(w)
      PROVE  EpisodeInv'
  <2>1. session[w] \in Pass /\ live # NoRow
    BY <1>6, Kinds DEF CommitPass, TypeInv, TypeOK, EpisodeInv, FoundInRow
  <2>2. \A b \in Opened(w) : b.open /\ b.sure => b.key = KeyOf(b.type, live)
    <3> SUFFICES ASSUME NEW f \in session[w].found, session[w].seen = live
                 PROVE  LET b == [f EXCEPT !.sure = (session[w].seen = live)]
                        IN  b.key = KeyOf(b.type, live)
      <4>1. \A f \in session[w].found :
              [f EXCEPT !.sure = (session[w].seen = live)].sure = (session[w].seen = live)
        BY <2>1 DEF Pass, Alert
      <4> QED BY <4>1 DEF Opened
    <3>1. f \in Alert /\ f.key = KeyOf(f.type, live)
      BY <1>6, <2>1 DEF CommitPass, EpisodeInv, FoundInRow, Pass
    <3> QED BY <3>1 DEF Alert
  <2>3. \A v \in Sweeper : session'[v] = session[v] \/ session'[v] = Closed
    BY <1>6 DEF CommitPass, Done, TypeInv, TypeOK
  <2>4. \A v \in Sweeper : session'[v] = session[v] \/ FoundInRow(v)'
    BY <2>3, Kinds DEF FoundInRow
  <2> QED BY <1>6, <2>1, <2>2, <2>4, EpisodesKept DEF CommitPass
<1>7. ASSUME NEW a \in alerts, Acknowledge(a) \/ Resolve(a)
      PROVE  EpisodeInv'
  <2> DEFINE b == [a EXCEPT !.open = TRUE, !.sure = a.sure /\ a.open]
             c == [a EXCEPT !.open = FALSE]
  <2>1. a \in Alert /\ live # NoRow
    BY DEF TypeInv, TypeOK, EpisodeInv
  <2>2. /\ b.type = a.type /\ b.key = a.key /\ b.sure = (a.sure /\ a.open)
        /\ c.open = FALSE
    BY <2>1 DEF Alert
  <2>3. alerts' \subseteq alerts \cup {b} \/ alerts' \subseteq alerts \cup {c}
    BY <1>7 DEF Acknowledge, Resolve
  <2>4. UNCHANGED <<live, sos, session>>
    BY <1>7 DEF Acknowledge, Resolve
  <2> HIDE DEF b, c
  <2>5. \A d \in alerts' : d.open /\ d.sure =>
          \E e \in alerts : e.open /\ e.sure /\ e.type = d.type /\ e.key = d.key
    BY <2>2, <2>3
  <2> QED BY <2>1, <2>4, <2>5, EpisodesKept
<1>8. CASE UNCHANGED <<live, sos, alerts, session>>
  BY <1>1, <1>8
<1> QED BY <1>2, <1>3, <1>4, <1>5, <1>6, <1>7, <1>8
        DEF Next, vars, Tick, Record

\* However uploads, sweeps, an emergency and the company overlap, an open
\* episode is of the dwell or the silence the row shows, but for the exceptions
\* the code leaves.
THEOREM OpenEpisodesAreCurrent == Spec => []EpisodesAreCurrent
<1>1. Init => EpisodeInv
  BY Kinds DEF Init, EpisodeInv, FoundInRow
<1>2. EpisodeInv => EpisodesAreCurrent
  BY DEF EpisodeInv, Current, KeyOf, EpisodesAreCurrent
<1> QED BY <1>1, <1>2, EpisodeStep, TypeInvariant, SpecIsSafe, PTL

-----------------------------------------------------------------------------
(* What the screens show.                                                   *)

\* A fix on the server, or the emergency, accounts for the truck's being at the
\* place when it was heard of.
Backed(place, when) ==
  \/ \E n \in stored : fix[n].place = place /\ when - fix[n].at <= BackfillTicks
  \/ sos # NotTaken /\ sos.place = place /\ sos.at = when

\* An upload works on a live fix of this tick.
FreshPing(u) ==
  session[u].op \in {"APPLY", "WRITE"} =>
    /\ session[u].ping \in stored
    /\ session[u].received = clock
    /\ clock - fix[session[u].ping].at <= BackfillTicks

\* What happened to the row since the upload saw it happened in this tick.
FreshRow(u) ==
  session[u].op = "WRITE" /\ session[u].seen # NoRow =>
    /\ live.place # session[u].seen.place => Backed(live.place, clock)
    /\ session[u].seen.received = clock => live.received = clock

ScreenInv ==
  /\ live # NoRow => Backed(live.place, live.received)
  /\ \A u \in Uploader : FreshPing(u) /\ FreshRow(u)

\* Fixes are added, and an SOS is raised once: what is accounted for stays so.
LEMMA BackedStays ==
  ASSUME TypeInv, NEW place, NEW when, Backed(place, when),
         stored \subseteq stored', \A n \in stored : fix'[n] = fix[n],
         sos # NotTaken => sos' = sos
  PROVE  Backed(place, when)'
BY DEF Backed

\* A row written in this tick, of a place accounted for, is fresh to every upload
\* that did not see it.
LEMMA FreshWrite ==
  ASSUME TypeInv, ScreenInv,
         Backed(live.place, clock)', live'.received = clock,
         UNCHANGED <<clock, fix, stored>>,
         \A v \in Uploader : session'[v] = session[v] \/ session'[v] = Closed
  PROVE  ScreenInv'
<1>1. (live # NoRow => Backed(live.place, live.received))'
  BY DEF Backed
<1>2. ASSUME NEW v \in Uploader
      PROVE  FreshPing(v)' /\ FreshRow(v)'
  <2>1. CASE session'[v] = Closed
    BY <2>1, Kinds DEF FreshPing, FreshRow
  <2>2. CASE session'[v] = session[v]
    BY <2>2 DEF ScreenInv, FreshPing, FreshRow
  <2> QED BY <2>1, <2>2
<1> QED BY <1>1, <1>2 DEF ScreenInv

\* An upload writes its own fix, and what it leaves of another's is fresh.
LEMMA ScreensAfterWrite ==
  ASSUME TypeInv, ScreenInv, NEW u \in Uploader, WriteRow(u)
  PROVE  ScreenInv'
<1> DEFINE n    == session[u].ping
           seen == session[u].seen
           row  == RowOf(n, session[u].received, seen)
<1>1. n \in Recorded /\ session[u].received \in Time /\ seen \in Row \cup {NoRow}
  BY WritingType DEF WriteRow
<1>2. row \in Row
  BY <1>1, RowOfType DEF TypeInv
<1>3. /\ session[u].op = "WRITE"
      /\ UNCHANGED <<clock, fix, stored, sos>>
      /\ \A v \in Uploader : session'[v] = session[v] \/ session'[v] = Closed
  BY DEF WriteRow, Done, TypeInv, TypeOK
<1>4. n \in stored /\ session[u].received = clock /\ clock - fix[n].at <= BackfillTicks
  BY <1>3 DEF ScreenInv, FreshPing
<1>5. row.place = fix[n].place /\ row.received = clock
  BY <1>4 DEF RowOf
<1>6. Backed(fix[n].place, clock)
  BY <1>4 DEF Backed
<1> HIDE DEF row
<1>7. CASE seen = NoRow /\ live # NoRow
  <2>1. UNCHANGED live
    BY <1>7 DEF WriteRow
  <2>2. ASSUME NEW v \in Uploader
        PROVE  FreshPing(v)' /\ FreshRow(v)'
    <3>1. CASE session'[v] = Closed
      BY <3>1, Kinds DEF FreshPing, FreshRow
    <3>2. CASE session'[v] = session[v]
      BY <1>3, <2>1, <3>2 DEF ScreenInv, FreshPing, FreshRow, Backed
    <3> QED BY <1>3, <3>1, <3>2
  <2>3. (live # NoRow => Backed(live.place, live.received))'
    BY <1>3, <2>1 DEF ScreenInv, Backed
  <2> QED BY <2>2, <2>3 DEF ScreenInv
<1>8. CASE ~(seen = NoRow /\ live # NoRow)
  <2>1. live' = Written(row, seen)
    BY <1>8 DEF WriteRow, row
  <2>2. CASE seen = NoRow
    BY <1>2, <1>3, <1>5, <1>6, <2>1, <2>2, FreshWrite DEF Written, Backed
  <2>3. CASE seen # NoRow
    <3>1. live \in Row
      BY <1>3, <2>3 DEF TypeInv, TypeOK, RowsSeen, Working
    <3>2. \A c \in {"place", "moving", "dwell", "at", "received"} :
            live'[c] = IF row[c] # seen[c] THEN row[c] ELSE live[c]
      BY <1>1, <1>2, <2>1, <2>3, <3>1, WrittenColumns
    <3>3. /\ live'.place = IF row.place # seen.place THEN row.place ELSE live.place
          /\ live'.received = IF row.received # seen.received THEN row.received ELSE live.received
      BY <3>2
    <3>4. FreshRow(u)
      BY DEF ScreenInv
    <3>5. live'.received = clock
      BY <1>3, <1>5, <2>3, <3>3, <3>4 DEF FreshRow
    <3>6. Backed(live'.place, clock)
      BY <1>3, <1>5, <1>6, <2>3, <3>3, <3>4 DEF FreshRow
    <3>7. Backed(live.place, clock)'
      BY <1>3, <3>6 DEF Backed
    <3> QED BY <1>3, <3>5, <3>7, FreshWrite
  <2> QED BY <2>2, <2>3
<1> QED BY <1>7, <1>8

\* Every step leaves the row accounted for.
LEMMA ScreenStep == TypeInv /\ ScreenInv /\ [Next]_vars => ScreenInv'
<1> SUFFICES ASSUME TypeInv, ScreenInv, [Next]_vars
             PROVE  ScreenInv'
  OBVIOUS
<1>1. CASE Tick
  <2>1. \A u \in Uploader : session'[u] = Closed
    BY <1>1 DEF Tick, TypeInv, TypeOK
  <2>2. \A u \in Uploader : FreshPing(u)' /\ FreshRow(u)'
    BY <2>1, Kinds DEF FreshPing, FreshRow
  <2>3. (live # NoRow => Backed(live.place, live.received))'
    BY <1>1 DEF Tick, ScreenInv, Backed
  <2> QED BY <2>2, <2>3 DEF ScreenInv
<1>2. ASSUME NEW n \in Fix, Record(n)
      PROVE  ScreenInv'
  <2>1. \A m \in stored : fix'[m] = fix[m]
    BY <1>2 DEF Record, TypeInv, TypeOK, RowsSeen, Recorded
  <2>2. UNCHANGED <<clock, stored, live, sos, session>>
    BY <1>2 DEF Record
  <2>3. \A u \in Uploader : FreshPing(u)' /\ FreshRow(u)'
    BY <2>1, <2>2 DEF ScreenInv, FreshPing, FreshRow, Backed
  <2>4. (live # NoRow => Backed(live.place, live.received))'
    BY <2>1, <2>2 DEF ScreenInv, Backed
  <2> QED BY <2>3, <2>4 DEF ScreenInv
<1>3. ASSUME NEW u \in Uploader, NEW batch \in SUBSET Fix, Receive(u, batch)
      PROVE  ScreenInv'
  <2>1. /\ stored \subseteq stored' /\ batch \subseteq stored'
        /\ UNCHANGED <<clock, fix, live, sos>>
    BY <1>3 DEF Receive
  <2>2. \/ session'[u] = session[u]
        \/ \E n \in batch : /\ ~Backfill(n, clock)
                            /\ session'[u] = [op |-> "APPLY", ping |-> n,
                                              received |-> clock, truck |-> parked]
    BY <1>3 DEF Receive, TypeInv, TypeOK
  <2>3. \A v \in Uploader \ {u} : session'[v] = session[v]
    BY <1>3 DEF Receive, TypeInv, TypeOK
  <2>4. ASSUME NEW v \in Uploader, session'[v] = session[v]
        PROVE  FreshPing(v)' /\ FreshRow(v)'
    BY <2>1, <2>4 DEF ScreenInv, FreshPing, FreshRow, Backed
  <2>5. ASSUME NEW n \in batch, ~Backfill(n, clock),
               session'[u] = [op |-> "APPLY", ping |-> n,
                              received |-> clock, truck |-> parked]
        PROVE  FreshPing(u)' /\ FreshRow(u)'
    <3>1. clock - fix[n].at <= BackfillTicks
      <4>1. fix[n].at \in Time /\ clock \in Time
        BY <1>3, RecordedType DEF Receive, TypeInv, TypeOK
      <4> QED BY <2>5, <4>1, TelemetryAssumption DEF Backfill, Time
    <3> QED BY <2>1, <2>5, <3>1 DEF FreshPing, FreshRow
  <2>6. (live # NoRow => Backed(live.place, live.received))'
    BY <2>1 DEF ScreenInv, Backed
  <2> QED BY <2>2, <2>3, <2>4, <2>5, <2>6 DEF ScreenInv
<1>4. ASSUME NEW u \in Uploader, LoadRow(u)
      PROVE  ScreenInv'
  <2>1. /\ UNCHANGED <<clock, fix, stored, live, sos>>
        /\ session[u].op = "APPLY"
        /\ session'[u] = [op |-> "WRITE", ping |-> session[u].ping,
                          received |-> session[u].received,
                          truck |-> session[u].truck, seen |-> live]
        /\ \A v \in Uploader \ {u} : session'[v] = session[v]
    BY <1>4 DEF LoadRow, TypeInv, TypeOK
  <2>2. FreshPing(u)' /\ FreshRow(u)'
    BY <2>1 DEF ScreenInv, FreshPing, FreshRow
  <2>3. \A v \in Uploader \ {u} : FreshPing(v)' /\ FreshRow(v)'
    BY <2>1 DEF ScreenInv, FreshPing, FreshRow, Backed
  <2>4. (live # NoRow => Backed(live.place, live.received))'
    BY <2>1 DEF ScreenInv, Backed
  <2> QED BY <2>2, <2>3, <2>4 DEF ScreenInv
<1>5. ASSUME NEW u \in Uploader, WriteRow(u)
      PROVE  ScreenInv'
  BY <1>5, ScreensAfterWrite
<1>6. ASSUME NEW place \in Place, RaiseSos(place)
      PROVE  ScreenInv'
  <2>1. sos'.at = clock /\ sos'.place = place /\ sos' # NotTaken
    <3>1. sos' \in Taken
      BY <1>6 DEF RaiseSos, Taken, TypeInv, TypeOK
    <3> QED BY <1>6, <3>1, Kinds DEF RaiseSos
  <2>2. live'.place = place /\ live'.received = clock
    BY <1>6 DEF RaiseSos, Pinned
  <2>3. Backed(live.place, clock)'
    BY <1>6, <2>1, <2>2 DEF Backed, RaiseSos
  <2> QED BY <1>6, <2>2, <2>3, FreshWrite DEF RaiseSos
<1>7. ASSUME UNCHANGED <<clock, fix, stored, live, sos>>,
             \A v \in Uploader : session'[v] = session[v] \/ session'[v] = Closed
      PROVE  ScreenInv'
  <2>1. ASSUME NEW v \in Uploader
        PROVE  FreshPing(v)' /\ FreshRow(v)'
    <3>1. CASE session'[v] = Closed
      BY <3>1, Kinds DEF FreshPing, FreshRow
    <3>2. CASE session'[v] = session[v]
      BY <1>7, <3>2 DEF ScreenInv, FreshPing, FreshRow, Backed
    <3> QED BY <1>7, <3>1, <3>2
  <2>2. (live # NoRow => Backed(live.place, live.received))'
    BY <1>7 DEF ScreenInv, Backed
  <2> QED BY <2>1, <2>2 DEF ScreenInv
<1>8. ASSUME NEW u \in Uploader, Die(u)
      PROVE  ScreenInv'
  BY <1>7, <1>8 DEF Die, Done, TypeInv, TypeOK
<1>9. ASSUME NEW w \in Sweeper, LoadPass(w) \/ CommitPass(w)
      PROVE  ScreenInv'
  <2>1. \A v \in Uploader : session'[v] = session[v]
    BY <1>9, TelemetryAssumption DEF LoadPass, CommitPass, Done, TypeInv, TypeOK
  <2> QED BY <1>7, <1>9, <2>1 DEF LoadPass, CommitPass
<1>10. ASSUME NEW a \in alerts, Acknowledge(a) \/ Resolve(a)
       PROVE  ScreenInv'
  BY <1>7, <1>10 DEF Acknowledge, Resolve
<1>11. CASE UNCHANGED vars
  BY <1>7, <1>11 DEF vars
<1> QED BY <1>1, <1>2, <1>3, <1>4, <1>5, <1>6, <1>8, <1>9, <1>10, <1>11 DEF Next

\* A pin is something, and it is live when it says so.
LEMMA Pins ==
  ASSUME NEW place, NEW isLive
  PROVE  Pin(place, isLive) # Nothing /\ Pin(place, isLive).live = isLive
         /\ Pin(place, isLive).place = place
<1>1. "place" \in DOMAIN Pin(place, isLive) /\ "place" \notin DOMAIN Nothing
  BY DEF Pin, Nothing
<1> QED BY <1>1 DEF Pin

\* Five queries of two rows give one answer while the fix is live.
LEMMA ScreensAgree ==
  ASSUME TypeInv, ScreenInv
  PROVE  LiveIsLiveEverywhere
<1> DEFINE screens(h) == {OwnersScreen, CarriersScreen(Head(h)), DriversScreen(h)}
           pins       == (UNION {screens(h) : h \in Histories}) \ {Nothing}
<1>1. LastFix # Nothing /\ RecentFix # Nothing
  BY Pins DEF LastFix, RecentFix, Registered
<1>2. ASSUME NEW h \in Histories
      PROVE  /\ h # <<>>
             /\ screens(h) \subseteq {LastFix, RecentFix, Nothing}
             /\ Head(h) \notin Over => Nothing \notin screens(h)
  <2>1. h # <<>>
    BY DEF Histories
  <2> QED BY <1>1, <2>1 DEF OwnersScreen, CarriersScreen, DriversScreen
<1>3. \A a : a \in pins <=> a # Nothing /\ \E h \in Histories : a \in screens(h)
  <2>1. \A S, a : a \in (UNION S) \ {Nothing} <=> a # Nothing /\ \E T \in S : a \in T
    BY Zenon
  <2> HIDE DEF screens
  <2> DEFINE S == {screens(h) : h \in Histories}
  <2>2. \A T : T \in S <=> \E h \in Histories : T = screens(h)
    BY Zenon
  <2>3. pins = (UNION S) \ {Nothing}
    OBVIOUS
  <2> HIDE DEF S, pins, screens
  <2>4. ASSUME NEW a
        PROVE  a \in pins <=> a # Nothing /\ \E h \in Histories : a \in screens(h)
    <3>1. a \in pins <=> a # Nothing /\ \E T \in S : a \in T
      BY <2>1, <2>3
    <3> QED BY <2>2, <3>1
  <2> QED BY <2>4
<1>4. OwnersScreen = LastFix /\ LastFix \in pins
  <2>1. PICK h \in Histories : TRUE
    BY DEF Histories
  <2>2. OwnersScreen \in screens(h)
    OBVIOUS
  <2> HIDE DEF screens, pins
  <2>3. OwnersScreen = LastFix
    BY DEF OwnersScreen
  <2> QED BY <1>1, <1>3, <2>2, <2>3
<1>5. \A a \in pins : a = LastFix \/ a = RecentFix
  <2> HIDE DEF screens, pins
  <2> QED BY <1>2, <1>3
<1>6. ASSUME NEW a \in pins, a.live
      PROVE  /\ pins = {a} /\ a = Matched /\ a = Nearby /\ a = FleetMap
             /\ {a.place} = TruckPage(TRUE, FALSE) /\ {a.place} = TruckPage(FALSE, TRUE)
             /\ \/ a.place \in Track(FALSE, TRUE, LiveTicks + BackfillTicks)
                \/ /\ sos # NotTaken /\ sos.place = a.place
                   /\ clock - sos.at <= LiveTicks
  <2>1. Within(LiveTicks)
    <3>1. a = LastFix \/ a = RecentFix
      BY <1>5
    <3>2. Within(LiveTicks) \in BOOLEAN
      BY DEF Within
    <3>3. LastFix.live => Within(LiveTicks)
      BY <3>2, Pins, Zenon DEF LastFix, Registered
    <3>4. RecentFix.live => Within(LiveTicks)
      BY <3>2, Pins, Zenon DEF RecentFix, Registered
    <3> QED BY <1>6, <3>1, <3>3, <3>4
  <2>2. live # NoRow /\ live \in Row /\ clock - live.received <= LiveTicks
    BY <2>1 DEF Within, TypeInv, TypeOK
  <2>3. live.received \in Nat /\ clock \in Nat /\ LiveTicks \in Nat /\ MatchTicks \in Nat
        /\ LiveTicks <= MatchTicks /\ BackfillTicks \in Nat
    BY <2>2, TelemetryAssumption, ScreensAssumption DEF Row, Time, TypeInv, TypeOK
  <2>4. Within(MatchTicks)
    BY <2>2, <2>3 DEF Within
  <2>5. /\ LastFix = Pin(live.place, TRUE) /\ RecentFix = Pin(live.place, TRUE)
        /\ Matched = Pin(live.place, TRUE) /\ Nearby = Pin(live.place, TRUE)
        /\ FleetMap = Pin(live.place, TRUE)
    <3>1. Within(LiveTicks) = TRUE
      BY <2>1 DEF Within
    <3> QED BY <2>2, <2>4, <3>1 DEF LastFix, RecentFix, Matched, Nearby, FleetMap
  <2>6. pins = {a} /\ a = Pin(live.place, TRUE)
    <3> HIDE DEF pins
    <3> QED BY <1>4, <1>5, <2>5
  <2>7. a.place = live.place
    BY <2>6, Pins
  <2> DEFINE Claim(x) == /\ {x} = TruckPage(TRUE, FALSE) /\ {x} = TruckPage(FALSE, TRUE)
                         /\ \/ x \in Track(FALSE, TRUE, LiveTicks + BackfillTicks)
                            \/ /\ sos # NotTaken /\ sos.place = x
                               /\ clock - sos.at <= LiveTicks
  <2>7a. {live.place} = TruckPage(TRUE, FALSE) /\ {live.place} = TruckPage(FALSE, TRUE)
    BY <2>2 DEF TruckPage, MayRead
  <2>8. Backed(live.place, live.received)
    BY <2>2 DEF ScreenInv
  <2>9. ASSUME \E n \in stored : /\ fix[n].place = live.place
                                 /\ live.received - fix[n].at <= BackfillTicks
        PROVE  Claim(live.place)
    <3>1. PICK n \in stored : /\ fix[n].place = live.place
                              /\ live.received - fix[n].at <= BackfillTicks
      BY <2>9
    <3>2. fix[n].at \in Nat
      BY <3>1, RecordedType, TelemetryAssumption DEF TypeInv, RowsSeen, Time
    <3>3. clock - fix[n].at <= LiveTicks + BackfillTicks
      BY <2>2, <2>3, <3>1, <3>2
    <3>4. live.place \in Track(FALSE, TRUE, LiveTicks + BackfillTicks)
      BY <3>1, <3>3 DEF Track, MayRead
    <3> QED BY <2>7a, <3>4
  <2>10. ASSUME sos # NotTaken, sos.place = live.place, sos.at = live.received
         PROVE  Claim(live.place)
    BY <2>7a, <2>2, <2>10
  <2>11. Claim(live.place)
    BY <2>8, <2>9, <2>10 DEF Backed
  <2>12. Claim(a.place)
    <3> HIDE DEF Claim
    <3> QED BY <2>7, <2>11
  <2> QED BY <2>5, <2>6, <2>12
<1> QED BY <1>2, <1>6 DEF LiveIsLiveEverywhere

\* However uploads overwrite each other and an emergency, whoever is shown the truck's
\* position as live sees what everybody sees, the matching and an SOS go by it, and the
\* truck was there a short while ago.
THEOREM LiveMeansOneTruth == Spec => []LiveIsLiveEverywhere
<1>1. Init => ScreenInv
  BY Kinds DEF Init, ScreenInv, FreshPing, FreshRow
<1> QED BY <1>1, ScreenStep, ScreensAgree, TypeInvariant, SpecIsSafe, PTL
=============================================================================
