---------------------------- MODULE DriverProofs ----------------------------
(***************************************************************************)
(* What a driver's phone sends, for any fixes, drivers, uploads, reports    *)
(* and limits: positions are kept, once and under one name (Uplink), and a  *)
(* report that was answered has its incident (Breakdowns), beside a company *)
(* console that only looks (Console).                                       *)
(*                                                                          *)
(* Of the uploads the inductive invariant is the property itself, stated    *)
(* for sequences: nothing is repeated on the queue or in a batch, and they  *)
(* share no fix.  That no upload ends with a fix that is nowhere rests on   *)
(* what the server made of it by the time it answers; that the first run of *)
(* the service gives none up, on every upload of it being listened to.      *)
(***************************************************************************)
EXTENDS Uplink, Breakdowns, SequenceTheorems, FiniteSetTheorems, TLAPS

-----------------------------------------------------------------------------
(* Sequences without repetition.                                            *)

Distinct(s) == \A i, j \in 1 .. Len(s) : s[i] = s[j] => i = j

\* The elements of a sequence, by its length.
LEMMA ElementsOf ==
  ASSUME NEW S, NEW s \in Seq(S)
  PROVE  /\ ToSet(s) = {s[i] : i \in 1 .. Len(s)}
         /\ ToSet(s) \subseteq S
         /\ Len(s) \in Nat
<1>1. DOMAIN s = 1 .. Len(s) /\ Len(s) \in Nat /\ s \in [1 .. Len(s) -> S]
  BY LenProperties
<1> QED  BY <1>1 DEF ToSet

LEMMA EmptyElements == ToSet(<<>>) = {} /\ Distinct(<<>>)
<1> DEFINE s == <<>>
<1>1. s \in Seq({}) /\ Len(s) = 0
  BY EmptySeq
<1> HIDE DEF s
<1>2. ToSet(s) = {}
  <2>1. DOMAIN s = {}
    BY <1>1, LenProperties
  <2> QED  BY <2>1 DEF ToSet
<1>3. Distinct(s)
  BY <1>1 DEF Distinct
<1> QED  BY <1>2, <1>3 DEF s

\* A sequence without repetition has as many elements as places.
LEMMA DistinctCounts ==
  ASSUME NEW S, NEW s \in Seq(S), Distinct(s)
  PROVE  Cardinality(ToSet(s)) = Len(s)
<1>1. Len(s) \in Nat /\ s \in [1 .. Len(s) -> S]
  BY LenProperties
<1>2. ToSet(s) = {s[i] : i \in 1 .. Len(s)}
  BY ElementsOf
<1>3. s \in [1 .. Len(s) -> ToSet(s)]
  BY <1>1, <1>2
<1>4. s \in Bijection(1 .. Len(s), ToSet(s))
  BY <1>2, <1>3 DEF Distinct, Bijection, Injection, Surjection, IsInjective
<1>5. ExistsBijection(1 .. Len(s), ToSet(s))
  BY <1>4 DEF ExistsBijection
<1> QED  BY <1>1, <1>5, FS_CountingElements

\* Appending an element that is not there repeats nothing.
LEMMA AppendDistinct ==
  ASSUME NEW S, NEW s \in Seq(S), NEW e \in S
  PROVE  /\ Append(s, e) \in Seq(S)
         /\ ToSet(Append(s, e)) = ToSet(s) \cup {e}
         /\ Distinct(s) /\ e \notin ToSet(s) => Distinct(Append(s, e))
<1> DEFINE t == Append(s, e)
<1>1. /\ t \in Seq(S) /\ Len(t) = Len(s) + 1 /\ Len(s) \in Nat
      /\ \A i \in 1 .. Len(s) : t[i] = s[i]
      /\ t[Len(s) + 1] = e
  BY AppendProperties, LenProperties
<1>2. ToSet(s) = {s[i] : i \in 1 .. Len(s)} /\ ToSet(t) = {t[i] : i \in 1 .. Len(t)}
  BY <1>1, ElementsOf
<1> HIDE DEF t
<1>3. ToSet(t) \subseteq ToSet(s) \cup {e}
  BY <1>1, <1>2
<1>4. ToSet(s) \cup {e} \subseteq ToSet(t)
  <2>1. e \in ToSet(t)
    BY <1>1, <1>2
  <2>2. ASSUME NEW i \in 1 .. Len(s)
        PROVE  s[i] \in ToSet(t)
    BY <1>1, <1>2
  <2> QED  BY <2>1, <2>2, <1>2
<1>5. Distinct(s) /\ e \notin ToSet(s) => Distinct(t)
  BY <1>1, <1>2 DEF Distinct
<1> QED  BY <1>1, <1>3, <1>4, <1>5 DEF t

\* A sequence put before another one.
LEMMA ConcatDistinct ==
  ASSUME NEW S, NEW s \in Seq(S), NEW t \in Seq(S)
  PROVE  /\ s \o t \in Seq(S)
         /\ ToSet(s \o t) = ToSet(s) \cup ToSet(t)
         /\ Distinct(s) /\ Distinct(t) /\ ToSet(s) \cap ToSet(t) = {} => Distinct(s \o t)
<1> DEFINE u == s \o t
<1>1. /\ u \in Seq(S) /\ Len(u) = Len(s) + Len(t) /\ Len(s) \in Nat /\ Len(t) \in Nat
      /\ \A i \in 1 .. Len(s) + Len(t) : u[i] = IF i <= Len(s) THEN s[i] ELSE t[i - Len(s)]
  BY ConcatProperties, LenProperties
<1>2. /\ ToSet(s) = {s[i] : i \in 1 .. Len(s)}
      /\ ToSet(t) = {t[i] : i \in 1 .. Len(t)}
      /\ ToSet(u) = {u[i] : i \in 1 .. Len(u)}
  BY <1>1, ElementsOf
<1> HIDE DEF u
<1>3. ToSet(u) \subseteq ToSet(s) \cup ToSet(t)
  <2>1. ASSUME NEW i \in 1 .. Len(u)
        PROVE  u[i] \in ToSet(s) \cup ToSet(t)
    <3>1. CASE i <= Len(s)
      BY <3>1, <1>1, <1>2
    <3>2. CASE i > Len(s)
      <4>1. i - Len(s) \in 1 .. Len(t) /\ u[i] = t[i - Len(s)]
        BY <3>2, <1>1
      <4> QED  BY <4>1, <1>2
    <3> QED  BY <3>1, <3>2, <1>1
  <2> QED  BY <2>1, <1>2
<1>4. ToSet(s) \cup ToSet(t) \subseteq ToSet(u)
  <2>1. ASSUME NEW i \in 1 .. Len(s)
        PROVE  s[i] \in ToSet(u)
    <3>1. i \in 1 .. Len(u) /\ u[i] = s[i]
      BY <1>1
    <3> QED  BY <3>1, <1>2
  <2>2. ASSUME NEW i \in 1 .. Len(t)
        PROVE  t[i] \in ToSet(u)
    <3>1. Len(s) + i \in 1 .. Len(u) /\ u[Len(s) + i] = t[i]
      BY <1>1
    <3> QED  BY <3>1, <1>2
  <2> QED  BY <2>1, <2>2, <1>2
<1>5. ASSUME Distinct(s), Distinct(t), ToSet(s) \cap ToSet(t) = {}
      PROVE  Distinct(u)
  <2> SUFFICES ASSUME NEW i \in 1 .. Len(u), NEW j \in 1 .. Len(u), u[i] = u[j]
               PROVE  i = j
    BY DEF Distinct
  <2>1. CASE i <= Len(s) /\ j <= Len(s)
    BY <2>1, <1>1, <1>5 DEF Distinct
  <2>2. CASE i > Len(s) /\ j > Len(s)
    <3>1. /\ i - Len(s) \in 1 .. Len(t) /\ u[i] = t[i - Len(s)]
          /\ j - Len(s) \in 1 .. Len(t) /\ u[j] = t[j - Len(s)]
      BY <2>2, <1>1
    <3>2. i - Len(s) = j - Len(s)
      BY <3>1, <1>5 DEF Distinct
    <3> QED  BY <3>2, <1>1
  <2>3. ASSUME NEW a \in 1 .. Len(u), NEW b \in 1 .. Len(u), a <= Len(s), b > Len(s)
        PROVE  u[a] # u[b]
    <3>1. u[a] \in ToSet(s)
      BY <2>3, <1>1, <1>2
    <3>2. b - Len(s) \in 1 .. Len(t) /\ u[b] = t[b - Len(s)]
      BY <2>3, <1>1
    <3> QED  BY <3>1, <3>2, <1>2, <1>5
  <2> QED  BY <2>1, <2>2, <2>3, <1>1
<1> QED  BY <1>1, <1>3, <1>4, <1>5 DEF u

\* A stretch of a sequence.
LEMMA StretchDistinct ==
  ASSUME NEW S, NEW s \in Seq(S), NEW m \in Nat \ {0}, NEW n \in Nat, n <= Len(s)
  PROVE  /\ SubSeq(s, m, n) \in Seq(S)
         /\ Len(SubSeq(s, m, n)) = IF m <= n THEN n - m + 1 ELSE 0
         /\ ToSet(SubSeq(s, m, n)) = {s[i] : i \in m .. n}
         /\ Distinct(s) => Distinct(SubSeq(s, m, n))
<1> DEFINE t == SubSeq(s, m, n)
<1>1. Len(s) \in Nat /\ \A i \in 1 .. Len(s) : s[i] \in S
  BY LenProperties
<1>2. \A i \in m .. n : s[i] \in S
  BY <1>1
<1>3. /\ t \in Seq(S)
      /\ Len(t) = IF m <= n THEN n - m + 1 ELSE 0
      /\ \A i \in 1 .. n - m + 1 : t[i] = s[m + i - 1]
  BY <1>2, SubSeqProperties
<1>4. ToSet(t) = {t[i] : i \in 1 .. Len(t)}
  BY <1>3, ElementsOf
<1> HIDE DEF t
<1>5. ASSUME NEW i \in 1 .. Len(t)
      PROVE  m + i - 1 \in m .. n /\ t[i] = s[m + i - 1]
  BY <1>3
<1>6. ASSUME NEW i \in m .. n
      PROVE  i - m + 1 \in 1 .. Len(t) /\ t[i - m + 1] = s[i]
  <2>1. i - m + 1 \in 1 .. n - m + 1 /\ m + (i - m + 1) - 1 = i
    OBVIOUS
  <2> QED  BY <2>1, <1>3
<1>7. ToSet(t) = {s[i] : i \in m .. n}
  <2>1. ToSet(t) \subseteq {s[i] : i \in m .. n}
    BY <1>4, <1>5
  <2>2. {s[i] : i \in m .. n} \subseteq ToSet(t)
    BY <1>4, <1>6
  <2> QED  BY <2>1, <2>2
<1>8. ASSUME Distinct(s)
      PROVE  Distinct(t)
  <2> SUFFICES ASSUME NEW i \in 1 .. Len(t), NEW j \in 1 .. Len(t), t[i] = t[j]
               PROVE  i = j
    BY DEF Distinct
  <2>1. /\ m + i - 1 \in 1 .. Len(s) /\ m + j - 1 \in 1 .. Len(s)
        /\ s[m + i - 1] = s[m + j - 1]
    BY <1>1, <1>5
  <2>2. m + i - 1 = m + j - 1
    BY <2>1, <1>8 DEF Distinct
  <2> QED  BY <2>2, <1>3
<1> QED  BY <1>3, <1>7, <1>8 DEF t

-----------------------------------------------------------------------------
(* The queue.                                                               *)

LEMMA KeptOfQueue ==
  ASSUME NEW q \in Seq(Fix)
  PROVE  /\ Kept(q) \in Seq(Fix)
         /\ Len(Kept(q)) <= QueueLimit
         /\ ToSet(Kept(q)) \subseteq ToSet(q)
         /\ Distinct(q) => Distinct(Kept(q))
<1> DEFINE m == IF Len(q) > QueueLimit THEN Len(q) - QueueLimit + 1 ELSE 1
<1>1. QueueLimit \in Nat \ {0} /\ Len(q) \in Nat
  BY UplinkAssumption, LenProperties
<1>2. m \in Nat \ {0} /\ m \in 1 .. Len(q) + 1 /\ Kept(q) = SubSeq(q, m, Len(q))
  BY <1>1 DEF Kept
<1>3. IF m <= Len(q) THEN Len(q) - m + 1 <= QueueLimit ELSE 0 <= QueueLimit
  BY <1>1
<1> HIDE DEF m
<1>4. /\ Kept(q) \in Seq(Fix)
      /\ Len(Kept(q)) = IF m <= Len(q) THEN Len(q) - m + 1 ELSE 0
      /\ ToSet(Kept(q)) = {q[i] : i \in m .. Len(q)}
      /\ Distinct(q) => Distinct(Kept(q))
  BY <1>1, <1>2, StretchDistinct
<1>5. ToSet(q) = {q[i] : i \in 1 .. Len(q)}
  BY ElementsOf
<1>6. m .. Len(q) \subseteq 1 .. Len(q)
  BY <1>1, <1>2
<1> QED  BY <1>3, <1>4, <1>5, <1>6

\* A fate other than "NONE" settles, and no fix is unsettled by one.
LEMMA FatedSettles ==
  ASSUME NEW S \in SUBSET Fix, NEW what \in Fates \ {"NONE"}, fate \in [Fix -> Fates],
         Fated(S, what), stored' = stored
  PROVE  /\ fate' \in [Fix -> Fates]
         /\ S \subseteq Settled'
         /\ Settled \subseteq Settled'
         /\ \A n \in Fix : fate'[n] \in {fate[n], what}
BY DEF Fated, Fates, Settled

\* What joins the queue stays in order, and what does not is dropped.
LEMMA EnqueueKeeps ==
  ASSUME NEW q \in Seq(Fix), Enqueue(q), fate \in [Fix -> Fates], stored' = stored
  PROVE  /\ queue' \in Seq(Fix) /\ Len(queue') <= QueueLimit
         /\ fate' \in [Fix -> Fates]
         /\ InQueue' \subseteq ToSet(q)
         /\ Distinct(q) => Distinct(queue')
         /\ ToSet(q) \subseteq InQueue' \cup Settled'
         /\ Settled \subseteq Settled'
         /\ \A n \in Fix : fate'[n] \in {fate[n], "DROPPED"}
<1>1. ToSet(q) \subseteq Fix
  BY ElementsOf
<1>2. ToSet(q) \ ToSet(Kept(q)) \in SUBSET Fix /\ "DROPPED" \in Fates \ {"NONE"}
  BY <1>1 DEF Fates
<1>3. /\ fate' \in [Fix -> Fates]
      /\ ToSet(q) \ ToSet(Kept(q)) \subseteq Settled'
      /\ Settled \subseteq Settled'
      /\ \A n \in Fix : fate'[n] \in {fate[n], "DROPPED"}
  BY <1>2, FatedSettles DEF Enqueue
<1>4. /\ queue' \in Seq(Fix) /\ Len(queue') <= QueueLimit
      /\ InQueue' = ToSet(Kept(q)) /\ InQueue' \subseteq ToSet(q)
      /\ Distinct(q) => Distinct(queue')
  BY KeptOfQueue DEF Enqueue, InQueue
<1> QED  BY <1>1, <1>3, <1>4

\* What the server made of a batch it took: each fix of it is stored or rejected.
LEMMA IngestSettles ==
  ASSUME TypeOK, NEW f \in Flight, flight[f] # Landed, Ingest(f)
  PROVE  /\ stored' \in [Fix -> Driver \cup {Nobody}] /\ fate' \in [Fix -> Fates]
         /\ Aboard(f) \subseteq Settled' /\ Settled \subseteq Settled'
         /\ \A n \in Fix : stored[n] # Nobody => stored'[n] = stored[n]
         /\ \A n \in Fix : fate'[n] \in {fate[n], "REJECTED", "NONE"}
         /\ flight' = [flight EXCEPT ![f] = [flight[f] EXCEPT !.at = "STORED"]]
<1>1. flight[f].batch \in Seq(Fix) /\ flight[f].token.of \in Driver
  BY DEF TypeOK, Upload, Token
<1>2. Aboard(f) = ToSet(flight[f].batch) /\ Aboard(f) \subseteq Fix
  BY <1>1, ElementsOf DEF Aboard
<1>3. PICK out \in SUBSET Aboard(f) :
        /\ stored' = [n \in Fix |-> IF n \in Aboard(f) \ out /\ stored[n] = Nobody
                                    THEN flight[f].token.of ELSE stored[n]]
        /\ fate' = [n \in Fix |-> IF n \notin Aboard(f) \/ stored[n] # Nobody THEN fate[n]
                                  ELSE IF n \in out THEN "REJECTED" ELSE "NONE"]
  BY <1>2 DEF Ingest, Ingested
<1>4. stored' \in [Fix -> Driver \cup {Nobody}] /\ fate' \in [Fix -> Fates]
  BY <1>1, <1>3 DEF TypeOK, Fates
<1>5. ASSUME NEW n \in Fix
      PROVE  /\ stored[n] # Nobody => stored'[n] = stored[n]
             /\ fate'[n] \in {fate[n], "REJECTED", "NONE"}
             /\ n \in Aboard(f) \/ n \in Settled => n \in Settled'
  BY <1>1, <1>3, UplinkAssumption DEF Settled
<1>6. Aboard(f) \subseteq Settled' /\ Settled \subseteq Settled'
  BY <1>2, <1>5 DEF Settled
<1> QED  BY <1>4, <1>5, <1>6 DEF Ingest, Moved

\* The front of the queue and the rest of it share nothing and lose nothing.
LEMMA FrontAndRest ==
  ASSUME NEW q \in Seq(Fix), NEW k \in Nat, k <= Len(q)
  PROVE  /\ SubSeq(q, 1, k) \in Seq(Fix)
         /\ SubSeq(q, k + 1, Len(q)) \in Seq(Fix)
         /\ Len(SubSeq(q, k + 1, Len(q))) <= Len(q)
         /\ ToSet(q) = ToSet(SubSeq(q, 1, k)) \cup ToSet(SubSeq(q, k + 1, Len(q)))
         /\ Distinct(q) =>
              /\ Distinct(SubSeq(q, 1, k))
              /\ Distinct(SubSeq(q, k + 1, Len(q)))
              /\ ToSet(SubSeq(q, 1, k)) \cap ToSet(SubSeq(q, k + 1, Len(q))) = {}
<1>1. Len(q) \in Nat /\ ToSet(q) = {q[i] : i \in 1 .. Len(q)}
  BY ElementsOf
<1>2. /\ SubSeq(q, 1, k) \in Seq(Fix)
      /\ ToSet(SubSeq(q, 1, k)) = {q[i] : i \in 1 .. k}
      /\ Distinct(q) => Distinct(SubSeq(q, 1, k))
  BY StretchDistinct
<1>3. /\ SubSeq(q, k + 1, Len(q)) \in Seq(Fix)
      /\ Len(SubSeq(q, k + 1, Len(q))) = IF k + 1 <= Len(q) THEN Len(q) - (k + 1) + 1 ELSE 0
      /\ ToSet(SubSeq(q, k + 1, Len(q))) = {q[i] : i \in k + 1 .. Len(q)}
      /\ Distinct(q) => Distinct(SubSeq(q, k + 1, Len(q)))
  BY <1>1, StretchDistinct
<1>4. 1 .. Len(q) = (1 .. k) \cup (k + 1 .. Len(q))
  BY <1>1
<1>5. ToSet(q) = ToSet(SubSeq(q, 1, k)) \cup ToSet(SubSeq(q, k + 1, Len(q)))
  BY <1>1, <1>2, <1>3, <1>4
<1>6. ASSUME Distinct(q)
      PROVE  ToSet(SubSeq(q, 1, k)) \cap ToSet(SubSeq(q, k + 1, Len(q))) = {}
  <2> SUFFICES ASSUME NEW i \in 1 .. k, NEW j \in k + 1 .. Len(q)
               PROVE  q[i] # q[j]
    BY <1>2, <1>3
  <2> QED  BY <1>1, <1>6 DEF Distinct
<1>7. Len(SubSeq(q, k + 1, Len(q))) <= Len(q)
  BY <1>1, <1>3
<1> QED  BY <1>2, <1>3, <1>5, <1>6, <1>7

-----------------------------------------------------------------------------
(* Types.                                                                   *)

\* Changing the fields of an upload that is under way leaves an upload.
LEMMA UploadMoves ==
  ASSUME NEW u \in Upload,
         NEW to \in {"SENT", "REFUSED", "RENEWED", "RESENT", "STORED"}, NEW t \in Token
  PROVE  /\ [u EXCEPT !.at = to] \in Upload
         /\ [u EXCEPT !.at = to, !.token = t] \in Upload
         /\ [u EXCEPT !.heard = FALSE] \in Upload
BY DEF Upload

LEMMA CancelledType ==
  ASSUME TypeOK, NEW F, Cancelled(F)
  PROVE  /\ flight' \in [Flight -> Upload \cup {Landed}]
         /\ \A f \in Flight : flight'[f] = Landed <=> flight[f] = Landed
         /\ \A f \in Flight : flight[f] # Landed =>
              flight'[f].batch = flight[f].batch /\ flight'[f].at = flight[f].at
<1>1. ASSUME NEW f \in Flight, flight[f] # Landed
      PROVE  /\ flight[f] \in Upload
             /\ [flight[f] EXCEPT !.heard = FALSE] \in Upload
             /\ [flight[f] EXCEPT !.heard = FALSE].batch = flight[f].batch
             /\ [flight[f] EXCEPT !.heard = FALSE].at = flight[f].at
  BY <1>1 DEF TypeOK, Upload
<1>2. \A u \in Upload : u # Landed
  BY DEF Upload, Landed
<1> QED  BY <1>1, <1>2 DEF Cancelled, TypeOK

LEMMA TypeStep ==
  ASSUME TypeOK, [Next]_vars
  PROVE  TypeOK'
<1> USE UplinkAssumption DEF TypeOK
<1>1. ASSUME NEW n \in Fix, Record(n)
      PROVE  TypeOK'
  <2>1. Append(queue, n) \in Seq(Fix)
    BY <1>1, AppendDistinct
  <2>2. queue' \in Seq(Fix) /\ Len(queue') <= QueueLimit /\ fate' \in [Fix -> Fates]
    BY <1>1, <2>1, EnqueueKeeps DEF Record
  <2> QED  BY <1>1, <2>2 DEF Record, ground
<1>2. ASSUME NEW f \in Flight, NEW loop \in BOOLEAN, Take(f, loop)
      PROVE  TypeOK'
  <2> DEFINE k == IF Len(queue) < BatchSize THEN Len(queue) ELSE BatchSize
  <2>1. Len(queue) \in Nat
    BY ElementsOf
  <2>2. k \in Nat /\ k <= Len(queue)
    BY <2>1
  <2>3. /\ flight' = [flight EXCEPT ![f] =
              [at |-> "SENT", batch |-> SubSeq(queue, 1, k),
               token |-> session.token, loop |-> loop, heard |-> TRUE]]
        /\ queue' = SubSeq(queue, k + 1, Len(queue))
        /\ UNCHANGED <<taken, service, starts, stored, fate, session, era, online>>
    BY <1>2 DEF Take, Left, ground, server
  <2>4. session \in Session
    BY <1>2 DEF Take
  <2> HIDE DEF k
  <2>5. /\ SubSeq(queue, 1, k) \in Seq(Fix)
        /\ queue' \in Seq(Fix) /\ Len(queue') <= Len(queue) /\ Len(queue') \in Nat
    BY <2>2, <2>3, FrontAndRest, ElementsOf
  <2>6. flight' \in [Flight -> Upload \cup {Landed}]
    BY <2>3, <2>4, <2>5 DEF Upload, Session
  <2>7. Len(queue') <= QueueLimit
    BY <2>1, <2>5
  <2> QED  BY <2>3, <2>5, <2>6, <2>7
<1>3. ASSUME NEW f \in Flight, flight[f] # Landed, Serve(f)
      PROVE  TypeOK'
  <2>1. flight[f] \in Upload
    BY <1>3
  <2>2. CASE Ingest(f)
    <3>1. [flight[f] EXCEPT !.at = "STORED"] \in Upload
      BY <2>1 DEF Upload
    <3>2. /\ stored' \in [Fix -> Driver \cup {Nobody}] /\ fate' \in [Fix -> Fates]
          /\ flight' = [flight EXCEPT ![f] = [flight[f] EXCEPT !.at = "STORED"]]
      BY <1>3, <2>2, IngestSettles
    <3> QED  BY <1>3, <3>1, <3>2 DEF Serve, phone, ground
  <2>3. CASE Refuse(f)
    <3>1. [flight[f] EXCEPT !.at = "REFUSED"] \in Upload
      BY <2>1 DEF Upload
    <3> QED  BY <1>3, <2>3, <3>1 DEF Refuse, Moved, Serve, phone, ground, server
  <2> QED  BY <1>3, <2>2, <2>3 DEF Serve
<1>4. ASSUME NEW f \in Flight, flight[f] # Landed, AskRenewal(f)
      PROVE  TypeOK'
  <2>1. flight[f] \in Upload /\ session \in Session
    BY <1>4 DEF AskRenewal, Renewable
  <2>2. [of |-> session.token.of, era |-> era] \in Token
    BY <2>1 DEF Session, Token
  <2>3. flight' \in [Flight -> Upload \cup {Landed}]
    BY <1>4, <2>1, <2>2, UploadMoves DEF AskRenewal
  <2> QED  BY <1>4, <2>3 DEF AskRenewal, phone, ground, server
<1>5. ASSUME NEW f \in Flight, flight[f] # Landed, Renew(f)
      PROVE  TypeOK'
  <2>1. flight[f] \in Upload /\ flight[f].token \in Token /\ session \in Session
    BY <1>5 DEF Renew, Upload
  <2>2. session' \in Session
    BY <1>5, <2>1 DEF Renew, Session
  <2>3. flight' \in [Flight -> Upload \cup {Landed}]
    BY <1>5, <2>1, UploadMoves DEF Renew, Moved
  <2> QED  BY <1>5, <2>2, <2>3 DEF Renew, phone, server
<1>6. ASSUME NEW f \in Flight, Confirm(f)
      PROVE  TypeOK'
  BY <1>6 DEF Confirm, Ended, phone, ground, server
<1>7. ASSUME NEW f \in Flight, Fail(f)
      PROVE  TypeOK'
  <2>1. flight[f] \in Upload /\ flight[f].batch \in Seq(Fix)
    BY <1>7 DEF Fail, Upload
  <2>2. Aboard(f) \subseteq Fix
    BY <2>1, ElementsOf DEF Aboard
  <2>3. Returned(f) \in Seq(Fix)
    BY <2>1, ConcatDistinct DEF Returned
  <2>4. queue' \in Seq(Fix) /\ Len(queue') <= QueueLimit /\ fate' \in [Fix -> Fates]
    <3>1. CASE flight[f].heard
      BY <1>7, <2>3, <3>1, EnqueueKeeps DEF Fail
    <3>2. CASE ~flight[f].heard
      <4>1. "CANCELLED" \in Fates \ {"NONE"}
        BY DEF Fates
      <4> QED  BY <1>7, <2>2, <3>2, <4>1, FatedSettles DEF Fail
    <3> QED  BY <3>1, <3>2
  <2> QED  BY <1>7, <2>4 DEF Fail, Ended, ground
<1>8. CASE Start
  BY <1>8, CancelledType DEF Start, ground, server
<1>9. CASE Stop
  BY <1>9, CancelledType DEF Stop, ground, server
<1>10. CASE Destroy
  <2>1. queue' \in Seq(Fix) /\ Len(queue') = 0 /\ InQueue \subseteq Fix
    BY <1>10, ElementsOf DEF Destroy, InQueue
  <2>2. "DROPPED" \in Fates \ {"NONE"}
    BY DEF Fates
  <2>3. fate' \in [Fix -> Fates]
    BY <1>10, <2>1, <2>2, FatedSettles DEF Destroy
  <2> QED  BY <1>10, <2>1, <2>3, CancelledType DEF Destroy, ground
<1>11. ASSUME NEW d \in Driver, SignIn(d)
       PROVE  TypeOK'
  BY <1>11 DEF SignIn, Session, Token, phone, server
<1>12. CASE SignOut
  BY <1>12, CancelledType DEF SignOut, server
<1>13. CASE Expire
  BY <1>13 DEF Expire, phone, server
<1>14. CASE Network
  BY <1>14 DEF Network, phone, server
<1>15. CASE Lapse
  <2>1. session \in Session /\ session' = [session EXCEPT !.renews = FALSE]
    BY <1>15 DEF Lapse
  <2>2. session' \in Session
    BY <2>1 DEF Session
  <2> QED  BY <1>15, <2>2 DEF Lapse, phone, server
<1>16. CASE UNCHANGED vars
  BY <1>16 DEF vars
<1> QED  BY <1>1, <1>2, <1>3, <1>4, <1>5, <1>6, <1>7, <1>8, <1>9, <1>10, <1>11, <1>12,
            <1>13, <1>14, <1>15, <1>16 DEF Next

\* Every reachable state of the phone and of the server's rows has its type.
THEOREM UplinkTypes == Spec => []TypeOK
<1>1. Init => TypeOK
  BY UplinkAssumption, ElementsOf DEF Init, TypeOK, Fates
<1> QED  BY <1>1, TypeStep, PTL DEF Spec

-----------------------------------------------------------------------------
(* Each fix is in one place.                                                *)

\* No fix comes twice, on the queue or under way, and only recorded ones do.
OnceInv ==
  /\ Distinct(queue)
  /\ InQueue \subseteq taken
  /\ \A f \in Flight : flight[f] # Landed => Distinct(flight[f].batch)
  /\ \A f \in Flight : Aboard(f) \subseteq taken /\ Aboard(f) \cap InQueue = {}
  /\ \A f, g \in Flight : f # g => Aboard(f) \cap Aboard(g) = {}

\* A fix that was recorded is somewhere, and what an upload that was answered carried
\* is settled.
HereInv ==
  /\ \A n \in taken : n \in InQueue \cup Settled \/ \E f \in Flight : n \in Aboard(f)
  /\ \A f \in Flight : flight[f] # Landed /\ flight[f].at = "STORED" =>
       Aboard(f) \subseteq Settled

\* Until the service runs for the second time, or is stopped, each upload has a coroutine
\* to listen to its answer.
ListenedInv ==
  /\ starts = 0 => service = "DOWN" /\ \A f \in Flight : flight[f] = Landed
  /\ starts = 0 \/ (service = "UP" /\ starts = 1) =>
       /\ \A f \in Flight : flight[f] # Landed => flight[f].heard
       /\ \A n \in Fix : fate[n] # "CANCELLED"

\* A step that moves uploads along, with their batches as they were.
Along ==
  /\ \A f \in Flight : flight'[f] = Landed <=> flight[f] = Landed
  /\ \A f \in Flight : flight[f] # Landed => flight'[f].batch = flight[f].batch

LEMMA AlongAboard ==
  ASSUME Along, NEW f \in Flight
  PROVE  Aboard(f)' = Aboard(f)
BY DEF Along, Aboard

LEMMA AlongKeepsOnce ==
  ASSUME OnceInv, Along, UNCHANGED <<queue, taken>>
  PROVE  OnceInv'
<1>1. InQueue' = InQueue
  BY DEF InQueue
<1> QED  BY <1>1, AlongAboard DEF OnceInv, Along

\* The four ways an upload goes on, and the cancelling of coroutines.
LEMMA GoesAlong ==
  ASSUME TypeOK, NEW f \in Flight, flight[f] # Landed,
         Serve(f) \/ AskRenewal(f) \/ Renew(f)
  PROVE  Along /\ \A g \in Flight \ {f} : flight'[g] = flight[g]
<1>1. flight[f] \in Upload /\ \A u \in Upload : u # Landed
  BY DEF TypeOK, Upload, Landed
<1>2. PICK u \in Upload : flight' = [flight EXCEPT ![f] = u] /\ u.batch = flight[f].batch
  <2>1. CASE Serve(f)
    <3>1. PICK to \in {"REFUSED", "STORED"} :
            flight' = [flight EXCEPT ![f] = [flight[f] EXCEPT !.at = to]]
      BY <2>1 DEF Serve, Ingest, Refuse, Moved
    <3>2. /\ [flight[f] EXCEPT !.at = to] \in Upload
          /\ [flight[f] EXCEPT !.at = to].batch = flight[f].batch
      BY <1>1 DEF Upload
    <3> QED  BY <3>1, <3>2
  <2>2. CASE AskRenewal(f)
    <3> DEFINE t == [of |-> session.token.of, era |-> era]
    <3>1. t \in Token
      BY <2>2 DEF AskRenewal, Renewable, TypeOK, Session, Token
    <3>2. flight' = [flight EXCEPT ![f] = [flight[f] EXCEPT !.at = "RENEWED", !.token = t]]
      BY <2>2 DEF AskRenewal
    <3> HIDE DEF t
    <3>3. /\ [flight[f] EXCEPT !.at = "RENEWED", !.token = t] \in Upload
          /\ [flight[f] EXCEPT !.at = "RENEWED", !.token = t].batch = flight[f].batch
      BY <1>1, <3>1 DEF Upload
    <3> QED  BY <3>2, <3>3
  <2>3. CASE Renew(f)
    <3>1. flight' = [flight EXCEPT ![f] = [flight[f] EXCEPT !.at = "RESENT"]]
      BY <2>3 DEF Renew, Moved
    <3>2. /\ [flight[f] EXCEPT !.at = "RESENT"] \in Upload
          /\ [flight[f] EXCEPT !.at = "RESENT"].batch = flight[f].batch
      BY <1>1 DEF Upload
    <3> QED  BY <3>1, <3>2
  <2> QED  BY <2>1, <2>2, <2>3
<1> QED  BY <1>1, <1>2 DEF Along, TypeOK

LEMMA CancelledAlong ==
  ASSUME TypeOK, NEW F, Cancelled(F)
  PROVE  Along
BY CancelledType DEF Along

\* What the front of the queue holds once it has left.
LEMMA TakenFront ==
  ASSUME TypeOK, NEW f \in Flight, NEW loop \in BOOLEAN, Take(f, loop)
  PROVE  /\ flight[f] = Landed
         /\ flight'[f] # Landed /\ flight'[f].at = "SENT"
         /\ \A g \in Flight \ {f} : flight'[g] = flight[g]
         /\ InQueue = Aboard(f)' \cup InQueue'
         /\ Distinct(queue) =>
              /\ Distinct(flight'[f].batch) /\ Distinct(queue')
              /\ Aboard(f)' \cap InQueue' = {}
         /\ UNCHANGED <<taken, stored, fate>>
<1> DEFINE k == IF Len(queue) < BatchSize THEN Len(queue) ELSE BatchSize
           u == [at |-> "SENT", batch |-> SubSeq(queue, 1, k),
                 token |-> session.token, loop |-> loop, heard |-> TRUE]
<1>1. queue \in Seq(Fix) /\ Len(queue) \in Nat
  BY ElementsOf DEF TypeOK
<1>2. k \in Nat /\ k <= Len(queue)
  BY <1>1, UplinkAssumption
<1>3. /\ flight[f] = Landed
      /\ flight' = [flight EXCEPT ![f] = u]
      /\ queue' = SubSeq(queue, k + 1, Len(queue))
      /\ UNCHANGED <<taken, stored, fate>>
  BY DEF Take, Left, ground, server
<1> HIDE DEF k
<1>4. flight'[f] = u /\ \A g \in Flight \ {f} : flight'[g] = flight[g]
  BY <1>3 DEF TypeOK
<1>5. u # Landed /\ u.at = "SENT" /\ u.batch = SubSeq(queue, 1, k)
  BY DEF Landed
<1>6. Aboard(f)' = ToSet(SubSeq(queue, 1, k))
  BY <1>4, <1>5 DEF Aboard
<1>7. flight'[f].batch = SubSeq(queue, 1, k) /\ flight'[f].at = "SENT" /\ flight'[f] # Landed
  BY <1>4, <1>5
<1>8. InQueue' = ToSet(SubSeq(queue, k + 1, Len(queue))) /\ InQueue = ToSet(queue)
  BY <1>3 DEF InQueue
<1>9. /\ ToSet(queue) = ToSet(SubSeq(queue, 1, k)) \cup ToSet(SubSeq(queue, k + 1, Len(queue)))
      /\ Distinct(queue) =>
           /\ Distinct(SubSeq(queue, 1, k))
           /\ Distinct(SubSeq(queue, k + 1, Len(queue)))
           /\ ToSet(SubSeq(queue, 1, k)) \cap ToSet(SubSeq(queue, k + 1, Len(queue))) = {}
  BY <1>1, <1>2, FrontAndRest
<1> HIDE DEF u
<1> QED  BY <1>3, <1>4, <1>6, <1>7, <1>8, <1>9

LEMMA OnceStep ==
  ASSUME TypeOK, OnceInv, [Next]_vars
  PROVE  OnceInv'
<1>1. ASSUME NEW n \in Fix, Record(n)
      PROVE  OnceInv'
  <2>1. n \notin InQueue /\ \A f \in Flight : n \notin Aboard(f)
    BY <1>1 DEF Record, OnceInv
  <2>2. /\ Append(queue, n) \in Seq(Fix)
        /\ ToSet(Append(queue, n)) = InQueue \cup {n}
        /\ Distinct(Append(queue, n))
    BY <2>1, AppendDistinct DEF TypeOK, OnceInv, InQueue
  <2>3. Distinct(queue') /\ InQueue' \subseteq InQueue \cup {n}
    BY <1>1, <2>2, EnqueueKeeps DEF Record, TypeOK
  <2>4. taken' = taken \cup {n} /\ flight' = flight
    BY <1>1 DEF Record
  <2>5. \A f \in Flight : Aboard(f)' = Aboard(f)
    BY <2>4 DEF Aboard
  <2> QED  BY <2>1, <2>3, <2>4, <2>5 DEF OnceInv
<1>2. ASSUME NEW f \in Flight, NEW loop \in BOOLEAN, Take(f, loop)
      PROVE  OnceInv'
  <2>1. \A g \in Flight \ {f} : Aboard(g)' = Aboard(g)
    BY <1>2, TakenFront DEF Aboard
  <2>2. InQueue' \subseteq InQueue /\ Aboard(f)' \subseteq InQueue /\ Aboard(f)' \cap InQueue' = {}
    BY <1>2, TakenFront DEF OnceInv
  <2>3. \A g \in Flight \ {f} : Aboard(g)' \cap Aboard(f)' = {} /\ Aboard(g)' \cap InQueue' = {}
    BY <2>1, <2>2 DEF OnceInv
  <2>4. Distinct(queue') /\ \A g \in Flight : flight'[g] # Landed => Distinct(flight'[g].batch)
    BY <1>2, TakenFront DEF OnceInv
  <2>5. taken' = taken
    BY <1>2, TakenFront
  <2> QED  BY <2>1, <2>2, <2>3, <2>4, <2>5 DEF OnceInv
<1>3. ASSUME NEW f \in Flight, flight[f] # Landed, Serve(f) \/ AskRenewal(f) \/ Renew(f)
      PROVE  OnceInv'
  <2>1. UNCHANGED <<queue, taken>>
    BY <1>3 DEF Serve, AskRenewal, Renew, phone
  <2> QED  BY <1>3, <2>1, GoesAlong, AlongKeepsOnce
<1>4. ASSUME NEW f \in Flight, Confirm(f)
      PROVE  OnceInv'
  <2>1. Aboard(f)' = {} /\ \A g \in Flight \ {f} : Aboard(g)' = Aboard(g)
    BY <1>4 DEF Confirm, Ended, Aboard, TypeOK
  <2>2. InQueue' = InQueue /\ queue' = queue /\ taken' = taken
    BY <1>4 DEF Confirm, phone, InQueue
  <2>3. \A g \in Flight : flight'[g] # Landed => flight'[g] = flight[g]
    BY <1>4 DEF Confirm, Ended, TypeOK
  <2> QED  BY <2>1, <2>2, <2>3 DEF OnceInv
<1>5. ASSUME NEW f \in Flight, Fail(f)
      PROVE  OnceInv'
  <2>1. Aboard(f)' = {} /\ \A g \in Flight \ {f} : Aboard(g)' = Aboard(g)
    BY <1>5 DEF Fail, Ended, Aboard, TypeOK
  <2>2. \A g \in Flight : flight'[g] # Landed => flight'[g] = flight[g]
    BY <1>5 DEF Fail, Ended, TypeOK
  <2>3. Distinct(queue') /\ InQueue' \subseteq InQueue \cup Aboard(f)
    <3>1. CASE flight[f].heard
      <4>1. /\ flight[f].batch \in Seq(Fix) /\ queue \in Seq(Fix)
            /\ fate \in [Fix -> Fates] /\ stored' = stored
        BY <1>5 DEF Fail, TypeOK, Upload
      <4>2. Aboard(f) = ToSet(flight[f].batch) /\ Distinct(flight[f].batch)
        BY <1>5 DEF Fail, Aboard, OnceInv
      <4>3. /\ Returned(f) \in Seq(Fix)
            /\ ToSet(Returned(f)) = Aboard(f) \cup InQueue
            /\ Distinct(Returned(f))
        BY <4>1, <4>2, ConcatDistinct DEF Returned, InQueue, OnceInv
      <4> QED  BY <1>5, <3>1, <4>1, <4>3, EnqueueKeeps DEF Fail
    <3>2. CASE ~flight[f].heard
      BY <1>5, <3>2 DEF Fail, InQueue, OnceInv
    <3> QED  BY <3>1, <3>2
  <2>4. taken' = taken
    BY <1>5 DEF Fail
  <2> QED  BY <2>1, <2>2, <2>3, <2>4 DEF OnceInv
<1>6. CASE Start \/ Stop \/ SignOut
  <2>1. Along
    BY <1>6, CancelledAlong DEF Start, Stop, SignOut
  <2> QED  BY <1>6, <2>1, AlongKeepsOnce DEF Start, Stop, SignOut
<1>7. CASE Destroy
  <2>1. Along /\ queue' = <<>> /\ taken' = taken
    BY <1>7, CancelledAlong DEF Destroy
  <2>2. InQueue' = {} /\ Distinct(queue')
    BY <2>1, EmptyElements DEF InQueue
  <2> QED  BY <2>1, <2>2, AlongAboard DEF OnceInv, Along
<1>8. CASE UNCHANGED <<flight, queue, taken>>
  <2>1. Along
    BY <1>8 DEF Along
  <2> QED  BY <1>8, <2>1, AlongKeepsOnce
<1> QED
  BY <1>1, <1>2, <1>3, <1>4, <1>5, <1>6, <1>7, <1>8
  DEF Next, SignIn, Expire, Lapse, Network, vars, phone

\* What the queue and the uploads hold: each fix once, although failed batches come back
\* to a queue that went on growing, and cancelled uploads go on unheard.
THEOREM EachFixIsOnce == Spec => []EachFixOnce
<1>1. Init => OnceInv
  <2> SUFFICES ASSUME Init PROVE OnceInv
    OBVIOUS
  <2>1. InQueue = {} /\ Distinct(queue)
    BY EmptyElements DEF Init, InQueue
  <2> QED  BY <2>1 DEF Init, OnceInv, Aboard
<1>2. TypeOK /\ OnceInv => EachFixOnce
  <2> SUFFICES ASSUME TypeOK, OnceInv PROVE EachFixOnce
    OBVIOUS
  <2>1. ASSUME NEW f \in Flight, Aboard(f) # {}
        PROVE  Cardinality(Aboard(f)) = Len(flight[f].batch)
    <3>1. flight[f] # Landed /\ flight[f].batch \in Seq(Fix) /\ Aboard(f) = ToSet(flight[f].batch)
      BY <2>1 DEF Aboard, TypeOK, Upload
    <3> QED  BY <3>1, DistinctCounts DEF OnceInv
  <2> QED  BY <2>1 DEF OnceInv, EachFixOnce, Distinct
<1> QED  BY <1>1, <1>2, OnceStep, UplinkTypes, PTL DEF Spec

-----------------------------------------------------------------------------
(* No recorded fix is nowhere.                                              *)

LEMMA HereStep ==
  ASSUME TypeOK, HereInv, [Next]_vars
  PROVE  HereInv'
<1> DEFINE Accounted(n) == n \in InQueue \cup Settled \/ \E f \in Flight : n \in Aboard(f)
           Answered ==
             \A f \in Flight : flight[f] # Landed /\ flight[f].at = "STORED" =>
               Aboard(f) \subseteq Settled
<1>1. (\A n \in taken : Accounted(n)) /\ Answered
  BY DEF HereInv
<1> SUFFICES (\A n \in taken' : Accounted(n)') /\ Answered'
  BY DEF HereInv
<1>2. ASSUME NEW m \in Fix, Record(m)
      PROVE  (\A n \in taken' : Accounted(n)') /\ Answered'
  <2>1. Append(queue, m) \in Seq(Fix) /\ ToSet(Append(queue, m)) = InQueue \cup {m}
    BY AppendDistinct DEF TypeOK, InQueue
  <2>2. InQueue \cup {m} \subseteq InQueue' \cup Settled' /\ Settled \subseteq Settled'
    BY <1>2, <2>1, EnqueueKeeps DEF Record, TypeOK
  <2>3. taken' = taken \cup {m} /\ flight' = flight
    BY <1>2 DEF Record
  <2>4. \A f \in Flight : Aboard(f)' = Aboard(f)
    BY <2>3 DEF Aboard
  <2> QED  BY <1>1, <2>2, <2>3, <2>4
<1>3. ASSUME NEW f \in Flight, NEW loop \in BOOLEAN, Take(f, loop)
      PROVE  (\A n \in taken' : Accounted(n)') /\ Answered'
  <2>1. Aboard(f) = {} /\ \A g \in Flight \ {f} : Aboard(g)' = Aboard(g)
    BY <1>3, TakenFront DEF Aboard
  <2>2. InQueue = Aboard(f)' \cup InQueue' /\ taken' = taken /\ Settled' = Settled
    BY <1>3, TakenFront DEF Settled
  <2>3. Answered'
    BY <1>1, <1>3, <2>1, <2>2, TakenFront
  <2> QED  BY <1>1, <2>1, <2>2, <2>3
<1>4. ASSUME NEW f \in Flight, flight[f] # Landed, Serve(f) \/ AskRenewal(f) \/ Renew(f)
      PROVE  (\A n \in taken' : Accounted(n)') /\ Answered'
  <2>1. /\ \A g \in Flight : Aboard(g)' = Aboard(g)
        /\ \A g \in Flight \ {f} : flight'[g] = flight[g]
    BY <1>4, GoesAlong, AlongAboard
  <2>2. UNCHANGED <<queue, taken>> /\ InQueue' = InQueue
    BY <1>4 DEF Serve, AskRenewal, Renew, phone, InQueue
  <2>3. /\ Settled \subseteq Settled'
        /\ flight'[f].at = "STORED" => Aboard(f) \subseteq Settled'
    <3>1. flight[f] \in Upload
      BY <1>4 DEF TypeOK
    <3>2. CASE Serve(f) /\ Ingest(f)
      BY <1>4, <3>2, IngestSettles
    <3>3. CASE Serve(f) /\ Refuse(f)
      BY <3>1, <3>3 DEF Refuse, Moved, server, Settled, TypeOK, Upload
    <3>4. CASE AskRenewal(f)
      BY <3>1, <3>4 DEF AskRenewal, server, Settled, TypeOK, Upload
    <3>5. CASE Renew(f)
      BY <3>1, <3>5 DEF Renew, Moved, server, Settled, TypeOK, Upload
    <3> QED  BY <1>4, <3>2, <3>3, <3>4, <3>5 DEF Serve
  <2>4. Answered'
    BY <1>1, <2>1, <2>3
  <2> QED  BY <1>1, <2>1, <2>2, <2>3, <2>4
<1>5. ASSUME NEW f \in Flight, flight[f] # Landed, Confirm(f)
      PROVE  (\A n \in taken' : Accounted(n)') /\ Answered'
  <2>1. Aboard(f)' = {} /\ \A g \in Flight \ {f} : Aboard(g)' = Aboard(g)
    BY <1>5 DEF Confirm, Ended, Aboard, TypeOK
  <2>2. taken' = taken /\ Settled' = Settled /\ InQueue' = InQueue
    BY <1>5 DEF Confirm, phone, server, Settled, InQueue
  <2>3. Aboard(f) \subseteq Settled
    BY <1>1, <1>5 DEF Confirm
  <2>4. \A g \in Flight : flight'[g] # Landed => flight'[g] = flight[g]
    BY <1>5 DEF Confirm, Ended, TypeOK
  <2>5. Answered'
    BY <1>1, <2>1, <2>2, <2>4
  <2> QED  BY <1>1, <2>1, <2>2, <2>3, <2>5
<1>6. ASSUME NEW f \in Flight, Fail(f)
      PROVE  (\A n \in taken' : Accounted(n)') /\ Answered'
  <2>1. Aboard(f)' = {} /\ \A g \in Flight \ {f} : Aboard(g)' = Aboard(g)
    BY <1>6 DEF Fail, Ended, Aboard, TypeOK
  <2>2. taken' = taken /\ stored' = stored /\ fate \in [Fix -> Fates]
    BY <1>6 DEF Fail, TypeOK
  <2>3. InQueue \cup Aboard(f) \subseteq InQueue' \cup Settled' /\ Settled \subseteq Settled'
    <3>1. flight[f].batch \in Seq(Fix) /\ Aboard(f) = ToSet(flight[f].batch)
      BY <1>6 DEF Fail, TypeOK, Upload, Aboard
    <3>2. CASE flight[f].heard
      <4>1. Returned(f) \in Seq(Fix) /\ ToSet(Returned(f)) = Aboard(f) \cup InQueue
        BY <3>1, ConcatDistinct DEF Returned, InQueue, TypeOK
      <4> QED  BY <1>6, <2>2, <3>2, <4>1, EnqueueKeeps DEF Fail
    <3>3. CASE ~flight[f].heard
      <4>1. Aboard(f) \in SUBSET Fix /\ "CANCELLED" \in Fates \ {"NONE"}
        BY <3>1, ElementsOf DEF Fates
      <4>2. Aboard(f) \subseteq Settled' /\ Settled \subseteq Settled'
        BY <1>6, <2>2, <3>3, <4>1, FatedSettles DEF Fail
      <4>3. InQueue' = InQueue
        BY <1>6, <3>3 DEF Fail, InQueue
      <4> QED  BY <4>2, <4>3
    <3> QED  BY <3>2, <3>3
  <2>4. \A g \in Flight : flight'[g] # Landed => flight'[g] = flight[g]
    BY <1>6 DEF Fail, Ended, TypeOK
  <2>5. Answered'
    BY <1>1, <2>1, <2>3, <2>4
  <2> QED  BY <1>1, <2>1, <2>2, <2>3, <2>5
<1>7. ASSUME NEW F, Cancelled(F), taken' = taken,
             InQueue \subseteq InQueue' \cup Settled', Settled \subseteq Settled'
      PROVE  (\A n \in taken' : Accounted(n)') /\ Answered'
  <2>1. \A f \in Flight : Aboard(f)' = Aboard(f)
    BY <1>7, CancelledAlong, AlongAboard
  <2>2. \A f \in Flight : flight'[f] # Landed =>
          flight[f] # Landed /\ flight'[f].at = flight[f].at
    BY <1>7, CancelledType
  <2>3. Answered'
    BY <1>1, <1>7, <2>1, <2>2
  <2> QED  BY <1>1, <1>7, <2>1, <2>3
<1>8. CASE Start \/ Stop \/ SignOut
  <2>1. Settled' = Settled /\ InQueue' = InQueue /\ taken' = taken
    BY <1>8 DEF Start, Stop, SignOut, server, Settled, InQueue
  <2> QED  BY <1>7, <1>8, <2>1 DEF Start, Stop, SignOut
<1>9. CASE Destroy
  <2>1. InQueue \in SUBSET Fix /\ "DROPPED" \in Fates \ {"NONE"}
    BY ElementsOf DEF InQueue, TypeOK, Fates
  <2>2. InQueue \subseteq Settled' /\ Settled \subseteq Settled'
    BY <1>9, <2>1, FatedSettles DEF Destroy, TypeOK
  <2> QED  BY <1>7, <1>9, <2>2 DEF Destroy
<1>10. CASE UNCHANGED <<flight, queue, taken, stored, fate>>
  <2>1. /\ InQueue' = InQueue /\ Settled' = Settled
        /\ \A f \in Flight : Aboard(f)' = Aboard(f)
    BY <1>10 DEF InQueue, Settled, Aboard
  <2> QED  BY <1>1, <1>10, <2>1
<1> QED
  BY <1>2, <1>3, <1>4, <1>5, <1>6, <1>8, <1>9, <1>10
  DEF Next, SignIn, Expire, Lapse, Network, vars, phone, server

LEMMA ListenedStep ==
  ASSUME TypeOK, ListenedInv, [Next]_vars
  PROVE  ListenedInv'
<1>0. starts \in Nat /\ \A u \in Upload : u # Landed
  BY UplinkAssumption DEF TypeOK, Upload, Landed
<1>1. ASSUME NEW n \in Fix, Record(n)
      PROVE  ListenedInv'
  <2>1. Append(queue, n) \in Seq(Fix)
    BY AppendDistinct DEF TypeOK
  <2>2. \A m \in Fix : fate'[m] \in {fate[m], "DROPPED"}
    BY <1>1, <2>1, EnqueueKeeps DEF Record, TypeOK
  <2> QED  BY <1>1, <2>2 DEF Record, ListenedInv
<1>2. ASSUME NEW f \in Flight, NEW loop \in BOOLEAN, Take(f, loop)
      PROVE  ListenedInv'
  <2>1. /\ service # "DOWN" /\ UNCHANGED <<service, starts, fate>>
        /\ \A g \in Flight : flight'[g] # Landed => flight'[g].heard \/ flight'[g] = flight[g]
    BY <1>2 DEF Take, server, TypeOK
  <2> QED  BY <2>1 DEF ListenedInv
<1>3. ASSUME NEW f \in Flight, flight[f] # Landed, Serve(f) \/ AskRenewal(f) \/ Renew(f)
      PROVE  ListenedInv'
  <2>1. flight[f] \in Upload
    BY <1>3 DEF TypeOK
  <2>2. /\ UNCHANGED <<service, starts>>
        /\ \A g \in Flight \ {f} : flight'[g] = flight[g]
    BY <1>3, GoesAlong DEF Serve, AskRenewal, Renew, phone
  <2>3. /\ flight'[f].heard = flight[f].heard
        /\ \A n \in Fix : fate'[n] \in {fate[n], "REJECTED", "NONE"}
    <3>1. CASE Serve(f) /\ Ingest(f)
      BY <1>3, <2>1, <3>1, IngestSettles DEF TypeOK, Upload
    <3>2. CASE Serve(f) /\ Refuse(f)
      BY <2>1, <3>2 DEF Refuse, Moved, server, TypeOK, Upload
    <3>3. CASE AskRenewal(f)
      BY <2>1, <3>3 DEF AskRenewal, server, TypeOK, Upload
    <3>4. CASE Renew(f)
      BY <2>1, <3>4 DEF Renew, Moved, server, TypeOK, Upload
    <3> QED  BY <1>3, <3>1, <3>2, <3>3, <3>4 DEF Serve
  <2> QED  BY <1>3, <2>2, <2>3 DEF ListenedInv
<1>4. ASSUME NEW f \in Flight, Confirm(f)
      PROVE  ListenedInv'
  BY <1>4 DEF Confirm, Ended, phone, server, TypeOK, ListenedInv
<1>5. ASSUME NEW f \in Flight, Fail(f)
      PROVE  ListenedInv'
  <2>1. /\ flight[f] # Landed /\ UNCHANGED <<service, starts>>
        /\ \A g \in Flight : flight'[g] # Landed => flight'[g] = flight[g]
    BY <1>5 DEF Fail, Ended, TypeOK
  <2>2. CASE flight[f].heard
    <3>1. Returned(f) \in Seq(Fix)
      BY <2>1, ConcatDistinct DEF Returned, TypeOK, Upload
    <3>2. \A n \in Fix : fate'[n] \in {fate[n], "DROPPED"}
      BY <1>5, <2>2, <3>1, EnqueueKeeps DEF Fail, TypeOK
    <3> QED  BY <2>1, <3>2 DEF ListenedInv
  <2>3. CASE ~flight[f].heard
    BY <2>1, <2>3 DEF ListenedInv
  <2> QED  BY <2>2, <2>3
<1>6. CASE Start
  <2>1. \A f \in Flight : flight'[f] = Landed <=> flight[f] = Landed
    BY <1>6, CancelledType DEF Start
  <2>2. starts' = starts + 1 /\ fate' = fate
    BY <1>6 DEF Start, server
  <2>3. starts' # 0 /\ (starts' = 1 => starts = 0)
    BY <1>0, <2>2
  <2>4. starts = 0 => \A f \in Flight : flight'[f] = Landed
    BY <2>1 DEF ListenedInv
  <2> QED  BY <2>2, <2>3, <2>4 DEF ListenedInv
<1>7. CASE Stop \/ Destroy
  BY <1>7 DEF Stop, Destroy, ListenedInv
<1>8. CASE SignOut
  <2>1. CASE service = "UP"
    BY <1>8, <2>1 DEF SignOut, ListenedInv
  <2>2. CASE service # "UP"
    <3>1. flight' = flight /\ UNCHANGED <<service, starts, fate>>
      BY <1>8, <2>2 DEF SignOut, Cancelled, server, TypeOK
    <3> QED  BY <2>2, <3>1 DEF ListenedInv
  <2> QED  BY <2>1, <2>2
<1>9. CASE UNCHANGED <<flight, service, starts, fate>>
  BY <1>9 DEF ListenedInv
<1> QED
  BY <1>1, <1>2, <1>3, <1>4, <1>5, <1>6, <1>7, <1>8, <1>9
  DEF Next, SignIn, Expire, Lapse, Network, vars, phone, server

\* A recorded fix is on the queue, under way, or settled, whatever fails, is cancelled or
\* expires in between; and for as long as the service is started once, settled means stored,
\* rejected in an answer, or dropped by an overflow.
THEOREM NoFixVanishes == Spec => []NothingVanishes
<1>1. Init => HereInv /\ ListenedInv
  BY DEF Init, HereInv, ListenedInv, Settled
<1>2. HereInv /\ ListenedInv => NothingVanishes
  BY DEF HereInv, ListenedInv, NothingVanishes
<1> QED  BY <1>1, <1>2, HereStep, ListenedStep, UplinkTypes, PTL DEF Spec

\* A stored fix keeps the driver it was stored under, whoever sends it again.
THEOREM FixIsStoredForGood == Spec => StoredForGood
<1>1. TypeOK /\ [Next]_vars =>
        [\A n \in Fix : stored[n] # Nobody => stored'[n] = stored[n]]_vars
  <2> SUFFICES ASSUME TypeOK, [Next]_vars
               PROVE  [\A n \in Fix : stored[n] # Nobody => stored'[n] = stored[n]]_vars
    OBVIOUS
  <2>1. ASSUME NEW f \in Flight, flight[f] # Landed, Serve(f)
        PROVE  \A n \in Fix : stored[n] # Nobody => stored'[n] = stored[n]
    <3>1. CASE Ingest(f)
      BY <2>1, <3>1, IngestSettles
    <3>2. CASE Refuse(f)
      BY <3>2 DEF Refuse, server
    <3> QED  BY <2>1, <3>1, <3>2 DEF Serve
  <2>2. CASE stored' = stored
    BY <2>2
  <2> QED
    BY <2>1, <2>2 DEF Next, Record, Take, AskRenewal, Renew, Confirm, Fail, Start, Stop,
                      Destroy, SignIn, SignOut, Expire, Lapse, Network, vars, server
<1> QED  BY <1>1, UplinkTypes, PTL DEF Spec, StoredForGood

-----------------------------------------------------------------------------
(* Reports.                                                                 *)

\* A report past its second commit has its incident, and so has the event of a marker;
\* an incident that does not exist has no cause.
CausedInv ==
  /\ \A r \in Report : report[r] \in {"CREATED", "REGISTERED"} => Registered(r)
  /\ \A r \in Report : EventOf[r] \in markers \/ report[r] = "DUPLICATE" =>
       \E q \in Report : EventOf[q] = EventOf[r] /\ Registered(q)
  /\ \A i \in Incident : incident[i] = "NONE" => cause[i] = NoReport

LEMMA RecordsStep ==
  ASSUME RecordsOK, [RecordStep]_records
  PROVE  RecordsOK'
<1> USE BreakdownsAssumption DEF RecordsOK, ReportState, IncidentState, To
<1>1. ASSUME NEW r \in Report, ReportStep(r)
      PROVE  RecordsOK'
  <2>1. CASE Find(r) \/ Look(r) \/ Flag(r)
    BY <2>1 DEF Find, Look, Flag
  <2>2. CASE Mark(r)
    BY <2>2 DEF Mark, Marked
  <2>3. CASE \E i \in Incident : Create(r, i)
    BY <2>3 DEF Create
  <2> QED  BY <1>1, <2>1, <2>2, <2>3 DEF ReportStep
<1>2. ASSUME NEW r \in Report, Crash(r)
      PROVE  RecordsOK'
  BY <1>2 DEF Crash
<1>3. ASSUME NEW i \in Incident, Advance(i) \/ MoveOffer(i) \/ StandDown(i)
      PROVE  RecordsOK'
  BY <1>3 DEF Advance, MoveOffer, StandDown
<1>4. CASE UNCHANGED records
  BY <1>4 DEF records
<1> QED  BY <1>1, <1>2, <1>3, <1>4 DEF RecordStep

LEMMA CausedStep ==
  ASSUME RecordsOK, CausedInv, [RecordStep]_records
  PROVE  CausedInv'
<1> USE DEF RecordsOK
<1>1. ASSUME \A r \in Report : Registered(r) => Registered(r)',
             \A r \in Report : report'[r] \in {"CREATED", "REGISTERED"} => Registered(r)',
             \A r \in Report : EventOf[r] \in markers' \/ report'[r] = "DUPLICATE" =>
               \/ EventOf[r] \in markers \/ report[r] = "DUPLICATE"
               \/ \E q \in Report : EventOf[q] = EventOf[r] /\ Registered(q)',
             \A i \in Incident : incident'[i] = "NONE" => cause'[i] = NoReport
      PROVE  CausedInv'
  BY <1>1 DEF CausedInv
<1>2. ASSUME NEW r \in Report, Find(r) \/ Look(r) \/ Flag(r) \/ Mark(r) \/ Crash(r)
      PROVE  CausedInv'
  <2>1. /\ UNCHANGED <<cause, incident>>
        /\ \A q \in Report : Registered(q)' <=> Registered(q)
    BY <1>2 DEF Find, Look, Flag, Mark, Crash, Registered
  <2>2. \A q \in Report : report'[q] \in {"CREATED", "REGISTERED"} =>
          report[q] \in {"CREATED", "REGISTERED"}
    BY <1>2 DEF Find, Look, Flag, Mark, Marked, Crash, To
  <2>3. \A q \in Report : report'[q] = "DUPLICATE" =>
          report[q] = "DUPLICATE" \/ EventOf[q] \in markers
    BY <1>2 DEF Find, Look, Flag, Mark, Marked, Crash, To
  <2>4. \A q \in Report : EventOf[q] \in markers' =>
          EventOf[q] \in markers \/ (EventOf[q] = EventOf[r] /\ report[r] = "CREATED")
    BY <1>2 DEF Find, Look, Flag, Mark, Marked, Crash
  <2> QED  BY <1>1, <2>1, <2>2, <2>3, <2>4 DEF CausedInv
<1>3. ASSUME NEW r \in Report, NEW i \in Incident, Create(r, i)
      PROVE  CausedInv'
  <2>1. /\ cause' = [cause EXCEPT ![i] = r] /\ report' = [report EXCEPT ![r] = "CREATED"]
        /\ incident' = [incident EXCEPT ![i] = "REPORTED"]
        /\ markers' = markers
        /\ cause[i] = NoReport
    BY <1>3 DEF Create, To, CausedInv
  <2>2. \A q \in Report : Registered(q) => Registered(q)'
    BY <2>1, BreakdownsAssumption DEF Registered, NoReport
  <2>3. Registered(r)'
    BY <2>1 DEF Registered
  <2> QED  BY <1>1, <2>1, <2>2, <2>3 DEF CausedInv
<1>4. ASSUME NEW i \in Incident, Advance(i) \/ MoveOffer(i) \/ StandDown(i)
      PROVE  CausedInv'
  <2>1. UNCHANGED <<cause, markers, report>> /\ \A q \in Report : Registered(q)' <=> Registered(q)
    BY <1>4 DEF Advance, MoveOffer, StandDown, Registered
  <2>2. \A j \in Incident : incident'[j] = "NONE" => incident[j] = "NONE"
    BY <1>4 DEF Advance, MoveOffer, StandDown
  <2> QED  BY <2>1, <2>2 DEF CausedInv
<1>5. CASE UNCHANGED records
  BY <1>5 DEF records, CausedInv, Registered
<1> QED  BY <1>2, <1>3, <1>4, <1>5 DEF RecordStep, ReportStep

\* Types and causes hold for the records by themselves.
LEMMA RecordsHold == RecordsInit /\ [][RecordStep]_records => []RecordsOK /\ []CausedInv
<1>1. RecordsInit => RecordsOK /\ CausedInv
  BY BreakdownsAssumption
  DEF RecordsInit, RecordsOK, CausedInv, ReportState, IncidentState
<1> QED  BY <1>1, RecordsStep, CausedStep, PTL

-----------------------------------------------------------------------------
(* Reports beside a console.                                                *)

CONSTANTS MaxFetch, MaxSpot, ListLimit, AskLimit
VARIABLES spot, board, fetches, answers

\* The console of Console.tla over these records; it has a network of its own.
Desk == INSTANCE Console WITH online <- answers

\* A console only looks: what it does to the records is what Breakdowns does.
LEMMA DeskOnlyLooks == Desk!Spec => RecordsInit /\ [][RecordStep]_records
<1>1. Desk!Init => RecordsInit
  BY DEF Desk!Init, Desk!RecordsInit, RecordsInit, Desk!NoReport, NoReport
<1>2. [Desk!Next]_(Desk!vars) => [RecordStep]_records
  <2> SUFFICES ASSUME [Desk!Next]_(Desk!vars)
               PROVE  RecordStep \/ UNCHANGED records
    OBVIOUS
  <2>1. CASE Desk!RecordStep
    BY <2>1
    DEF Desk!RecordStep, RecordStep, Desk!ReportStep, ReportStep, Desk!Find, Find,
        Desk!Look, Look, Desk!Flag, Flag, Desk!Create, Create, Desk!Mark, Mark,
        Desk!Marked, Marked, Desk!Crash, Crash, Desk!Advance, Advance,
        Desk!MoveOffer, MoveOffer, Desk!StandDown, StandDown, Desk!To, To,
        Desk!Reportable, Reportable, Desk!Open, Open
  <2>2. CASE UNCHANGED Desk!records
    BY <2>2 DEF Desk!records, records
  <2> QED
    BY <2>1, <2>2
    DEF Desk!Next, Desk!vars, Desk!Drive, Desk!Network, Desk!Patch,
        Desk!AutoRefresh, Desk!Due, Desk!Interesting, Desk!List, Desk!Apply
<1> QED BY <1>1, <1>2, PTL DEF Desk!Spec

\* Who is told that a breakdown is registered, or that the request was a duplicate, can
\* count on its incident, however the handlers of one event overlap and wherever they stop.
THEOREM AnsweredReportsAreRegistered == Desk!Spec => []AnsweredMeansRegistered
<1>1. CausedInv => AnsweredMeansRegistered
  BY DEF CausedInv, AnsweredMeansRegistered
<1> QED  BY <1>1, DeskOnlyLooks, RecordsHold, PTL

\* What is read is a board, and so is what is shown of it.
LEMMA RowsAreABoard ==
  ASSUME Desk!ConsoleAssumption, Desk!TypeOK
  PROVE  /\ [Desk!Blank EXCEPT !.state = Desk!Listed, !.spot = spot] \in Desk!Board
         /\ Desk!Blank \in Desk!Board
         /\ \A rows \in Desk!Board : Desk!Applied(rows) \in Desk!Board
<1> USE DEF Desk!Board, Desk!Blank, Desk!Spot
<1>1. 0 \in 0 .. MaxSpot /\ 0 \in 0 .. MaxOffer
  BY BreakdownsAssumption DEF Desk!ConsoleAssumption
<1>2. Desk!Blank \in Desk!Board
  BY <1>1
<1>3. Desk!Listed \in [Incident -> {"NONE", "OPEN", "CLOSED"}]
  <2>1. ASSUME NEW i \in Incident
        PROVE  ~Desk!Open(i) => incident[i] \in {"NONE", "CLOSED"}
    BY DEF Desk!TypeOK, Desk!RecordsOK, Desk!IncidentState, Desk!Open
  <2> QED  BY <2>1 DEF Desk!Listed
<1>4. [Desk!Blank EXCEPT !.state = Desk!Listed, !.spot = spot] \in Desk!Board
  BY <1>2, <1>3 DEF Desk!TypeOK
<1>5. \A state : Desk!OffersOf(state) \in [Incident -> 0 .. MaxOffer]
  BY <1>1 DEF Desk!OffersOf, Desk!TypeOK, Desk!RecordsOK
<1>6. ASSUME NEW rows \in Desk!Board
      PROVE  Desk!Applied(rows) \in Desk!Board
  BY <1>1, <1>5 DEF Desk!Applied
<1> QED  BY <1>2, <1>4, <1>6

\* The refreshes that remain when one of them ends.
LEMMA OneEnds ==
  ASSUME NEW S, NEW s \in Seq(S), NEW k \in 1 .. Len(s)
  PROVE  /\ s[k] \in S
         /\ Desk!RemoveAt(s, k) \in Seq(S)
         /\ Len(Desk!RemoveAt(s, k)) <= Len(s)
<1>1. Len(s) \in Nat /\ s[k] \in S
  BY LenProperties
<1>2. /\ SubSeq(s, 1, k - 1) \in Seq(S)
      /\ Len(SubSeq(s, 1, k - 1)) = IF 1 <= k - 1 THEN k - 1 ELSE 0
  BY <1>1, SubSeqProperties
<1>3. /\ SubSeq(s, k + 1, Len(s)) \in Seq(S)
      /\ Len(SubSeq(s, k + 1, Len(s))) = IF k + 1 <= Len(s) THEN Len(s) - k ELSE 0
  BY <1>1, SubSeqProperties
<1>4. /\ SubSeq(s, 1, k - 1) \o SubSeq(s, k + 1, Len(s)) \in Seq(S)
      /\ Len(SubSeq(s, 1, k - 1) \o SubSeq(s, k + 1, Len(s))) =
           Len(SubSeq(s, 1, k - 1)) + Len(SubSeq(s, k + 1, Len(s)))
  BY <1>2, <1>3, ConcatProperties
<1>5. Len(SubSeq(s, 1, k - 1)) + Len(SubSeq(s, k + 1, Len(s))) <= Len(s)
  <2>1. ASSUME NEW n \in Nat, NEW i \in 1 .. n
        PROVE  (IF 1 <= i - 1 THEN i - 1 ELSE 0) + (IF i + 1 <= n THEN n - i ELSE 0) <= n
    OBVIOUS
  <2> QED  BY <1>1, <1>2, <1>3, <2>1
<1>6. Desk!RemoveAt(s, k) = SubSeq(s, 1, k - 1) \o SubSeq(s, k + 1, Len(s))
  BY Zenon DEF Desk!RemoveAt
<1>7. Desk!RemoveAt(s, k) \in Seq(S) /\ Len(Desk!RemoveAt(s, k)) <= Len(s)
  BY <1>4, <1>5, <1>6
<1> QED  BY <1>1, <1>7

\* A console step keeps what is shown and what is being read boards of incidents.
LEMMA DeskTypeStep ==
  ASSUME Desk!ConsoleAssumption, Desk!TypeOK, Desk!RecordsOK', [Desk!Next]_(Desk!vars)
  PROVE  Desk!TypeOK'
<1> USE DEF Desk!TypeOK
<1>1. CASE UNCHANGED <<spot, board, fetches, answers>>
  BY <1>1
<1>2. CASE Desk!Drive
  BY <1>2 DEF Desk!ConsoleAssumption, Desk!Drive, Desk!Spot
<1>3. CASE Desk!Network
  BY <1>3 DEF Desk!Network
<1>4. ASSUME NEW p \in 0 .. spot, Desk!Patch(p)
      PROVE  Desk!TypeOK'
  <2>1. p \in Desk!Spot
    BY DEF Desk!ConsoleAssumption, Desk!Spot
  <2> QED  BY <1>4, <2>1 DEF Desk!Patch, Desk!Board
<1>5. CASE Desk!List
  <2>1. PICK rows \in Desk!Board : fetches' = Append(fetches, rows)
    BY <1>5, RowsAreABoard DEF Desk!List
  <2>2. /\ Append(fetches, rows) \in Seq(Desk!Board)
        /\ Len(Append(fetches, rows)) = Len(fetches) + 1 /\ Len(fetches) \in Nat
    BY AppendProperties, LenProperties
  <2>3. Len(fetches) < MaxFetch /\ MaxFetch \in Nat
    BY <1>5 DEF Desk!List, Desk!ConsoleAssumption
  <2> QED  BY <1>5, <2>1, <2>2, <2>3 DEF Desk!List
<1>6. ASSUME NEW k \in 1 .. Len(fetches), Desk!Apply(k)
      PROVE  Desk!TypeOK'
  <2>1. fetches[k] \in Desk!Board /\ board' \in Desk!Board
    BY <1>6, OneEnds, RowsAreABoard DEF Desk!Apply
  <2>2. fetches' \in Seq(Desk!Board) /\ Len(fetches') <= Len(fetches)
    BY <1>6, OneEnds DEF Desk!Apply
  <2>3. Len(fetches') <= MaxFetch
    <3>1. Len(fetches) \in Nat /\ Len(fetches') \in Nat
      BY <2>2, LenProperties
    <3> QED  BY <2>2, <3>1 DEF Desk!ConsoleAssumption
  <2> QED  BY <1>6, <2>1, <2>2, <2>3 DEF Desk!Apply
<1> QED
  BY <1>1, <1>2, <1>3, <1>4, <1>5, <1>6
  DEF Desk!Next, Desk!vars, Desk!AutoRefresh, Desk!Due, Desk!Interesting

\* What a console shows is a board, whatever its refreshes read and lost.
THEOREM BoardsAreTyped ==
  ASSUME Desk!ConsoleAssumption
  PROVE  Desk!Spec => []Desk!TypeOK
<1>1. RecordsOK <=> Desk!RecordsOK
  BY DEF RecordsOK, Desk!RecordsOK, IncidentState, Desk!IncidentState,
         ReportState, Desk!ReportState, NoReport, Desk!NoReport
<1>2. Desk!Init /\ RecordsOK => Desk!TypeOK
  <2> SUFFICES ASSUME Desk!Init, RecordsOK PROVE Desk!TypeOK
    OBVIOUS
  <2>1. fetches \in Seq(Desk!Board) /\ Len(fetches) = 0
    BY EmptySeq DEF Desk!Init
  <2> QED
    BY <1>1, <2>1, BreakdownsAssumption
    DEF Desk!ConsoleAssumption, Desk!Init, Desk!TypeOK, Desk!Blank, Desk!Board, Desk!Spot
<1>3. RecordsOK' <=> Desk!RecordsOK'
  BY DEF RecordsOK, Desk!RecordsOK, IncidentState, Desk!IncidentState,
         ReportState, Desk!ReportState, NoReport, Desk!NoReport
<1>4. Desk!TypeOK /\ RecordsOK' /\ [Desk!Next]_(Desk!vars) => Desk!TypeOK'
  BY <1>3, DeskTypeStep
<1> QED  BY <1>2, <1>4, DeskOnlyLooks, RecordsHold, PTL DEF Desk!Spec
=============================================================================
