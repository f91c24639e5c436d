------------------------------- MODULE Uplink -------------------------------
(***************************************************************************)
(* How a driver's positions reach the server: the queue and the uploads of  *)
(* the Android telemetry service (telemetry/TelemetryService.kt), the quiet *)
(* renewal of an expired session (api/CargoResQApi.kt, Session.kt), and the *)
(* rows the server keeps (services/telemetry/app/ingest.py).                *)
(*                                                                          *)
(* Every recorded fix launches an upload beside the one the five-second     *)
(* loop makes, so several batches may be in flight.  A request travels, is  *)
(* answered or not, and its coroutine takes the batch off the queue before  *)
(* it knows which.  Cancelling a coroutine does not stop its request: the   *)
(* answer finds nobody (heard = FALSE).                                     *)
(*                                                                          *)
(* Abstracted: a fix is a number, in the order recorded; a token is its     *)
(* driver and the era it was issued in, and it expires with the era; an     *)
(* upload fails only for want of a network or of a session the server       *)
(* honours; the upload a fix launches may come as late as it likes; the     *)
(* location providers, the permission dialogues and the notification are    *)
(* left out.                                                                *)
(***************************************************************************)
EXTENDS Naturals, FiniteSets, SequencesExt

CONSTANTS Fix,         \* fixes: 1 .. n, in the order recorded
          Driver,      \* drivers who share the phone
          Flight,      \* bound: uploads under way at once
          BatchSize,   \* BATCH_SIZE
          QueueLimit,  \* QUEUE_LIMIT
          MaxEra,      \* bound: times the access tokens expire
          MaxStarts    \* bound: times the service is started or stopped

Nobody == "nobody"

ASSUME UplinkAssumption ==
  /\ Fix \subseteq Nat
  /\ IsFiniteSet(Fix)
  /\ Nobody \notin Driver
  /\ BatchSize \in Nat \ {0}
  /\ QueueLimit \in Nat \ {0}
  /\ MaxEra \in Nat
  /\ MaxStarts \in Nat

VARIABLES taken,     \* fixes recorded so far
          queue,     \* the service's bounded queue
          flight,    \* Flight -> an upload under way, or Landed
          service,   \* the telemetry service: "DOWN", "UP" or "STOPPING"
          starts,    \* starts and stops so far
          session,   \* the tokens kept for the signed-in driver, or SignedOut
          era,       \* tokens of earlier eras have expired
          online,    \* the phone has a network
          stored,    \* Fix -> the driver the server stored it under, or Nobody
          fate       \* Fix -> what became of a fix that is not stored, or "NONE"

vars == <<taken, queue, flight, service, starts, session, era, online, stored, fate>>

phone  == <<taken, queue, service, starts>>
ground == <<session, era, online>>
server == <<stored, fate>>

\* Rejected by the server; dropped by overflow, or with the service; of a failed upload
\* whose coroutine had been cancelled.
Fates == {"NONE", "REJECTED", "DROPPED", "CANCELLED"}

Token     == [of : Driver, era : 0 .. MaxEra]
SignedOut == [token |-> Nobody]
\* renews: the server still takes the refresh token.
Session   == [token : Token, renews : BOOLEAN]
Landed    == [at |-> "LANDED"]
\* loop: made by the service's loop, not by a recorded fix.
Upload    == [at : {"SENT", "REFUSED", "RENEWED", "RESENT", "STORED"}, batch : Seq(Fix),
              token : Token, loop : BOOLEAN, heard : BOOLEAN]

InQueue   == ToSet(queue)
Aboard(f) == IF flight[f] = Landed THEN {} ELSE ToSet(flight[f].batch)

\* The server has them, or has answered that it does not want them, or they are given up.
Settled   == {n \in Fix : stored[n] # Nobody \/ fate[n] # "NONE"}

TypeOK ==
  /\ taken \subseteq Fix
  /\ queue \in Seq(Fix)
  /\ Len(queue) <= QueueLimit
  /\ flight \in [Flight -> Upload \cup {Landed}]
  /\ service \in {"DOWN", "UP", "STOPPING"}
  /\ starts \in 0 .. MaxStarts
  /\ session \in Session \cup {SignedOut}
  /\ era \in 0 .. MaxEra
  /\ online \in BOOLEAN
  /\ stored \in [Fix -> Driver \cup {Nobody}]
  /\ fate \in [Fix -> Fates]

Init ==
  /\ taken = {} /\ queue = <<>>
  /\ flight = [f \in Flight |-> Landed]
  /\ service = "DOWN" /\ starts = 0
  /\ session = SignedOut /\ era = 0 /\ online = TRUE
  /\ stored = [n \in Fix |-> Nobody] /\ fate = [n \in Fix |-> "NONE"]

-----------------------------------------------------------------------------
(* The queue.                                                               *)

\* Mutant of Kept: one too many is kept.
KeptOver(q) == SubSeq(q, IF Len(q) > QueueLimit + 1 THEN Len(q) - QueueLimit ELSE 1, Len(q))

\* What the limit leaves of a queue: fixes are dropped from its front.
Kept(q) == SubSeq(q, IF Len(q) > QueueLimit THEN Len(q) - QueueLimit + 1 ELSE 1, Len(q))

\* What becomes of some fixes, unless the server has them.
Fated(S, what) ==
  fate' = [n \in Fix |-> IF n \in S /\ stored[n] = Nobody THEN what ELSE fate[n]]

Enqueue(q) ==
  /\ queue' = Kept(q)
  /\ Fated(ToSet(q) \ ToSet(Kept(q)), "DROPPED")

\* record: a fix joins the queue, even when the service is about to end.
Record(n) ==
  /\ service # "DOWN"
  /\ n \notin taken
  /\ \A m \in Fix : m < n => m \in taken
  /\ taken' = taken \cup {n}
  /\ Enqueue(Append(queue, n))
  /\ UNCHANGED <<flight, service, starts, stored, ground>>

-----------------------------------------------------------------------------
(* Uploads.                                                                 *)

\* Mutant of Left: the batch stays on the queue while it is in flight.
LeftInPlace(k) == queue

Left(k) == SubSeq(queue, k + 1, Len(queue))

\* flush: the front of the queue leaves with the token of the moment.  The loop
\* waits for its own upload; those launched by fixes wait for nothing.  Flights are
\* interchangeable: an upload is the first that is free.
Take(f, loop) ==
  /\ flight[f] = Landed
  /\ f = CHOOSE g \in Flight : flight[g] = Landed
  /\ IF loop THEN /\ service = "UP"
                  /\ \A g \in Flight :
                       flight[g] # Landed => ~(flight[g].loop /\ flight[g].heard)
             ELSE service # "DOWN"
  /\ session # SignedOut
  /\ queue # <<>>
  /\ LET k == IF Len(queue) < BatchSize THEN Len(queue) ELSE BatchSize
     IN  /\ flight' = [flight EXCEPT ![f] =
                         [at |-> "SENT", batch |-> SubSeq(queue, 1, k),
                          token |-> session.token, loop |-> loop, heard |-> TRUE]]
         /\ queue' = Left(k)
  /\ UNCHANGED <<taken, service, starts, server, ground>>

Moved(f, to) == flight' = [flight EXCEPT ![f].at = to]
Ended(f)     == flight' = [flight EXCEPT ![f] = Landed]

\* Mutant of Ingested: a repeated fix is stored again, under whoever sent it.
Overwritten(batch, driver, out) ==
  [n \in Fix |-> IF n \in ToSet(batch) \ out THEN driver ELSE stored[n]]

\* The insert ignores the fixes the server already has (uq_ping_device_client_id).
Ingested(batch, driver, out) ==
  [n \in Fix |-> IF n \in ToSet(batch) \ out /\ stored[n] = Nobody
                  THEN driver ELSE stored[n]]

Current(token) == token.era = era

\* ingest_pings answers 200 also for the fixes it rejects: all of them while the driver
\* has no truck, or those of a clock that runs ahead; the phone reads only that it went well.
Ingest(f) ==
  /\ Current(flight[f].token)
  /\ \E out \in SUBSET ToSet(flight[f].batch) :
       /\ stored' = Ingested(flight[f].batch, flight[f].token.of, out)
       /\ fate' = [n \in Fix |-> IF n \notin ToSet(flight[f].batch) \/ stored[n] # Nobody
                                THEN fate[n]
                                ELSE IF n \in out THEN "REJECTED" ELSE "NONE"]
  /\ Moved(f, "STORED")

\* An expired token is answered with 401.
Refuse(f) ==
  /\ flight[f].at = "SENT"
  /\ ~Current(flight[f].token)
  /\ Moved(f, "REFUSED")
  /\ UNCHANGED server

\* The request arrives.
Serve(f) ==
  /\ online
  /\ flight[f].at \in {"SENT", "RESENT"}
  /\ Ingest(f) \/ Refuse(f)
  /\ UNCHANGED <<phone, ground>>

\* Mutant of Renewable: a refused upload is not renewed.
NotRenewable(f) == FALSE

\* renewSession: the refresh token is that of whoever is signed in by now.
Renewable(f) == flight[f].at = "REFUSED" /\ session # SignedOut /\ session.renews

AskRenewal(f) ==
  /\ online
  /\ Renewable(f)
  /\ flight' = [flight EXCEPT ![f].at = "RENEWED",
                              ![f].token = [of |-> session.token.of, era |-> era]]
  /\ UNCHANGED <<server, phone, ground>>

\* updateTokens puts the pair into the session of whoever is signed in by then,
\* and the upload is replayed with that session's token.
Renew(f) ==
  /\ flight[f].at = "RENEWED"
  /\ session # SignedOut
  /\ session' = [session EXCEPT !.token = flight[f].token, !.renews = TRUE]
  /\ Moved(f, "RESENT")
  /\ UNCHANGED <<server, era, online, phone>>

\* The answer reaches the phone.
Confirm(f) ==
  /\ online
  /\ flight[f].at = "STORED"
  /\ Ended(f)
  /\ UNCHANGED <<server, phone, ground>>

\* No network on the way there or back, nobody to renew for, a renewal that is refused, or
\* an upload that is refused twice.
Failing(f) ==
  \/ ~online /\ flight[f].at # "RENEWED"
  \/ session = SignedOut /\ flight[f].at \in {"REFUSED", "RENEWED"}
  \/ online /\ session # SignedOut /\ ~session.renews /\ flight[f].at = "REFUSED"
  \/ online /\ flight[f].at = "RESENT" /\ ~Current(flight[f].token)

\* Mutant of Returned: the batch of a failed upload is not put back.
NotReturned(f) == queue

Returned(f) == flight[f].batch \o queue

\* A failed batch goes back to the front; if its coroutine was cancelled in the
\* meantime, or the service is gone, nobody puts it back.
Fail(f) ==
  /\ flight[f] # Landed
  /\ Failing(f)
  /\ IF flight[f].heard
     THEN Enqueue(Returned(f))
     ELSE Fated(Aboard(f), "CANCELLED") /\ UNCHANGED queue
  /\ Ended(f)
  /\ UNCHANGED <<taken, service, starts, stored, ground>>

-----------------------------------------------------------------------------
(* The service, the session and the world.                                  *)

\* Coroutines that are cancelled: their requests go on unheard.
Cancelled(F) ==
  flight' = [f \in Flight |-> IF f \in F /\ flight[f] # Landed
                             THEN [flight[f] EXCEPT !.heard = FALSE] ELSE flight[f]]

LoopFlights == {f \in Flight : flight[f] # Landed /\ flight[f].loop}

\* startTracking, on the first ACTION_START as on every other.
Start ==
  /\ service # "STOPPING" /\ starts < MaxStarts
  /\ service' = "UP" /\ starts' = starts + 1
  /\ Cancelled(LoopFlights)
  /\ UNCHANGED <<taken, queue, server, ground>>

\* ACTION_STOP: stopTracking and stopSelf.
Stop ==
  /\ service = "UP"
  /\ service' = "STOPPING"
  /\ Cancelled(LoopFlights)
  /\ UNCHANGED <<taken, queue, starts, server, ground>>

\* onDestroy, or the death of the process: the queue is only in memory.
Destroy ==
  /\ service # "DOWN"
  /\ service' = "DOWN"
  /\ queue' = <<>>
  /\ Fated(InQueue, "DROPPED")
  /\ Cancelled(Flight)
  /\ UNCHANGED <<taken, starts, stored, ground>>

SignIn(d) ==
  /\ session = SignedOut
  /\ online
  /\ session' = [token |-> [of |-> d, era |-> era], renews |-> TRUE]
  /\ UNCHANGED <<era, online, flight, server, phone>>

\* signOut: duty stops and the session is cleared; uploads under way go on.
SignOut ==
  /\ session # SignedOut
  /\ session' = SignedOut
  /\ service' = IF service = "UP" THEN "STOPPING" ELSE service
  /\ Cancelled(IF service = "UP" THEN LoopFlights ELSE {})
  /\ UNCHANGED <<taken, queue, starts, server, era, online>>

Expire ==
  /\ era < MaxEra
  /\ era' = era + 1
  /\ UNCHANGED <<session, online, flight, server, phone>>

Network ==
  /\ online' = ~online
  /\ UNCHANGED <<session, era, flight, server, phone>>

\* The refresh token runs out, well after the access token it came with: until the driver
\* signs in again the session is not renewed.  To the phone a driver whose account is no
\* longer active is the same, the access token being refused at once.
Lapse ==
  /\ session # SignedOut
  /\ ~Current(session.token)
  /\ session' = [session EXCEPT !.renews = FALSE]
  /\ UNCHANGED <<era, online, flight, server, phone>>

-----------------------------------------------------------------------------
Next ==
  \/ \E n \in Fix : Record(n)
  \/ \E f \in Flight :
       \/ \E loop \in BOOLEAN : Take(f, loop)
       \/ flight[f] # Landed /\ (Serve(f) \/ AskRenewal(f) \/ Renew(f) \/ Confirm(f))
       \/ Fail(f)
  \/ Start \/ Stop \/ Destroy
  \/ (\E d \in Driver : SignIn(d)) \/ SignOut \/ Expire \/ Lapse \/ Network

\* An upload under way goes on as long as it can, and the loop comes round again
\* whatever an upload did.
Progress(f) ==
  \/ flight[f] # Landed /\ (Serve(f) \/ AskRenewal(f) \/ Renew(f) \/ Confirm(f))
  \/ Fail(f)

Fairness ==
  /\ WF_vars(\E f \in Flight : Take(f, TRUE))
  /\ \A f \in Flight : WF_vars(Progress(f))

Spec == Init /\ [][Next]_vars /\ Fairness

-----------------------------------------------------------------------------
(* Properties.                                                              *)

\* However the uploads overlap, fail and come back, a fix is in one place: once on
\* the queue, or in one upload, or in none.
EachFixOnce ==
  /\ \A i, j \in 1 .. Len(queue) : queue[i] = queue[j] => i = j
  /\ \A f \in Flight :
       /\ Aboard(f) # {} => Cardinality(Aboard(f)) = Len(flight[f].batch)
       /\ Aboard(f) \cap InQueue = {}
       /\ \A g \in Flight \ {f} : Aboard(f) \cap Aboard(g) = {}

\* "So nothing is lost to a transient outage" (TelemetryService.kt:401): a recorded fix is
\* on the queue, under way, or on the server, unless the server has answered that it does
\* not want it, or the phone gave it up by overflow, with the service, or with a coroutine
\* that was cancelled; and no coroutine is, for as long as the service is started once.
NothingVanishes ==
  /\ \A n \in taken : n \in InQueue \cup Settled \/ \E f \in Flight : n \in Aboard(f)
  /\ service = "UP" /\ starts = 1 => \A n \in Fix : fate[n] # "CANCELLED"

\* A retried fix stays the position of the driver whose upload stored it first.
StoredForGood ==
  [][\A n \in Fix : stored[n] # Nobody => stored'[n] = stored[n]]_vars

\* With a network, the service, and a session the server renews for good, every recorded
\* fix is answered for by the server, or has been given up: expired sessions, restarts and
\* failures only delay it.
DrainsWhenOnline ==
  <>[](online /\ service = "UP" /\ session # SignedOut /\ session.renews)
    => []<>(taken \subseteq Settled)
=============================================================================
