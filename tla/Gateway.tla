------------------------------- MODULE Gateway -------------------------------
(***************************************************************************)
(* The live feed: events on their way from a handler to the sockets of the  *)
(* companies they concern (core_api/app/events/producer.py, the bridge and  *)
(* the endpoint in src/main.py, realtime_gateway/app).                      *)
(*                                                                          *)
(* Every published event has a task of its own, which sends to one room     *)
(* after the other and awaits each send.  So events overtake one another,   *)
(* and sockets come, go, subscribe and break while a broadcast waits.       *)
(*                                                                          *)
(* Abstracted: a payload is the class of keys it is built from (detail); a  *)
(* topic stands for the topics that share a projector; a company has at     *)
(* most one driver with a socket; tokens are valid or not; Kafka, to which  *)
(* publish also sends, has no listener that is started.                     *)
(***************************************************************************)
EXTENDS Naturals, FiniteSets, Sequences

CONSTANTS Company,
          Incident,
          Owner,       \* Incident -> the company whose cargo it is
          Carrier,     \* Incident -> the company whose truck is asked
          Socket,      \* bound: sockets at once
          Principal,   \* Socket -> the identity in its token
          Asked,       \* bound: rooms that clients ask for
          Task         \* bound: events under way at once

ASSUME GatewayAssumption ==
  /\ Owner \in [Incident -> Company]
  /\ Carrier \in [Incident -> Company]
  /\ \A i \in Incident : Carrier[i] # Owner[i]
  /\ Principal \in [Socket -> [company : Company, driver : BOOLEAN]]

VARIABLES handler,  \* Socket -> where its endpoint stands
          wire,     \* Socket -> the connection is up
          live,     \* sockets with a session (_sessions)
          joined,   \* Socket -> the rooms its session lists
          members,  \* Room -> the sockets it lists (_rooms)
          task      \* Task -> an event under way, or Done

vars == <<handler, wire, live, joined, members, task>>

\* A telemetry event is a fix or an alert of the truck that is asked to come; "other" is
\* a topic without a projector.
Topic == {"breakdown.detected", "incident", "offer", "sos", "escrow", "telemetry", "other"}
Event == [topic : Topic, about : Incident]

-----------------------------------------------------------------------------
(* Rooms.                                                                   *)

CompanyRoom(c)  == <<"company", c>>
IncidentRoom(i) == <<"incident", i>>
DriverRoom(c)   == <<"driver", c>>
NetworkRoom     == <<"network", "broadcast">>

Room == {CompanyRoom(c) : c \in Company} \cup {DriverRoom(c) : c \in Company}
          \cup {IncidentRoom(i) : i \in Incident} \cup {NetworkRoom}

BaseRooms(p) ==
  {CompanyRoom(p.company), NetworkRoom} \cup (IF p.driver THEN {DriverRoom(p.company)} ELSE {})

ASSUME AskedAssumption == Asked \subseteq Room

\* Mutant of Authorised: an incident room is given to whoever knows its name.
AuthorisedByName(p, room) == room \in BaseRooms(p) \/ room[1] = "incident"

\* authorise_room: besides its base rooms, the rooms of a company's own incidents.
Authorised(p, room) ==
  \/ room \in BaseRooms(p)
  \/ \E i \in Incident : room = IncidentRoom(i) /\ Owner[i] = p.company

To(room, detail) == [room |-> room, detail |-> detail]

\* _owner_company_for_incident: the company whose cargo it is, by way of the shipment.
OwnerRoom(i) == CompanyRoom(Owner[i])

\* project_breakdown_detected: the network learns that help is wanted, and not by whom.
BreakdownAudience(i) == <<To(OwnerRoom(i), "OWNER"), To(NetworkRoom, "HINT")>>

\* project_incident_state
IncidentAudience(i) == <<To(IncidentRoom(i), "OWNER"), To(OwnerRoom(i), "OWNER")>>

\* project_telemetry_alert, project_telemetry_location: where a truck is, and that it
\* stands still, is for the company that operates it, whoever waits for the truck.
TruckAudience(i) == <<To(CompanyRoom(Carrier[i]), "CARRIER")>>

\* project_escrow_state: who pays and who is paid hear of it, in different detail.
EscrowAudience(i) == <<To(OwnerRoom(i), "OWNER"), To(CompanyRoom(Carrier[i]), "CARRIER")>>

\* project_offer_event: the price is read for the owner, the payout for the carrier.
OfferAudience(i) ==
  <<To(OwnerRoom(i), "OWNER"), To(CompanyRoom(Carrier[i]), "CARRIER"),
    To(DriverRoom(Carrier[i]), "CARRIER")>>

\* project_sos: the company in full, those the fan-out told in redacted form.
SosAudience(i) == <<To(OwnerRoom(i), "OWNER"), To(CompanyRoom(Carrier[i]), "HINT")>>

\* project: which room hears of an event, and in which detail; nobody does of one
\* without a projector.
Audience(e) ==
  CASE e.topic = "breakdown.detected" -> BreakdownAudience(e.about)
    [] e.topic = "incident" -> IncidentAudience(e.about)
    [] e.topic = "offer" -> OfferAudience(e.about)
    [] e.topic = "sos" -> SosAudience(e.about)
    [] e.topic = "escrow" -> EscrowAudience(e.about)
    [] e.topic = "telemetry" -> TruckAudience(e.about)
    [] e.topic = "other" -> <<>>

\* Whom a detail may reach.
Entitled(p, detail, i) ==
  CASE detail = "OWNER"   -> p.company = Owner[i]
    [] detail = "CARRIER" -> p.company = Carrier[i]
    [] detail = "HINT"    -> TRUE

-----------------------------------------------------------------------------
Idle      == [at |-> "NONE"]
Waiting   == [at |-> "AUTH"]
Listening == [at |-> "LOOP"]
Handler   == {Idle, Waiting, Listening} \cup [at : {"ASKING"}, room : Room]

Delivery == [room : Room, detail : {"OWNER", "CARRIER", "HINT"}]
Done     == [at |-> "DONE"]
\* detail: of the delivery being made; left: those after it.  found: the sockets of its
\* room when it was begun; of these, to: still to be sent to, and reached or dead.
Running  == [event : Event, detail : {"OWNER", "CARRIER", "HINT"}, left : Seq(Delivery),
             found : SUBSET Socket, to : SUBSET Socket, reached : SUBSET Socket,
             dead : SUBSET Socket]

TypeOK ==
  /\ handler \in [Socket -> Handler]
  /\ wire \in [Socket -> BOOLEAN]
  /\ live \subseteq Socket
  /\ joined \in [Socket -> SUBSET Room]
  /\ members \in [Room -> SUBSET Socket]
  /\ task \in [Task -> Running \cup {Done}]

Init ==
  /\ handler = [s \in Socket |-> Idle]
  /\ wire = [s \in Socket |-> FALSE]
  /\ live = {}
  /\ joined = [s \in Socket |-> {}]
  /\ members = [r \in Room |-> {}]
  /\ task = [t \in Task |-> Done]

-----------------------------------------------------------------------------
(* The connection manager.                                                  *)

Joining(s, rooms) ==
  /\ joined' = [joined EXCEPT ![s] = joined[s] \cup rooms]
  /\ members' = [r \in Room |-> IF r \in rooms THEN members[r] \cup {s} ELSE members[r]]

\* Mutant of Subscribed: whether the socket still has a session is not asked.
SubscribedAnyway(s, room) ==
  /\ members' = [members EXCEPT ![room] = members[room] \cup {s}]
  /\ joined' = IF s \in live THEN [joined EXCEPT ![s] = joined[s] \cup {room}] ELSE joined
  /\ UNCHANGED live

\* subscribe ignores a socket without a session.
Subscribed(s, room) ==
  IF s \in live THEN Joining(s, {room}) /\ UNCHANGED live
                ELSE UNCHANGED <<joined, members, live>>

\* disconnect, of any number of sockets.
Disconnected(S) ==
  /\ live' = live \ S
  /\ joined' = [s \in Socket |-> IF s \in S THEN {} ELSE joined[s]]
  /\ members' = [r \in Room |-> members[r] \ {s \in S : r \in joined[s]}]

At(s, where) == handler' = [handler EXCEPT ![s] = where]

\* send_to_socket: a failed answer ends the session.
Answered(s) == IF wire[s] THEN UNCHANGED <<live, joined, members>> ELSE Disconnected({s})

Referred(s) == \E t \in Task : task[t] # Done /\ s \in task[t].to \cup task[t].dead

-----------------------------------------------------------------------------
(* The endpoint.                                                            *)

\* A socket object is used again once nothing refers to the one before it.
Connect(s) ==
  /\ handler[s] = Idle
  /\ ~wire[s] /\ ~Referred(s)
  /\ At(s, Waiting)
  /\ wire' = [wire EXCEPT ![s] = TRUE]
  /\ UNCHANGED <<live, joined, members, task>>

\* The first frame: a token gives the socket its base rooms.
Authenticate(s) ==
  /\ handler[s] = Waiting
  /\ wire[s]
  /\ At(s, Listening)
  /\ live' = live \cup {s}
  /\ Joining(s, BaseRooms(Principal[s]))
  /\ UNCHANGED <<wire, task>>

\* No frame within WS_AUTH_TIMEOUT_SECONDS, not a token, or the socket is gone.
Turn(s) ==
  /\ handler[s] = Waiting
  /\ At(s, Idle)
  /\ wire' = [wire EXCEPT ![s] = FALSE]
  /\ UNCHANGED <<live, joined, members, task>>

\* A subscribe frame: the room is looked up before it is given.
Ask(s, room) ==
  /\ handler[s] = Listening
  /\ wire[s]
  /\ At(s, [at |-> "ASKING", room |-> room])
  /\ UNCHANGED <<wire, live, joined, members, task>>

\* The lookup is done.  Subscribing and then failing to say so ends the session; so
\* does failing to refuse.
Grant(s) ==
  /\ handler[s].at = "ASKING"
  /\ IF Authorised(Principal[s], handler[s].room) /\ (wire[s] \/ s \notin live)
     THEN Subscribed(s, handler[s].room)
     ELSE Answered(s)
  /\ At(s, Listening)
  /\ UNCHANGED <<wire, task>>

Unsubscribe(s, room) ==
  /\ handler[s] = Listening
  /\ wire[s]
  /\ s \in live /\ room \in joined[s]
  /\ joined' = [joined EXCEPT ![s] = joined[s] \ {room}]
  /\ members' = [members EXCEPT ![room] = members[room] \ {s}]
  /\ UNCHANGED <<handler, wire, live, task>>

\* The connection breaks; nobody on the server knows yet.
Break(s) ==
  /\ wire[s]
  /\ wire' = [wire EXCEPT ![s] = FALSE]
  /\ UNCHANGED <<handler, live, joined, members, task>>

\* Mutant of Notice: only an orderly close ends the session.
NoticeOnly(s) ==
  /\ handler[s] = Listening
  /\ ~wire[s]
  /\ At(s, Idle)
  /\ UNCHANGED <<wire, live, joined, members, task>>

\* The endpoint reads from a broken socket.
Notice(s) ==
  /\ handler[s] = Listening
  /\ ~wire[s]
  /\ Disconnected({s})
  /\ At(s, Idle)
  /\ UNCHANGED <<wire, task>>

-----------------------------------------------------------------------------
(* The bus.                                                                 *)

Started(e, d, left, found) ==
  [event |-> e, detail |-> d, left |-> left, found |-> found, to |-> found,
   reached |-> {}, dead |-> {}]

\* publish: a task per event, and nothing is awaited.
Publish(e) ==
  /\ \E t \in Task :
       task[t] = Done /\ task' = [task EXCEPT ![t] = Started(e, "HINT", Audience(e), {})]
  /\ UNCHANGED <<handler, wire, live, joined, members>>

\* The end of one room, whose dead sockets are disconnected, and the snapshot of the
\* next.
NextRoom(t) ==
  /\ task[t] # Done
  /\ task[t].to = {}
  /\ Disconnected(task[t].dead)
  /\ task' = [task EXCEPT ![t] =
       IF task[t].left = <<>> THEN Done
       ELSE LET now == Head(task[t].left)
            IN  Started(task[t].event, now.detail, Tail(task[t].left), members'[now.room])]
  /\ UNCHANGED <<handler, wire>>

\* Mutant of AfterDead: a failed send ends the broadcast to the room.
AfterDeadNobody(t, s) == [task[t] EXCEPT !.to = {}, !.dead = task[t].dead \cup {s}]

AfterDead(t, s) == [task[t] EXCEPT !.to = task[t].to \ {s}, !.dead = task[t].dead \cup {s}]

\* One awaited send of send_to_room.
Send(t, s) ==
  /\ task[t] # Done
  /\ s \in task[t].to
  /\ task' = [task EXCEPT ![t] =
       IF wire[s] THEN [task[t] EXCEPT !.to = task[t].to \ {s},
                                       !.reached = task[t].reached \cup {s}]
                  ELSE AfterDead(t, s)]
  /\ UNCHANGED <<handler, wire, live, joined, members>>

Endpoint(s) ==
  \/ Connect(s) \/ Authenticate(s) \/ Turn(s) \/ Break(s) \/ Grant(s) \/ Notice(s)
  \/ \E room \in Asked : Ask(s, room) \/ Unsubscribe(s, room)

Broadcast(t) == NextRoom(t) \/ \E s \in Socket : Send(t, s)

Next ==
  \/ \E e \in Event : Publish(e)
  \/ \E t \in Task : Broadcast(t)
  \/ \E s \in Socket : Endpoint(s)

\* A lookup ends, and reading from a broken socket raises.  Nothing is assumed of a
\* broadcast: a client that stops reading may hold up a send for ever.
Fairness == \A s \in Socket : WF_vars(Grant(s) \/ Notice(s))

Spec == Init /\ [][Next]_vars /\ Fairness

-----------------------------------------------------------------------------
(* Properties.                                                              *)

\* Whatever joins, leaves and breaks while a broadcast or a lookup waits, the two
\* maps of the connection manager agree, and a room lists no socket without a
\* session.
RoomsAgree ==
  /\ \A r \in Room, s \in Socket : s \in members[r] <=> r \in joined[s]
  /\ \A s \in Socket : joined[s] # {} => s \in live

\* "Events are delivered to a room, never to everyone" (connection_manager.py:4): a
\* socket about to be sent a payload belongs to a company entitled to its detail.
WithinAudience ==
  \A t \in Task : task[t] # Done =>
    \A s \in task[t].to : Entitled(Principal[s], task[t].detail, task[t].event.about)

\* One dead socket costs nobody else the message: when a room is done, each socket
\* that was in it has been reached or was found dead.
EveryMemberIsTried ==
  \A t \in Task : task[t] # Done /\ task[t].to = {} =>
    task[t].found = task[t].reached \cup task[t].dead

\* A session does not outlive its connection for ever.
BrokenMeansGone == \A s \in Socket : s \in live /\ ~wire[s] ~> s \notin live
=============================================================================
