--------------------------- MODULE GatewayProofs ---------------------------
(***************************************************************************)
(* What the live feed keeps for any companies, sockets and events: its two  *)
(* maps agree, payloads stay within their audience, and no member of a room *)
(* is passed over.                                                          *)
(*                                                                          *)
(* The rooms come first, as no broadcast is needed to explain them; the     *)
(* broadcasts then rest on the rooms' being given to those entitled only.   *)
(***************************************************************************)
EXTENDS Gateway, TLAPS

\* Whoever is in a room was authorised for it.
Access == \A s \in Socket : \A r \in joined[s] : Authorised(Principal[s], r)

\* A delivery that may be made to whoever is authorised for its room.
Fit(d, i) ==
  \A s \in Socket : Authorised(Principal[s], d.room) => Entitled(Principal[s], d.detail, i)

Planned ==
  \A t \in Task : task[t] # Done =>
    \A k \in 1 .. Len(task[t].left) : Fit(task[t].left[k], task[t].event.about)

\* A member of the room is sent to, reached or dead, at any time.
NobodyLost ==
  \A t \in Task : task[t] # Done =>
    task[t].found = task[t].to \cup task[t].reached \cup task[t].dead

RoomsInv == TypeOK /\ RoomsAgree /\ Access
TasksInv == Planned /\ WithinAudience /\ NobodyLost
IInv     == RoomsInv /\ TasksInv

-----------------------------------------------------------------------------
(* Rooms and audiences.                                                     *)

\* The rooms a token gives are rooms, and it is authorised for them.
LEMMA BaseRoomsAreRooms ==
  ASSUME NEW s \in Socket
  PROVE  /\ BaseRooms(Principal[s]) \subseteq Room
         /\ \A r \in BaseRooms(Principal[s]) : Authorised(Principal[s], r)
BY GatewayAssumption DEF BaseRooms, Room, Authorised

\* Companies are known by the names of their rooms.
LEMMA RoomNames ==
  /\ \A c, d : CompanyRoom(c) = CompanyRoom(d) => c = d
  /\ \A c, d : DriverRoom(c) = DriverRoom(d) => c = d
  /\ \A c, d : IncidentRoom(c) = IncidentRoom(d) => c = d
  /\ \A c, d : CompanyRoom(c) # DriverRoom(d) /\ CompanyRoom(c) # IncidentRoom(d)
               /\ DriverRoom(c) # IncidentRoom(d)
  /\ \A c : CompanyRoom(c) # NetworkRoom /\ DriverRoom(c) # NetworkRoom
            /\ IncidentRoom(c) # NetworkRoom
BY DEF CompanyRoom, DriverRoom, IncidentRoom, NetworkRoom

\* Who is in a company's, a driver's or an incident's room belongs there.
LEMMA RoomOwners ==
  ASSUME NEW s \in Socket, NEW c \in Company, NEW i \in Incident
  PROVE  /\ Authorised(Principal[s], CompanyRoom(c)) => Principal[s].company = c
         /\ Authorised(Principal[s], DriverRoom(c)) => Principal[s].company = c
         /\ Authorised(Principal[s], IncidentRoom(i)) => Principal[s].company = Owner[i]
BY RoomNames DEF Authorised, BaseRooms

\* Every delivery of an event is fit for its room.
LEMMA AudienceIsFit ==
  ASSUME NEW e \in Event
  PROVE  /\ Audience(e) \in Seq(Delivery)
         /\ \A k \in 1 .. Len(Audience(e)) : Fit(Audience(e)[k], e.about)
<1> DEFINE i == e.about
           owner == CompanyRoom(Owner[i])
           carrier == CompanyRoom(Carrier[i])
           driver == DriverRoom(Carrier[i])
<1>1. i \in Incident /\ Owner[i] \in Company /\ Carrier[i] \in Company
  BY GatewayAssumption DEF Event
<1>2. {owner, carrier, driver, IncidentRoom(i), NetworkRoom} \subseteq Room
  BY <1>1 DEF Room
<1>3. /\ Fit(To(owner, "OWNER"), i)
      /\ Fit(To(IncidentRoom(i), "OWNER"), i)
      /\ Fit(To(carrier, "CARRIER"), i)
      /\ Fit(To(driver, "CARRIER"), i)
  BY <1>1, RoomOwners DEF Fit, To, Entitled
<1>4. Fit(To(carrier, "HINT"), i) /\ Fit(To(NetworkRoom, "HINT"), i)
  BY DEF Fit, To, Entitled
<1>5. \A r \in Room, d \in {"OWNER", "CARRIER", "HINT"} : To(r, d) \in Delivery
  BY DEF To, Delivery
<1>6. CASE e.topic = "breakdown.detected"
  <2>1. Audience(e) = <<To(owner, "OWNER"), To(NetworkRoom, "HINT")>>
    BY <1>6 DEF Audience, BreakdownAudience, OwnerRoom
  <2> HIDE DEF i, owner
  <2> QED  BY <2>1, <1>2, <1>3, <1>4, <1>5 DEF i
<1>7. CASE e.topic = "incident"
  <2>1. Audience(e) = <<To(IncidentRoom(i), "OWNER"), To(owner, "OWNER")>>
    BY <1>7 DEF Audience, IncidentAudience, OwnerRoom
  <2> HIDE DEF i, owner
  <2> QED  BY <2>1, <1>2, <1>3, <1>5 DEF i
<1>8. CASE e.topic = "offer"
  <2>1. Audience(e) = <<To(owner, "OWNER"), To(carrier, "CARRIER"), To(driver, "CARRIER")>>
    BY <1>8 DEF Audience, OfferAudience, OwnerRoom
  <2> HIDE DEF i, owner, carrier, driver
  <2> QED  BY <2>1, <1>2, <1>3, <1>5 DEF i
<1>9. CASE e.topic = "sos"
  <2>1. Audience(e) = <<To(owner, "OWNER"), To(carrier, "HINT")>>
    BY <1>9 DEF Audience, SosAudience, OwnerRoom
  <2> HIDE DEF i, owner, carrier
  <2> QED  BY <2>1, <1>2, <1>3, <1>4, <1>5 DEF i
<1>10. CASE e.topic = "escrow"
  <2>1. Audience(e) = <<To(owner, "OWNER"), To(carrier, "CARRIER")>>
    BY <1>10 DEF Audience, EscrowAudience, OwnerRoom
  <2> HIDE DEF i, owner, carrier
  <2> QED  BY <2>1, <1>2, <1>3, <1>5 DEF i
<1>11. CASE e.topic = "telemetry"
  <2>1. Audience(e) = <<To(carrier, "CARRIER")>>
    BY <1>11 DEF Audience, TruckAudience
  <2> HIDE DEF i, carrier
  <2> QED  BY <2>1, <1>2, <1>3, <1>5 DEF i
<1>12. CASE e.topic = "other"
  <2>1. Audience(e) = <<>>
    BY <1>12 DEF Audience
  <2> QED  BY <2>1
<1> QED  BY <1>6, <1>7, <1>8, <1>9, <1>10, <1>11, <1>12 DEF Event, Topic

-----------------------------------------------------------------------------
(* The connection manager.                                                  *)

RoomVars == <<live, joined, members>>

\* What the three operations of the connection manager keep.
Manager ==
  /\ live \subseteq Socket
  /\ joined \in [Socket -> SUBSET Room]
  /\ members \in [Room -> SUBSET Socket]
  /\ RoomsAgree
  /\ Access

LEMMA JoiningKeeps ==
  ASSUME Manager, NEW s \in Socket, NEW rooms \in SUBSET Room,
         \A r \in rooms : Authorised(Principal[s], r),
         Joining(s, rooms), s \in live', live' \subseteq Socket, live \subseteq live'
  PROVE  Manager'
<1>1. joined' \in [Socket -> SUBSET Room] /\ members' \in [Room -> SUBSET Socket]
  BY DEF Manager, Joining
<1>2. \A x \in Socket : joined'[x] = IF x = s THEN joined[x] \cup rooms ELSE joined[x]
  BY DEF Manager, Joining
<1>3. \A r \in Room : members'[r] = IF r \in rooms THEN members[r] \cup {s} ELSE members[r]
  BY DEF Joining
<1>4. RoomsAgree'
  <2>1. ASSUME NEW r \in Room, NEW x \in Socket
        PROVE  x \in members'[r] <=> r \in joined'[x]
    <3>1. x \in members[r] <=> r \in joined[x]
      BY DEF Manager, RoomsAgree
    <3>2. CASE r \in rooms /\ x = s
      BY <3>2, <1>2, <1>3
    <3>3. CASE ~(r \in rooms /\ x = s)
      BY <3>1, <3>3, <1>2, <1>3
    <3> QED  BY <3>2, <3>3
  <2>2. ASSUME NEW x \in Socket, joined'[x] # {}
        PROVE  x \in live'
    BY <2>2, <1>2 DEF Manager, RoomsAgree
  <2> QED  BY <2>1, <2>2 DEF RoomsAgree
<1>5. Access'
  BY <1>2 DEF Manager, Access
<1> QED  BY <1>1, <1>4, <1>5 DEF Manager

LEMMA DisconnectingKeeps ==
  ASSUME Manager, NEW S \in SUBSET Socket, Disconnected(S)
  PROVE  Manager'
<1>1. live' = live \ S
  BY DEF Disconnected
<1>2. \A x \in Socket : joined'[x] = IF x \in S THEN {} ELSE joined[x]
  BY DEF Disconnected
<1>3. \A r \in Room : members'[r] = members[r] \ {x \in S : r \in joined[x]}
  BY DEF Disconnected
<1>4. joined' \in [Socket -> SUBSET Room] /\ members' \in [Room -> SUBSET Socket]
  BY DEF Manager, Disconnected
<1>5. RoomsAgree'
  BY <1>1, <1>2, <1>3 DEF Manager, RoomsAgree
<1>6. Access'
  BY <1>2 DEF Manager, Access
<1> QED  BY <1>1, <1>4, <1>5, <1>6 DEF Manager

LEMMA ManagerRests ==
  ASSUME Manager, UNCHANGED RoomVars
  PROVE  Manager'
BY DEF Manager, RoomVars, RoomsAgree, Access

LEMMA AnsweringKeeps ==
  ASSUME Manager, NEW s \in Socket, Answered(s)
  PROVE  Manager'
<1>1. CASE wire[s]
  BY <1>1, ManagerRests DEF Answered, RoomVars
<1>2. CASE ~wire[s]
  BY <1>2, DisconnectingKeeps DEF Answered
<1> QED  BY <1>1, <1>2

\* No step of an endpoint or a broadcast takes the maps apart, or lets anybody in who
\* was not authorised.
LEMMA ManagerKept ==
  ASSUME TypeOK, Manager, [Next]_vars
  PROVE  Manager'
<1>1. CASE UNCHANGED vars
  BY <1>1, ManagerRests DEF vars, RoomVars
<1>2. ASSUME NEW e \in Event, Publish(e)
      PROVE  Manager'
  BY <1>2, ManagerRests DEF Publish, RoomVars
<1>3. ASSUME NEW t \in Task, NextRoom(t)
      PROVE  Manager'
  <2>1. task[t].dead \in SUBSET Socket
    BY <1>3 DEF TypeOK, NextRoom, Running
  <2> QED  BY <1>3, <2>1, DisconnectingKeeps DEF NextRoom
<1>4. ASSUME NEW t \in Task, NEW s \in Socket, Send(t, s)
      PROVE  Manager'
  BY <1>4, ManagerRests DEF Send, RoomVars
<1>5. ASSUME NEW s \in Socket, Connect(s) \/ Turn(s) \/ Break(s) \/ \E r \in Asked : Ask(s, r)
      PROVE  Manager'
  BY <1>5, ManagerRests DEF Connect, Turn, Break, Ask, RoomVars
<1>6. ASSUME NEW s \in Socket, Authenticate(s)
      PROVE  Manager'
  <2>1. /\ Joining(s, BaseRooms(Principal[s])) /\ s \in live'
        /\ live' \subseteq Socket /\ live \subseteq live'
    BY <1>6 DEF Authenticate, Manager
  <2> QED  BY <2>1, BaseRoomsAreRooms, JoiningKeeps
<1>7. ASSUME NEW s \in Socket, Notice(s)
      PROVE  Manager'
  BY <1>7, DisconnectingKeeps DEF Notice
<1>8. ASSUME NEW s \in Socket, Grant(s)
      PROVE  Manager'
  <2> DEFINE room == handler[s].room
             given == Authorised(Principal[s], room) /\ (wire[s] \/ s \notin live)
  <2>1. CASE given /\ s \in live
    <3>1. room \in Room
      BY <2>1, BaseRoomsAreRooms DEF Authorised, Room
    <3>2. Joining(s, {room}) /\ UNCHANGED live
      BY <1>8, <2>1 DEF Grant, Subscribed
    <3> QED  BY <2>1, <3>1, <3>2, JoiningKeeps DEF Manager
  <2>2. CASE given /\ s \notin live
    BY <1>8, <2>2, ManagerRests DEF Grant, Subscribed, RoomVars
  <2>3. CASE ~given
    BY <1>8, <2>3, AnsweringKeeps DEF Grant
  <2> QED  BY <2>1, <2>2, <2>3
<1>9. ASSUME NEW s \in Socket, NEW r \in Asked, Unsubscribe(s, r)
      PROVE  Manager'
  <2>1. live' = live /\ r \in Room
    BY <1>9, AskedAssumption DEF Unsubscribe
  <2>2. \A x \in Socket : joined'[x] = IF x = s THEN joined[x] \ {r} ELSE joined[x]
    BY <1>9 DEF Unsubscribe, Manager
  <2>3. \A q \in Room : members'[q] = IF q = r THEN members[q] \ {s} ELSE members[q]
    BY <1>9 DEF Unsubscribe, Manager
  <2>4. joined' \in [Socket -> SUBSET Room] /\ members' \in [Room -> SUBSET Socket]
    BY <1>9 DEF Unsubscribe, Manager
  <2>5. RoomsAgree'
    <3>1. ASSUME NEW q \in Room, NEW x \in Socket
          PROVE  x \in members'[q] <=> q \in joined'[x]
      <4>1. x \in members[q] <=> q \in joined[x]
        BY DEF Manager, RoomsAgree
      <4>2. CASE q = r
        BY <4>1, <4>2, <2>2, <2>3
      <4>3. CASE q # r
        BY <4>1, <4>3, <2>2, <2>3
      <4> QED  BY <4>2, <4>3
    <3>2. ASSUME NEW x \in Socket, joined'[x] # {}
          PROVE  x \in live'
      BY <3>2, <2>1, <2>2 DEF Manager, RoomsAgree
    <3> QED  BY <3>1, <3>2 DEF RoomsAgree
  <2>6. Access'
    BY <2>2 DEF Manager, Access
  <2> QED  BY <2>1, <2>4, <2>5, <2>6 DEF Manager
<1> QED
  BY <1>1, <1>2, <1>3, <1>4, <1>5, <1>6, <1>7, <1>8, <1>9 DEF Next, Broadcast, Endpoint

-----------------------------------------------------------------------------
(* Broadcasts.                                                              *)

\* What the first and every later room of an event set out with.
LEMMA NextRoomStarts ==
  ASSUME TypeOK, Manager', NEW t \in Task, NextRoom(t), task'[t] # Done
  PROVE  LET now == Head(task[t].left)
         IN  /\ task[t] \in Running /\ task[t].left # <<>> /\ now \in Delivery
             /\ task'[t] = Started(task[t].event, now.detail, Tail(task[t].left),
                                   members'[now.room])
             /\ members'[now.room] \in SUBSET Socket
<1>1. task[t] \in Running
  BY DEF TypeOK, NextRoom
<1>2. task' = [task EXCEPT ![t] =
        IF task[t].left = <<>> THEN Done
        ELSE Started(task[t].event, Head(task[t].left).detail, Tail(task[t].left),
                     members'[Head(task[t].left).room])]
  BY DEF NextRoom
<1>3. task[t].left # <<>>
  BY <1>2 DEF TypeOK
<1>4. Head(task[t].left) \in Delivery
  BY <1>1, <1>3 DEF Running
<1>5. members'[Head(task[t].left).room] \in SUBSET Socket
  BY <1>4 DEF Manager, Delivery
<1> QED  BY <1>1, <1>2, <1>3, <1>4, <1>5 DEF TypeOK

LEMMA TypeKept ==
  ASSUME TypeOK, Manager, [Next]_vars
  PROVE  TypeOK'
<1>1. Manager'
  BY ManagerKept
<1>2. live' \subseteq Socket /\ joined' \in [Socket -> SUBSET Room]
        /\ members' \in [Room -> SUBSET Socket]
  BY <1>1 DEF Manager
<1>3. CASE UNCHANGED vars
  BY <1>3 DEF vars, TypeOK
<1>4. ASSUME NEW e \in Event, Publish(e)
      PROVE  TypeOK'
  <2>1. Started(e, "HINT", Audience(e), {}) \in Running
    BY AudienceIsFit DEF Started, Running
  <2> QED  BY <1>4, <2>1, <1>2 DEF TypeOK, Publish
<1>5. ASSUME NEW t \in Task, NextRoom(t)
      PROVE  TypeOK'
  <2>1. task'[t] # Done => task'[t] \in Running
    <3> SUFFICES ASSUME task'[t] # Done
                 PROVE  task'[t] \in Running
      OBVIOUS
    <3> DEFINE now == Head(task[t].left)
    <3>1. /\ task[t] \in Running /\ task[t].left # <<>> /\ now \in Delivery
          /\ task'[t] = Started(task[t].event, now.detail, Tail(task[t].left),
                                members'[now.room])
          /\ members'[now.room] \in SUBSET Socket
      BY <1>1, <1>5, NextRoomStarts
    <3>2. Tail(task[t].left) \in Seq(Delivery)
      BY <3>1 DEF Running
    <3> QED  BY <3>1, <3>2 DEF Started, Running, Delivery
  <2>2. \A u \in Task \ {t} : task'[u] = task[u]
    BY <1>5 DEF TypeOK, NextRoom
  <2>3. \E x : task' = [task EXCEPT ![t] = x]
    BY <1>5 DEF NextRoom
  <2>4. task' \in [Task -> Running \cup {Done}]
    BY <2>1, <2>2, <2>3 DEF TypeOK
  <2> QED  BY <1>2, <1>5, <2>4 DEF TypeOK, NextRoom
<1>6. ASSUME NEW t \in Task, NEW s \in Socket, Send(t, s)
      PROVE  TypeOK'
  <2>1. task[t] \in Running
    BY <1>6 DEF TypeOK, Send
  <2>2. [task[t] EXCEPT !.to = task[t].to \ {s}, !.reached = task[t].reached \cup {s}] \in Running
    BY <2>1 DEF Running
  <2>3. AfterDead(t, s) \in Running
    BY <2>1 DEF Running, AfterDead
  <2> QED  BY <1>2, <1>6, <2>2, <2>3 DEF TypeOK, Send
<1>7. ASSUME NEW s \in Socket, Endpoint(s)
      PROVE  TypeOK'
  <2>1. UNCHANGED task
    BY <1>7 DEF Endpoint, Connect, Authenticate, Turn, Break, Grant, Notice, Ask, Unsubscribe
  <2>2. wire' \in [Socket -> BOOLEAN]
    BY <1>7 DEF TypeOK, Endpoint, Connect, Authenticate, Turn, Break, Grant, Notice, Ask,
                Unsubscribe
  <2>3. handler' \in [Socket -> Handler]
    BY <1>7, AskedAssumption
       DEF TypeOK, Endpoint, Connect, Authenticate, Turn, Break, Grant, Notice, Ask,
           Unsubscribe, At, Handler, Idle, Waiting, Listening
  <2> QED  BY <1>2, <2>1, <2>2, <2>3 DEF TypeOK
<1> QED  BY <1>3, <1>4, <1>5, <1>6, <1>7 DEF Next, Broadcast

\* A broadcast of one task is no other's affair.
LEMMA TasksKept ==
  ASSUME TypeOK, Manager, TasksInv, [Next]_vars
  PROVE  TasksInv'
<1>1. TypeOK' /\ Manager'
  BY TypeKept, ManagerKept
<1> DEFINE Good(x) ==
             /\ \A k \in 1 .. Len(x.left) : Fit(x.left[k], x.event.about)
             /\ \A s \in x.to : Entitled(Principal[s], x.detail, x.event.about)
             /\ x.found = x.to \cup x.reached \cup x.dead
<1>2. \A t \in Task : task[t] # Done => Good(task[t])
  BY DEF TasksInv, Planned, WithinAudience, NobodyLost
<1>3. SUFFICES \A t \in Task : task'[t] # Done => Good(task'[t])
  BY DEF TasksInv, Planned, WithinAudience, NobodyLost, Fit, Entitled, Authorised
<1>4. CASE UNCHANGED task
  BY <1>2, <1>4
<1>5. ASSUME NEW e \in Event, Publish(e)
      PROVE  \A t \in Task : task'[t] # Done => Good(task'[t])
  <2>1. Good(Started(e, "HINT", Audience(e), {}))
    BY AudienceIsFit DEF Started
  <2> HIDE DEF Good
  <2> QED  BY <1>2, <1>5, <2>1 DEF Publish, TypeOK
<1>6. ASSUME NEW t \in Task, NextRoom(t)
      PROVE  \A u \in Task : task'[u] # Done => Good(task'[u])
  <2>1. ASSUME task'[t] # Done
        PROVE  Good(task'[t])
    <3> DEFINE now  == Head(task[t].left)
               rest == Tail(task[t].left)
    <3>1. /\ task[t] \in Running /\ task[t].left # <<>> /\ now \in Delivery
          /\ task'[t] = Started(task[t].event, now.detail, rest, members'[now.room])
          /\ members'[now.room] \in SUBSET Socket
      BY <1>1, <1>6, <2>1, NextRoomStarts
    <3>2. task[t].left \in Seq(Delivery)
      BY <3>1 DEF Running
    <3>3. task[t] # Done
      BY <1>6 DEF NextRoom
    <3>4. Fit(now, task[t].event.about)
      BY <1>2, <3>1, <3>2, <3>3
    <3>5. \A k \in 1 .. Len(rest) : Fit(rest[k], task[t].event.about)
      <4>1. \A k \in 1 .. Len(rest) : k + 1 \in 1 .. Len(task[t].left)
                                      /\ rest[k] = task[t].left[k + 1]
        BY <3>1, <3>2
      <4> QED  BY <1>2, <3>3, <4>1
    <3>6. \A s \in members'[now.room] : Entitled(Principal[s], now.detail, task[t].event.about)
      <4>1. \A s \in members'[now.room] : s \in Socket /\ now.room \in joined'[s]
        BY <1>1, <3>1 DEF Manager, RoomsAgree, Delivery
      <4>2. \A s \in members'[now.room] : Authorised(Principal[s], now.room)
        BY <1>1, <4>1 DEF Manager, Access
      <4> QED  BY <3>4, <4>1, <4>2 DEF Fit
    <3> HIDE DEF now, rest
    <3> QED  BY <3>1, <3>5, <3>6 DEF Started
  <2>2. \A u \in Task \ {t} : task'[u] = task[u]
    BY <1>6 DEF TypeOK, NextRoom
  <2> HIDE DEF Good
  <2> QED  BY <1>2, <2>1, <2>2
<1>7. ASSUME NEW t \in Task, NEW s \in Socket, Send(t, s)
      PROVE  \A u \in Task : task'[u] # Done => Good(task'[u])
  <2>1. task[t] \in Running /\ task[t] # Done
    BY <1>7 DEF TypeOK, Send
  <2>2. Good(task[t]) /\ s \in task[t].to
    BY <1>2, <1>7, <2>1 DEF Send
  <2>3. Good([task[t] EXCEPT !.to = task[t].to \ {s}, !.reached = task[t].reached \cup {s}])
    BY <2>1, <2>2 DEF Running
  <2>4. Good(AfterDead(t, s))
    BY <2>1, <2>2 DEF Running, AfterDead
  <2> HIDE DEF Good
  <2> QED  BY <1>2, <1>7, <2>3, <2>4 DEF Send, TypeOK
<1>8. ASSUME NEW s \in Socket, Endpoint(s)
      PROVE  UNCHANGED task
  BY <1>8 DEF Endpoint, Connect, Authenticate, Turn, Break, Grant, Notice, Ask, Unsubscribe
<1>9. CASE UNCHANGED vars
  BY <1>4, <1>9 DEF vars
<1> QED  BY <1>4, <1>5, <1>6, <1>7, <1>8, <1>9 DEF Next, Broadcast

-----------------------------------------------------------------------------
(* Theorems.                                                                *)

LEMMA Inductive == Spec => []IInv
<1>1. Init => IInv
  BY DEF Init, IInv, RoomsInv, TasksInv, TypeOK, RoomsAgree, Access, Planned, WithinAudience,
         NobodyLost, Handler, Idle
<1>2. IInv /\ [Next]_vars => IInv'
  <2> SUFFICES ASSUME IInv, [Next]_vars
               PROVE  IInv'
    OBVIOUS
  <2>1. Manager
    BY DEF IInv, RoomsInv, TypeOK, Manager
  <2>2. TypeOK' /\ Manager' /\ TasksInv'
    BY <2>1, TypeKept, ManagerKept, TasksKept DEF IInv, RoomsInv
  <2> QED  BY <2>2 DEF IInv, RoomsInv, Manager
<1> QED  BY <1>1, <1>2, PTL DEF Spec

\* The variables of the gateway keep their types.
THEOREM Types == Spec => []TypeOK
BY Inductive, PTL DEF IInv, RoomsInv

\* The two maps of the connection manager never disagree, whoever joins, leaves and
\* breaks while a broadcast waits for a send or an endpoint for the database.
THEOREM RoomsNeverDisagree == Spec => []RoomsAgree
BY Inductive, PTL DEF IInv, RoomsInv

\* No payload is ever sent to a company that is not entitled to its detail.
THEOREM NobodyOverhears == Spec => []WithinAudience
BY Inductive, PTL DEF IInv, TasksInv

\* A broadcast never passes a member of its room over.
THEOREM NobodyIsPassedOver == Spec => []EveryMemberIsTried
<1>1. IInv => EveryMemberIsTried
  BY DEF IInv, TasksInv, NobodyLost, EveryMemberIsTried, RoomsInv, TypeOK, Running
<1> QED  BY <1>1, Inductive, PTL
=============================================================================
