------------------------------ MODULE MCGateway ------------------------------
(***************************************************************************)
(* TLC instances of Gateway: company a has lost a truck, b is asked for     *)
(* one.  An operator of a and a driver of b listen, and ask for the         *)
(* incident's room.                                                         *)
(***************************************************************************)
EXTENDS Gateway, TLC

CONSTANTS a, b, i1, sa, sb, t1, t2

OwnedByA    == [i \in Incident |-> a]
CarriedByB  == [i \in Incident |-> b]
DeskAndCab  == [s \in Socket |-> IF s = sa THEN [company |-> a, driver |-> FALSE]
                                           ELSE [company |-> b, driver |-> TRUE]]
RoomOfI1    == {IncidentRoom(i1)}
=============================================================================
