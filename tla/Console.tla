------------------------------- MODULE Console -------------------------------
(***************************************************************************)
(* One company's operations console: the board it shows                     *)
(* (desktop_app/app.py), kept up by refreshes and by what its live feed     *)
(* delivers (desktop_app/live_feed.py), beside the records of Breakdowns.   *)
(*                                                                          *)
(* A refresh is a thread.  It reads the newest incidents and the fleet,     *)
(* then the offers of the open ones among the first few of that list, and   *)
(* hands all of it to the UI thread.                                        *)
(* Refreshes overlap and are not ordered.  A timer starts one; so does an   *)
(* event, which may come late, out of order, before the commit it tells of, *)
(* twice, or not at all: the feed is any sequence of events.  Gateway has   *)
(* the server's side of it.                                                 *)
(*                                                                          *)
(* Abstracted: of an incident is shown whether it is open and how many      *)
(* changes its offers have seen, of the fleet one truck's position; a       *)
(* refresh starts when it makes its first read; the queue from worker to UI *)
(* thread only delays, and is merged with the thread's end; of an           *)
(* operator's action only the refresh that follows it is here.  The other   *)
(* lists are read and shown like these.  The selected incident and the      *)
(* dialogues are left out.                                                  *)
(***************************************************************************)
EXTENDS Breakdowns, FiniteSets, SequencesExt

CONSTANTS MaxFetch,  \* bound: refreshes under way at once
          MaxSpot,   \* bound: positions of the truck
          ListLimit, \* incidents that are listed
          AskLimit   \* incidents of the list whose offers are asked for

ASSUME ConsoleAssumption ==
  /\ MaxFetch \in Nat /\ MaxSpot \in Nat
  /\ ListLimit \in Nat /\ AskLimit \in Nat

VARIABLES spot,    \* the truck's last position: positions are numbered
          board,   \* what is shown
          fetches, \* what the refreshes under way have read, in the order they did
          online   \* the API answers this console

vars == <<records, spot, board, fetches, online>>

Spot  == 0 .. MaxSpot
\* An incident that is not listed is shown as "NONE"; an incident whose offers and a
\* truck whose position are not known, with 0.
Board == [state : [Incident -> {"NONE", "OPEN", "CLOSED"}],
          offers : [Incident -> 0 .. MaxOffer], spot : Spot]
Blank == [state |-> [i \in Incident |-> "NONE"], offers |-> [i \in Incident |-> 0], spot |-> 0]

\* Of the incidents there are, i is one of the n newest.
Among(n, i, state) == Cardinality({j \in Incident : j > i /\ state[j] # "NONE"}) < n

\* list_company_incidents: the newest first, up to the limit.
Listed ==
  [i \in Incident |-> IF ~Among(ListLimit, i, incident) THEN "NONE"
                     ELSE IF Open(i) THEN "OPEN" ELSE incident[i]]

\* incident_offers of the first of the list, except of those that are over.
OffersOf(state) ==
  [i \in Incident |-> IF state[i] = "OPEN" /\ Among(AskLimit, i, state) THEN offers[i] ELSE 0]

TypeOK ==
  /\ RecordsOK
  /\ spot \in Spot
  /\ board \in Board
  /\ fetches \in Seq(Board)
  /\ Len(fetches) <= MaxFetch
  /\ online \in BOOLEAN

Init ==
  /\ RecordsInit
  /\ spot = 0
  /\ board = Blank
  /\ fetches = <<>>
  /\ online = TRUE

-----------------------------------------------------------------------------
\* The first half of _fetch; a failed call counts as an empty list.
List ==
  /\ Len(fetches) < MaxFetch
  /\ fetches' = Append(fetches, IF online THEN [Blank EXCEPT !.state = Listed, !.spot = spot]
                                        ELSE Blank)
  /\ UNCHANGED <<records, spot, board, online>>

\* Mutant of Due: once there is a feed, the timer is thought unnecessary.
DueUntilFed == board = Blank

\* _auto_refresh: the timer refreshes every REFRESH_INTERVAL_MS, whatever happened.
Due == TRUE

AutoRefresh == Due /\ List

\* _poll_events: an interesting event starts a refresh, and so does _run after an
\* action of the operator.
Interesting == List

\* A telemetry.location event moves the truck on the board in place.
Patch(p) ==
  /\ board' = [board EXCEPT !.spot = p]
  /\ UNCHANGED <<records, spot, fetches, online>>

\* _apply: what was read replaces what is shown, whichever refresh read it.
Applied(rows) ==
  [rows EXCEPT !.offers = IF online THEN OffersOf(rows.state) ELSE Blank.offers]

\* The second half: the offers of the first of those listed, and the end of a refresh,
\* which may not be the one that began first.
Apply(k) ==
  /\ board' = Applied(fetches[k])
  /\ fetches' = RemoveAt(fetches, k)
  /\ UNCHANGED <<records, spot, online>>

Drive ==
  /\ spot < MaxSpot
  /\ spot' = spot + 1
  /\ UNCHANGED <<records, board, fetches, online>>

Network ==
  /\ online' = ~online
  /\ UNCHANGED <<records, spot, board, fetches>>

Next ==
  \/ RecordStep /\ UNCHANGED <<spot, board, fetches, online>>
  \/ Drive \/ Network
  \/ \E p \in 0 .. spot : Patch(p)
  \/ AutoRefresh \/ Interesting
  \/ \E k \in 1 .. Len(fetches) : Apply(k)

\* The timer fires, and of the threads under way one ends in time: every call ends within
\* REQUEST_TIMEOUT.  Nothing is assumed of the feed, nor of which thread ends first.
Fairness ==
  /\ WF_vars(AutoRefresh)
  /\ WF_vars(\E k \in 1 .. Len(fetches) : Apply(k))

Spec == Init /\ [][Next]_vars /\ Fairness

-----------------------------------------------------------------------------
(* Properties.                                                              *)

\* The board agrees with the record, as far as it reaches: every incident within the
\* limit of the list, and the offers of an open one within the limit of those asked for.
CaughtUp ==
  /\ board.spot = spot
  /\ \A i \in Incident :
       /\ Among(ListLimit, i, incident) =>
            board.state[i] = (IF Open(i) THEN "OPEN" ELSE incident[i])
       /\ Open(i) /\ Among(ListLimit, i, incident) /\ Among(AskLimit, i, incident) =>
            board.offers[i] = offers[i]

\* However events are lost, late or out of order, and however refreshes overlap, once
\* the API answers and no event comes any more, the board agrees with the record and
\* stays so.  (The records of an instance change finitely often.)
BoardCatchesUp ==
  <>[]online /\ <>[][~(\E p \in Spot : Patch(p))]_vars => <>[]CaughtUp

\* A claim the code does not keep: "so the console can show both halves of the handshake"
\* (desktop_app/app.py:578), if it is read of every rescue that is open on the board: the
\* offers of an incident beyond the first AskLimit are never asked for.
BothHalvesShown ==
  <>[]online /\ <>[][~(\E p \in Spot : Patch(p))]_vars =>
    <>[](\A i \in Incident : board.state[i] = "OPEN" => board.offers[i] = offers[i])
=============================================================================
