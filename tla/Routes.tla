------------------------------- MODULE Routes -------------------------------
(***************************************************************************)
(* The fastest way over known positions when the road service is out of     *)
(* reach: matching_engine/app/dijkstra.py.                                  *)
(*                                                                          *)
(* The heap is a set of entries [minutes, at, path]; the code's entry has   *)
(* the kilometres too, and its ties fall by name, here by choice.  Minutes  *)
(* are in tenths.                                                           *)
(***************************************************************************)
EXTENDS Matching, SequencesExt

CONSTANTS MaxEdge,     \* max_edge_km
          Neighbours   \* neighbours_per_node

ASSUME RoutesAssumption == MaxEdge \in Nat /\ Neighbours \in Nat

\* _assumed_speed_kph
AssumedSpeed(km) == CASE km <= 5 -> 22 [] km > 5 /\ km <= 25 -> 35
                      [] km > 25 /\ km <= 80 -> 50 [] OTHER -> 62

EdgeMinutes(p, q) == Scaled(Km[p][q], 600, AssumedSpeed(Km[p][q]))

-----------------------------------------------------------------------------
(* build_graph.                                                             *)

\* The nearest neighbours of a node; equal distances fall by name, here by choice.
Nearest(nodes, p) ==
  LET near == {q \in nodes \ {p} : Km[p][q] <= MaxEdge}
      s    == CHOOSE s \in Listings(near, LAMBDA q, r : Km[p][q] < Km[p][r]) : TRUE
  IN  {s[i] : i \in 1 .. Smaller(Neighbours, Len(s))}

\* If one reaches the other, so does the other.
Edges(nodes) ==
  LET near == [p \in nodes |-> Nearest(nodes, p)]
  IN  {e \in nodes \X nodes : e[2] \in near[e[1]] \/ e[1] \in near[e[2]]}

-----------------------------------------------------------------------------
(* fastest_route: the search is [at, to, edges, heap, best], where best has  *)
(* the places that were reached.                                            *)

Setting(nodes, from, to) ==
  [at |-> "ROUTING", to |-> to, edges |-> Edges(nodes),
   heap |-> {[minutes |-> 0, at |-> from, path |-> <<from>>]},
   best |-> [p \in {from} |-> 0]]

Arrived(search, minutes, path) ==
  [at |-> "ROUTED", to |-> search.to, minutes |-> minutes, path |-> path]

\* The heap is empty: there is no route.
Nowise(search) == Arrived(search, Unknown, <<>>)

Longer(entry, q) ==
  [minutes |-> entry.minutes + EdgeMinutes(entry.at, q), at |-> q,
   path |-> Append(entry.path, q)]

\* The entries pushed from an entry: those that improve on what is known.
Pushed(search, entry) ==
  {Longer(entry, q) : 
     q \in {q \in {e[2] : e \in {e \in search.edges : e[1] = entry.at}} :
              q \in DOMAIN search.best
                => entry.minutes + EdgeMinutes(entry.at, q) < search.best[q]}}

\* The loop goes on without the entry, and with the new ones.
Continued(search, entry, new) ==
  [search EXCEPT !.heap = (search.heap \ {entry}) \cup new,
                 !.best = [p \in DOMAIN search.best \cup {x.at : x \in new} |->
                             IF \E x \in new : x.at = p
                             THEN (CHOOSE x \in new : x.at = p).minutes
                             ELSE search.best[p]]]

\* What an entry leads to; one that was bettered since it was pushed, to nothing.
Followed(search, entry) ==
  IF entry.minutes > search.best[entry.at] THEN {} ELSE Pushed(search, entry)

\* Mutant of Popped: the search ends where the destination is first seen.
PoppedWhenSeen(search, entry) ==
  LET new  == Followed(search, entry)
      seen == {x \in new : x.at = search.to}
  IN  IF seen # {} THEN LET x == CHOOSE x \in seen : TRUE IN Arrived(search, x.minutes, x.path)
      ELSE Continued(search, entry, new)

\* One turn of the loop, for the entry that is popped.
Popped(search, entry) ==
  IF entry.at = search.to THEN Arrived(search, entry.minutes, entry.path)
  ELSE Continued(search, entry, Followed(search, entry))

\* The least entry, or the end of the search.
Turns(search) ==
  IF search.heap = {} THEN {Nowise(search)}
  ELSE {Popped(search, entry) :
          entry \in {x \in search.heap : \A y \in search.heap : x.minutes <= y.minutes}}

-----------------------------------------------------------------------------
(* The reference: every path that visits no place twice.                    *)

PathsTo(nodes, from, to) ==
  LET edges   == Edges(nodes)
      between == UNION {[1 .. n -> nodes] : n \in 0 .. Cardinality(nodes) - 2}
  IN  {s \in {<<from>> \o via \o <<to>> : via \in between} \cup {<<from>>} :
         /\ s[Len(s)] = to
         /\ IsInjective(s)
         /\ \A i \in 1 .. Len(s) - 1 : <<s[i], s[i + 1]>> \in edges}

\* How long a path takes.
Duration(path) == Summed([i \in 1 .. Len(path) - 1 |-> EdgeMinutes(path[i], path[i + 1])])
=============================================================================
