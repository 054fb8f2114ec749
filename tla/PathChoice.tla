------------------------------ MODULE PathChoice -------------------------------
(***************************************************************************)
(* The paths of a line: THLine negotiatePath and handlePath, THPathHandler,*)
(* and THIdentity addPath, pathInformationTo and checkPriorityPath.  Each  *)
(* switch tells the other its addresses; what comes back along a path      *)
(* makes it a candidate for the active one.                                *)
(*                                                                         *)
(* A switch has an address within its network (inner) and one outside of   *)
(* it (outer), and a path to the peer leads to one of the two.  The line   *)
(* is open and stays; without an active path its packets go over a relay.  *)
(***************************************************************************)
EXTENDS Integers

CONSTANTS Lower, Upper,  \* the two switches
          Marked,        \* addresses that the code takes for private ones
          MaxAsks,       \* bound: negotiations of both (2 of each after an open)
          MaxFaults      \* bound: packets lost or late

Ends == {Lower, Upper}
Peer(e) == IF e = Lower THEN Upper ELSE Lower
Routes == {"inner", "outer"}
Relayed == "relay"       \* in place of a path: there is none

ASSUME TwoSwitches == Lower # Upper
ASSUME MarkedAreRoutes == Marked \subseteq Routes
ASSUME BoundsAreNat == MaxAsks \in Nat /\ MaxFaults \in Nat

VARIABLES near,    \* the two are in one network: their outer addresses agree
          works,   \* the paths on which packets arrive
          own,     \* own[e]: addresses e knows to be its own
          peer,    \* peer[e]: the identity of the peer, as e keeps it
          asks,    \* asks[e]: negotiations e began
          open,    \* open[e]: those whose channel is open
          net,     \* the packets on their way
          faults   \* packets lost or late so far

vars == <<near, works, own, peer, asks, open, net, faults>>
place == <<near, works>>

Identity ==
  [paths : SUBSET Routes, isLocal : BOOLEAN, active : Routes \union {Relayed},
   priority : [Routes -> 0..2]]

\* A switch knows its inner address from the start.  The line was opened over
\* a path or a relay; paths were added before the switch learned its own outer
\* address, or after.
Init ==
  /\ near \in BOOLEAN
  /\ works \in {w \in SUBSET Routes : "inner" \in w => near}
  /\ own \in [Ends -> {{"inner"}, Routes}]
  /\ peer \in [Ends -> {i \in Identity :
                          /\ i.active \in (i.paths \intersect works) \union {Relayed}
                          /\ i.paths \subseteq {"outer"}
                          /\ i.priority = [r \in Routes |-> 0]}]
  /\ \A e \in Ends : peer[e].isLocal =>
       near /\ "outer" \in own[e] \intersect peer[e].paths
  /\ asks = [e \in Ends |-> 0]
  /\ open = [e \in Ends |-> {}]
  /\ net = {}
  /\ faults = 0

\* addPath for each path of S: one that is not there yet makes the peer local
\* if its address is one of the switch's own.
Added(i, S, mine) ==
  [i EXCEPT !.paths = @ \union S,
            !.isLocal = @ \/ (near /\ "outer" \in (S \ i.paths) \intersect mine)]

\* pathInformationTo: private addresses are for local peers.
Offers(e) == {r \in own[e] : r \in Marked => peer[e].isLocal}

Request(e, id) ==
  [kind |-> "path", from |-> e, id |-> id, over |-> peer[e].active,
   offers |-> Offers(e)]

\* The answer to the negotiation id of e, sent along the path r.
Reply(e, id, r) ==
  [kind |-> "reply", from |-> e, id |-> id, over |-> r, offers |-> {}]

\* negotiatePath, 200 ms and 2.2 s after an open.
Negotiate(e) ==
  /\ asks[Lower] + asks[Upper] < MaxAsks
  /\ asks' = [asks EXCEPT ![e] = @ + 1]
  /\ open' = [open EXCEPT ![e] = @ \union {asks[e] + 1}]
  /\ net' = net \union {Request(e, asks[e] + 1)}
  /\ UNCHANGED <<place, own, peer, faults>>

\* Ten seconds later the channel is closed.  What is still on its way then
\* counts as a fault.
Expire(e, id) ==
  LET late == \E m \in net : m.from = e /\ m.id = id IN
  /\ id \in open[e]
  /\ faults' = IF late THEN faults + 1 ELSE faults
  /\ faults' <= MaxFaults
  /\ open' = [open EXCEPT ![e] = @ \ {id}]
  /\ UNCHANGED <<place, own, peer, asks, net>>

\* handlePath takes the priority from every path.
Unranked(i) == [i EXCEPT !.priority = [r \in Routes |-> 0]]

\* Mutant: adds to the priority the path has.
RankedOn(i, r) ==
  LET p == i.priority[r] + (IF i.isLocal /\ r \in Marked THEN 2 ELSE 1)
      best == IF i.active = Relayed THEN 0 ELSE i.priority[i.active]
  IN [i EXCEPT !.priority[r] = p, !.active = IF p > best THEN r ELSE @]

Rank(i, r) == IF i.isLocal /\ r \in Marked THEN 2 ELSE 1

\* checkPriorityPath: the priority of r afresh, without the 1 its handler
\* added; a path that has more than the active one takes its place.
Ranked(i, r) ==
  LET priority == [i.priority EXCEPT ![r] = Rank(i, r)]
      best == IF i.active = Relayed THEN 0 ELSE priority[i.active]
  IN [i EXCEPT !.priority = priority,
               !.active = IF priority[r] > best THEN r ELSE @]

\* Mutant: a path that is offered is taken for alive.
HandlePathRanking(m) ==
  LET e == Peer(m.from)
      i == Unranked(Added(peer[e], m.offers, own[e]))
  IN /\ peer' = [peer EXCEPT ![e] =
                   IF "outer" \in m.offers THEN Ranked(i, "outer") ELSE i]
     /\ net' = (net \ {m}) \union {Reply(m.from, m.id, r) : r \in i.paths}
     /\ UNCHANGED own

\* Mutant: the paths offered are added after the answers.
HandlePathOnKnown(m) ==
  LET e == Peer(m.from)
  IN /\ peer' = [peer EXCEPT ![e] = Unranked(Added(@, m.offers, own[e]))]
     /\ net' = (net \ {m}) \union {Reply(m.from, m.id, r) : r \in peer[e].paths}
     /\ UNCHANGED own

\* handlePath: the paths offered are added, and an answer goes along each path
\* there is, which it names.
HandlePath(m) ==
  LET e == Peer(m.from)
      i == Added(peer[e], m.offers, own[e])
  IN /\ peer' = [peer EXCEPT ![e] = Unranked(i)]
     /\ net' = (net \ {m}) \union {Reply(m.from, m.id, r) : r \in i.paths}
     /\ UNCHANGED own

\* THPathHandler: the answer tells an address of the switch, and the path it
\* came on is alive.
HandleReply(m) ==
  LET e == m.from
  IN /\ own' = [own EXCEPT ![e] = @ \union {m.over}]
     /\ peer' = [peer EXCEPT ![e] = Ranked(Added(@, {m.over}, own'[e]), m.over)]
     /\ net' = net \ {m}

\* The line refuses an answer whose channel is closed, without effect.
RefuseReply(m) ==
  /\ net' = net \ {m}
  /\ UNCHANGED <<own, peer>>

\* A packet arrives along its path; a relay always works.
Deliver(m) ==
  /\ m.over \in works \union {Relayed}
  /\ \/ m.kind = "path" /\ HandlePath(m)
     \/ m.kind = "reply" /\ m.id \in open[m.from] /\ HandleReply(m)
     \/ m.kind = "reply" /\ m.id \notin open[m.from] /\ RefuseReply(m)
  /\ UNCHANGED <<place, asks, open, faults>>

\* A packet is lost, on a path that does not work or by a fault.
Lose(m) ==
  /\ faults' = IF m.over \in works \union {Relayed} THEN faults + 1 ELSE faults
  /\ faults' <= MaxFaults
  /\ net' = net \ {m}
  /\ UNCHANGED <<place, own, peer, asks, open>>

Next ==
  \/ \E e \in Ends :
       \/ Negotiate(e)
       \/ \E id \in open[e] : Expire(e, id)
  \/ \E m \in net : Deliver(m) \/ Lose(m)

\* Some packet arrives while there is one that can.
Spec == Init /\ [][Next]_vars /\ WF_vars(\E m \in net : Deliver(m))

------------------------------------------------------------------------------
(* Properties.                                                             *)

Message ==
  [kind : {"path", "reply"}, from : Ends, id : 1..MaxAsks,
   over : Routes \union {Relayed}, offers : SUBSET Routes]

\* Identities and packets have the shape the code gives them; a priority is
\* made afresh for each answer and never counts up (checkPriorityPath).
TypeOK ==
  /\ near \in BOOLEAN /\ works \in SUBSET Routes
  /\ own \in [Ends -> SUBSET Routes]
  /\ peer \in [Ends -> Identity]
  /\ asks \in [Ends -> 0..MaxAsks]
  /\ open \in [Ends -> SUBSET (1..MaxAsks)]
  /\ net \in SUBSET Message
  /\ faults \in 0..MaxFaults

\* The active path is one on which something has come from the peer, and no
\* path has a higher priority, however answers, resets of the priorities by
\* the peer's own negotiation, late answers and a peer that turns out to be
\* local mix; without an active path there is none to prefer (handlePath,
\* checkPriorityPath).
ActiveJustified ==
  \A e \in Ends :
    LET i == peer[e] IN
    /\ i.active # Relayed => i.active \in i.paths \intersect works
    /\ \A r \in Routes :
         i.priority[r] <= IF i.active = Relayed THEN 0 ELSE i.priority[i.active]

\* A switch that has told its peer, over a relay if need be, an outer address
\* on which it can be reached and which is not taken for private comes to have
\* an active path to the peer, if nothing is lost or late (negotiatePath,
\* handlePath, THPathHandler).
DirectFound ==
  \A e \in Ends :
    asks[e] > 0 /\ "outer" \in (own[e] \intersect works) \ Marked
      ~> peer[e].active # Relayed \/ faults > 0

==============================================================================
