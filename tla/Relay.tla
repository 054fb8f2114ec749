-------------------------------- MODULE Relay ---------------------------------
(***************************************************************************)
(* Two switches that reach each other through others: THRelay at the ends, *)
(* THPeerRelay at a via, the peer and connect branches of THLine, and the  *)
(* unreliable channels they run on.  An end asks one or more vias to       *)
(* introduce it; each opens a connect channel to the other end and passes  *)
(* on what comes on either of its two channels.  Over this the ends shake  *)
(* hands for a line of their own, as in LineHandshake.                     *)
(*                                                                         *)
(* The lines between ends and vias are open.  The network delays, reorders *)
(* and, within MaxFaults, loses and repeats packets.                       *)
(***************************************************************************)
EXTENDS PacketCodec, FiniteSets

CONSTANTS Asker, Target,  \* the two ends; the asker is the first to ask
          Vias,           \* switches both may have a line to
          Starts,         \* ids that the asker's lines to the vias have got to
          MaxAsks,        \* bound: times the asker learns of vias
          MaxTold,        \* bound: packets an end sends on the line
          MaxFaults       \* bound: losses, repeats, resets and new via lines

Ends == {Asker, Target}
Other(e) == IF e = Asker THEN Target ELSE Asker

ASSUME EndsDiffer == Asker # Target /\ Ends \cap Vias = {}
ASSUME BoundsAreNat == MaxAsks \in Nat /\ MaxTold \in Nat /\ MaxFaults \in Nat
ASSUME StartsAreOdd == \A n \in Starts : n \in Nat /\ n % 2 = 1

VARIABLES end,     \* end[e]: what e keeps about the other end and the vias
          hub,     \* hub[v]: the peer relays of v
          given,   \* given[v][e]: _nextChannelId of v's line to e
          made,    \* made[e]: the last line e made
          net,     \* the packets on their way
          knows,   \* the vias that have a line to the target
          asks,    \* times the asker learned of vias
          faults   \* faults so far

vars == <<end, hub, given, made, net, knows, asks, faults>>

NoVia == "no via"

\* Mutant: a relay has a channel below every id.
NoRelayBelowZero == [there |-> FALSE, via |-> NoVia, id |-> -1]

NoRelay == [there |-> FALSE, via |-> NoVia, id |-> 0]
NoBody == [type |-> "none"]

FirstAtEnd == 1
FirstAtVia == 2

Stranger(first) ==
  [relay  |-> NoRelay,     \* the identity's relay; id 0 is a channel that is gone
   table  |-> {},          \* the channels to the vias that are in a table
   mine   |-> 0,           \* its current line to the other end, 0 for nil
   theirs |-> 0,           \* the other end's line, 0 until an open came
   job    |-> FALSE,       \* a line job is pending
   told   |-> 0,           \* packets it sent on the line
   heard  |-> {},          \* lines on which a packet of the other end came
   next   |-> [v \in Vias |-> first]]  \* _nextChannelId of its line to v

Init ==
  /\ \E n \in Starts :
       end = [e \in Ends |-> Stranger(IF e = Asker THEN n ELSE FirstAtEnd)]
  /\ hub = [v \in Vias |-> {}]
  /\ given = [v \in Vias |-> [e \in Ends |-> FirstAtVia]]
  /\ made = [e \in Ends |-> 0]
  /\ net = {}
  /\ knows \in SUBSET Vias
  /\ asks = 0 /\ faults = 0

------------------------------------------------------------------------------
(* Packets                                                                 *)

Ask(e, v, id) == [kind |-> "peer", from |-> e, to |-> v, id |-> id]
Connect(v, e, id) == [kind |-> "connect", from |-> v, to |-> e, id |-> id]
EndOf(e, v, id) == [kind |-> "end", from |-> e, to |-> v, id |-> id]
Data(x, y, id, jsonLength, body) ==
  [kind |-> "data", from |-> x, to |-> y, id |-> id,
   data |-> Encode(IdBytes(id), jsonLength, body)]

Open(e, n) == [type |-> "open", from |-> e, line |-> n]
OnLine(e, n) == [type |-> "line", from |-> e, line |-> n]

------------------------------------------------------------------------------
(* An end                                                                  *)

\* attachVia: a peer channel to v, which the relay now uses.  It takes two ids
\* of the line: the second is drawn for the packet and then overwritten.
Attached(i, v) ==
  [i EXCEPT !.table = @ \union {[via |-> v, id |-> i.next[v] + 2,
                                 heard |-> FALSE, current |-> TRUE]},
            !.relay = [there |-> TRUE, via |-> v, id |-> i.next[v] + 2],
            !.next[v] = @ + 4]

\* A relay whose channel is gone attaches to its via again before it sends.
Ready(i) ==
  IF i.relay.there /\ i.relay.id = 0 THEN Attached(i, i.relay.via) ELSE i

\* What sending body over the relay of i puts on the network.
RelaySends(e, i, body) ==
  LET r == Ready(i).relay
  IN IF ~i.relay.there THEN {}
     ELSE {Data(e, r.via, r.id, 0, body)}
          \union (IF i.relay.id = 0 THEN {Ask(e, r.via, r.id)} ELSE {})

\* close of the relay's channel tells its via; the relay itself is let go.
Released(i) ==
  [i EXCEPT !.table = {c \in @ : c.via # i.relay.via \/ c.id # i.relay.id},
            !.relay = NoRelay]
ReleaseSends(e, i) ==
  IF i.relay.id = 0 THEN {} ELSE {EndOf(e, i.relay.via, i.relay.id)}

Closed(i) == [i EXCEPT !.mine = 0, !.theirs = 0]

Fresh(e) == made[e] + 1

\* e is left with i and the packets ms leave.
Becomes(e, i, ms) ==
  /\ end' = [end EXCEPT ![e] = i]
  /\ made' = [made EXCEPT ![e] = IF i.mine > @ THEN i.mine ELSE @]
  /\ net' = ms
  /\ UNCHANGED <<hub, given, knows>>

\* openLine of an identity with vias: all those in S are asked; the relay is
\* left with the last of them.
AskVias(S, last) ==
  /\ asks < MaxAsks
  /\ ~end[Asker].relay.there
  /\ LET i == end[Asker]
         id(v) == i.next[v] + 2
         j == [i EXCEPT !.table = @ \union
                            {[via |-> v, id |-> id(v), heard |-> FALSE,
                              current |-> TRUE] : v \in S},
                        !.relay = [there |-> TRUE, via |-> last, id |-> id(last)],
                        !.job = TRUE,
                        !.next = [v \in Vias |-> IF v \in S THEN @[v] + 4
                                                 ELSE @[v]]]
     IN Becomes(Asker, j, net \union {Ask(Asker, v, id(v)) : v \in S})
  /\ asks' = asks + 1
  /\ UNCHANGED faults

\* The connect branch: a line to the other end is taken for dead with its
\* relay, the connect channel makes a new relay, and openLine a new line.
Connected(e, v, id) ==
  LET i == end[e]
      c == IF i.mine # 0 THEN Released(Closed(i)) ELSE i
  IN [c EXCEPT !.relay = [there |-> TRUE, via |-> v, id |-> id],
               !.table = {[d EXCEPT !.current = FALSE] :
                            d \in {x \in @ : x.via # v \/ x.id # id}}
                         \union {[via |-> v, id |-> id, heard |-> FALSE,
                                  current |-> TRUE]},
               !.mine = Fresh(e), !.job = TRUE]

HandleConnect(e, m, q) ==
  LET i == end[e]
      j == Connected(e, m.from, m.id)
  IN Becomes(e, j, q \union (IF i.mine # 0 THEN ReleaseSends(e, i) ELSE {})
                     \union RelaySends(e, j, Open(e, j.mine)))

\* Mutant: whichever channel is heard last is used.
HeardLast(i, v, id) ==
  LET t == {[c EXCEPT !.heard = @ \/ (c.via = v /\ c.id = id)] : c \in i.table}
      c == CHOOSE c \in t : c.via = v /\ c.id = id
  IN [i EXCEPT !.table = t,
               !.relay = IF c.current /\ @.there
                         THEN [@ EXCEPT !.via = v, !.id = id] ELSE @]

\* Mutant: the relay keeps the channel it has.
HeardNever(i, v, id) ==
  [i EXCEPT !.table = {[c EXCEPT !.heard = @ \/ (c.via = v /\ c.id = id)] :
                         c \in i.table}]

\* A packet came on channel id from v: the relay takes to that channel unless
\* the one it uses has been heard on.
Heard(i, v, id) ==
  LET t == {[c EXCEPT !.heard = @ \/ (c.via = v /\ c.id = id)] : c \in i.table}
      c == CHOOSE c \in t : c.via = v /\ c.id = id
      silent == ~\E d \in t : d.via = i.relay.via /\ d.id = i.relay.id /\ d.heard
  IN [i EXCEPT !.table = t,
               !.relay = IF c.current /\ @.there /\ silent
                         THEN [@ EXCEPT !.via = v, !.id = id] ELSE @]

\* The packet that was relayed is the switch's to handle: an open of the other
\* end's line n, or a packet for a line of this end.
HandleRelayed(e, i, p, q) ==
  LET answers == i.job /\ i.mine # 0
      j == [i EXCEPT !.mine = IF @ = 0 THEN Fresh(e) ELSE @,
                     !.theirs = p.line, !.job = FALSE]
  IN IF p.type = "open" /\ ~(i.mine # 0 /\ p.line <= i.theirs)
     THEN IF answers THEN Becomes(e, j, q)
          ELSE Becomes(e, Ready(j), q \union RelaySends(e, j, Open(e, j.mine)))
     ELSE IF p.type = "line" /\ i.theirs # 0 /\ p.line = i.mine
     THEN Becomes(e, [i EXCEPT !.heard = @ \union {p.line}], q)
     ELSE Becomes(e, i, q)

Known(e, m) == \E c \in end[e].table : c.via = m.from /\ c.id = m.id

\* A packet that does not parse is dropped by the line, one for a channel that
\* is not in the table is taken for a spurious one.
HandleData(e, m, q) ==
  IF Parses(m.data) /\ Known(e, m) /\ m.data.body # NoBody
  THEN HandleRelayed(e, Heard(end[e], m.from, m.id), m.data.body, q)
  ELSE Becomes(e, end[e], q)

\* Packets on the line have no other way than the relay.
Tell(e) ==
  LET i == end[e] IN
  /\ i.theirs # 0 /\ i.relay.there
  /\ i.told < MaxTold
  /\ Becomes(e, [Ready(i) EXCEPT !.told = @ + 1],
             net \union RelaySends(e, i, OnLine(e, i.theirs)))
  /\ UNCHANGED <<asks, faults>>

------------------------------------------------------------------------------
(* A via                                                                   *)

\* A channel of a peer relay is "listed" while it is in the table, "loose" when
\* another took its place there, and "ended".
PeerRelay(e, p, c) ==
  [from |-> e, peer |-> p, connect |-> c, peerIs |-> "listed",
   connectIs |-> "listed"]

Displaced(R, e, id) ==
  {IF r.from = e /\ r.peer = id /\ r.peerIs = "listed"
   THEN [r EXCEPT !.peerIs = "loose"] ELSE r : r \in R}

\* Mutant: the connect channel takes an id that the line does not count.
HandlePeerUncounted(v, m, q) ==
  LET o == Other(m.from)
      id == given[v][o] + 2
  IN IF o = Target /\ v \notin knows
     THEN net' = q /\ UNCHANGED <<hub, given>>
     ELSE /\ hub' = [hub EXCEPT ![v] = Displaced(@, m.from, m.id)
                                       \union {PeerRelay(m.from, m.id, id)}]
          /\ net' = q \union {Connect(v, o, id)}
          /\ UNCHANGED given

\* Without a line to the other end there is no answer at all.
HandlePeer(v, m, q) ==
  LET o == Other(m.from)
      id == given[v][o] + 2
  IN IF o = Target /\ v \notin knows
     THEN net' = q /\ UNCHANGED <<hub, given>>
     ELSE /\ hub' = [hub EXCEPT ![v] = Displaced(@, m.from, m.id)
                                       \union {PeerRelay(m.from, m.id, id)}]
          /\ given' = [given EXCEPT ![v][o] = id]
          /\ net' = q \union {Connect(v, o, id)}

OnPeer(r, m) == r.from = m.from /\ r.peer = m.id /\ r.peerIs = "listed"
OnConnect(r, m) ==
  Other(r.from) = m.from /\ r.connect = m.id /\ r.connectIs = "listed"

JsonLength(m) == IF m.kind = "end" THEN EndBytes(m.id) ELSE m.data.header
Body(m) == IF m.kind = "end" THEN NoBody ELSE m.data.body

\* Mutant: what comes on the connect channel is sent back on it.
PassesBack(v, r, m) ==
  {Data(v, Other(r.from), r.connect, JsonLength(m), Body(m))}

\* The body goes out on the other channel, unless that has ended, with the
\* length its json had on the way in.
Passes(v, r, m) ==
  IF OnPeer(r, m)
  THEN IF r.connectIs = "ended" THEN {}
       ELSE {Data(v, Other(r.from), r.connect, JsonLength(m), Body(m))}
  ELSE IF r.peerIs = "ended" THEN {}
       ELSE {Data(v, r.from, r.peer, JsonLength(m), Body(m))}

\* An end is passed on as a packet without content, and ends its own channel.
Ended(r, m) ==
  IF m.kind # "end" THEN r
  ELSE IF OnPeer(r, m) THEN [r EXCEPT !.peerIs = "ended"]
  ELSE [r EXCEPT !.connectIs = "ended"]

HandleAtVia(v, m, q) ==
  LET on == {r \in hub[v] : OnPeer(r, m) \/ OnConnect(r, m)}
  IN /\ hub' = [hub EXCEPT ![v] = (@ \ on) \union {Ended(r, m) : r \in on}]
     /\ net' = q \union UNION {Passes(v, r, m) : r \in on}
     /\ UNCHANGED given

------------------------------------------------------------------------------
(* The network, and what goes wrong                                        *)

\* m arrives; q is what is left on the network.
Arrives(m, q) ==
  \/ /\ m.to \in Vias
     /\ IF m.kind = "peer" THEN HandlePeer(m.to, m, q) ELSE HandleAtVia(m.to, m, q)
     /\ UNCHANGED <<end, made, knows>>
  \/ /\ m.to \in Ends
     /\ IF m.kind = "connect" THEN HandleConnect(m.to, m, q)
        ELSE HandleData(m.to, m, q)

Deliver(m) == Arrives(m, net \ {m}) /\ UNCHANGED <<asks, faults>>

Fault == faults < MaxFaults /\ faults' = faults + 1 /\ UNCHANGED asks

Repeat(m) == Fault /\ Arrives(m, net)

Lose(m) == Fault /\ net' = net \ {m} /\ UNCHANGED <<end, hub, given, made, knows>>

\* The identity of the other end is reset.
Reset(e) ==
  /\ Fault
  /\ end[e].relay.there \/ end[e].mine # 0
  /\ Becomes(e, Closed(Released(end[e])), net \union ReleaseSends(e, end[e]))

Between(m, e, v) == {m.from, m.to} = {e, v}

\* The channels of i to the via v go, and ids start anew.
Renewed(i, v) ==
  [i EXCEPT !.table = {c \in @ : c.via # v},
            !.relay = IF @.via = v THEN [@ EXCEPT !.id = 0] ELSE @,
            !.next[v] = FirstAtEnd]

\* The channels of a peer relay to e are closed.
Dropped(r, e) ==
  [r EXCEPT !.peerIs = IF r.from = e /\ @ = "listed" THEN "ended" ELSE @,
            !.connectIs = IF r.from # e /\ @ = "listed" THEN "ended" ELSE @]

\* e resets the identity of the via v and opens a new line to it, for which v
\* closes its channels to e.
NewViaLine(e, v) ==
  /\ Fault
  /\ e = Target => v \in knows
  /\ end' = [end EXCEPT ![e] = Renewed(end[e], v)]
  /\ hub' = [hub EXCEPT ![v] = {Dropped(r, e) : r \in hub[v]}]
  /\ given' = [given EXCEPT ![v][e] = FirstAtVia]
  /\ net' = {m \in net : ~Between(m, e, v)}
  /\ UNCHANGED <<made, knows>>

Next ==
  \/ \E S \in SUBSET Vias : \E last \in S : AskVias(S, last)
  \/ \E e \in Ends :
       \/ Tell(e)
       \/ Reset(e)
       \/ \E v \in Vias : NewViaLine(e, v)
  \/ \E m \in net : Deliver(m)
  \/ \E m \in net : Repeat(m)
  \/ \E m \in net : Lose(m)

Spec == Init /\ [][Next]_vars /\ WF_vars(\E m \in net : Deliver(m))

------------------------------------------------------------------------------
(* Properties.                                                             *)

Bodies == {NoBody} \union [type : {"open", "line"}, from : Ends, line : Nat]

Packets ==
  [kind : {"peer", "end"}, from : Ends, to : Vias, id : Nat]
    \union [kind : {"connect"}, from : Vias, to : Ends, id : Nat]
    \union [kind : {"data"}, from : Ends \union Vias, to : Ends \union Vias,
            id : Nat, data : [header : Nat, json : Nat, body : Bodies]]

EndStates ==
  [relay : [there : BOOLEAN, via : Vias \union {NoVia}, id : Nat],
   table : SUBSET [via : Vias, id : Nat, heard : BOOLEAN, current : BOOLEAN],
   mine : Nat, theirs : Nat, job : BOOLEAN, told : 0..MaxTold,
   heard : SUBSET Nat, next : [Vias -> Nat]]

Held == {"listed", "loose", "ended"}

PeerRelays ==
  [from : Ends, peer : Nat, connect : Nat, peerIs : Held, connectIs : Held]

\* Ids, lines and lengths are numbers, each channel is with a via, and each
\* peer relay has its two channels (THRelay, THPeerRelay).
TypeOK ==
  /\ end \in [Ends -> EndStates]
  /\ hub \in [Vias -> SUBSET PeerRelays]
  /\ given \in [Vias -> [Ends -> Nat]]
  /\ made \in [Ends -> Nat]
  /\ net \in SUBSET Packets
  /\ knows \in SUBSET Vias
  /\ asks \in 0..MaxAsks /\ faults \in 0..MaxFaults

\* What a via passes on comes out at the other end and never where it came
\* from, whichever end asked, after new lines, resets and copies.
NoEcho ==
  \A m \in net : m.kind = "data" /\ m.to \in Ends
    => m.data.body = NoBody \/ m.data.body.from = Other(m.to)

\* No channel that a peer or a connect packet opens takes the place of another
\* in a table: on each line the next id of either side is free, although the
\* channels of both sides are in one table and attachVia skips ids.
IdsApart ==
  /\ \A e \in Ends : \A c \in end[e].table : c.id # end[e].next[c.via] + 2
  /\ \A v \in Vias : \A r \in hub[v] :
       /\ r.connectIs = "listed" => r.connect # given[v][Other(r.from)] + 2
       /\ r.peerIs = "listed" => r.peer # given[v][r.from] + 2

Mutual ==
  /\ \A e \in Ends : end[e].mine # 0
  /\ end[Asker].theirs = end[Target].mine
  /\ end[Target].theirs = end[Asker].mine

Using(e) == end[e].relay.there /\ end[e].relay.id # 0

\* The channels the two ends use belong to one peer relay of one via.
Paired ==
  LET a == end[Asker].relay
      t == end[Target].relay
  IN /\ a.via = t.via
     /\ \E r \in hub[a.via] :
          \/ r.from = Asker /\ r.peer = a.id /\ r.connect = t.id
          \/ r.from = Target /\ r.peer = t.id /\ r.connect = a.id

\* When all packets have arrived and the ends have a line to each other, they
\* use one via and one relay of it, also when the asker had asked others that
\* it first meant to use, or that introduced it as well, and, when one via
\* alone can have introduced them, also after one fault.  (With two such vias
\* and a new line to one of them, a late packet can move the asker to a relay
\* that the target has left; with one, a second fault can lose the peer packet
\* of an end that has a new line to the via.)
QuietPaired ==
  /\ net = {} /\ Mutual /\ \A e \in Ends : Using(e)
  /\ faults = 0 \/ (faults = 1 /\ Cardinality(knows) = 1)
  => Paired

\* If one of the vias that were asked has a line to the target, the two ends
\* come to a line of their own, whichever via the asker meant to use.
RelayCompletes ==
  (Cardinality(knows) = 1 /\ \E c \in end[Asker].table : c.via \in knows)
    ~> Mutual \/ faults > 0

\* testPacketCreation (telehashTests.m:82) has it that what encode makes of a
\* packet is parsed: so is what a via passes on.
ForwardedParses == \A m \in net : m.kind = "data" => Parses(m.data)

==============================================================================
