----------------------------- MODULE Relay_proofs ------------------------------
(***************************************************************************)
(* What holds of relays for every set of vias and every number of faults:  *)
(* the state keeps its types, what a via passes on comes out at the other  *)
(* end, and no channel takes the place of another in a table.  And, as     *)
(* long as no end begins anew and no introduction comes twice, ends that   *)
(* have a line to each other are paired by one peer relay.                 *)
(***************************************************************************)
EXTENDS Relay, TLAPS

Odd(n) == n % 2 = 1
Even(n) == n % 2 = 0

\* An end: a relay it has is with a via, and the ids it gave out on a line are
\* the odd ones up to the last.
EndOk(i) ==
  /\ i \in EndStates
  /\ i.relay.there => i.relay.via \in Vias
  /\ i.relay.id # 0 => i.relay.there
  /\ \A v \in Vias : Odd(i.next[v])
  /\ \A c \in i.table : Odd(c.id) => c.id <= i.next[c.via]

\* A packet: what an end sends is its own, and what it gets is the other's; the
\* ids that peer packets open are odd, those of connect packets even.
Sound ==
  {m \in Packets :
     /\ m.kind = "peer" => Odd(m.id)
     /\ m.kind = "connect" => Even(m.id)
     /\ m.kind = "data" =>
          \/ /\ m.from \in Ends /\ m.to \in Vias
             /\ m.data.body = NoBody \/ m.data.body.from = m.from
          \/ /\ m.from \in Vias /\ m.to \in Ends
             /\ m.data.body = NoBody \/ m.data.body.from = Other(m.to)}

\* A peer relay: its peer channel is the end's, its connect channel the via's.
RelayOk(r, v, g) ==
  /\ r \in PeerRelays
  /\ Odd(r.peer)
  /\ r.connectIs = "listed" => r.connect <= g[Other(r.from)]

HubOk(v, R, g) ==
  /\ g \in [Ends -> Nat]
  /\ \A e \in Ends : Even(g[e])
  /\ \A r \in R : RelayOk(r, v, g)

\* The inductive invariant.
RelayInv ==
  /\ TypeOK
  /\ net \in SUBSET Sound
  /\ \A e \in Ends : EndOk(end[e])
  /\ \A v \in Vias : HubOk(v, hub[v], given[v])

LEMMA OtherEnd ==
  ASSUME NEW e \in Ends
  PROVE  Other(e) \in Ends /\ Other(Other(e)) = e /\ Other(e) # e
BY EndsDiffer DEF Other, Ends

LEMMA NotBoth == Ends \cap Vias = {}
BY EndsDiffer

\* Ids count on by two and stay odd or even.
LEMMA Parity ==
  ASSUME NEW n \in Nat
  PROVE  /\ Odd(n) => Odd(n + 2) /\ Odd(n + 4) /\ ~Even(n)
         /\ Even(n) => Even(n + 2) /\ ~Odd(n)
BY DEF Odd, Even

\* Encoded data has a header and a json length.
LEMMA EncodedData ==
  ASSUME NEW id \in Nat, NEW jsonLength \in Nat, NEW body \in Bodies
  PROVE  /\ Encode(IdBytes(id), jsonLength, body)
              \in [header : Nat, json : Nat, body : Bodies]
         /\ Encode(IdBytes(id), jsonLength, body).body = body
<1>1. IdBytes(id) \in Nat
  BY DEF IdBytes, Digits
<1>2. QED
  BY <1>1 DEF Encode

\* What an end sends on a channel of its own is sound.
LEMMA SentSound ==
  ASSUME NEW e \in Ends, NEW v \in Vias, NEW id \in Nat, NEW body \in Bodies,
         body = NoBody \/ body.from = e
  PROVE  /\ Data(e, v, id, 0, body) \in Sound
         /\ Odd(id) => Ask(e, v, id) \in Sound
         /\ EndOf(e, v, id) \in Sound
<1>1. Data(e, v, id, 0, body) \in Sound
  BY EncodedData DEF Data, Sound, Packets
<1>2. Odd(id) => Ask(e, v, id) \in Sound
  BY DEF Ask, Sound, Packets
<1>3. EndOf(e, v, id) \in Sound
  BY DEF EndOf, Sound, Packets
<1>4. QED
  BY <1>1, <1>2, <1>3

\* What a via sends to an end is sound when it is the other end's.
LEMMA PassedSound ==
  ASSUME NEW v \in Vias, NEW e \in Ends, NEW id \in Nat, NEW n \in Nat,
         NEW body \in Bodies, body = NoBody \/ body.from = Other(e)
  PROVE  /\ Data(v, e, id, n, body) \in Sound
         /\ Even(id) => Connect(v, e, id) \in Sound
<1>1. Data(v, e, id, n, body) \in Sound
  BY EncodedData DEF Data, Sound, Packets
<1>2. Even(id) => Connect(v, e, id) \in Sound
  BY DEF Connect, Sound, Packets
<1>3. QED
  BY <1>1, <1>2

Channels == [via : Vias, id : Nat, heard : BOOLEAN, current : BOOLEAN]
RelayStates == [there : BOOLEAN, via : Vias \union {NoVia}, id : Nat]

\* attachVia keeps an end as it should be, and its id is an odd one.
LEMMA AttachedOk ==
  ASSUME NEW i, EndOk(i), NEW v \in Vias
  PROVE  /\ EndOk(Attached(i, v))
         /\ Attached(i, v).relay = [there |-> TRUE, via |-> v, id |-> i.next[v] + 2]
         /\ i.next[v] + 2 \in Nat /\ Odd(i.next[v] + 2)
         /\ Attached(i, v).mine = i.mine
         /\ Attached(i, v).told = i.told
<1> DEFINE n == i.next[v]
           c == [via |-> v, id |-> n + 2, heard |-> FALSE, current |-> TRUE]
           r == [there |-> TRUE, via |-> v, id |-> n + 2]
           t == i.table \union {c}
           nx == [i.next EXCEPT ![v] = n + 4]
<1>1. /\ i \in EndStates /\ i.next \in [Vias -> Nat] /\ n \in Nat
      /\ i.table \in SUBSET Channels
      /\ Odd(n)
  BY DEF EndOk, EndStates, Channels
<1>2. Odd(n + 2) /\ Odd(n + 4)
  BY <1>1, Parity
<1>3. Attached(i, v) = [i EXCEPT !.table = t, !.relay = r, !.next = nx]
  BY <1>1 DEF Attached, EndStates
<1>4. c \in Channels /\ r \in RelayStates /\ nx \in [Vias -> Nat]
  BY <1>1 DEF Channels, RelayStates
<1>5. \A w \in Vias : Odd(nx[w]) /\ i.next[w] <= nx[w] /\ nx[w] \in Nat
  BY <1>1, <1>2 DEF EndOk
<1>6. \A d \in t : Odd(d.id) => d.id <= nx[d.via]
  <2> TAKE d \in t
  <2>1. CASE d = c
    BY <1>1, <2>1
  <2>2. CASE d \in i.table
    <3>1. d.via \in Vias /\ d.id \in Nat /\ i.next[d.via] \in Nat
      BY <1>1, <2>2 DEF Channels
    <3>2. QED
      BY <1>5, <2>2, <3>1 DEF EndOk
  <2>3. QED
    BY <2>1, <2>2
<1>7. r.there /\ r.via \in Vias
  OBVIOUS
<1> HIDE DEF t, r, nx, c
<1>8. t \in SUBSET Channels
  BY <1>1, <1>4 DEF t
<1>9. /\ Attached(i, v) \in EndStates /\ Attached(i, v).table = t
      /\ Attached(i, v).relay = r /\ Attached(i, v).next = nx
      /\ Attached(i, v).mine = i.mine /\ Attached(i, v).told = i.told
  BY <1>1, <1>3, <1>4, <1>8 DEF EndStates, Channels, RelayStates
<1>10. EndOk(Attached(i, v))
  BY <1>5, <1>6, <1>7, <1>9 DEF EndOk
<1>11. QED
  BY <1>1, <1>2, <1>9, <1>10 DEF r

\* So does sending over the relay, and what it sends is sound.
LEMMA RelaySendsOk ==
  ASSUME NEW e \in Ends, NEW i, EndOk(i), NEW body \in Bodies,
         body = NoBody \/ body.from = e
  PROVE  /\ EndOk(Ready(i))
         /\ Ready(i).mine = i.mine /\ Ready(i).told = i.told
         /\ RelaySends(e, i, body) \in SUBSET Sound
<1>1. /\ i.relay.there => i.relay.via \in Vias
      /\ i.relay.id \in Nat
  BY DEF EndOk, EndStates
<1>2. CASE i.relay.there /\ i.relay.id = 0
  <2> DEFINE v == i.relay.via
  <2>1. v \in Vias /\ Ready(i) = Attached(i, v)
    BY <1>1, <1>2 DEF Ready
  <2> HIDE DEF v
  <2>2. /\ EndOk(Attached(i, v))
        /\ Attached(i, v).relay = [there |-> TRUE, via |-> v, id |-> i.next[v] + 2]
        /\ i.next[v] + 2 \in Nat /\ Odd(i.next[v] + 2)
        /\ Attached(i, v).mine = i.mine /\ Attached(i, v).told = i.told
    BY <2>1, AttachedOk
  <2>3. /\ EndOk(Ready(i)) /\ Ready(i).mine = i.mine /\ Ready(i).told = i.told
        /\ Ready(i).relay.via \in Vias /\ Ready(i).relay.id \in Nat
        /\ Odd(Ready(i).relay.id)
    BY <2>1, <2>2
  <2>4. QED
    BY <2>3, SentSound DEF RelaySends
<1>3. CASE ~(i.relay.there /\ i.relay.id = 0)
  <2>1. Ready(i) = i
    BY <1>3 DEF Ready
  <2>2. QED
    BY <1>1, <1>3, <2>1, SentSound DEF RelaySends
<1>4. QED
  BY <1>2, <1>3

\* A step that leaves an end as it should be and sound packets on their way
\* keeps the invariant.
LEMMA BecomesOk ==
  ASSUME RelayInv, NEW e \in Ends, NEW i, EndOk(i), NEW q \in SUBSET Sound,
         Becomes(e, i, q), asks' \in 0..MaxAsks, faults' \in 0..MaxFaults
  PROVE  RelayInv'
<1>1. /\ end \in [Ends -> EndStates] /\ made \in [Ends -> Nat]
      /\ i \in EndStates /\ i.mine \in Nat
  BY DEF RelayInv, TypeOK, EndOk, EndStates
<1>2. end' = [end EXCEPT ![e] = i] /\ net' = q /\ UNCHANGED <<hub, given, knows>>
  BY DEF Becomes
<1>3. end' \in [Ends -> EndStates]
  BY <1>1, <1>2
<1>4. made' \in [Ends -> Nat]
  BY <1>1 DEF Becomes
<1>5. \A d \in Ends : EndOk(end'[d])
  <2> TAKE d \in Ends
  <2>1. EndOk(end[d])
    BY DEF RelayInv
  <2>2. end'[d] = IF d = e THEN i ELSE end[d]
    BY <1>1, <1>2
  <2>3. QED
    BY <2>1, <2>2
<1>6. q \in SUBSET Packets
  BY DEF Sound
<1>7. TypeOK'
  BY <1>2, <1>3, <1>4, <1>6 DEF RelayInv, TypeOK
<1>8. \A v \in Vias : HubOk(v, hub'[v], given'[v])
  BY <1>2 DEF RelayInv
<1>9. QED
  BY <1>2, <1>5, <1>7, <1>8 DEF RelayInv

\* A relay that is let go leaves the end as it should be, and tells its via.
LEMMA ReleasedOk ==
  ASSUME NEW e \in Ends, NEW i, EndOk(i)
  PROVE  /\ EndOk(Released(i)) /\ Released(i).relay = NoRelay
         /\ EndOk(Released(Closed(i)))
         /\ ReleaseSends(e, i) \in SUBSET Sound
<1>1. ASSUME NEW j, EndOk(j) PROVE EndOk(Released(j)) /\ Released(j).relay = NoRelay
  <2> DEFINE t == {c \in j.table : c.via # j.relay.via \/ c.id # j.relay.id}
  <2>1. Released(j) = [j EXCEPT !.table = t, !.relay = NoRelay]
    BY DEF Released
  <2>2. t \subseteq j.table /\ j \in EndStates
    BY <1>1 DEF EndOk
  <2>3. NoRelay \in RelayStates /\ ~NoRelay.there /\ NoRelay.id = 0
    BY DEF NoRelay, RelayStates
  <2> HIDE DEF t
  <2>4. /\ Released(j) \in EndStates /\ Released(j).table = t
        /\ Released(j).relay = NoRelay /\ Released(j).next = j.next
    BY <2>1, <2>2, <2>3 DEF EndStates, RelayStates
  <2>5. QED
    BY <1>1, <2>2, <2>3, <2>4 DEF EndOk
<1>2. EndOk(Closed(i))
  <2>1. /\ Closed(i) \in EndStates /\ Closed(i).table = i.table
        /\ Closed(i).relay = i.relay /\ Closed(i).next = i.next
    BY DEF Closed, EndOk, EndStates
  <2>2. QED
    BY <2>1 DEF EndOk
<1>3. ReleaseSends(e, i) \in SUBSET Sound
  <2>1. i.relay.id \in Nat /\ (i.relay.id # 0 => i.relay.via \in Vias)
    BY DEF EndOk, EndStates
  <2>2. NoBody \in Bodies
    BY DEF Bodies
  <2>3. QED
    BY <2>1, <2>2, SentSound DEF ReleaseSends
<1>4. QED
  BY <1>1, <1>2, <1>3

\* openLine over vias.
LEMMA AskViasOk ==
  ASSUME RelayInv, NEW S \in SUBSET Vias, NEW last \in S, AskVias(S, last)
  PROVE  RelayInv'
<1> DEFINE i == end[Asker]
           id(v) == i.next[v] + 2
           c(v) == [via |-> v, id |-> id(v), heard |-> FALSE, current |-> TRUE]
           t == i.table \union {c(v) : v \in S}
           r == [there |-> TRUE, via |-> last, id |-> id(last)]
           nx == [v \in Vias |-> IF v \in S THEN i.next[v] + 4 ELSE i.next[v]]
           j == [i EXCEPT !.table = t, !.relay = r, !.job = TRUE, !.next = nx]
           ms == {Ask(Asker, v, id(v)) : v \in S}
<1>1. /\ Asker \in Ends /\ EndOk(i) /\ i \in EndStates
      /\ i.next \in [Vias -> Nat] /\ i.table \in SUBSET Channels
      /\ asks \in 0..MaxAsks /\ faults \in 0..MaxFaults
      /\ net \in SUBSET Sound
  BY DEF RelayInv, TypeOK, EndOk, EndStates, Channels, Ends
<1>2. \A v \in Vias : /\ i.next[v] \in Nat /\ Odd(i.next[v])
                     /\ id(v) \in Nat /\ Odd(id(v)) /\ Odd(i.next[v] + 4)
  BY <1>1, Parity DEF EndOk
<1>3. Becomes(Asker, j, net \union ms)
  <2>1. nx = [v \in Vias |-> IF v \in S THEN i.next[v] + 4 ELSE i.next[v]]
    OBVIOUS
  <2>2. QED
    BY <1>1 DEF AskVias, EndStates
<1>4. asks' \in 0..MaxAsks /\ faults' \in 0..MaxFaults
  BY <1>1, BoundsAreNat DEF AskVias
<1>5. \A v \in S : Ask(Asker, v, id(v)) \in Sound
  <2>1. NoBody \in Bodies
    BY DEF Bodies
  <2>2. QED
    BY <1>1, <1>2, <2>1, SentSound
<1>6. net \union ms \in SUBSET Sound
  BY <1>1, <1>5
<1>7. /\ nx \in [Vias -> Nat]
      /\ \A v \in Vias : Odd(nx[v]) /\ i.next[v] <= nx[v] /\ nx[v] \in Nat
      /\ \A v \in S : id(v) <= nx[v]
  BY <1>2
<1>8. t \in SUBSET Channels
  <2>1. \A v \in S : c(v) \in Channels
    BY <1>2 DEF Channels
  <2> HIDE DEF c
  <2>2. QED
    BY <1>1, <2>1
<1>9. r \in RelayStates /\ r.there /\ r.via \in Vias
  BY <1>2 DEF RelayStates
<1>10. \A d \in t : Odd(d.id) => d.id <= nx[d.via]
  <2> TAKE d \in t
  <2>1. CASE d \in i.table
    <3>1. d.via \in Vias /\ d.id \in Nat /\ i.next[d.via] \in Nat
      BY <1>1, <2>1 DEF Channels
    <3> HIDE DEF nx, i
    <3>2. QED
      BY <1>1, <1>7, <2>1, <3>1 DEF EndOk
  <2>2. ASSUME NEW v \in S, d = c(v) PROVE Odd(d.id) => d.id <= nx[d.via]
    <3>1. d.id = id(v) /\ d.via = v
      BY <2>2
    <3>2. QED
      BY <1>7, <3>1
  <2>3. QED
    BY <2>1, <2>2
<1> HIDE DEF t, r, nx, i
<1>11. /\ j \in EndStates /\ j.table = t /\ j.relay = r /\ j.next = nx
  BY <1>1, <1>7, <1>8, <1>9 DEF EndStates, Channels, RelayStates
<1> HIDE DEF j, ms
<1>12. EndOk(j)
  BY <1>7, <1>9, <1>10, <1>11 DEF EndOk
<1>13. QED
  BY <1>1, <1>3, <1>4, <1>6, <1>12, BecomesOk

\* A connect packet.
LEMMA HandleConnectOk ==
  ASSUME RelayInv, NEW m \in Sound, m.kind = "connect", NEW q \in SUBSET Sound,
         HandleConnect(m.to, m, q), asks' \in 0..MaxAsks, faults' \in 0..MaxFaults
  PROVE  RelayInv'
<1> DEFINE e == m.to
           v == m.from
           i == end[e]
           j == Connected(e, v, m.id)
<1>1. e \in Ends /\ v \in Vias /\ m.id \in Nat /\ Even(m.id)
  BY DEF Sound, Packets
<1>2. EndOk(i) /\ i \in EndStates /\ Fresh(e) \in Nat
  BY <1>1 DEF RelayInv, TypeOK, EndOk, Fresh
<1> HIDE DEF e, v, i
<1> DEFINE k == IF i.mine # 0 THEN Released(Closed(i)) ELSE i
           n == [via |-> v, id |-> m.id, heard |-> FALSE, current |-> TRUE]
           u == {[d EXCEPT !.current = FALSE] :
                   d \in {x \in k.table : x.via # v \/ x.id # m.id}}
           t == u \union {n}
           r == [there |-> TRUE, via |-> v, id |-> m.id]
<1>3. EndOk(k) /\ k \in EndStates /\ k.table \in SUBSET Channels
  <2>1. EndOk(k)
    BY <1>1, <1>2, ReleasedOk
  <2>2. QED
    BY <2>1 DEF EndOk, EndStates, Channels
<1>4. j = [k EXCEPT !.relay = r, !.table = t, !.mine = Fresh(e), !.job = TRUE]
  BY DEF Connected, i
<1> HIDE DEF k, j
<1>5. n \in Channels /\ r \in RelayStates /\ r.there /\ r.via \in Vias
  BY <1>1 DEF Channels, RelayStates
<1>6. \A d \in u : d \in Channels /\ (Odd(d.id) => d.id <= k.next[d.via])
  <2> SUFFICES ASSUME NEW x \in k.table
               PROVE  LET d == [x EXCEPT !.current = FALSE]
                      IN d \in Channels /\ (Odd(d.id) => d.id <= k.next[d.via])
    OBVIOUS
  <2> DEFINE d == [x EXCEPT !.current = FALSE]
  <2>1. d \in Channels /\ d.id = x.id /\ d.via = x.via
    BY <1>3 DEF Channels
  <2>2. QED
    BY <1>3, <2>1 DEF EndOk
<1>7. ~Odd(n.id)
  BY <1>1, Parity
<1> HIDE DEF u, n
<1>8. t \in SUBSET Channels /\ \A d \in t : Odd(d.id) => d.id <= k.next[d.via]
  BY <1>5, <1>6, <1>7
<1> HIDE DEF t, r
<1>9. /\ j \in EndStates /\ j.relay = r /\ j.table = t /\ j.next = k.next
      /\ j.mine \in Nat
  BY <1>2, <1>3, <1>4, <1>5, <1>8 DEF EndStates, Channels, RelayStates
<1>10. EndOk(j)
  BY <1>3, <1>5, <1>8, <1>9 DEF EndOk
<1>11. Open(e, j.mine) \in Bodies /\ Open(e, j.mine).from = e
  BY <1>1, <1>9 DEF Open, Bodies
<1>12. RelaySends(e, j, Open(e, j.mine)) \in SUBSET Sound
  BY <1>1, <1>10, <1>11, RelaySendsOk
<1> DEFINE p == q \union (IF i.mine # 0 THEN ReleaseSends(e, i) ELSE {})
                  \union RelaySends(e, j, Open(e, j.mine))
<1>13. p \in SUBSET Sound
  BY <1>1, <1>2, <1>12, ReleasedOk
<1>14. Becomes(e, j, p)
  BY DEF HandleConnect, e, v, i, j
<1> HIDE DEF p
<1>15. QED
  BY <1>1, <1>10, <1>13, <1>14, BecomesOk

\* A packet on a channel of an end.
LEMMA HeardOk ==
  ASSUME NEW i, EndOk(i), NEW v \in Vias, NEW id \in Nat
  PROVE  EndOk(Heard(i, v, id))
<1> DEFINE h(c) == [c EXCEPT !.heard = @ \/ (c.via = v /\ c.id = id)]
           t == {h(c) : c \in i.table}
           r == [i.relay EXCEPT !.via = v, !.id = id]
           j == Heard(i, v, id)
<1>1. /\ i \in EndStates /\ i.table \in SUBSET Channels
      /\ i.relay \in RelayStates
  BY DEF EndOk, EndStates, Channels, RelayStates
<1>2. \A c \in i.table : h(c) \in Channels /\ h(c).id = c.id /\ h(c).via = c.via
  BY <1>1 DEF Channels
<1>3. r \in RelayStates /\ r.there = i.relay.there /\ r.via = v
  BY <1>1 DEF RelayStates
<1>4. \/ j = [i EXCEPT !.table = t, !.relay = r] /\ i.relay.there
      \/ j = [i EXCEPT !.table = t, !.relay = i.relay]
  BY <1>1 DEF Heard, EndStates
<1> HIDE DEF h, r, j
<1>5. t \in SUBSET Channels /\ \A d \in t : Odd(d.id) => d.id <= i.next[d.via]
  BY <1>1, <1>2 DEF EndOk
<1> HIDE DEF t
<1>6. /\ j \in EndStates /\ j.table = t /\ j.next = i.next
      /\ \/ j.relay = r /\ i.relay.there
         \/ j.relay = i.relay
  BY <1>1, <1>3, <1>4, <1>5 DEF EndStates, Channels, RelayStates
<1>7. EndOk(j)
  BY <1>3, <1>5, <1>6 DEF EndOk
<1>8. QED
  BY <1>7 DEF j

\* What the relay hands to the switch.
LEMMA HandleRelayedOk ==
  ASSUME RelayInv, NEW e \in Ends, NEW i, EndOk(i), NEW p \in Bodies, p # NoBody,
         NEW q \in SUBSET Sound, HandleRelayed(e, i, p, q),
         asks' \in 0..MaxAsks, faults' \in 0..MaxFaults
  PROVE  RelayInv'
<1> DEFINE mine == IF i.mine = 0 THEN Fresh(e) ELSE i.mine
           j == [i EXCEPT !.mine = mine, !.theirs = p.line, !.job = FALSE]
           k == [i EXCEPT !.heard = @ \union {p.line}]
           o == Open(e, j.mine)
<1>1. /\ i \in EndStates /\ mine \in Nat /\ p.line \in Nat
  BY DEF RelayInv, TypeOK, EndOk, EndStates, Fresh, Bodies
<1>2. \/ Becomes(e, j, q)
      \/ Becomes(e, Ready(j), q \union RelaySends(e, j, o))
      \/ Becomes(e, k, q)
      \/ Becomes(e, i, q)
  BY DEF HandleRelayed
<1> HIDE DEF mine
<1>3. /\ j \in EndStates /\ j.relay = i.relay /\ j.table = i.table
      /\ j.next = i.next /\ j.mine \in Nat
  BY <1>1 DEF EndStates
<1>4. EndOk(j)
  BY <1>3 DEF EndOk
<1>5. /\ k \in EndStates /\ k.relay = i.relay /\ k.table = i.table
      /\ k.next = i.next
  BY <1>1 DEF EndStates
<1>6. EndOk(k)
  BY <1>5 DEF EndOk
<1>7. o \in Bodies /\ o.from = e
  BY <1>3 DEF Open, Bodies
<1>8. EndOk(Ready(j)) /\ RelaySends(e, j, o) \in SUBSET Sound
  BY <1>4, <1>7, RelaySendsOk
<1> HIDE DEF j, k, o
<1>9. CASE Becomes(e, j, q)
  BY <1>4, <1>9, BecomesOk
<1>10. CASE Becomes(e, Ready(j), q \union RelaySends(e, j, o))
  <2>1. q \union RelaySends(e, j, o) \in SUBSET Sound
    BY <1>8
  <2>2. QED
    BY <1>8, <1>10, <2>1, BecomesOk
<1>11. CASE Becomes(e, k, q)
  BY <1>6, <1>11, BecomesOk
<1>12. CASE Becomes(e, i, q)
  BY <1>12, BecomesOk
<1>13. QED
  BY <1>2, <1>9, <1>10, <1>11, <1>12

\* A packet of a via.
LEMMA HandleDataOk ==
  ASSUME RelayInv, NEW m \in Sound, m.kind = "data", m.to \in Ends,
         NEW q \in SUBSET Sound, HandleData(m.to, m, q),
         asks' \in 0..MaxAsks, faults' \in 0..MaxFaults
  PROVE  RelayInv'
<1>1. /\ m.from \in Vias /\ m.id \in Nat /\ m.data.body \in Bodies
  <2>1. m \in Packets /\ m.data.body \in Bodies /\ m.id \in Nat
    BY DEF Sound, Packets
  <2>2. QED
    BY <2>1, NotBoth DEF Sound
<1>2. EndOk(end[m.to])
  BY DEF RelayInv
<1>3. EndOk(Heard(end[m.to], m.from, m.id))
  BY <1>1, <1>2, HeardOk
<1>4. CASE /\ m.data.body # NoBody
           /\ HandleRelayed(m.to, Heard(end[m.to], m.from, m.id), m.data.body, q)
  BY <1>1, <1>3, <1>4, HandleRelayedOk
<1>5. CASE Becomes(m.to, end[m.to], q)
  BY <1>2, <1>5, BecomesOk
<1>6. QED
  BY <1>4, <1>5 DEF HandleData

\* A packet that an end sends on the line.
LEMMA TellOk ==
  ASSUME RelayInv, NEW e \in Ends, Tell(e)
  PROVE  RelayInv'
<1> DEFINE i == end[e]
           b == OnLine(e, i.theirs)
           j == [Ready(i) EXCEPT !.told = @ + 1]
<1>1. /\ EndOk(i) /\ i \in EndStates /\ i.theirs \in Nat /\ i.told \in 0..MaxTold
      /\ asks' \in 0..MaxAsks /\ faults' \in 0..MaxFaults
      /\ net \in SUBSET Sound
      /\ i.told < MaxTold
      /\ Becomes(e, j, net \union RelaySends(e, i, b))
  BY DEF RelayInv, TypeOK, EndOk, EndStates, Tell
<1>2. b \in Bodies /\ b.from = e
  BY <1>1 DEF OnLine, Bodies
<1> HIDE DEF i, b
<1>3. /\ EndOk(Ready(i)) /\ Ready(i).told = i.told
      /\ RelaySends(e, i, b) \in SUBSET Sound
  BY <1>1, <1>2, RelaySendsOk
<1> DEFINE k == Ready(i)
           n == k.told + 1
<1>4. k \in EndStates /\ n \in 0..MaxTold
  BY <1>1, <1>3, BoundsAreNat DEF EndOk
<1>5. j = [k EXCEPT !.told = n]
  OBVIOUS
<1> HIDE DEF n, j
<1>6. /\ j \in EndStates /\ j.relay = k.relay /\ j.table = k.table
      /\ j.next = k.next
  BY <1>4, <1>5 DEF EndStates
<1>7. EndOk(j)
  BY <1>3, <1>6 DEF EndOk
<1>8. net \union RelaySends(e, i, b) \in SUBSET Sound
  BY <1>1, <1>3
<1>9. QED
  BY <1>1, <1>7, <1>8, BecomesOk

\* A step that leaves a via as it should be keeps the invariant.
LEMMA ViaStepOk ==
  ASSUME RelayInv, NEW v \in Vias, NEW R, NEW g, HubOk(v, R, g),
         hub' = [hub EXCEPT ![v] = R], given' = [given EXCEPT ![v] = g],
         net' \in SUBSET Sound, UNCHANGED <<made, knows>>,
         end' \in [Ends -> EndStates], \A e \in Ends : EndOk(end'[e]),
         asks' \in 0..MaxAsks, faults' \in 0..MaxFaults
  PROVE  RelayInv'
<1>1. /\ hub \in [Vias -> SUBSET PeerRelays] /\ given \in [Vias -> [Ends -> Nat]]
      /\ R \in SUBSET PeerRelays /\ g \in [Ends -> Nat]
  BY DEF RelayInv, TypeOK, HubOk, RelayOk
<1>2. /\ hub' \in [Vias -> SUBSET PeerRelays]
      /\ given' \in [Vias -> [Ends -> Nat]]
  BY <1>1
<1>3. \A w \in Vias : HubOk(w, hub'[w], given'[w])
  <2> TAKE w \in Vias
  <2>1. HubOk(w, hub[w], given[w])
    BY DEF RelayInv
  <2>2. /\ hub'[w] = IF w = v THEN R ELSE hub[w]
        /\ given'[w] = IF w = v THEN g ELSE given[w]
    BY <1>1
  <2>3. QED
    BY <2>1, <2>2
<1>4. net' \in SUBSET Packets
  BY DEF Sound
<1>5. TypeOK'
  BY <1>2, <1>4 DEF RelayInv, TypeOK
<1>6. QED
  BY <1>3, <1>5 DEF RelayInv

\* A peer packet: both channels of the peer relay take ids that are theirs.
LEMMA HandlePeerOk ==
  ASSUME RelayInv, NEW m \in Sound, m.kind = "peer", NEW q \in SUBSET Sound,
         HandlePeer(m.to, m, q), UNCHANGED <<end, made, knows>>,
         asks' \in 0..MaxAsks, faults' \in 0..MaxFaults
  PROVE  RelayInv'
<1> DEFINE v == m.to
           e == m.from
           o == Other(e)
           id == given[v][o] + 2
           new == PeerRelay(e, m.id, id)
           g == [given[v] EXCEPT ![o] = id]
           R == Displaced(hub[v], e, m.id) \union {new}
<1>1. e \in Ends /\ v \in Vias /\ m.id \in Nat /\ Odd(m.id)
  BY DEF Sound, Packets
<1>2. o \in Ends /\ Other(o) = e /\ o # e
  BY <1>1, OtherEnd
<1>3. HubOk(v, hub[v], given[v]) /\ given \in [Vias -> [Ends -> Nat]]
  BY <1>1 DEF RelayInv, TypeOK
<1>4. /\ end \in [Ends -> EndStates] /\ \A d \in Ends : EndOk(end[d])
      /\ end' = end
  BY DEF RelayInv, TypeOK
<1>5. /\ given[v] \in [Ends -> Nat] /\ given[v][o] \in Nat /\ Even(given[v][o])
  BY <1>1, <1>2, <1>3 DEF HubOk
<1>6. id \in Nat /\ Even(id)
  BY <1>5, Parity
<1> HIDE DEF v, e, o
<1>7. CASE o = Target /\ v \notin knows
  <2>1. net' = q /\ UNCHANGED <<hub, given>>
    BY <1>7 DEF HandlePeer, v, e, o
  <2>2. QED
    <3>1. q \in SUBSET Packets
      BY DEF Sound
    <3>2. TypeOK'
      BY <2>1, <3>1 DEF RelayInv, TypeOK
    <3>3. QED
      BY <1>4, <2>1, <3>2 DEF RelayInv
<1>8. CASE ~(o = Target /\ v \notin knows)
  <2>1. /\ hub' = [hub EXCEPT ![v] = R]
        /\ net' = q \union {Connect(v, o, id)}
        /\ given' = [given EXCEPT ![v][o] = id]
    BY <1>8 DEF HandlePeer, v, e, o
  <2>2. given' = [given EXCEPT ![v] = g]
    BY <2>1
  <2>3. g \in [Ends -> Nat] /\ g[o] = id
        /\ \A d \in Ends : Even(g[d]) /\ given[v][d] <= g[d] /\ given[v][d] \in Nat
    BY <1>2, <1>3, <1>5, <1>6 DEF HubOk
  <2> HIDE DEF g, id
  <2>4. RelayOk(new, v, g)
    <3>1. /\ new \in PeerRelays /\ new.from = e /\ new.peer = m.id
          /\ new.connect = id
      BY <1>1, <1>6 DEF PeerRelay, PeerRelays, Held
    <3>2. QED
      BY <1>1, <1>2, <1>6, <2>3, <3>1 DEF RelayOk, o
  <2>5. \A r \in hub[v] : LET s == [r EXCEPT !.peerIs = "loose"]
                          IN RelayOk(r, v, g) /\ RelayOk(s, v, g)
    <3> SUFFICES ASSUME NEW r \in hub[v]
                 PROVE  RelayOk(r, v, g) /\ RelayOk([r EXCEPT !.peerIs = "loose"], v, g)
      OBVIOUS
    <3> DEFINE s == [r EXCEPT !.peerIs = "loose"]
    <3>1. RelayOk(r, v, given[v]) /\ r \in PeerRelays /\ r.connect \in Nat
          /\ r.from \in Ends
      BY <1>3 DEF HubOk, RelayOk, PeerRelays
    <3>2. Other(r.from) \in Ends
      BY <3>1, OtherEnd
    <3>3. RelayOk(r, v, g)
      BY <2>3, <3>1, <3>2 DEF RelayOk
    <3>4. /\ s \in PeerRelays /\ s.from = r.from /\ s.peer = r.peer
          /\ s.connect = r.connect /\ s.connectIs = r.connectIs
      BY <3>1 DEF PeerRelays, Held
    <3>5. QED
      BY <3>3, <3>4 DEF RelayOk
  <2>6. HubOk(v, R, g)
    <3>1. \A r \in Displaced(hub[v], e, m.id) : RelayOk(r, v, g)
      BY <2>5 DEF Displaced
    <3> HIDE DEF new
    <3>2. QED
      BY <2>3, <2>4, <3>1 DEF HubOk
  <2>7. net' \in SUBSET Sound
    <3>1. NoBody \in Bodies
      BY DEF Bodies
    <3>2. Connect(v, o, id) \in Sound
      BY <1>1, <1>2, <1>6, <3>1, PassedSound
    <3>3. QED
      BY <2>1, <3>2
  <2> HIDE DEF R
  <2>8. QED
    BY <1>1, <1>4, <2>1, <2>2, <2>6, <2>7, ViaStepOk
<1>9. QED
  BY <1>7, <1>8

\* What comes on a channel of a peer relay.
LEMMA HandleAtViaOk ==
  ASSUME RelayInv, NEW m \in Sound, m.to \in Vias, m.kind # "peer",
         NEW q \in SUBSET Sound,
         HandleAtVia(m.to, m, q), UNCHANGED <<end, made, knows>>,
         asks' \in 0..MaxAsks, faults' \in 0..MaxFaults
  PROVE  RelayInv'
<1> DEFINE v == m.to
           on == {r \in hub[v] : OnPeer(r, m) \/ OnConnect(r, m)}
           R == (hub[v] \ on) \union {Ended(r, m) : r \in on}
<1>1. /\ m.kind \in {"data", "end"} /\ m.from \in Ends /\ m.id \in Nat
      /\ m.kind = "data" => /\ m.data.body = NoBody \/ m.data.body.from = m.from
                            /\ m.data.header \in Nat /\ m.data.body \in Bodies
  BY NotBoth DEF Sound, Packets
<1>2. NoBody \in Bodies
  BY DEF Bodies
<1>3. /\ JsonLength(m) \in Nat /\ Body(m) \in Bodies
      /\ Body(m) = NoBody \/ Body(m).from = m.from
  BY <1>1, <1>2 DEF JsonLength, Body, EndBytes, IdBytes, Digits
<1>4. /\ HubOk(v, hub[v], given[v]) /\ given \in [Vias -> [Ends -> Nat]]
      /\ end \in [Ends -> EndStates] /\ \A d \in Ends : EndOk(end[d])
      /\ end' = end
  BY DEF RelayInv, TypeOK
<1>5. hub' = [hub EXCEPT ![v] = R] /\ given' = given
      /\ net' = q \union UNION {Passes(v, r, m) : r \in on}
  BY DEF HandleAtVia
<1>6. given' = [given EXCEPT ![v] = given[v]]
  BY <1>4, <1>5
<1> HIDE DEF v
<1>7. \A r \in on : RelayOk(Ended(r, m), v, given[v])
  <2> TAKE r \in on
  <2>1. RelayOk(r, v, given[v]) /\ r \in PeerRelays
    BY <1>4 DEF HubOk, RelayOk
  <2> DEFINE s == [r EXCEPT !.peerIs = "ended"]
             u == [r EXCEPT !.connectIs = "ended"]
  <2>2. /\ s \in PeerRelays /\ s.from = r.from /\ s.peer = r.peer
        /\ s.connect = r.connect /\ s.connectIs = r.connectIs
    BY <2>1 DEF PeerRelays, Held
  <2>3. /\ u \in PeerRelays /\ u.from = r.from /\ u.peer = r.peer
        /\ u.connect = r.connect /\ u.connectIs # "listed"
    BY <2>1 DEF PeerRelays, Held
  <2>4. Ended(r, m) \in {r, s, u}
    BY DEF Ended
  <2> HIDE DEF s, u
  <2>5. QED
    BY <2>1, <2>2, <2>3, <2>4 DEF RelayOk
<1>8. HubOk(v, R, given[v])
  BY <1>4, <1>7 DEF HubOk
<1>9. \A r \in on : Passes(v, r, m) \in SUBSET Sound
  <2> TAKE r \in on
  <2>1. r \in PeerRelays /\ (OnPeer(r, m) \/ OnConnect(r, m))
    BY <1>4 DEF HubOk, RelayOk
  <2>2. r.from \in Ends /\ r.peer \in Nat /\ r.connect \in Nat
    BY <2>1 DEF PeerRelays
  <2>3. /\ Other(r.from) \in Ends /\ Other(Other(r.from)) = r.from
    BY <2>2, OtherEnd
  <2>4. v \in Vias
    BY DEF v
  <2>5. CASE OnPeer(r, m)
    <3>1. m.from = Other(Other(r.from))
      BY <2>3, <2>5 DEF OnPeer
    <3>2. Data(v, Other(r.from), r.connect, JsonLength(m), Body(m)) \in Sound
      BY <1>3, <2>2, <2>3, <2>4, <3>1, PassedSound
    <3>3. QED
      BY <2>5, <3>2 DEF Passes
  <2>6. CASE ~OnPeer(r, m)
    <3>1. m.from = Other(r.from)
      BY <2>1, <2>6 DEF OnConnect
    <3>2. Data(v, r.from, r.peer, JsonLength(m), Body(m)) \in Sound
      BY <1>3, <2>2, <2>4, <3>1, PassedSound
    <3>3. QED
      BY <2>6, <3>2 DEF Passes
  <2>7. QED
    BY <2>5, <2>6
<1>10. net' \in SUBSET Sound
  BY <1>5, <1>9
<1> HIDE DEF R, on
<1>11. v \in Vias
  BY DEF v
<1>12. QED
  BY <1>4, <1>5, <1>6, <1>8, <1>10, <1>11, ViaStepOk

\* A new line between an end and a via.
LEMMA NewViaLineOk ==
  ASSUME RelayInv, NEW e \in Ends, NEW v \in Vias, NewViaLine(e, v)
  PROVE  RelayInv'
<1> DEFINE i == end[e]
           j == Renewed(i, v)
           t == {c \in i.table : c.via # v}
           gone == [i.relay EXCEPT !.id = 0]
           nx == [i.next EXCEPT ![v] = FirstAtEnd]
           g == [given[v] EXCEPT ![e] = FirstAtVia]
           R == {Dropped(r, e) : r \in hub[v]}
<1>1. /\ EndOk(i) /\ i \in EndStates /\ i.next \in [Vias -> Nat]
      /\ i.relay \in RelayStates /\ i.table \in SUBSET Channels
      /\ end \in [Ends -> EndStates] /\ \A d \in Ends : EndOk(end[d])
      /\ given \in [Vias -> [Ends -> Nat]] /\ HubOk(v, hub[v], given[v])
      /\ net \in SUBSET Sound
  BY DEF RelayInv, TypeOK, EndOk, EndStates, RelayStates, Channels
<1>2. /\ end' = [end EXCEPT ![e] = j] /\ hub' = [hub EXCEPT ![v] = R]
      /\ given' = [given EXCEPT ![v][e] = FirstAtVia]
      /\ net' \in SUBSET net /\ UNCHANGED <<made, knows>>
  BY DEF NewViaLine
<1>3. asks' \in 0..MaxAsks /\ faults' \in 0..MaxFaults
  BY BoundsAreNat DEF NewViaLine, Fault, RelayInv, TypeOK
<1>4. given' = [given EXCEPT ![v] = g]
  BY <1>1, <1>2
<1>5. EndOk(j) /\ j \in EndStates
  <2>1. /\ nx \in [Vias -> Nat] /\ nx[v] = 1
        /\ \A w \in Vias : w # v => nx[w] = i.next[w]
    BY <1>1 DEF FirstAtEnd
  <2>2. Odd(1)
    BY DEF Odd
  <2>3. \A w \in Vias : Odd(nx[w])
    BY <1>1, <2>1, <2>2 DEF EndOk
  <2>4. \A c \in t : c \in Channels /\ (Odd(c.id) => c.id <= nx[c.via])
    BY <1>1, <2>1 DEF EndOk, Channels
  <2>5. gone \in RelayStates /\ gone.there = i.relay.there /\ gone.id = 0
        /\ gone.via = i.relay.via
    BY <1>1 DEF RelayStates
  <2> DEFINE r == IF i.relay.via = v THEN gone ELSE i.relay
  <2>6. /\ r \in RelayStates /\ (r.there => r.via \in Vias)
        /\ r.id # 0 => r.there
    BY <1>1, <2>5 DEF EndOk
  <2>7. j = [i EXCEPT !.table = t, !.relay = r, !.next = nx]
    BY <1>1 DEF Renewed, EndStates
  <2> HIDE DEF t, r, nx, j, i
  <2>8. t \in SUBSET Channels
    BY <2>4
  <2>9. /\ j \in EndStates /\ j.table = t /\ j.relay = r /\ j.next = nx
    BY <1>1, <2>1, <2>6, <2>7, <2>8 DEF EndStates, RelayStates, Channels
  <2>10. QED
    BY <2>3, <2>4, <2>6, <2>9 DEF EndOk
<1>6. HubOk(v, R, g)
  <2>1. /\ g \in [Ends -> Nat] /\ g[e] = 2
        /\ \A d \in Ends : d # e => g[d] = given[v][d]
    BY <1>1 DEF FirstAtVia
  <2>2. Even(2)
    BY DEF Even
  <2>3. \A d \in Ends : Even(g[d])
    BY <1>1, <2>1, <2>2 DEF HubOk
  <2>4. \A r \in hub[v] : RelayOk(Dropped(r, e), v, g)
    <3> TAKE r \in hub[v]
    <3> DEFINE p == IF r.from = e /\ r.peerIs = "listed" THEN "ended" ELSE r.peerIs
               c == IF r.from # e /\ r.connectIs = "listed" THEN "ended"
                    ELSE r.connectIs
               s == [r EXCEPT !.peerIs = p, !.connectIs = c]
    <3>1. RelayOk(r, v, given[v]) /\ r \in PeerRelays /\ r.from \in Ends
      BY <1>1 DEF HubOk, RelayOk, PeerRelays
    <3>2. Dropped(r, e) = s
      BY DEF Dropped
    <3>3. p \in Held /\ c \in Held
      BY <3>1 DEF PeerRelays, Held
    <3>4. c = "listed" => r.from = e /\ r.connectIs = "listed"
      OBVIOUS
    <3> HIDE DEF p, c
    <3>5. /\ s \in PeerRelays /\ s.from = r.from /\ s.peer = r.peer
          /\ s.connect = r.connect /\ s.connectIs = c
      BY <3>1, <3>3 DEF PeerRelays
    <3>6. Other(r.from) \in Ends /\ (r.from = e => Other(r.from) # e)
      BY <3>1, OtherEnd
    <3> HIDE DEF s, g
    <3>7. RelayOk(s, v, g)
      BY <2>1, <3>1, <3>4, <3>5, <3>6 DEF RelayOk
    <3>8. QED
      BY <3>2, <3>7
  <2> HIDE DEF g
  <2>5. QED
    BY <2>1, <2>3, <2>4 DEF HubOk
<1> HIDE DEF j, g, R
<1>7. end' \in [Ends -> EndStates] /\ \A d \in Ends : EndOk(end'[d])
  BY <1>1, <1>2, <1>5
<1>8. net' \in SUBSET Sound
  BY <1>1, <1>2
<1>9. QED
  BY <1>2, <1>3, <1>4, <1>6, <1>7, <1>8, ViaStepOk

\* The identity of the other end is reset.
LEMMA ResetOk ==
  ASSUME RelayInv, NEW e \in Ends, Reset(e)
  PROVE  RelayInv'
<1> DEFINE i == end[e]
           j == Closed(Released(i))
<1>1. /\ EndOk(i) /\ net \in SUBSET Sound
      /\ Becomes(e, j, net \union ReleaseSends(e, i))
  BY DEF RelayInv, Reset
<1>2. asks' \in 0..MaxAsks /\ faults' \in 0..MaxFaults
  BY BoundsAreNat DEF Reset, Fault, RelayInv, TypeOK
<1> HIDE DEF i
<1>3. EndOk(Released(i)) /\ ReleaseSends(e, i) \in SUBSET Sound
  BY <1>1, ReleasedOk
<1>4. EndOk(j)
  <2> DEFINE k == Released(i)
  <2> HIDE DEF k
  <2>1. /\ Closed(k) \in EndStates /\ Closed(k).table = k.table
        /\ Closed(k).relay = k.relay /\ Closed(k).next = k.next
    BY <1>3 DEF Closed, EndOk, EndStates, k
  <2>2. EndOk(Closed(k))
    BY <1>3, <2>1 DEF EndOk, k
  <2>3. QED
    BY <2>2 DEF k
<1> HIDE DEF j
<1>5. net \union ReleaseSends(e, i) \in SUBSET Sound
  BY <1>1, <1>3
<1>6. QED
  BY <1>1, <1>2, <1>4, <1>5, BecomesOk

\* A packet arrives.
LEMMA ArrivesOk ==
  ASSUME RelayInv, NEW m \in Sound, NEW q \in SUBSET Sound, Arrives(m, q),
         asks' \in 0..MaxAsks, faults' \in 0..MaxFaults
  PROVE  RelayInv'
<1>1. m.kind \in {"peer", "end", "connect", "data"}
      /\ (m.kind = "peer" => m.to \in Vias)
      /\ (m.kind = "connect" => m.to \in Ends)
      /\ (m.kind = "end" => m.to \in Vias)
  BY DEF Sound, Packets
<1>2. CASE m.to \in Vias
  <2>1. m.to \notin Ends
    BY <1>2, NotBoth
  <2>2. CASE m.kind = "peer"
    BY <2>1, <2>2, HandlePeerOk DEF Arrives
  <2>3. CASE m.kind # "peer"
    BY <1>2, <2>1, <2>3, HandleAtViaOk DEF Arrives
  <2>4. QED
    BY <2>2, <2>3
<1>3. CASE m.to \notin Vias
  <2>1. m.to \in Ends
    BY <1>3 DEF Arrives
  <2>2. CASE m.kind = "connect"
    BY <1>3, <2>2, HandleConnectOk DEF Arrives
  <2>3. CASE m.kind # "connect"
    <3>1. m.kind = "data"
      BY <1>1, <1>3, <2>3
    <3>2. QED
      BY <1>3, <2>1, <2>3, <3>1, HandleDataOk DEF Arrives
  <2>4. QED
    BY <2>2, <2>3
<1>4. QED
  BY <1>2, <1>3

\* Every step keeps the invariant.
LEMMA RelayStep ==
  ASSUME RelayInv, [Next]_vars
  PROVE  RelayInv'
<1>1. /\ net \in SUBSET Sound /\ asks \in 0..MaxAsks /\ faults \in 0..MaxFaults
  BY DEF RelayInv, TypeOK
<1>2. Fault => asks' \in 0..MaxAsks /\ faults' \in 0..MaxFaults
  BY <1>1, BoundsAreNat DEF Fault
<1>3. CASE UNCHANGED vars
  BY <1>3 DEF vars, RelayInv, TypeOK
<1>4. ASSUME NEW m \in net, Deliver(m) PROVE RelayInv'
  <2>1. m \in Sound /\ net \ {m} \in SUBSET Sound
    BY <1>1
  <2>2. asks' \in 0..MaxAsks /\ faults' \in 0..MaxFaults
    BY <1>1, <1>4 DEF Deliver
  <2>3. QED
    BY <1>4, <2>1, <2>2, ArrivesOk DEF Deliver
<1>5. ASSUME NEW m \in net, Repeat(m) PROVE RelayInv'
  BY <1>1, <1>2, <1>5, ArrivesOk DEF Repeat
<1>6. ASSUME NEW m \in net, Lose(m) PROVE RelayInv'
  <2>1. /\ net' \in SUBSET Sound /\ UNCHANGED <<end, hub, given, made, knows>>
        /\ asks' \in 0..MaxAsks /\ faults' \in 0..MaxFaults
    BY <1>1, <1>2, <1>6 DEF Lose
  <2>2. net' \in SUBSET Packets
    BY <2>1 DEF Sound
  <2>3. TypeOK'
    BY <2>1, <2>2 DEF RelayInv, TypeOK
  <2>4. QED
    BY <2>1, <2>3 DEF RelayInv
<1>7. QED
  BY <1>3, <1>4, <1>5, <1>6, AskViasOk, TellOk, ResetOk, NewViaLineOk DEF Next

LEMMA RelayInit == Init => RelayInv
<1> SUFFICES ASSUME Init PROVE RelayInv
  OBVIOUS
<1>1. PICK n \in Starts :
        end = [e \in Ends |-> Stranger(IF e = Asker THEN n ELSE FirstAtEnd)]
  BY DEF Init
<1>2. n \in Nat /\ Odd(n) /\ Odd(1) /\ Even(2)
  BY StartsAreOdd DEF Odd, Even
<1>3. ASSUME NEW k \in Nat, Odd(k) PROVE EndOk(Stranger(k))
  <2>1. NoRelay \in RelayStates /\ ~NoRelay.there /\ NoRelay.id = 0
    BY DEF NoRelay, RelayStates
  <2>2. Stranger(k) \in EndStates
    BY <1>3, <2>1, BoundsAreNat DEF Stranger, EndStates, RelayStates
  <2>3. /\ Stranger(k).relay = NoRelay /\ Stranger(k).table = {}
        /\ Stranger(k).next = [v \in Vias |-> k]
    BY DEF Stranger
  <2>4. QED
    BY <1>3, <2>1, <2>2, <2>3 DEF EndOk
<1>4. \A e \in Ends : EndOk(end[e])
  <2> TAKE e \in Ends
  <2>1. CASE e = Asker
    BY <1>1, <1>2, <1>3, <2>1
  <2>2. CASE e # Asker
    BY <1>1, <1>2, <1>3, <2>2 DEF FirstAtEnd
  <2>3. QED
    BY <2>1, <2>2
<1>5. end \in [Ends -> EndStates]
  BY <1>1, <1>4 DEF EndOk
<1>6. \A v \in Vias : HubOk(v, hub[v], given[v])
  BY <1>2 DEF Init, HubOk, FirstAtVia
<1>7. TypeOK
  BY <1>5, BoundsAreNat DEF Init, TypeOK, FirstAtVia
<1>8. net \in SUBSET Sound
  BY DEF Init
<1>9. QED
  BY <1>4, <1>6, <1>7, <1>8 DEF RelayInv

THEOREM RelayInvariant == Spec => []RelayInv
BY RelayInit, RelayStep, PTL DEF Spec

\* Every state is typed: ids, lines and lengths are numbers, and each channel
\* is with a via (THRelay, THPeerRelay, THLine).
THEOREM RelayTypeCorrect == Spec => []TypeOK
BY RelayInvariant, PTL DEF RelayInv

\* A via passes on to one end only what the other end sent, whatever is lost,
\* repeated or begun anew (THPeerRelay handlePacket).
THEOREM NoEchoCorrect == Spec => []NoEcho
<1>1. RelayInv => NoEcho
  BY NotBoth DEF RelayInv, Sound, NoEcho
<1>2. QED
  BY <1>1, RelayInvariant, PTL

\* The next id of either side of a line is free in the table both share: ids
\* of the ends are odd and those of the vias even, and each side only counts
\* up (THLine nextChannelId, THRelay attachVia).
THEOREM IdsApartCorrect == Spec => []IdsApart
<1>1. RelayInv => IdsApart
  <2> SUFFICES ASSUME RelayInv PROVE IdsApart
    OBVIOUS
  <2>1. ASSUME NEW e \in Ends, NEW c \in end[e].table
        PROVE  c.id # end[e].next[c.via] + 2
    <3>1. /\ EndOk(end[e]) /\ end[e].next \in [Vias -> Nat]
          /\ c.id \in Nat /\ c.via \in Vias
      BY <2>1 DEF RelayInv, EndOk, EndStates
    <3> DEFINE n == end[e].next[c.via]
    <3>2. n \in Nat /\ Odd(n)
      BY <3>1 DEF EndOk
    <3>3. Odd(n + 2)
      BY <3>2, Parity
    <3>4. Odd(c.id) => c.id <= n
      BY <2>1, <3>1 DEF EndOk
    <3> HIDE DEF n
    <3>5. c.id # n + 2
      BY <3>1, <3>2, <3>3, <3>4
    <3>6. QED
      BY <3>5 DEF n
  <2>2. ASSUME NEW v \in Vias, NEW r \in hub[v]
        PROVE  /\ r.connectIs = "listed" => r.connect # given[v][Other(r.from)] + 2
               /\ r.peerIs = "listed" => r.peer # given[v][r.from] + 2
    <3>1. /\ HubOk(v, hub[v], given[v]) /\ RelayOk(r, v, given[v])
      BY <2>2 DEF RelayInv, HubOk
    <3>2. /\ r.from \in Ends /\ Other(r.from) \in Ends
          /\ r.peer \in Nat /\ r.connect \in Nat /\ Odd(r.peer)
      BY <3>1, OtherEnd DEF RelayOk, PeerRelays
    <3>3. /\ given[v][r.from] \in Nat /\ given[v][Other(r.from)] \in Nat
          /\ Even(given[v][r.from])
      BY <3>1, <3>2 DEF HubOk
    <3>4. ~Odd(given[v][r.from] + 2)
      BY <3>3, Parity
    <3>5. QED
      BY <3>1, <3>2, <3>3, <3>4 DEF RelayOk
  <2>3. QED
    BY <2>1, <2>2 DEF IdsApart
<1>2. QED
  BY <1>1, RelayInvariant, PTL

--------------------------------------------------------------------------------
(***************************************************************************)
(* One relay.  As long as neither end begins anew the asker asks once, and *)
(* the first answer settles which of its channels it uses.                 *)
(***************************************************************************)
Has(i, v, id) == \E c \in i.table : c.via = v /\ c.id = id

\* The asker has heard on the channel it uses: it keeps to it.
Settled(a) ==
  /\ a.relay.there
  /\ \E c \in a.table : c.via = a.relay.via /\ c.id = a.relay.id /\ c.heard

\* The asker a has one channel to each via it asked, and the other end's line
\* only once it is settled.
AskerRoute(a) ==
  /\ \A c \in a.table : c.current /\ c.id # 0
  /\ \A c, d \in a.table : c.via = d.via => c.id = d.id
  /\ a.relay.there => a.relay.id # 0 /\ Has(a, a.relay.via, a.relay.id)
  /\ a.theirs # 0 => Settled(a)

Made(H, v, id) == \E r \in H[v] : r.connect = id

\* The target t has the channel of the last connect packet only, and the
\* asker's line over the via the asker keeps to.
TargetRoute(a, t, H) ==
  /\ \A c \in t.table : t.relay.there /\ c.via = t.relay.via /\ c.id = t.relay.id
  /\ t.relay.there => /\ t.relay.id # 0 /\ t.mine # 0
                      /\ Made(H, t.relay.via, t.relay.id)
  /\ t.theirs # 0 => t.relay.there /\ t.relay.via = a.relay.via /\ Settled(a)

\* A via has at most one peer relay, for the asker's channel to it.
HubRoute(a, H) ==
  \A v \in Vias : \A r, s \in H[v] :
    r.from = Asker /\ r.connect = s.connect /\ Has(a, v, r.peer)

\* A via that has yet to be asked has no peer relay, one whose connect packet
\* is on its way is not the target's, and what the asker sends, and the target
\* gets, goes over the via the asker keeps to.
PacketRoute(a, t, H, m) ==
  /\ m.kind = "peer" => m.from = Asker /\ H[m.to] = {} /\ Has(a, m.to, m.id)
  /\ m.kind = "connect" => /\ m.to = Target /\ m.id # 0
                           /\ t.relay.there => t.relay.via # m.from
                           /\ Made(H, m.from, m.id)
  /\ m.kind = "end" => m.from = Target
  /\ m.kind = "data" /\ m.from = Asker => Settled(a) /\ m.to = a.relay.via
  /\ m.kind = "data" /\ m.to = Target => Settled(a) /\ m.from = a.relay.via

\* Until the asker asks, nothing goes on.
Pristine(a, t, H, q) ==
  /\ q = {} /\ a.table = {} /\ ~t.relay.there
  /\ \A v \in Vias : H[v] = {}

Route(a, t, H, q) ==
  /\ AskerRoute(a) /\ TargetRoute(a, t, H) /\ HubRoute(a, H)
  /\ \A m \in q : PacketRoute(a, t, H, m)
  /\ ~a.relay.there => Pristine(a, t, H, q)

\* The asker goes on with the channels it has.
LEMMA AskerGoesOn ==
  ASSUME NEW a, NEW b, NEW t, NEW H, NEW q, NEW p,
         Route(a, t, H, q), a.relay.there, AskerRoute(b), b.relay.there,
         Settled(a) => Settled(b) /\ b.relay = a.relay,
         \A c \in a.table : Has(b, c.via, c.id),
         \A m \in p : \/ m \in q
                      \/ /\ m.kind = "data" /\ m.from = Asker /\ m.to # Target
                         /\ Settled(b) /\ m.to = b.relay.via
  PROVE  Route(b, t, H, p)
<1>1. TargetRoute(b, t, H)
  BY DEF Route, TargetRoute
<1>2. \A v, id : Has(a, v, id) => Has(b, v, id)
  BY DEF Has
<1>3. HubRoute(b, H)
  BY <1>2 DEF Route, HubRoute
<1>4. ASSUME NEW m \in p PROVE PacketRoute(b, t, H, m)
  <2>1. CASE m \in q
    <3>1. PacketRoute(a, t, H, m)
      BY <2>1 DEF Route
    <3>2. QED
      BY <1>2, <3>1 DEF PacketRoute
  <2>2. CASE m \notin q
    BY <1>4, <2>2 DEF PacketRoute
  <2>3. QED
    BY <2>1, <2>2
<1>5. QED
  BY <1>1, <1>3, <1>4 DEF Route

\* The target goes on with the channel it has.
LEMMA TargetGoesOn ==
  ASSUME NEW a, NEW t, NEW u, NEW H, NEW q, NEW p,
         Route(a, t, H, q), a.relay.there, u.relay = t.relay,
         \A c \in u.table : Has(t, c.via, c.id),
         t.mine # 0 => u.mine # 0,
         u.theirs # 0 => t.relay.there /\ t.relay.via = a.relay.via /\ Settled(a),
         \A m \in p : \/ m \in q
                      \/ m.kind = "data" /\ m.from = Target /\ m.to # Target
  PROVE  Route(a, u, H, p)
<1>1. TargetRoute(a, u, H)
  BY DEF Route, TargetRoute, Has
<1>2. ASSUME NEW m \in p PROVE PacketRoute(a, u, H, m)
  <2>1. CASE m \in q
    BY <2>1 DEF Route, PacketRoute
  <2>2. CASE m \notin q
    BY <1>2, <2>2, EndsDiffer DEF PacketRoute
  <2>3. QED
    BY <2>1, <2>2
<1>3. QED
  BY <1>1, <1>2 DEF Route

\* What an end is left with after Becomes.
LEMMA BecomesIs ==
  ASSUME RelayInv, NEW e \in Ends, NEW i, NEW q, Becomes(e, i, q)
  PROVE  /\ end'[e] = i /\ end'[Other(e)] = end[Other(e)]
         /\ hub' = hub /\ net' = q
BY OtherEnd DEF RelayInv, TypeOK, Becomes

\* A channel after a packet came on channel id to v.
Marked(c, v, id) == [c EXCEPT !.heard = @ \/ (c.via = v /\ c.id = id)]

\* Marking a channel leaves the rest of it.
LEMMA MarkedIs ==
  ASSUME NEW c \in Channels, NEW v, NEW id
  PROVE  /\ Marked(c, v, id).via = c.via /\ Marked(c, v, id).id = c.id
         /\ Marked(c, v, id).current = c.current
         /\ Marked(c, v, id).heard <=> c.heard \/ (c.via = v /\ c.id = id)
BY DEF Marked, Channels

\* The relay r takes to channel id to v.
Moves(r, s, v, id) ==
  s \in RelayStates /\ s.there = r.there /\ s.via = v /\ s.id = id

\* A packet came on the channel of r.
HeardOn(b, r) == \E d \in b.table : d.via = r.via /\ d.id = r.id /\ d.heard

\* A relay is what its fields are.
LEMMA SameRelay ==
  ASSUME NEW r \in RelayStates, NEW s \in RelayStates,
         r.there = s.there, r.via = s.via, r.id = s.id
  PROVE  r = s
BY DEF RelayStates

\* What an end is left with after a packet came on channel id to v.
LEMMA HeardIs ==
  ASSUME NEW i \in EndStates, NEW v \in Vias, NEW id \in Nat, Has(i, v, id),
         NEW b, b = Heard(i, v, id)
  PROVE  /\ \A c \in i.table : Marked(c, v, id) \in b.table
         /\ \A d \in b.table : \E c \in i.table : d = Marked(c, v, id)
         /\ b.mine = i.mine /\ b.theirs = i.theirs
         /\ b.relay = i.relay \/ Moves(i.relay, b.relay, v, id)
         /\ (i.relay.there /\ \A c \in i.table : c.current)
              => \/ b.relay = i.relay /\ HeardOn(b, i.relay)
                 \/ Moves(i.relay, b.relay, v, id) /\ ~HeardOn(b, i.relay)
<1> DEFINE t == {Marked(c, v, id) : c \in i.table}
           k == CHOOSE c \in t : c.via = v /\ c.id = id
           silent == ~\E d \in t : d.via = i.relay.via /\ d.id = i.relay.id /\ d.heard
           r == IF k.current /\ i.relay.there /\ silent
                THEN [i.relay EXCEPT !.via = v, !.id = id] ELSE i.relay
           s == [i.relay EXCEPT !.via = v, !.id = id]
<1>1. i.table \in SUBSET Channels /\ Moves(i.relay, s, v, id)
  BY DEF EndStates, Channels, Moves, RelayStates
<1>2. Heard(i, v, id) = [i EXCEPT !.table = t, !.relay = r]
  BY DEF Heard, Marked, EndStates
<1>3. k \in t
  BY <1>1, MarkedIs DEF Has
<1>4. (\A c \in i.table : c.current) => k.current
  <2> HIDE DEF k
  <2>1. PICK c \in i.table : k = Marked(c, v, id)
    BY <1>3
  <2>2. QED
    BY <1>1, <2>1, MarkedIs
<1> HIDE DEF k, t, r
<1>5. /\ b.table = t /\ b.relay = r /\ b.mine = i.mine /\ b.theirs = i.theirs
  BY <1>2 DEF EndStates
<1>6. r = i.relay \/ r = s
  BY DEF r
<1>7. (i.relay.there /\ \A c \in i.table : c.current)
        => r = IF silent THEN s ELSE i.relay
  BY <1>4 DEF r
<1>8. silent <=> ~HeardOn(b, i.relay)
  BY <1>5 DEF HeardOn
<1>9. /\ \A c \in i.table : Marked(c, v, id) \in t
      /\ \A d \in t : \E c \in i.table : d = Marked(c, v, id)
  BY DEF t
<1> HIDE DEF silent, s
<1>10. QED
  BY <1>1, <1>5, <1>6, <1>7, <1>8, <1>9

\* The asker is settled by any packet, and a settled one keeps its channel.
LEMMA AskerHears ==
  ASSUME NEW i, EndOk(i), AskerRoute(i), i.relay.there,
         NEW v \in Vias, NEW id \in Nat, Has(i, v, id)
  PROVE  /\ AskerRoute(Heard(i, v, id)) /\ Settled(Heard(i, v, id))
         /\ Settled(i) => Heard(i, v, id).relay = i.relay
         /\ \A c \in i.table : Has(Heard(i, v, id), c.via, c.id)
<1> DEFINE b == Heard(i, v, id)
<1>1. i \in EndStates /\ i.table \in SUBSET Channels
  BY DEF EndOk, EndStates, Channels
<1>3. /\ \A c \in i.table : Marked(c, v, id) \in b.table
      /\ \A d \in b.table : \E c \in i.table : d = Marked(c, v, id)
      /\ b.theirs = i.theirs
      /\ \/ b.relay = i.relay /\ HeardOn(b, i.relay)
         \/ Moves(i.relay, b.relay, v, id) /\ ~HeardOn(b, i.relay)
  <2> HIDE DEF b
  <2>1. b = Heard(i, v, id)
    BY DEF b
  <2>2. i.relay.there /\ \A c \in i.table : c.current
    BY DEF AskerRoute
  <2>3. QED
    BY <1>1, <2>1, <2>2, HeardIs
<1> HIDE DEF b
<1>4. \A c \in i.table : \E d \in b.table :
         /\ d.via = c.via /\ d.id = c.id /\ (c.heard => d.heard)
         /\ c.via = v /\ c.id = id => d.heard
  BY <1>1, <1>3, MarkedIs
<1>5. \A d \in b.table : \E c \in i.table :
         d.via = c.via /\ d.id = c.id /\ d.current = c.current
  BY <1>1, <1>3, MarkedIs
<1>6. \A c \in i.table : Has(b, c.via, c.id)
  BY <1>4 DEF Has
<1>7. \E d \in b.table : d.via = v /\ d.id = id /\ d.heard
  BY <1>4 DEF Has
<1>8. Settled(b)
  BY <1>3, <1>7 DEF Settled, HeardOn, Moves
<1>9. Settled(i) => b.relay = i.relay
  BY <1>3, <1>4 DEF Settled, HeardOn
<1>10. Has(b, b.relay.via, b.relay.id)
  BY <1>8 DEF Settled, Has
<1>11. \A d \in b.table : d.current /\ d.id # 0
  BY <1>5 DEF AskerRoute
<1>12. \A c, d \in b.table : c.via = d.via => c.id = d.id
  BY <1>5 DEF AskerRoute
<1>13. b.relay.id # 0
  BY <1>10, <1>11 DEF Has
<1>14. AskerRoute(b)
  BY <1>8, <1>10, <1>11, <1>12, <1>13 DEF AskerRoute
<1>15. QED
  BY <1>6, <1>8, <1>9, <1>14 DEF b

\* The relay of i stays as it is, and what i sends goes over it.
Takes(e, i, q) ==
  \E j, n :
    /\ Becomes(e, j, q \union n)
    /\ j.relay = i.relay /\ j.table = i.table
    /\ i.mine # 0 => j.mine # 0
    /\ \A m \in n : m.kind = "data" /\ m.from = e /\ m.to = i.relay.via

\* So it is with what the relay hands to the switch.
LEMMA HandleRelayedIs ==
  ASSUME RelayInv, NEW e \in Ends, NEW i, EndOk(i), i.relay.there, i.relay.id # 0,
         NEW p, NEW q, HandleRelayed(e, i, p, q)
  PROVE  Takes(e, i, q)
<1> DEFINE j == [i EXCEPT !.mine = IF @ = 0 THEN Fresh(e) ELSE @,
                          !.theirs = p.line, !.job = FALSE]
           k == [i EXCEPT !.heard = @ \union {p.line}]
           n == RelaySends(e, j, Open(e, j.mine))
<1>1. i \in EndStates
  BY DEF EndOk
<1>2. /\ j.relay = i.relay /\ j.table = i.table /\ (i.mine # 0 => j.mine # 0)
      /\ k.relay = i.relay /\ k.table = i.table /\ k.mine = i.mine
  BY <1>1 DEF EndStates
<1>3. \/ Becomes(e, j, q)
      \/ Becomes(e, Ready(j), q \union n)
      \/ Becomes(e, k, q)
      \/ Becomes(e, i, q)
  BY DEF HandleRelayed
<1> HIDE DEF j, k
<1>4. Ready(j) = j
  BY <1>2 DEF Ready
<1>5. \A m \in n : m.kind = "data" /\ m.from = e /\ m.to = i.relay.via
  BY <1>2, <1>4 DEF RelaySends, Data
<1> HIDE DEF n
<1>6. CASE Becomes(e, Ready(j), q \union n)
  BY <1>2, <1>4, <1>5, <1>6 DEF Takes
<1> DEFINE none == {}
<1>7. q \union none = q /\ \A m \in none : FALSE
  OBVIOUS
<1> HIDE DEF none
<1>8. CASE Becomes(e, j, q)
  <2>1. Becomes(e, j, q \union none)
    BY <1>7, <1>8
  <2>2. QED
    BY <1>2, <1>7, <2>1 DEF Takes
<1>9. CASE Becomes(e, k, q)
  <2>1. Becomes(e, k, q \union none)
    BY <1>7, <1>9
  <2>2. QED
    BY <1>2, <1>7, <2>1 DEF Takes
<1>10. CASE Becomes(e, i, q)
  <2>1. Becomes(e, i, q \union none)
    BY <1>7, <1>10
  <2>2. QED
    BY <1>7, <2>1 DEF Takes
<1>11. QED
  BY <1>3, <1>6, <1>8, <1>9, <1>10

\* A packet of a via.
LEMMA HandleDataRoute ==
  ASSUME RelayInv, NEW m \in Sound, m.kind = "data", m.to \in Ends,
         Route(end[Asker], end[Target], hub, net),
         m \in net, NEW q \in SUBSET net, HandleData(m.to, m, q)
  PROVE  Route(end'[Asker], end'[Target], hub', net')
<1> DEFINE e == m.to
           i == end[e]
           b == Heard(i, m.from, m.id)
           a == end[Asker]
           t == end[Target]
<1>1. /\ m.from \in Vias /\ m.id \in Nat
      /\ Asker \in Ends /\ Target \in Ends /\ Other(Asker) = Target
      /\ Other(Target) = Asker
  BY EndsDiffer, NotBoth DEF Sound, Packets, Ends, Other
<1>2. /\ EndOk(a) /\ EndOk(t) /\ EndOk(i) /\ AskerRoute(a) /\ a.relay.there
      /\ TargetRoute(a, t, hub) /\ PacketRoute(a, t, hub, m)
  BY <1>1 DEF RelayInv, Route, Pristine
<1>3. CASE Becomes(e, i, q)
  <2>1. end'[Asker] = a /\ end'[Target] = t /\ hub' = hub /\ net' = q
    BY <1>1, <1>3, BecomesIs DEF Ends
  <2>2. Route(a, t, hub, q)
    BY <1>2 DEF Route
  <2>3. QED
    BY <2>1, <2>2
<1>4. CASE ~Becomes(e, i, q)
  <2>1. /\ Has(i, m.from, m.id)
        /\ HandleRelayed(e, b, m.data.body, q)
    BY <1>4 DEF HandleData, Known, Has
  <2>2. EndOk(b)
    BY <1>1, <1>2, HeardOk
  <2> DEFINE w == m.data.body
  <2>3. CASE e = Asker
    <3>1. /\ AskerRoute(b) /\ Settled(b) /\ (Settled(a) => b.relay = a.relay)
          /\ \A c \in a.table : Has(b, c.via, c.id)
      BY <1>1, <1>2, <2>1, <2>3, AskerHears
    <3>0. HandleRelayed(Asker, b, w, q)
      BY <2>1, <2>3
    <3> HIDE DEF b, a, t, i, e, w
    <3>2. b.relay.there /\ b.relay.id # 0 /\ b.relay.via \in Vias
      BY <2>2, <3>1 DEF AskerRoute, Settled, EndOk
    <3>a. Takes(Asker, b, q)
      BY <1>1, <2>2, <3>0, <3>2, HandleRelayedIs
    <3>3. PICK j, n :
            /\ Becomes(Asker, j, q \union n)
            /\ j.relay = b.relay /\ j.table = b.table
            /\ \A x \in n : x.kind = "data" /\ x.from = Asker /\ x.to = b.relay.via
      BY <3>a DEF Takes
    <3>4. AskerRoute(j) /\ Settled(j) /\ j.relay.there
          /\ (Settled(a) => j.relay = a.relay)
          /\ \A c \in a.table : Has(j, c.via, c.id)
      BY <3>1, <3>2, <3>3 DEF AskerRoute, Settled, Has
    <3>5. \A x \in n : x.to # Target
      BY <1>1, <3>2, <3>3, NotBoth
    <3>6. Route(j, t, hub, q \union n)
      BY <1>2, <3>3, <3>4, <3>5, AskerGoesOn DEF a, t
    <3>7. QED
      BY <1>1, <3>3, <3>6, BecomesIs DEF t
  <2>4. CASE e = Target
    <3>1. /\ t.relay.there /\ m.from = t.relay.via /\ m.id = t.relay.id
          /\ t.relay.id # 0 /\ t.mine # 0
          /\ Settled(a) /\ t.relay.via = a.relay.via /\ t.relay.via \in Vias
      BY <1>2, <2>1, <2>4 DEF TargetRoute, PacketRoute, Has, EndOk
    <3>2. /\ t.relay \in RelayStates /\ t \in EndStates
      BY <1>2 DEF EndOk, EndStates, RelayStates
    <3>3. ASSUME NEW r, Moves(t.relay, r, m.from, m.id) PROVE r = t.relay
      BY <3>1, <3>2, <3>3, SameRelay DEF Moves
    <3>4. /\ b.relay = t.relay /\ b.mine = t.mine
          /\ \A c \in b.table : Has(t, c.via, c.id)
      <4>1. i = t /\ t.table \in SUBSET Channels
        BY <2>4, <3>2 DEF EndStates, Channels
      <4> HIDE DEF t, a, i
      <4>2. b = Heard(t, m.from, m.id)
        BY <4>1
      <4> HIDE DEF b
      <4>3. /\ \A d \in b.table : \E c \in t.table : d = Marked(c, m.from, m.id)
            /\ b.mine = t.mine /\ (b.relay = t.relay \/ Moves(t.relay, b.relay, m.from, m.id))
        BY <1>1, <2>1, <3>2, <4>1, <4>2, HeardIs
      <4>4. \A c \in b.table : Has(t, c.via, c.id)
        BY <4>1, <4>3, MarkedIs DEF Has
      <4>5. QED
        BY <3>3, <4>3, <4>4
    <3>0. HandleRelayed(Target, b, w, q)
      BY <2>1, <2>4
    <3> HIDE DEF b, a, t, i, e, w
    <3>b. Takes(Target, b, q)
      BY <1>1, <2>2, <3>0, <3>1, <3>4, HandleRelayedIs
    <3>5. PICK j, n :
            /\ Becomes(Target, j, q \union n)
            /\ j.relay = b.relay /\ j.table = b.table
            /\ b.mine # 0 => j.mine # 0
            /\ \A x \in n : x.kind = "data" /\ x.from = Target /\ x.to = b.relay.via
      BY <3>b DEF Takes
    <3>6. \A x \in n : x.to # Target
      BY <1>1, <3>1, <3>4, <3>5, NotBoth
    <3>7. Route(a, j, hub, q \union n)
      BY <1>2, <3>1, <3>4, <3>5, <3>6, TargetGoesOn DEF a, t
    <3>8. QED
      BY <1>1, <3>5, <3>7, BecomesIs DEF a
  <2>5. QED
    BY <2>3, <2>4 DEF Ends
<1>5. QED
  BY <1>3, <1>4

\* There is one connect packet for a channel.
LEMMA SameConnect ==
  ASSUME NEW m \in Packets, NEW x \in Packets, m.kind = "connect",
         x.kind = "connect", x.from = m.from, x.to = m.to, x.id = m.id
  PROVE  x = m
<1>1. \A y \in Packets : y.kind = "connect" =>
        y \in [kind : {"connect"}, from : Vias, to : Ends, id : Nat]
  BY DEF Packets
<1>2. QED
  BY <1>1

\* The target takes to the channel of a connect packet.
LEMMA TargetMoves ==
  ASSUME NEW a, NEW t, NEW u, NEW H, NEW q, NEW m \in q, NEW p,
         Route(a, t, H, q), a.relay.there, q \in SUBSET Sound,
         m.kind = "connect",
         u.relay.there, u.relay.via = m.from, u.relay.id = m.id,
         \A c \in u.table : c.via = m.from /\ c.id = m.id,
         u.mine # 0, u.theirs = 0,
         \A x \in p : \/ x \in q /\ x # m
                      \/ x.kind = "end" /\ x.from = Target
                      \/ x.kind = "data" /\ x.from = Target /\ x.to # Target
  PROVE  Route(a, u, H, p)
<1>1. PacketRoute(a, t, H, m) /\ m \in Packets /\ m.from \in Vias
  BY DEF Route, Sound, Packets
<1>2. TargetRoute(a, u, H)
  BY <1>1 DEF PacketRoute, TargetRoute
<1>3. ASSUME NEW x \in p PROVE PacketRoute(a, u, H, x)
  <2>1. CASE x \in q /\ x # m
    <3>1. PacketRoute(a, t, H, x) /\ x \in Packets
      BY <2>1 DEF Route, Sound
    <3>2. CASE x.kind = "connect" /\ x.from = m.from
      <4>1. /\ \E r \in H[m.from] : r.connect = m.id
            /\ \E r \in H[m.from] : r.connect = x.id
            /\ x.to = Target /\ m.to = Target
        BY <1>1, <3>1, <3>2 DEF PacketRoute, Made
      <4>2. x.id = m.id
        BY <1>1, <4>1 DEF Route, HubRoute
      <4>3. QED
        BY <1>1, <2>1, <3>1, <3>2, <4>1, <4>2, SameConnect
    <3>3. CASE ~(x.kind = "connect" /\ x.from = m.from)
      BY <3>1, <3>3 DEF PacketRoute
    <3>4. QED
      BY <3>2, <3>3
  <2>2. CASE x.kind = "end" /\ x.from = Target
    BY <2>2 DEF PacketRoute
  <2>3. CASE x.kind = "data" /\ x.from = Target /\ x.to # Target
    BY <2>3, EndsDiffer DEF PacketRoute
  <2>4. QED
    BY <1>3, <2>1, <2>2, <2>3
<1>4. QED
  BY <1>2, <1>3 DEF Route

\* A connect packet.
LEMMA HandleConnectRoute ==
  ASSUME RelayInv, Route(end[Asker], end[Target], hub, net),
         NEW m \in net, m.kind = "connect", m.to \in Ends,
         HandleConnect(m.to, m, net \ {m})
  PROVE  Route(end'[Asker], end'[Target], hub', net')
<1> DEFINE a == end[Asker]
           t == end[Target]
           v == m.from
           j == Connected(Target, v, m.id)
           k == IF t.mine # 0 THEN Released(Closed(t)) ELSE t
           n == [via |-> v, id |-> m.id, heard |-> FALSE, current |-> TRUE]
           u == {[d EXCEPT !.current = FALSE] :
                   d \in {x \in k.table : x.via # v \/ x.id # m.id}}
           r == [there |-> TRUE, via |-> v, id |-> m.id]
           left == net \ {m}
           gone == IF t.mine # 0 THEN ReleaseSends(Target, t) ELSE {}
           sent == RelaySends(Target, j, Open(Target, j.mine))
<1>1. /\ net \in SUBSET Sound /\ m \in Sound /\ PacketRoute(a, t, hub, m)
      /\ TargetRoute(a, t, hub) /\ a.relay.there /\ EndOk(t)
      /\ Asker \in Ends /\ Target \in Ends /\ Other(Target) = Asker
  BY EndsDiffer DEF RelayInv, Route, Pristine, Ends, Other
<1>2. /\ m.to = Target /\ m.id # 0 /\ v \in Vias /\ t \in EndStates
      /\ Fresh(Target) \in Nat /\ Fresh(Target) # 0
  BY <1>1 DEF PacketRoute, Sound, Packets, EndOk, RelayInv, TypeOK, Fresh
<1>3. Becomes(Target, j, left \union gone \union sent)
  BY <1>2 DEF HandleConnect
<1>4. k.table = {} /\ k.theirs = 0 /\ k \in EndStates
  <2> HIDE DEF t, a
  <2>1. CASE t.mine # 0
    <3>1. EndOk(k) /\ k = Released(Closed(t))
      BY <1>1, <2>1, ReleasedOk
    <3>2. /\ Closed(t).table = t.table /\ Closed(t).relay = t.relay
          /\ Closed(t).theirs = 0 /\ Closed(t) \in EndStates
      BY <1>2 DEF Closed, EndStates
    <3> DEFINE c == Closed(t)
               s == {x \in c.table : x.via # c.relay.via \/ x.id # c.relay.id}
    <3>3. k = [c EXCEPT !.table = s, !.relay = NoRelay]
      BY <3>1 DEF Released
    <3>4. s = {}
      BY <1>1, <3>2 DEF TargetRoute
    <3> HIDE DEF c, s, k
    <3>5. k.table = s /\ k.theirs = c.theirs
      BY <3>2, <3>3 DEF EndStates, c
    <3>6. QED
      BY <3>1, <3>2, <3>4, <3>5 DEF EndOk, c
  <2>2. CASE t.mine = 0
    BY <1>1, <1>2, <2>2 DEF TargetRoute
  <2>3. QED
    BY <2>1, <2>2
<1>5. j = [k EXCEPT !.relay = r, !.table = u \union {n}, !.mine = Fresh(Target),
                    !.job = TRUE]
  BY DEF Connected
<1> HIDE DEF j, k, t, a
<1>6. u = {}
  BY <1>4
<1> HIDE DEF u, r
<1>7. j.relay = r /\ j.table = {n} /\ j.mine = Fresh(Target) /\ j.theirs = 0
  BY <1>4, <1>5, <1>6 DEF EndStates
<1> HIDE DEF n
<1>8. /\ j.relay.there /\ j.relay.via = v /\ j.relay.id = m.id
      /\ \A c \in j.table : c.via = v /\ c.id = m.id
      /\ j.mine # 0
  BY <1>2, <1>7 DEF r, n
<1>9. \A x \in gone : x.kind = "end" /\ x.from = Target
  BY DEF ReleaseSends, EndOf
<1>10. \A x \in sent : x.kind = "data" /\ x.from = Target /\ x.to # Target
  <2>1. Ready(j) = j
    BY <1>2, <1>8 DEF Ready
  <2>2. \A x \in sent : x.kind = "data" /\ x.from = Target /\ x.to = v
    BY <1>2, <1>8, <2>1 DEF RelaySends, Data
  <2>3. QED
    BY <1>1, <1>2, <2>2, NotBoth
<1> HIDE DEF gone, sent
<1>11. Route(a, j, hub, left \union gone \union sent)
  BY <1>1, <1>7, <1>8, <1>9, <1>10, TargetMoves DEF a, t
<1>12. QED
  BY <1>1, <1>3, <1>11, BecomesIs DEF a

\* The peer relays of a via stay the same but for what is said of their
\* channels.
SameRelays(R, S) ==
  /\ \A r \in R : \E s \in S : r.from = s.from /\ r.peer = s.peer /\ r.connect = s.connect
  /\ \A s \in S : \E r \in R : r.from = s.from /\ r.peer = s.peer /\ r.connect = s.connect

\* A via passes on what came on a channel.
LEMMA HubGoesOn ==
  ASSUME NEW a, NEW t, NEW H, NEW K, NEW q, NEW p,
         Route(a, t, H, q), a.relay.there, q \in SUBSET Sound,
         EndOk(t), \A v \in Vias : SameRelays(H[v], K[v]),
         \A m \in p : \/ m \in q
                      \/ /\ m.kind = "data" /\ m.from # Asker
                         /\ m.to = Target => Settled(a) /\ m.from = a.relay.via
  PROVE  Route(a, t, K, p)
<1>1. \A v \in Vias : \A id : Made(H, v, id) => Made(K, v, id)
  BY DEF Made, SameRelays
<1>2. HubRoute(a, K)
  <2> SUFFICES ASSUME NEW v \in Vias, NEW r \in K[v], NEW s \in K[v]
               PROVE  r.from = Asker /\ r.connect = s.connect /\ Has(a, v, r.peer)
    BY DEF HubRoute
  <2>1. PICK x \in H[v] : x.from = r.from /\ x.peer = r.peer /\ x.connect = r.connect
    BY DEF SameRelays
  <2>2. PICK y \in H[v] : y.connect = s.connect
    BY DEF SameRelays
  <2>3. x.from = Asker /\ x.connect = y.connect /\ Has(a, v, x.peer)
    BY DEF Route, HubRoute
  <2>4. QED
    BY <2>1, <2>2, <2>3
<1>3. TargetRoute(a, t, K)
  BY <1>1 DEF Route, TargetRoute, EndOk
<1>4. ASSUME NEW m \in p PROVE PacketRoute(a, t, K, m)
  <2>1. CASE m \in q
    <3>1. /\ PacketRoute(a, t, H, m)
          /\ m.kind = "peer" => m.to \in Vias
          /\ m.kind = "connect" => m.from \in Vias
      BY <2>1 DEF Route, Sound, Packets
    <3>2. m.kind = "peer" => K[m.to] = {}
      BY <3>1 DEF PacketRoute, SameRelays
    <3>3. QED
      BY <1>1, <3>1, <3>2 DEF PacketRoute
  <2>2. CASE m \notin q
    BY <1>4, <2>2 DEF PacketRoute
  <2>3. QED
    BY <2>1, <2>2
<1>5. QED
  BY <1>2, <1>3, <1>4 DEF Route

\* What comes on a channel of a peer relay.
LEMMA HandleAtViaRoute ==
  ASSUME RelayInv, Route(end[Asker], end[Target], hub, net),
         NEW m \in net, m.kind # "peer", m.to \in Vias,
         NEW q \in SUBSET net,
         HandleAtVia(m.to, m, q), UNCHANGED <<end, made, knows>>
  PROVE  Route(end'[Asker], end'[Target], hub', net')
<1> DEFINE a == end[Asker]
           t == end[Target]
           v == m.to
           on == {r \in hub[v] : OnPeer(r, m) \/ OnConnect(r, m)}
           R == (hub[v] \ on) \union {Ended(r, m) : r \in on}
           sent == UNION {Passes(v, r, m) : r \in on}
<1>1. /\ net \in SUBSET Sound /\ m \in Sound /\ PacketRoute(a, t, hub, m)
      /\ a.relay.there /\ EndOk(t) /\ m.kind # "connect"
      /\ Target \in Ends /\ Other(Asker) = Target
      /\ hub \in [Vias -> SUBSET PeerRelays]
      /\ \A r \in hub[v] : r.from = Asker
  BY EndsDiffer, NotBoth
  DEF RelayInv, TypeOK, Route, Pristine, Ends, Other, Sound, Packets, HubRoute
<1>2. m.from \in Ends /\ (m.from = Asker => m.kind = "data")
  BY <1>1, NotBoth, EndsDiffer DEF Sound, Packets, PacketRoute
<1>3. end' = end /\ hub' = [hub EXCEPT ![v] = R] /\ net' = q \union sent
  BY DEF HandleAtVia
<1> HIDE DEF a, t
<1>4. \A r \in on : LET s == Ended(r, m)
                   IN s.from = r.from /\ s.peer = r.peer /\ s.connect = r.connect
  BY <1>1 DEF Ended, PeerRelays
<1>5. SameRelays(hub[v], R)
  <2>1. ASSUME NEW r \in hub[v]
        PROVE  \E s \in R : r.from = s.from /\ r.peer = s.peer /\ r.connect = s.connect
    <3>1. CASE r \in on
      <4>1. Ended(r, m) \in R
        BY <3>1
      <4> HIDE DEF R, on
      <4>2. QED
        BY <1>4, <3>1, <4>1
    <3>2. CASE r \notin on
      BY <3>2
    <3>3. QED
      BY <3>1, <3>2
  <2>2. ASSUME NEW s \in R
        PROVE  \E r \in hub[v] : r.from = s.from /\ r.peer = s.peer /\ r.connect = s.connect
    BY <1>4
  <2>3. QED
    BY <2>1, <2>2 DEF SameRelays
<1>6. ASSUME NEW w \in Vias PROVE SameRelays(hub[w], hub'[w])
  <2> HIDE DEF R
  <2>1. CASE w = v
    BY <1>1, <1>3, <1>5, <2>1
  <2>2. CASE w # v
    BY <1>1, <1>3, <2>2 DEF SameRelays
  <2>3. QED
    BY <2>1, <2>2
<1>7. ASSUME NEW x \in sent
      PROVE  /\ x.kind = "data" /\ x.from # Asker
             /\ x.to = Target => Settled(a) /\ x.from = a.relay.via
  <2>1. PICK r \in on : x \in Passes(v, r, m)
    OBVIOUS
  <2>2. r.from = Asker /\ v # Asker /\ Asker # Target
    BY <1>1, EndsDiffer DEF Ends
  <2>3. CASE OnPeer(r, m)
    <3>1. m.from = Asker /\ Settled(a) /\ v = a.relay.via
      BY <1>1, <1>2, <2>2, <2>3 DEF OnPeer, PacketRoute
    <3>2. QED
      BY <2>1, <2>2, <2>3, <3>1 DEF Passes, Data
  <2>4. CASE ~OnPeer(r, m)
    BY <2>1, <2>2, <2>4 DEF Passes, Data
  <2>5. QED
    BY <2>3, <2>4
<1> HIDE DEF sent, R, on
<1>8. Route(a, t, hub', q \union sent)
  BY <1>1, <1>6, <1>7, HubGoesOn DEF a, t
<1>9. QED
  BY <1>3, <1>8 DEF a, t

\* There is one peer packet for a channel.
LEMMA SamePeer ==
  ASSUME NEW m \in Packets, NEW x \in Packets, m.kind = "peer",
         x.kind = "peer", x.from = m.from, x.to = m.to, x.id = m.id
  PROVE  x = m
<1>1. \A y \in Packets : y.kind = "peer" =>
        y \in [kind : {"peer", "end"}, from : Ends, to : Vias, id : Nat]
  BY DEF Packets
<1>2. QED
  BY <1>1

\* A peer packet, which makes the first peer relay of its via.
LEMMA HandlePeerRoute ==
  ASSUME RelayInv, Route(end[Asker], end[Target], hub, net),
         NEW m \in net, m.kind = "peer", m.to \in Vias,
         HandlePeer(m.to, m, net \ {m}), UNCHANGED <<end, made, knows>>
  PROVE  Route(end'[Asker], end'[Target], hub', net')
<1> DEFINE a == end[Asker]
           t == end[Target]
           v == m.to
           id == given[v][Target] + 2
           new == PeerRelay(Asker, m.id, id)
           left == net \ {m}
           con == Connect(v, Target, id)
<1>1. /\ net \in SUBSET Sound /\ m \in Sound /\ PacketRoute(a, t, hub, m)
      /\ Route(a, t, hub, net)
      /\ a.relay.there /\ EndOk(t) /\ Target \in Ends /\ Other(Asker) = Target
      /\ hub \in [Vias -> SUBSET PeerRelays]
      /\ given[v][Target] \in Nat
  BY EndsDiffer DEF RelayInv, TypeOK, Route, Pristine, Ends, Other
<1>2. m.from = Asker /\ hub[v] = {} /\ Has(a, v, m.id) /\ id # 0
  BY <1>1 DEF PacketRoute
<1>3. CASE UNCHANGED hub /\ net' = left
  BY <1>1, <1>3 DEF Route
<1>4. CASE hub' = [hub EXCEPT ![v] = {new}] /\ net' = left \union {con}
  <2> HIDE DEF a, t, id
  <2>1. /\ hub'[v] = {new} /\ new.from = Asker /\ new.peer = m.id /\ new.connect = id
        /\ \A w \in Vias : w # v => hub'[w] = hub[w]
    BY <1>1, <1>4 DEF PeerRelay
  <2> HIDE DEF new, con, v
  <2>2. HubRoute(a, hub')
    <3> SUFFICES ASSUME NEW w \in Vias, NEW r \in hub'[w], NEW s \in hub'[w]
                 PROVE  r.from = Asker /\ r.connect = s.connect /\ Has(a, w, r.peer)
      BY DEF HubRoute
    <3>1. CASE w = v
      BY <1>2, <2>1, <3>1
    <3>2. CASE w # v
      BY <1>1, <2>1, <3>2 DEF Route, HubRoute
    <3>3. QED
      BY <3>1, <3>2
  <2>3. t.relay.there => t.relay.via # v /\ t.relay.via \in Vias
    BY <1>1, <1>2 DEF Route, TargetRoute, Made, EndOk
  <2>4. TargetRoute(a, t, hub')
    BY <1>1, <2>1, <2>3 DEF Route, TargetRoute, Made
  <2>5. ASSUME NEW x \in left PROVE PacketRoute(a, t, hub', x)
    <3>1. x \in net /\ x # m
      OBVIOUS
    <3>2. /\ PacketRoute(a, t, hub, x) /\ x \in Packets /\ m \in Packets
          /\ x.kind = "peer" => x.to \in Vias
          /\ x.kind = "connect" => x.from \in Vias
      BY <1>1, <3>1 DEF Route, Sound, Packets
    <3>3. x.kind = "peer" => hub'[x.to] = {}
      <4>1. CASE x.kind = "peer" /\ x.to = v
        <5>1. \A c, d \in a.table : c.via = d.via => c.id = d.id
          BY <1>1 DEF Route, AskerRoute
        <5>2. x.id = m.id
          BY <1>2, <3>2, <4>1, <5>1 DEF PacketRoute, Has
        <5>3. x.from = m.from
          BY <1>2, <3>2, <4>1 DEF PacketRoute
        <5>4. QED
          BY <3>1, <3>2, <4>1, <5>2, <5>3, SamePeer DEF v
      <4>2. CASE x.kind = "peer" /\ x.to # v
        BY <2>1, <3>2, <4>2 DEF PacketRoute
      <4>3. QED
        BY <4>1, <4>2
    <3>4. x.kind = "connect" => Made(hub', x.from, x.id)
      BY <1>2, <2>1, <3>2 DEF PacketRoute, Made
    <3>5. QED
      BY <3>2, <3>3, <3>4 DEF PacketRoute
  <2>6. PacketRoute(a, t, hub', con)
    <3>1. con.kind = "connect" /\ con.from = v /\ con.to = Target /\ con.id = id
      BY DEF con, Connect
    <3>2. QED
      BY <1>2, <2>1, <2>3, <3>1 DEF PacketRoute, Made
  <2>7. Route(a, t, hub', net')
    BY <1>1, <1>4, <2>2, <2>4, <2>5, <2>6 DEF Route
  <2>8. QED
    BY <2>7 DEF a, t
<1>5. Displaced({}, Asker, m.id) \union {new} = {new}
  BY DEF Displaced
<1>6. QED
  BY <1>1, <1>2, <1>3, <1>4, <1>5 DEF HandlePeer

\* A packet that an end sends on the line.
LEMMA TellRoute ==
  ASSUME RelayInv, Route(end[Asker], end[Target], hub, net),
         NEW e \in Ends, Tell(e)
  PROVE  Route(end'[Asker], end'[Target], hub', net')
<1> DEFINE a == end[Asker]
           t == end[Target]
           i == end[e]
           n == i.told + 1
           j == [i EXCEPT !.told = n]
           sent == RelaySends(e, i, OnLine(e, i.theirs))
<1>1. /\ EndOk(i) /\ EndOk(a) /\ EndOk(t) /\ i \in EndStates
      /\ Route(a, t, hub, net) /\ AskerRoute(a) /\ TargetRoute(a, t, hub)
      /\ i.theirs # 0 /\ i.relay.there
      /\ Asker \in Ends /\ Target \in Ends /\ Other(Asker) = Target
      /\ Other(Target) = Asker
  BY EndsDiffer DEF RelayInv, EndOk, Tell, Ends, Other, Route
<1>2. i.relay.id # 0 /\ a.relay.there
  BY <1>1 DEF AskerRoute, TargetRoute, Settled, Ends
<1>3. Ready(i) = i
  BY <1>2 DEF Ready
<1>4. Becomes(e, j, net \union sent)
  BY <1>3 DEF Tell
<1> HIDE DEF i, n
<1>5. /\ j.relay = i.relay /\ j.table = i.table /\ j.mine = i.mine
      /\ j.theirs = i.theirs
  BY <1>1 DEF EndStates
<1> HIDE DEF j
<1>6. \A x \in sent : /\ x.kind = "data" /\ x.from = e /\ x.to = i.relay.via
                     /\ x.to # Target
  <2>1. \A x \in sent : x.kind = "data" /\ x.from = e /\ x.to = i.relay.via
    BY <1>2, <1>3 DEF RelaySends, Data
  <2>2. i.relay.via \in Vias
    BY <1>1 DEF EndOk
  <2>3. QED
    BY <1>1, <2>1, <2>2, NotBoth
<1> HIDE DEF sent
<1>7. CASE e = Asker
  <2>1. i = a
    BY <1>7 DEF i
  <2> HIDE DEF a, t
  <2>2. AskerRoute(j) /\ Settled(j) /\ j.relay.there
    BY <1>1, <1>5, <2>1 DEF AskerRoute, Settled, Has
  <2>3. \A c \in a.table : Has(j, c.via, c.id)
    BY <1>5, <2>1 DEF Has
  <2>4. Route(j, t, hub, net \union sent)
    BY <1>1, <1>2, <1>5, <1>6, <1>7, <2>1, <2>2, <2>3, AskerGoesOn
  <2>5. QED
    BY <1>1, <1>4, <1>7, <2>4, BecomesIs DEF t
<1>8. CASE e = Target
  <2>1. i = t
    BY <1>8 DEF i
  <2> HIDE DEF a, t
  <2>2. \A c \in j.table : Has(t, c.via, c.id)
    BY <1>5, <2>1 DEF Has
  <2>3. t.relay.there /\ t.relay.via = a.relay.via /\ Settled(a)
    BY <1>1, <2>1 DEF TargetRoute
  <2>4. Route(a, j, hub, net \union sent)
    BY <1>1, <1>2, <1>5, <1>6, <1>8, <2>1, <2>2, <2>3, TargetGoesOn
  <2>5. QED
    BY <1>1, <1>4, <1>8, <2>4, BecomesIs DEF a
<1>9. QED
  BY <1>7, <1>8 DEF Ends

\* openLine over vias: nothing went on before.
LEMMA AskViasRoute ==
  ASSUME RelayInv, Route(end[Asker], end[Target], hub, net),
         NEW S \in SUBSET Vias, NEW last \in S, AskVias(S, last)
  PROVE  Route(end'[Asker], end'[Target], hub', net')
<1> DEFINE a == end[Asker]
           t == end[Target]
           id(v) == a.next[v] + 2
           c(v) == [via |-> v, id |-> id(v), heard |-> FALSE, current |-> TRUE]
           T == a.table \union {c(v) : v \in S}
           r == [there |-> TRUE, via |-> last, id |-> id(last)]
           nx == [v \in Vias |-> IF v \in S THEN a.next[v] + 4 ELSE a.next[v]]
           j == [a EXCEPT !.table = T, !.relay = r, !.job = TRUE, !.next = nx]
           sent == {Ask(Asker, v, id(v)) : v \in S}
<1>1. /\ a \in EndStates /\ EndOk(a) /\ ~a.relay.there
      /\ Pristine(a, t, hub, net) /\ AskerRoute(a) /\ TargetRoute(a, t, hub)
      /\ Asker \in Ends /\ Target \in Ends /\ Other(Asker) = Target
  BY EndsDiffer DEF RelayInv, EndOk, AskVias, Route, Ends, Other
<1>2. /\ net = {} /\ a.table = {} /\ a.theirs = 0 /\ t.theirs = 0 /\ t.table = {}
      /\ ~t.relay.there /\ \A v \in Vias : hub[v] = {}
  BY <1>1 DEF Pristine, AskerRoute, TargetRoute, Settled
<1>3. Becomes(Asker, j, net \union sent)
  <2>1. nx = [v \in Vias |-> IF v \in S THEN a.next[v] + 4 ELSE a.next[v]]
    OBVIOUS
  <2>2. QED
    BY <1>1 DEF AskVias, EndStates
<1>4. \A v \in S : id(v) \in Nat /\ id(v) # 0 /\ v \in Vias
  BY <1>1 DEF EndStates
<1>5. \A v \in S : /\ c(v) \in T /\ c(v).via = v /\ c(v).id = id(v)
                   /\ c(v).current
  OBVIOUS
<1>6. \A d \in T : \E v \in S : d = c(v)
  BY <1>2
<1>7. r.there /\ r.via = last /\ r.id = id(last)
  OBVIOUS
<1> HIDE DEF T, r, nx, a, t
<1>8. j.table = T /\ j.relay = r /\ j.theirs = a.theirs
  BY <1>1 DEF EndStates
<1> HIDE DEF j
<1>9. \A m \in sent : \E v \in S : m.kind = "peer" /\ m.from = Asker /\ m.to = v /\ m.id = id(v)
  BY DEF Ask
<1> HIDE DEF sent, c, id
<1>10. \A v \in S : Has(j, v, id(v))
  BY <1>5, <1>8 DEF Has
<1>11. AskerRoute(j)
  <2>1. \A d \in j.table : d.current /\ d.id # 0
    BY <1>4, <1>5, <1>6, <1>8
  <2>2. \A d, f \in j.table : d.via = f.via => d.id = f.id
    BY <1>5, <1>6, <1>8
  <2>3. j.relay.id # 0 /\ Has(j, j.relay.via, j.relay.id)
    BY <1>4, <1>7, <1>8, <1>10
  <2>4. QED
    BY <1>2, <1>8, <2>1, <2>2, <2>3 DEF AskerRoute
<1>12. TargetRoute(j, t, hub) /\ HubRoute(j, hub)
  BY <1>2 DEF TargetRoute, HubRoute
<1>13. \A m \in sent : PacketRoute(j, t, hub, m)
  BY <1>2, <1>4, <1>9, <1>10 DEF PacketRoute
<1>14. Route(j, t, hub, net \union sent)
  BY <1>2, <1>7, <1>8, <1>11, <1>12, <1>13 DEF Route
<1>15. QED
  BY <1>1, <1>3, <1>14, BecomesIs DEF t

\* The route of the start is that of an asker that has not asked.
LEMMA RouteInit == Init => Route(end[Asker], end[Target], hub, net)
<1> SUFFICES ASSUME Init PROVE Route(end[Asker], end[Target], hub, net)
  OBVIOUS
<1>2. PICK n \in Starts :
        end = [e \in Ends |-> Stranger(IF e = Asker THEN n ELSE FirstAtEnd)]
  BY DEF Init
<1>3. /\ end[Asker] = Stranger(n) /\ end[Target] = Stranger(FirstAtEnd)
      /\ net = {} /\ \A v \in Vias : hub[v] = {}
  BY <1>2, EndsDiffer DEF Init, Ends
<1>4. \A k : /\ Stranger(k).table = {} /\ Stranger(k).theirs = 0
             /\ ~Stranger(k).relay.there
  BY DEF Stranger, NoRelay
<1>5. Route(end[Asker], end[Target], hub, net)
  BY <1>3, <1>4
  DEF Route, AskerRoute, TargetRoute, HubRoute, Pristine
<1>6. QED
  BY <1>5

\* Steps that begin nothing anew: packets may be lost, and what is not an
\* introduction may come twice.
Onward ==
  \/ \E S \in SUBSET Vias : \E last \in S : AskVias(S, last)
  \/ \E e \in Ends : Tell(e)
  \/ \E m \in net : \/ Deliver(m)
                    \/ Lose(m)
                    \/ m.kind \in {"data", "end"} /\ Repeat(m)

LEMMA OnwardRoute ==
  ASSUME RelayInv, Route(end[Asker], end[Target], hub, net), Onward
  PROVE  Route(end'[Asker], end'[Target], hub', net')
<1> DEFINE Kept == Route(end'[Asker], end'[Target], hub', net')
<1>1. ASSUME NEW m \in net
      PROVE  /\ m \in Sound
             /\ m.kind = "peer" => m.to \in Vias
             /\ m.kind = "connect" => m.to \in Ends
             /\ m.kind = "end" => m.to \in Vias
             /\ m.kind \in {"peer", "end", "connect", "data"}
             /\ ~(m.to \in Vias /\ m.to \in Ends)
  BY NotBoth DEF RelayInv, Sound, Packets
<1>2. ASSUME NEW m \in net, NEW q \in SUBSET net, m.kind \in {"data", "end"},
             Arrives(m, q)
      PROVE  Kept
  <2>1. CASE m.to \in Vias
    BY <1>1, <1>2, <2>1, HandleAtViaRoute DEF Arrives
  <2>2. CASE m.to \in Ends
    BY <1>1, <1>2, <2>2, HandleDataRoute DEF Arrives
  <2>3. QED
    BY <1>2, <2>1, <2>2 DEF Arrives
<1>3. ASSUME NEW m \in net, Deliver(m) PROVE Kept
  <2>1. CASE m.kind = "peer"
    BY <1>1, <1>3, <2>1, HandlePeerRoute DEF Deliver, Arrives
  <2>2. CASE m.kind = "connect"
    BY <1>1, <1>3, <2>2, HandleConnectRoute DEF Deliver, Arrives
  <2>3. CASE m.kind \in {"data", "end"}
    <3>1. net \ {m} \in SUBSET net
      OBVIOUS
    <3>2. QED
      BY <1>2, <1>3, <2>3, <3>1 DEF Deliver
  <2>4. QED
    BY <1>1, <2>1, <2>2, <2>3
<1>4. ASSUME NEW m \in net, Lose(m) PROVE Kept
  BY <1>4 DEF Lose, Route, Pristine
<1>5. ASSUME NEW m \in net, m.kind \in {"data", "end"}, Repeat(m) PROVE Kept
  BY <1>2, <1>5 DEF Repeat
<1>6. ASSUME NEW S \in SUBSET Vias, NEW last \in S, AskVias(S, last) PROVE Kept
  BY <1>6, AskViasRoute
<1>7. ASSUME NEW e \in Ends, Tell(e) PROVE Kept
  BY <1>7, TellRoute
<1>8. QED
  BY <1>3, <1>4, <1>5, <1>6, <1>7 DEF Onward

LEMMA RoutePaired ==
  ASSUME RelayInv, Route(end[Asker], end[Target], hub, net), Mutual
  PROVE  Paired
<1> DEFINE a == end[Asker]
           t == end[Target]
<1>1. /\ AskerRoute(a) /\ TargetRoute(a, t, hub) /\ HubRoute(a, hub)
      /\ EndOk(t) /\ t.theirs # 0
  BY EndsDiffer DEF RelayInv, Route, Mutual, Ends
<1> HIDE DEF a, t
<1>2. /\ t.relay.there /\ t.relay.via = a.relay.via /\ t.relay.via \in Vias
      /\ Settled(a) /\ Made(hub, t.relay.via, t.relay.id)
  BY <1>1 DEF TargetRoute, EndOk
<1>3. PICK r \in hub[a.relay.via] : r.connect = t.relay.id
  BY <1>2 DEF Made
<1>4. r.from = Asker /\ Has(a, a.relay.via, r.peer)
  BY <1>1, <1>2 DEF HubRoute
<1>5. r.peer = a.relay.id
  BY <1>1, <1>2, <1>4 DEF AskerRoute, Has, Settled
<1>6. QED
  BY <1>2, <1>3, <1>4, <1>5 DEF Paired, a, t

\* As long as no end begins anew and no introduction comes twice, two ends that
\* have a line to each other use one via and one peer relay of it, whatever is
\* on its way or was lost, however many vias the asker asked and whichever
\* answered first (THRelay handlePacket, THPeerRelay, THLine's connect branch).
THEOREM MutualPaired == Init /\ [][Onward]_vars => [](Mutual => Paired)
<1> DEFINE Inv == RelayInv /\ Route(end[Asker], end[Target], hub, net)
<1>1. Init => Inv
  BY RelayInit, RouteInit
<1>2. Inv /\ [Onward]_vars => Inv'
  <2> SUFFICES ASSUME Inv, [Onward]_vars PROVE Inv'
    OBVIOUS
  <2>1. Onward => Next
    BY DEF Onward, Next
  <2>2. RelayInv'
    BY <2>1, RelayStep
  <2>3. CASE Onward
    BY <2>2, <2>3, OnwardRoute
  <2>4. CASE UNCHANGED vars
    BY <2>2, <2>4 DEF vars
  <2>5. QED
    BY <2>3, <2>4
<1>3. Inv => (Mutual => Paired)
  BY RoutePaired
<1> HIDE DEF Inv
<1>4. QED
  BY <1>1, <1>2, <1>3, PTL

\* The route while there has been no fault.
RouteInv ==
  /\ RelayInv
  /\ faults = 0 => Route(end[Asker], end[Target], hub, net)

LEMMA RouteStep ==
  ASSUME RouteInv, [Next]_vars
  PROVE  RouteInv'
<1>1. RelayInv /\ RelayInv'
  BY RelayStep DEF RouteInv
<1> SUFFICES ASSUME faults' = 0
             PROVE  Route(end'[Asker], end'[Target], hub', net')
  BY <1>1 DEF RouteInv
<1>2. faults \in Nat
  BY <1>1, BoundsAreNat DEF RelayInv, TypeOK
<1>3. ~Fault
  BY <1>2 DEF Fault
<1>4. faults = 0
  BY <1>3 DEF Next, vars, AskVias, Tell, Reset, NewViaLine, Deliver, Repeat, Lose
<1>5. Route(end[Asker], end[Target], hub, net)
  BY <1>4 DEF RouteInv
<1>6. CASE UNCHANGED vars
  BY <1>5, <1>6 DEF vars
<1>7. CASE Next
  <2>1. Onward
    BY <1>3, <1>7 DEF Next, Onward, Reset, NewViaLine, Repeat, Lose
  <2>2. QED
    BY <1>1, <1>5, <2>1, OnwardRoute
<1>8. QED
  BY <1>6, <1>7

THEOREM RouteInvariant == Spec => []RouteInv
<1>1. Init => RouteInv
  BY RelayInit, RouteInit DEF RouteInv
<1>2. QED
  BY <1>1, RouteStep, PTL DEF Spec

\* The part of QuietPaired that speaks of no fault, for any number of vias: not
\* only when it is quiet.
THEOREM QuietPairedCorrect == Spec => [](faults = 0 => QuietPaired)
<1>1. RouteInv => (faults = 0 => QuietPaired)
  BY RoutePaired DEF RouteInv, QuietPaired
<1>2. QED
  BY <1>1, RouteInvariant, PTL

================================================================================
