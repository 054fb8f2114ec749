----------------------------- MODULE Links_proofs ------------------------------
(***************************************************************************)
(* What holds of the links of two switches, for every number of losses,    *)
(* crashes and rounds that miss the peer: the state keeps its types, and a *)
(* link on which nothing comes is given up in time.  And while nothing is  *)
(* lost and one round at most misses the peer, a link both have is kept.   *)
(***************************************************************************)
EXTENDS Links, TLAPS

\* The silence of a link and the time to the next round of pings add up to a
\* bound: the next round finds it idle in time.  A link that is not looked at
\* yet is as old as its silence, and one that is there is in a bucket.
Timely(i, s) ==
  /\ i.link.in + i.phase <= 14 + 5 * s
  /\ i.link.age <= Young => i.link.in <= i.link.age
  /\ i.link.id = 0 => i.link.in = 0
  /\ i.link.id # 0 => i.met

\* The inductive invariant.
LinkInv == TypeOK /\ \A e \in Ends : Timely(sw[e], skips)

\* An identity whose link is another one, of the times a link starts with.
LEMMA RelinkedTimely ==
  ASSUME NEW i \in SwitchStates, NEW s \in Nat, Timely(i, s),
         NEW j \in SwitchStates, j.phase = i.phase, j.link.in = 0,
         j.link.id # 0 => j.met
  PROVE  Timely(j, s)
<1>1. i.phase \in 0..5 /\ j.link.in + j.phase <= 14 + 5 * s
  BY DEF SwitchStates, Period
<1>2. j.link.age \in Nat
  BY DEF SwitchStates, LinkStates, Young
<1>3. QED
  BY <1>1, <1>2 DEF Timely

\* An identity whose link is as old and as silent as it was.
LEMMA SameLinkTimely ==
  ASSUME NEW i \in SwitchStates, NEW s \in Nat, Timely(i, s),
         NEW j \in SwitchStates, j.phase = i.phase, i.met => j.met,
         j.link.in = i.link.in, j.link.age = i.link.age, j.link.id = i.link.id
  PROVE  Timely(j, s)
BY DEF Timely

\* linkToIdentity keeps an identity timely.
LEMMA LinkToTimely ==
  ASSUME NEW i \in SwitchStates, NEW s \in Nat, Timely(i, s)
  PROVE  LinkTo(i) \in SwitchStates /\ Timely(LinkTo(i), s)
<1>1. CASE HasLink(i)
  <2>1. LinkTo(i) = [i EXCEPT !.met = TRUE, !.link = [i.link EXCEPT !.out = 0]]
    BY <1>1 DEF LinkTo, SwitchStates
  <2>2. [i.link EXCEPT !.out = 0] \in LinkStates
    BY DEF SwitchStates, LinkStates, Recent
  <2>3. LinkTo(i) \in SwitchStates
    BY <2>1, <2>2 DEF SwitchStates
  <2>4. /\ LinkTo(i).phase = i.phase /\ LinkTo(i).met
        /\ LinkTo(i).link = [i.link EXCEPT !.out = 0]
    BY <2>1 DEF SwitchStates
  <2>5. QED
    BY <2>3, <2>4, SameLinkTimely DEF SwitchStates, LinkStates
<1>2. CASE ~HasLink(i)
  <2>1. i.next + 2 \in Nat
    BY DEF SwitchStates
  <2>2. OutLink(i.next + 2) \in LinkStates
    BY <2>1 DEF OutLink, LinkStates, Recent, Young
  <2>3. LinkTo(i) = [i EXCEPT !.met = TRUE, !.next = i.next + 2,
                              !.link = OutLink(i.next + 2)]
    BY <1>2 DEF LinkTo
  <2>4. LinkTo(i) \in SwitchStates
    BY <2>1, <2>2, <2>3 DEF SwitchStates
  <2>5. /\ LinkTo(i).phase = i.phase /\ LinkTo(i).met
        /\ LinkTo(i).link.in = 0
    BY <2>3 DEF SwitchStates, OutLink
  <2>6. QED
    BY <2>4, <2>5, RelinkedTimely
<1>3. QED
  BY <1>1, <1>2

\* So does the reset of an identity.
LEMMA ResetTimely ==
  ASSUME NEW i \in SwitchStates, NEW s \in Nat, Timely(i, s)
  PROVE  ResetId(i) \in SwitchStates /\ Timely(ResetId(i), s)
<1>1. NoLink \in LinkStates
  BY DEF NoLink, LinkStates, Recent, Young
<1>2. ResetId(i) \in SwitchStates
  BY <1>1 DEF ResetId, SwitchStates
<1>3. ResetId(i).phase = i.phase /\ ResetId(i).link = NoLink
  BY DEF ResetId, SwitchStates
<1>4. QED
  BY <1>2, <1>3, RelinkedTimely DEF NoLink

\* So does a line that becomes one to the peer's line n.
LEMMA KeyedTimely ==
  ASSUME LinkInv, NEW e \in Ends, NEW n \in Nat
  PROVE  LET k == Keyed(e, sw[e], n)
         IN k \in SwitchStates /\ Timely(k, skips) /\ k.met
<1> DEFINE i == sw[e]
           k == Keyed(e, i, n)
<1>1. /\ i \in SwitchStates /\ Timely(i, skips) /\ skips \in Nat
      /\ made[e] \in Nat
  BY BoundsAreNat DEF LinkInv, TypeOK
<1>2. FirstId(e) \in Nat /\ Fresh(e) \in Nat
  BY <1>1 DEF FirstId, Fresh
<1>3. NoLink \in LinkStates
  BY DEF NoLink, LinkStates, Recent, Young
<1>4. k \in SwitchStates
  BY <1>1, <1>2, <1>3 DEF Keyed, SwitchStates
<1>5. /\ k.phase = i.phase /\ k.met
      /\ k.link = IF i.theirs # 0 THEN NoLink ELSE i.link
  BY <1>1 DEF Keyed, SwitchStates
<1>6. CASE i.theirs # 0
  BY <1>1, <1>4, <1>5, <1>6, RelinkedTimely DEF NoLink
<1>7. CASE i.theirs = 0
  BY <1>1, <1>4, <1>5, <1>7, SameLinkTimely
<1>8. QED
  BY <1>4, <1>5, <1>6, <1>7

\* A step that leaves e with a timely identity and packets on their way keeps
\* the invariant.
LEMMA BecomesTimely ==
  ASSUME LinkInv, NEW e \in Ends, NEW i \in SwitchStates, Timely(i, skips),
         NEW q \in SUBSET Packets, Becomes(e, i, q), skips' = skips,
         opens' \in 0..MaxOpens, faults' \in 0..MaxFaults
  PROVE  LinkInv'
<1>1. /\ sw \in [Ends -> SwitchStates] /\ made \in [Ends -> Nat]
      /\ skips \in 0..MaxFaults /\ i.mine \in Nat
  BY DEF LinkInv, TypeOK, SwitchStates
<1>2. sw' = [sw EXCEPT ![e] = i] /\ net' = q
  BY DEF Becomes
<1>3. sw' \in [Ends -> SwitchStates]
  BY <1>1, <1>2
<1>4. made' \in [Ends -> Nat]
  BY <1>1 DEF Becomes
<1>5. \A d \in Ends : Timely(sw[d], skips)
  BY DEF LinkInv
<1>6. \A d \in Ends : Timely(sw'[d], skips')
  <2> TAKE d \in Ends
  <2>1. CASE d = e
    BY <1>1, <1>2, <2>1
  <2>2. CASE d # e
    BY <1>1, <1>2, <1>5, <2>2
  <2>3. QED
    BY <2>1, <2>2
<1>7. QED
  BY <1>1, <1>2, <1>3, <1>4, <1>6 DEF LinkInv, TypeOK

\* What is put on the network is a packet.
LEMMA SendsPackets ==
  ASSUME NEW e \in Ends, NEW i \in SwitchStates, NEW n \in Nat,
         NEW k \in {"link", "ping", "err"}
  PROVE  OnLine(e, i, k, n) \in SUBSET Packets /\ Open(e, n) \in Packets
<1>1. Peer(e) \in Ends
  BY DEF Peer, Ends
<1>2. i.theirs \in Nat
  BY DEF SwitchStates
<1>3. QED
  BY <1>1, <1>2 DEF OnLine, Open, Packets

LEMMA LinkSendsPackets ==
  ASSUME NEW e \in Ends, NEW i \in SwitchStates
  PROVE  LinkSends(e, i) \in SUBSET Packets
<1>1. i.link.id \in Nat /\ i.next + 2 \in Nat
  BY DEF SwitchStates, LinkStates
<1>2. QED
  BY <1>1, SendsPackets DEF LinkSends

\* An open of the peer's line n.
LEMMA HandleOpenTimely ==
  ASSUME LinkInv, NEW e \in Ends, NEW n \in Nat, NEW q \in SUBSET Packets,
         HandleOpen(e, n, q), Counts
  PROVE  LinkInv'
<1> DEFINE i == sw[e]
           k == Keyed(e, i, n)
           w == [k EXCEPT !.late = TRUE, !.wait = FALSE]
<1>1. /\ i \in SwitchStates /\ Timely(i, skips) /\ skips \in Nat
      /\ opens \in 0..MaxOpens /\ faults \in 0..MaxFaults
  BY BoundsAreNat DEF LinkInv, TypeOK
<1>2. skips' = skips /\ opens' \in 0..MaxOpens /\ faults' \in 0..MaxFaults
  BY <1>1 DEF Counts
<1>3. k \in SwitchStates /\ Timely(k, skips) /\ k.met /\ k.mine \in Nat
  BY KeyedTimely DEF SwitchStates
<1>4. w \in SwitchStates
  BY <1>3 DEF SwitchStates
<1>5. Timely(w, skips)
  <2>1. w.phase = k.phase /\ w.met = k.met /\ w.link = k.link
    BY <1>3 DEF SwitchStates
  <2>2. QED
    BY <1>1, <1>3, <1>4, <2>1, SameLinkTimely
<1>6. LinkTo(k) \in SwitchStates /\ Timely(LinkTo(k), skips)
  BY <1>1, <1>3, LinkToTimely
<1>7. LinkTo(w) \in SwitchStates /\ Timely(LinkTo(w), skips)
  BY <1>1, <1>4, <1>5, LinkToTimely
<1>8. LinkSends(e, k) \in SUBSET Packets /\ LinkSends(e, w) \in SUBSET Packets
  BY <1>3, <1>4, LinkSendsPackets
<1>9. Open(e, k.mine) \in Packets
  BY <1>3, SendsPackets
<1> DEFINE j == IF i.wait THEN LinkTo(w) ELSE w
           p == q \union {Open(e, k.mine)}
                  \union (IF i.wait THEN LinkSends(e, w) ELSE {})
<1>10. j \in SwitchStates /\ Timely(j, skips) /\ p \in SUBSET Packets
  BY <1>4, <1>5, <1>7, <1>8, <1>9
<1>11. q \union LinkSends(e, k) \in SUBSET Packets
  BY <1>8
<1>12. \/ Becomes(e, i, q)
       \/ Becomes(e, LinkTo(k), q \union LinkSends(e, k))
       \/ Becomes(e, j, p)
  BY DEF HandleOpen
<1> HIDE DEF i, k, w, j, p
<1>13. CASE Becomes(e, i, q)
  BY <1>1, <1>2, <1>13, BecomesTimely
<1>14. CASE Becomes(e, LinkTo(k), q \union LinkSends(e, k))
  BY <1>2, <1>6, <1>11, <1>14, BecomesTimely
<1>15. CASE Becomes(e, j, p)
  BY <1>2, <1>10, <1>15, BecomesTimely
<1>16. QED
  BY <1>12, <1>13, <1>14, <1>15

\* A packet on the line.
LEMMA HandleOnLineTimely ==
  ASSUME LinkInv, NEW m \in Packets, NEW q \in SUBSET Packets,
         HandleOnLine(m.to, m, q), Counts
  PROVE  LinkInv'
<1> DEFINE e == m.to
           i == sw[e]
<1>1. /\ e \in Ends /\ m.id \in Nat
      /\ i \in SwitchStates /\ Timely(i, skips) /\ skips \in Nat
      /\ opens \in 0..MaxOpens /\ faults \in 0..MaxFaults
  BY BoundsAreNat DEF LinkInv, TypeOK, Packets
<1>2. skips' = skips /\ opens' \in 0..MaxOpens /\ faults' \in 0..MaxFaults
  BY <1>1 DEF Counts
<1>3. i.link \in LinkStates /\ i.link.id \in Nat
  BY <1>1 DEF SwitchStates, LinkStates
<1> DEFINE gone == [i EXCEPT !.link = NoLink]
<1>4. gone \in SwitchStates /\ Timely(gone, skips)
  <2>1. NoLink \in LinkStates
    BY DEF NoLink, LinkStates, Recent, Young
  <2>2. gone \in SwitchStates /\ gone.phase = i.phase /\ gone.link = NoLink
    BY <1>1, <2>1 DEF SwitchStates
  <2> HIDE DEF gone, i
  <2>3. NoLink.in = 0 /\ NoLink.id = 0
    BY DEF NoLink
  <2>4. QED
    BY <1>1, <2>2, <2>3, RelinkedTimely
<1>5. Ponged(i) \in SwitchStates /\ Timely(Ponged(i), skips)
  <2> DEFINE o == IF i.link.out > Recent THEN 0 ELSE i.link.out
             l == [i.link EXCEPT !.never = FALSE, !.in = 0, !.out = o]
  <2>1. o \in 0..Recent + 1
    BY <1>3 DEF LinkStates, Recent
  <2>2. Ponged(i) = [i EXCEPT !.link = l]
    BY <1>1, <1>3 DEF Ponged, SwitchStates, LinkStates
  <2> HIDE DEF o
  <2>3. l \in LinkStates /\ l.in = 0 /\ l.id = i.link.id
    BY <1>3, <2>1 DEF LinkStates
  <2>4. /\ Ponged(i) \in SwitchStates /\ Ponged(i).phase = i.phase
        /\ Ponged(i).link = l /\ Ponged(i).met = i.met
    BY <1>1, <2>2, <2>3 DEF SwitchStates
  <2>5. QED
    BY <1>1, <2>3, <2>4, RelinkedTimely DEF Timely
<1>6. Accepted(i, m.id) \in SwitchStates /\ Timely(Accepted(i, m.id), skips)
  <2>1. InLink(m.id) \in LinkStates
    BY <1>1 DEF InLink, LinkStates, Recent, Young
  <2>2. /\ Accepted(i, m.id) \in SwitchStates
        /\ Accepted(i, m.id).phase = i.phase /\ Accepted(i, m.id).met
        /\ Accepted(i, m.id).link = InLink(m.id)
    BY <1>1, <2>1 DEF Accepted, SwitchStates
  <2>3. QED
    BY <1>1, <2>2, RelinkedTimely DEF InLink
<1>7. /\ OnLine(e, i, "ping", m.id) \in SUBSET Packets
      /\ OnLine(e, i, "err", m.id) \in SUBSET Packets
      /\ Pongs(e, i) \in SUBSET Packets
  BY <1>1, <1>3, SendsPackets DEF Pongs
<1> DEFINE refusal == IF m.kind = "ping" THEN OnLine(e, i, "err", m.id) ELSE {}
<1>8. \/ Becomes(e, i, q)
      \/ Becomes(e, gone, q)
      \/ Becomes(e, Ponged(i), q \union Pongs(e, i))
      \/ Becomes(e, Accepted(i, m.id), q \union OnLine(e, i, "ping", m.id))
      \/ Becomes(e, i, q \union refusal)
  BY DEF HandleOnLine
<1>9. /\ q \union Pongs(e, i) \in SUBSET Packets
      /\ q \union OnLine(e, i, "ping", m.id) \in SUBSET Packets
      /\ q \union refusal \in SUBSET Packets
  BY <1>7
<1> HIDE DEF e, i, gone, refusal
<1>10. CASE Becomes(e, i, q)
  BY <1>1, <1>2, <1>10, BecomesTimely
<1>11. CASE Becomes(e, gone, q)
  BY <1>1, <1>2, <1>4, <1>11, BecomesTimely
<1>12. CASE Becomes(e, Ponged(i), q \union Pongs(e, i))
  BY <1>1, <1>2, <1>5, <1>9, <1>12, BecomesTimely
<1>13. CASE Becomes(e, Accepted(i, m.id), q \union OnLine(e, i, "ping", m.id))
  BY <1>1, <1>2, <1>6, <1>9, <1>13, BecomesTimely
<1>14. CASE Becomes(e, i, q \union refusal)
  BY <1>1, <1>2, <1>9, <1>14, BecomesTimely
<1>15. QED
  BY <1>8, <1>10, <1>11, <1>12, <1>13, <1>14

\* A round of pings that finds the peer: a link that is not given up has been
\* silent for less than 50 s, or is young.
LEMMA PingTimely ==
  ASSUME LinkInv, NEW e \in Ends, Ping(e)
  PROVE  LinkInv'
<1> DEFINE i == sw[e]
           p == Pinged(i)
           j == [p EXCEPT !.phase = Period]
<1>1. /\ i \in SwitchStates /\ Timely(i, skips) /\ skips \in Nat
      /\ opens \in 0..MaxOpens /\ faults \in 0..MaxFaults
      /\ i.phase = 0
  BY BoundsAreNat DEF LinkInv, TypeOK, Ping
<1>2. skips' = skips /\ opens' \in 0..MaxOpens /\ faults' \in 0..MaxFaults
  BY <1>1 DEF Counts, Ping
<1>3. i.link \in LinkStates /\ i.mine \in Nat
  BY <1>1 DEF SwitchStates
<1>4. NoLink \in LinkStates /\ NoLink.in = 0 /\ NoLink.id = 0
  BY DEF NoLink, LinkStates, Recent, Young
<1> DEFINE r == ResetId(i)
           o == [i EXCEPT !.link = [i.link EXCEPT !.out = 0]]
<1>5. r \in SwitchStates /\ r.link = NoLink
  BY <1>1, <1>4 DEF ResetId, SwitchStates
<1>6. [r EXCEPT !.met = FALSE] \in SwitchStates
      /\ [r EXCEPT !.met = FALSE].link = NoLink
  BY <1>5 DEF SwitchStates
<1>7. [i.link EXCEPT !.out = 0] \in LinkStates
  BY <1>3 DEF LinkStates, Recent
<1>8. o \in SwitchStates /\ o.link = [i.link EXCEPT !.out = 0] /\ o.met = i.met
  BY <1>1, <1>7 DEF SwitchStates
<1>9. /\ o.link.in = i.link.in /\ o.link.age = i.link.age /\ o.link.id = i.link.id
  BY <1>3, <1>8 DEF LinkStates
<1>10. \/ p.link = NoLink /\ p \in SwitchStates
       \/ /\ p = i /\ ~i.met
       \/ /\ p \in {i, o} /\ ~IsIdle(i.link)
  <2>1. CASE ~i.met
    BY <2>1 DEF Pinged
  <2>2. CASE i.met /\ ~HasLink(i)
    BY <2>2, <1>5 DEF Pinged
  <2>3. CASE i.met /\ HasLink(i) /\ IsIdle(i.link)
    BY <2>3, <1>6 DEF Pinged
  <2>4. CASE i.met /\ HasLink(i) /\ ~IsIdle(i.link)
    <3>1. [i EXCEPT !.link.out = 0] = o
      BY <1>1 DEF SwitchStates
    <3>2. QED
      BY <2>4, <3>1 DEF Pinged
  <2>5. QED
    BY <2>1, <2>2, <2>3, <2>4
<1> HIDE DEF p, r, o
<1>11. /\ p \in SwitchStates /\ p.link.in <= 9
       /\ p.link.age <= Young => p.link.in <= p.link.age
       /\ p.link.id = 0 => p.link.in = 0
       /\ p.link.id # 0 => p.met
  <2>1. CASE p.link = NoLink /\ p \in SwitchStates
    BY <2>1 DEF NoLink
  <2>2. CASE p = i /\ ~i.met
    BY <2>2, <1>1, <1>3 DEF Timely
  <2>3. CASE p \in {i, o} /\ ~IsIdle(i.link)
    <3>1. i.link.in \in Nat /\ i.link.age \in Nat
      BY <1>3 DEF LinkStates, Young
    <3>2. i.link.in <= 9
      <4>1. CASE i.link.age <= Young
        BY <3>1, <4>1, <1>1 DEF Timely, Young
      <4>2. CASE i.link.age > Young
        BY <3>1, <4>2, <2>3 DEF IsIdle, Idle
      <4>3. QED
        BY <3>1, <4>1, <4>2 DEF Young
    <3>3. QED
      BY <2>3, <3>2, <1>1, <1>8, <1>9 DEF Timely
  <2>4. QED
    BY <1>10, <2>1, <2>2, <2>3
<1>12. j \in SwitchStates /\ j.phase = Period /\ j.link = p.link /\ j.met = p.met
  BY <1>11 DEF SwitchStates, Period
<1>13. Timely(j, skips)
  <2>1. p.link.in \in Nat
    BY <1>11 DEF SwitchStates, LinkStates
  <2>2. p.link.in + 5 <= 14 + 5 * skips
    BY <1>1, <1>11, <2>1
  <2>3. QED
    BY <1>11, <1>12, <2>2 DEF Timely, Period
<1>14. net \union PingSends(e, i) \in SUBSET Packets
  <2>1. i.link.id \in Nat
    BY <1>3 DEF LinkStates
  <2>2. PingSends(e, i) \in SUBSET Packets
    BY <1>1, <1>3, <2>1, SendsPackets DEF PingSends
  <2>3. QED
    BY <2>2 DEF LinkInv, TypeOK
<1>15. Becomes(e, j, net \union PingSends(e, i))
  BY DEF Ping, p
<1> HIDE DEF i, j
<1>16. QED
  BY <1>2, <1>12, <1>13, <1>14, <1>15, BecomesTimely

\* Five seconds: the silence grows by one, and the next round is one nearer.
LEMMA TickTimely ==
  ASSUME LinkInv, Tick
  PROVE  LinkInv'
<1>1. /\ sw \in [Ends -> SwitchStates] /\ skips \in 0..MaxFaults
      /\ UNCHANGED <<made, net, opens, skips, faults>>
  BY DEF LinkInv, TypeOK, Tick
<1>2. \A e \in Ends : sw'[e] \in SwitchStates /\ Timely(sw'[e], skips)
  <2> SUFFICES ASSUME NEW e \in Ends
               PROVE  sw'[e] \in SwitchStates /\ Timely(sw'[e], skips)
    OBVIOUS
  <2> DEFINE i == sw[e]
             l == Older(i.link)
             f == i.phase - 1
             j == [i EXCEPT !.link = l, !.phase = f]
  <2>1. i \in SwitchStates /\ Timely(i, skips) /\ i.link \in LinkStates
    BY <1>1 DEF LinkInv, SwitchStates
  <2>2. sw'[e] = IF i.alive THEN j ELSE i
    BY DEF Tick
  <2>3. CASE ~i.alive
    BY <2>1, <2>2, <2>3
  <2>4. CASE i.alive
    <3>1. i.phase \in 1..5 /\ i.phase - 1 \in 0..4
      <4>1. i.phase > 0
        BY <2>4 DEF Tick
      <4>2. i.phase \in 0..5
        BY <2>1 DEF SwitchStates, Period
      <4> HIDE DEF i
      <4>3. QED
        BY <4>1, <4>2
    <3> DEFINE x == i.link.in
               a == i.link.age
    <3>2. x \in Nat /\ a \in 0..6 /\ i.link.out \in 0..3
      BY <2>1 DEF LinkStates, Recent, Young
    <3> DEFINE y == IF x = Longest THEN x ELSE x + 1
               o == IF i.link.out > Recent THEN i.link.out ELSE i.link.out + 1
               b == IF a > Young THEN a ELSE a + 1
               aged == [i.link EXCEPT !.in = y, !.out = o, !.age = b]
    <3>3. y \in Nat /\ y <= x + 1 /\ o \in 0..Recent + 1 /\ b \in 0..Young + 1
          /\ (b <= Young => b = a + 1 /\ a <= Young)
      BY <3>2 DEF Recent, Young
    <3>4. l = IF i.link.id = 0 THEN i.link ELSE aged
      BY DEF Older
    <3> HIDE DEF l, y, o, b
    <3>5. aged \in LinkStates /\ aged.in = y /\ aged.age = b
          /\ aged.id = i.link.id
      BY <2>1, <3>3 DEF LinkStates
    <3> HIDE DEF aged
    <3>6. l \in LinkStates
      BY <2>1, <3>4, <3>5
    <3>7. /\ l.id = i.link.id
          /\ l.in <= x + 1
          /\ i.link.id = 0 => l.in = x
          /\ l.age <= Young => \/ l.in <= x + 1 /\ l.age = a + 1 /\ a <= Young
                              \/ l = i.link
      BY <3>2, <3>3, <3>4, <3>5
    <3>8. f \in 0..Period
      BY <3>1 DEF Period
    <3> HIDE DEF f
    <3>9. j \in SwitchStates /\ j.link = l /\ j.phase = f /\ j.met = i.met
      BY <2>1, <3>6, <3>8 DEF SwitchStates
    <3>10. l.in \in Nat /\ l.age \in Nat /\ skips \in Nat
      BY <1>1, <3>6, BoundsAreNat DEF LinkStates, Young
    <3> HIDE DEF j
    <3>11. l.in + f <= 14 + 5 * skips
      BY <2>1, <3>1, <3>2, <3>7, <3>10 DEF Timely, f
    <3>12. l.age <= Young => l.in <= l.age
      BY <2>1, <3>2, <3>7, <3>10 DEF Timely, Young
    <3>13. Timely(j, skips)
      BY <2>1, <3>7, <3>9, <3>11, <3>12 DEF Timely
    <3>14. QED
      BY <2>2, <2>4, <3>9, <3>13
  <2>5. QED
    BY <2>3, <2>4
<1>3. sw' \in [Ends -> SwitchStates]
  <2>1. sw' = [e \in Ends |-> sw'[e]]
    BY DEF Tick
  <2>2. QED
    BY <1>2, <2>1
<1>4. QED
  BY <1>1, <1>2, <1>3 DEF LinkInv, TypeOK

\* A round that misses the peer: the bound grows with it.
LEMMA SkipTimely ==
  ASSUME LinkInv, NEW e \in Ends, Skip(e)
  PROVE  LinkInv'
<1> DEFINE j == [sw[e] EXCEPT !.phase = Period]
<1>1. /\ sw \in [Ends -> SwitchStates] /\ skips \in Nat /\ faults \in Nat
      /\ skips' = skips + 1 /\ sw[e].phase = 0
      /\ sw' = [sw EXCEPT ![e] = j]
      /\ UNCHANGED <<made, net, opens, faults>>
  BY BoundsAreNat DEF LinkInv, TypeOK, Skip
<1>2. skips' \in 0..MaxFaults
  BY <1>1, BoundsAreNat DEF Skip
<1>3. \A d \in Ends : sw[d].link.in \in Nat /\ sw[d].phase \in 0..5
  BY <1>1 DEF SwitchStates, LinkStates, Period
<1>4. j \in SwitchStates /\ j.link = sw[e].link /\ j.met = sw[e].met
      /\ j.phase = 5
  BY <1>1 DEF SwitchStates, Period
<1>5. Timely(j, skips + 1)
  <2>1. Timely(sw[e], skips)
    BY DEF LinkInv
  <2> HIDE DEF j
  <2>2. sw[e].link.in + 5 <= 14 + 5 * (skips + 1)
    BY <1>1, <1>3, <2>1 DEF Timely
  <2>3. QED
    BY <1>4, <2>1, <2>2 DEF Timely
<1>6. \A d \in Ends : d # e => Timely(sw[d], skips + 1)
  BY <1>1, <1>3 DEF LinkInv, Timely
<1> HIDE DEF j
<1>7. \A d \in Ends : Timely(sw'[d], skips')
  BY <1>1, <1>5, <1>6
<1>8. sw' \in [Ends -> SwitchStates]
  BY <1>1, <1>4
<1>9. QED
  BY <1>1, <1>2, <1>7, <1>8 DEF LinkInv, TypeOK

\* A switch that starts knows nothing of its peer.
LEMMA StartedTimely ==
  /\ Started \in SwitchStates /\ Started.phase = 5 /\ Started.link = NoLink
  /\ NoLink \in LinkStates
<1>1. NoLink \in LinkStates
  BY DEF NoLink, LinkStates, Recent, Young
<1>2. QED
  BY <1>1 DEF Started, SwitchStates, Period

\* The process ends or starts anew.
LEMMA AnewTimely ==
  ASSUME LinkInv, NEW e \in Ends, NEW b \in BOOLEAN, Fault,
         sw' = [sw EXCEPT ![e] = [Started EXCEPT !.alive = b]],
         UNCHANGED <<made, net>>
  PROVE  LinkInv'
<1> DEFINE j == [Started EXCEPT !.alive = b]
<1>1. j \in SwitchStates /\ j.phase = 5 /\ j.link = NoLink
  BY StartedTimely DEF SwitchStates
<1>2. /\ sw \in [Ends -> SwitchStates] /\ skips \in Nat /\ faults \in Nat
      /\ skips' = skips /\ faults' = faults + 1 /\ opens' = opens
  BY BoundsAreNat DEF LinkInv, TypeOK, Fault
<1>3. faults' \in 0..MaxFaults
  BY <1>2, BoundsAreNat DEF Fault
<1> HIDE DEF j
<1>4. Timely(j, skips)
  BY <1>1, <1>2 DEF Timely, NoLink
<1>5. sw' = [sw EXCEPT ![e] = j]
  BY DEF j
<1>6. \A d \in Ends : Timely(sw'[d], skips')
  BY <1>2, <1>4, <1>5 DEF LinkInv
<1>7. sw' \in [Ends -> SwitchStates]
  BY <1>1, <1>2, <1>5
<1>8. QED
  BY <1>2, <1>3, <1>6, <1>7 DEF LinkInv, TypeOK

\* The two seconds after an open that was answered.
LEMMA LateLinkTimely ==
  ASSUME LinkInv, NEW e \in Ends, LateLink(e)
  PROVE  LinkInv'
<1> DEFINE i == [sw[e] EXCEPT !.late = FALSE]
           w == [i EXCEPT !.met = TRUE, !.wait = TRUE, !.job = TRUE, !.due = TRUE]
<1>1. /\ sw[e] \in SwitchStates /\ Timely(sw[e], skips) /\ skips \in Nat
      /\ opens \in 0..MaxOpens /\ faults \in 0..MaxFaults
      /\ net \in SUBSET Packets
  BY BoundsAreNat DEF LinkInv, TypeOK
<1>2. skips' = skips /\ opens' \in 0..MaxOpens /\ faults' \in 0..MaxFaults
  BY <1>1 DEF Counts, LateLink
<1>3. /\ i \in SwitchStates /\ i.phase = sw[e].phase /\ i.link = sw[e].link
      /\ i.met = sw[e].met
  BY <1>1 DEF SwitchStates
<1>4. Timely(i, skips)
  BY <1>1, <1>3, SameLinkTimely
<1>5. /\ w \in SwitchStates /\ w.phase = i.phase /\ w.link = i.link /\ w.met
  BY <1>3 DEF SwitchStates
<1>6. Timely(w, skips)
  BY <1>1, <1>3, <1>4, <1>5, SameLinkTimely
<1>7. LinkTo(i) \in SwitchStates /\ Timely(LinkTo(i), skips)
  BY <1>1, <1>3, <1>4, LinkToTimely
<1>8. net \union LinkSends(e, i) \in SUBSET Packets
  BY <1>1, <1>3, LinkSendsPackets
<1>9. \/ Becomes(e, i, net) \/ Becomes(e, w, net)
      \/ Becomes(e, LinkTo(i), net \union LinkSends(e, i))
  BY DEF LateLink
<1> HIDE DEF i, w
<1>10. CASE Becomes(e, i, net)
  BY <1>1, <1>2, <1>3, <1>4, <1>10, BecomesTimely
<1>11. CASE Becomes(e, w, net)
  BY <1>1, <1>2, <1>5, <1>6, <1>11, BecomesTimely
<1>12. CASE Becomes(e, LinkTo(i), net \union LinkSends(e, i))
  BY <1>2, <1>7, <1>8, <1>12, BecomesTimely
<1>13. QED
  BY <1>9, <1>10, <1>11, <1>12

\* The two seconds of a line job.
LEMMA JobTimerTimely ==
  ASSUME LinkInv, NEW e \in Ends, JobTimer(e)
  PROVE  LinkInv'
<1> DEFINE i == sw[e]
           j == IF i.mine # 0 THEN [i EXCEPT !.due = FALSE]
                ELSE [i EXCEPT !.due = FALSE, !.job = FALSE, !.wait = FALSE]
<1>1. /\ i \in SwitchStates /\ Timely(i, skips) /\ skips \in Nat
      /\ opens \in 0..MaxOpens /\ faults \in 0..MaxFaults
      /\ net \in SUBSET Packets
  BY BoundsAreNat DEF LinkInv, TypeOK
<1>2. skips' = skips /\ opens' \in 0..MaxOpens /\ faults' \in 0..MaxFaults
  BY <1>1 DEF Counts, JobTimer
<1>3. j \in SwitchStates /\ j.phase = i.phase /\ j.link = i.link /\ j.met = i.met
  BY <1>1 DEF SwitchStates
<1>4. Becomes(e, j, net)
  BY DEF JobTimer
<1> HIDE DEF i, j
<1>5. Timely(j, skips)
  BY <1>1, <1>3, SameLinkTimely
<1>6. QED
  BY <1>1, <1>2, <1>3, <1>4, <1>5, BecomesTimely

\* The switch is told of its peer.
LEMMA LearnOfTimely ==
  ASSUME LinkInv, NEW e \in Ends, LearnOf(e)
  PROVE  LinkInv'
<1> DEFINE i == sw[e]
           j == [i EXCEPT !.mine = Fresh(e), !.due = ~i.job, !.job = TRUE]
<1>1. /\ i \in SwitchStates /\ Timely(i, skips) /\ skips \in Nat
      /\ opens \in 0..MaxOpens /\ faults \in 0..MaxFaults
      /\ net \in SUBSET Packets /\ Fresh(e) \in Nat
  BY BoundsAreNat DEF LinkInv, TypeOK, Fresh
<1>2. skips' = skips /\ opens' \in 0..MaxOpens /\ faults' \in 0..MaxFaults
  BY <1>1, BoundsAreNat DEF LearnOf
<1>3. j \in SwitchStates /\ j.phase = i.phase /\ j.link = i.link /\ j.met = i.met
  BY <1>1 DEF SwitchStates
<1>4. net \union {Open(e, Fresh(e))} \in SUBSET Packets
  BY <1>1, SendsPackets
<1>5. Becomes(e, j, net \union {Open(e, Fresh(e))})
  BY DEF LearnOf
<1> HIDE DEF i, j
<1>6. Timely(j, skips)
  BY <1>1, <1>3, SameLinkTimely
<1>7. QED
  BY <1>2, <1>3, <1>4, <1>5, <1>6, BecomesTimely

\* Every step keeps the invariant.
LEMMA LinkStep ==
  ASSUME LinkInv, [Next]_vars
  PROVE  LinkInv'
<1>1. CASE UNCHANGED vars
  BY <1>1 DEF vars, LinkInv, TypeOK, Timely
<1>2. ASSUME NEW m \in net, Deliver(m) PROVE LinkInv'
  <2>1. m \in Packets /\ net \ {m} \in SUBSET Packets
    BY DEF LinkInv, TypeOK
  <2>2. m.to \in Ends /\ m.line \in Nat
    BY <2>1 DEF Packets
  <2>3. CASE HandleOpen(m.to, m.line, net \ {m}) /\ Counts
    BY <2>1, <2>2, <2>3, HandleOpenTimely
  <2>4. CASE HandleOnLine(m.to, m, net \ {m}) /\ Counts
    BY <2>1, <2>4, HandleOnLineTimely
  <2>5. QED
    BY <1>2, <2>3, <2>4 DEF Deliver
<1>3. ASSUME NEW m \in net, Vanish(m) PROVE LinkInv'
  BY <1>3 DEF Vanish, LinkInv, TypeOK, Timely
<1>4. ASSUME NEW m \in net, Lose(m) PROVE LinkInv'
  <2>1. /\ sw' = sw /\ made' = made /\ opens' = opens /\ skips' = skips
        /\ net' \in SUBSET Packets
    BY <1>4 DEF Lose, Fault, LinkInv, TypeOK
  <2>2. faults' \in 0..MaxFaults
    BY <1>4, BoundsAreNat DEF Lose, Fault, LinkInv, TypeOK
  <2>3. QED
    BY <2>1, <2>2 DEF LinkInv, TypeOK, Timely
<1>5. ASSUME NEW e \in Ends, Crash(e) PROVE LinkInv'
  BY <1>5, AnewTimely DEF Crash
<1>6. ASSUME NEW e \in Ends, Restart(e) PROVE LinkInv'
  <2>1. Started = [Started EXCEPT !.alive = TRUE]
    <3>1. Started.alive = TRUE
      BY DEF Started
    <3>2. QED
      BY <3>1, StartedTimely DEF SwitchStates
  <2>2. QED
    BY <1>6, <2>1, AnewTimely DEF Restart
<1>7. QED
  BY <1>1, <1>2, <1>3, <1>4, <1>5, <1>6, TickTimely, SkipTimely, PingTimely,
     LateLinkTimely, JobTimerTimely, LearnOfTimely DEF Next, Due

LEMMA LinkInit == Init => LinkInv
<1> SUFFICES ASSUME Init PROVE LinkInv
  OBVIOUS
<1>1. PICK p \in 1..Period :
        sw = [e \in Ends |->
                [Started EXCEPT !.phase = IF e = Lower THEN Period ELSE p]]
  BY DEF Init
<1>2. \A e \in Ends : /\ sw[e] \in SwitchStates /\ sw[e].phase <= 5
                     /\ sw[e].phase \in Nat /\ sw[e].link = NoLink
  BY <1>1, StartedTimely DEF SwitchStates, Period
<1>3. \A e \in Ends : Timely(sw[e], 0)
  BY <1>2 DEF Timely, NoLink
<1>4. sw \in [Ends -> SwitchStates]
  BY <1>1, <1>2
<1>5. \A e \in Ends : Timely(sw[e], skips)
  BY <1>3 DEF Init
<1>6. /\ made \in [Ends -> Nat] /\ net \in SUBSET Packets
      /\ opens \in 0..MaxOpens /\ skips \in 0..MaxFaults /\ faults \in 0..MaxFaults
  BY BoundsAreNat DEF Init
<1>7. QED
  BY <1>4, <1>5, <1>6 DEF LinkInv, TypeOK

THEOREM LinkInvariant == Spec => []LinkInv
BY LinkInit, LinkStep, PTL DEF Spec

\* Every state is typed: lines, ids and times of a link are what the code's
\* types say (THLine, THIdentity, THChannel).
THEOREM LinkTypeCorrect == Spec => []TypeOK
BY LinkInvariant, PTL DEF LinkInv

\* A link on which nothing comes is given up in time, whatever is lost, who
\* restarts and how many rounds miss the peer (THMeshBuckets pingLines).
THEOREM SilenceCorrect == Spec => []SilenceBounded
<1>1. LinkInv => SilenceBounded
  <2> SUFFICES ASSUME LinkInv, NEW e \in Ends
               PROVE  sw[e].link.in < Idle + Period * (skips + 1)
    BY DEF SilenceBounded
  <2>1. /\ sw[e].link.in \in Nat /\ sw[e].phase \in Nat /\ skips \in Nat
        /\ sw[e].link.in + sw[e].phase <= 14 + 5 * skips
    BY BoundsAreNat
    DEF LinkInv, TypeOK, SwitchStates, LinkStates, Timely, Period
  <2>2. QED
    BY <2>1 DEF Idle, Period
<1>2. QED
  BY <1>1, LinkInvariant, PTL

------------------------------------------------------------------------------
(* Kept links.  The ids of a line are drawn by one end or the other, those *)
(* drawn before it was a line to the peer's are 2.                         *)

DrawnBy(e, id) == IF e = Upper THEN id % 2 = 1 ELSE id % 2 = 0 /\ id >= 4

Unkeyed(i) == i.mine # 0 /\ i.theirs = 0

\* What is true of one switch: an end that is unkeyed has a job for the answer,
\* a link the peer drew has been heard, and one of id 2, or a link that is late
\* for a line that was reset, is of the moment of a round.
Shaped(e) ==
  LET i == sw[e] IN
  /\ i.alive
  /\ i.mine # 0 => i.mine = made[e]
  /\ i.theirs <= made[Peer(e)]
  /\ i.theirs # 0 => i.mine # 0
  /\ i.link.id # 0 => i.mine # 0
  /\ Unkeyed(i) => i.job
  /\ i.theirs = 0 => i.link.id \in {0, 2} /\ (i.link.id = 0 => i.next = 0)
  /\ i.theirs # 0 => i.next >= FirstId(e) /\ i.next % 2 = FirstId(e) % 2
  /\ i.link.id \in {0, 2} \/ DrawnBy(e, i.link.id) \/ DrawnBy(Peer(e), i.link.id)
  /\ DrawnBy(Peer(e), i.link.id) => ~i.link.never
  /\ i.link.never => i.link.in >= i.link.age
  /\ i.link.id = 2 /\ i.link.age = 0 => i.phase = Period
  /\ i.late /\ i.theirs = 0 => i.phase = Period

\* A packet on its way names a line that was made; one that opens a link is no
\* older than the link its sender has of that id, and for the line the receiver
\* still has it was sent on the sender's, or the sender was reset just now.
Posted(m) ==
  LET i == sw[m.to]
      k == sw[Peer(m.to)]
  IN /\ m.kind = "open" => m.line \in 1..made[Peer(m.to)] /\ m.id = 0
     /\ m.kind # "open" => m.line \in 1..made[m.to]
     /\ m.kind = "link" =>
          /\ DrawnBy(Peer(m.to), m.id)
          /\ k.link.id = m.id => k.link.age = 0
          /\ m.line = i.mine => \/ k.theirs = i.mine /\ m.id <= k.next
                                \/ k.phase = Period

OpenOut(e) == Open(e, sw[e].mine) \in net

\* When neither knows the other's line an open is on its way.
Crossing == Unkeyed(sw[Lower]) /\ Unkeyed(sw[Upper]) => OpenOut(Lower) \/ OpenOut(Upper)

\* A link that was made for an unkeyed line before this moment.
Old(i) == i.link.id = 2 /\ i.link.age > 0

\* Its end sends an open in its rounds only, one in a round; by the time the peer
\* can have such a link as well that open is gone.
OldOpens(e) ==
  LET i == sw[e]
      k == sw[Peer(e)]
  IN Old(i) =>
       /\ \A m \in net : m.kind = "open" /\ m.to = Peer(e)
            => m.line = i.mine /\ i.phase = Period
       /\ k.late \/ (Unkeyed(k) /\ k.link.id # 0)
            => ~OpenOut(e) /\ (i.phase = Period \/ i.theirs # 0)

\* Two such links come together only at the moment that both are made.
Halfway(e) ==
  LET i == sw[e]
      k == sw[Peer(e)]
  IN /\ i.link.id = 2 /\ k.link.id = 2
     /\ i.theirs = k.mine /\ k.theirs = 0
     /\ Old(i) \/ Old(k)
     => ~OpenOut(e)

\* A link that e has of the peer's line is one the peer will not draw again, or
\* the peer was reset just now, or it will not learn of the line.
Foreign(e) ==
  LET i == sw[e]
      k == sw[Peer(e)]
  IN i.theirs = k.mine /\ i.theirs # 0 /\ DrawnBy(Peer(e), i.link.id)
     => \/ k.theirs = i.mine /\ (k.late => i.link.id <= k.next)
        \/ k.phase = Period /\ i.link.age = 0
        \/ k.theirs # i.mine /\ ~OpenOut(e)

\* A packet is on its way to the link of e.
Coming(e) ==
  \E m \in net : /\ m.kind \in {"ping", "link"} /\ m.to = e
                 /\ m.line = sw[e].mine /\ m.id = sw[e].link.id

\* What the peer sent within the last ten seconds has been heard, or is coming.
HeardOf(e) ==
  Coming(e) \/ sw[Peer(e)].link.out > Recent
    \/ sw[e].link.in <= sw[Peer(e)].link.out

\* The rounds of e, of which none is missed, keep both ends from silence: each
\* reaches the peer, and is answered or has been forestalled.
Rounds(e) ==
  LET p == Peer(e)
      l == sw[e].link
      k == sw[p].link
      t == sw[e].phase
  IN /\ k.in <= 5 - t \/ (Coming(p) /\ k.in <= 5)
     /\ l.in <= 7 - t \/ ((Coming(p) \/ Coming(e)) /\ l.in <= 7)
     /\ l.never => /\ l.in <= 5
                   /\ Coming(e) \/ l.in + t = 5 \/ (Coming(p) /\ l.in = 5 /\ t = 5)

\* A link both have is fed by the rounds of the switch that missed none.
Fed ==
  Agreed /\ skips <= 1 =>
    /\ \A e \in Ends : HeardOf(e)
    /\ skips = 0 => \A e \in Ends : Rounds(e)
    /\ \E e \in Ends : Rounds(e)

\* The handshake, and what it may leave.
Shake ==
  /\ \A e \in Ends : Shaped(e)
  /\ \A m \in net : Posted(m)
  /\ Crossing
  /\ \A e \in Ends : OldOpens(e)
  /\ \A e \in Ends : Halfway(e)
  /\ \A e \in Ends : Foreign(e)

\* The inductive invariant.
KeptInv == LinkInv /\ (faults = 0 => Shake /\ Fed)

LEMMA PeerFacts ==
  ASSUME NEW e \in Ends
  PROVE  /\ Peer(e) \in Ends /\ Peer(e) # e /\ Peer(Peer(e)) = e
         /\ \A d \in Ends : d = e \/ d = Peer(e)
         /\ {Lower, Upper} = {e, Peer(e)}
BY TwoSwitches DEF Ends, Peer

\* Which ids are whose.
LEMMA IdFacts ==
  ASSUME NEW e \in Ends, NEW n \in Nat
  PROVE  /\ DrawnBy(e, n) => n # 0 /\ n # 2 /\ ~DrawnBy(Peer(e), n)
         /\ DrawnBy(e, FirstId(e) + 2)
         /\ FirstId(e) \in Nat /\ FirstId(e) + 2 \in Nat
         /\ n >= FirstId(e) /\ n % 2 = FirstId(e) % 2
              => DrawnBy(e, n + 2) /\ n + 2 >= FirstId(e)
                   /\ (n + 2) % 2 = FirstId(e) % 2
         /\ ~DrawnBy(e, 0) /\ ~DrawnBy(e, 2)
         /\ (FirstId(e) + 2) % 2 = FirstId(e) % 2
<1>1. CASE e = Upper
  BY <1>1, TwoSwitches DEF DrawnBy, FirstId, Peer
<1>2. CASE e = Lower
  BY <1>2, TwoSwitches DEF DrawnBy, FirstId, Peer
<1>3. QED
  BY <1>1, <1>2 DEF Ends

\* A step of e leaves what the peer keeps as it is.
LEMMA BecomesFacts ==
  ASSUME LinkInv, NEW e \in Ends, NEW j \in SwitchStates, NEW q,
         Becomes(e, j, q)
  PROVE  /\ sw'[e] = j /\ sw'[Peer(e)] = sw[Peer(e)]
         /\ made'[Peer(e)] = made[Peer(e)]
         /\ made'[e] = IF j.mine > made[e] THEN j.mine ELSE made[e]
         /\ made'[e] \in Nat /\ made[e] \in Nat /\ made[Peer(e)] \in Nat
         /\ j.mine \in Nat /\ made'[e] >= made[e]
         /\ net' = q
         /\ sw[e] \in SwitchStates /\ sw[Peer(e)] \in SwitchStates
<1>1. sw \in [Ends -> SwitchStates] /\ made \in [Ends -> Nat]
  BY DEF LinkInv, TypeOK
<1>2. j.mine \in Nat
  BY DEF SwitchStates
<1>3. Peer(e) \in Ends /\ Peer(e) # e
  BY PeerFacts
<1>4. QED
  BY <1>1, <1>2, <1>3 DEF Becomes

\* The fields of a switch and of a link.
LEMMA FieldFacts ==
  ASSUME NEW i \in SwitchStates
  PROVE  /\ i.mine \in Nat /\ i.theirs \in Nat /\ i.next \in Nat
         /\ i.phase \in 0..5
         /\ i.alive \in BOOLEAN /\ i.job \in BOOLEAN /\ i.late \in BOOLEAN
         /\ i.link \in LinkStates
         /\ i.link.id \in Nat /\ i.link.in \in Nat /\ i.link.never \in BOOLEAN
         /\ i.link.out \in 0..3 /\ i.link.age \in 0..6
BY DEF SwitchStates, LinkStates, Period, Recent, Young

\* What the other end is sees no more of a step than that lines are made.
LEMMA ShapedPeer ==
  ASSUME LinkInv, NEW e \in Ends, NEW j \in SwitchStates, NEW q,
         Becomes(e, j, q), Shaped(Peer(e))
  PROVE  Shaped(Peer(e))'
<1>1. /\ sw'[Peer(e)] = sw[Peer(e)] /\ made'[Peer(e)] = made[Peer(e)]
      /\ made'[e] \in Nat /\ made[e] \in Nat /\ made'[e] >= made[e]
      /\ sw[Peer(e)].theirs \in Nat
  BY BecomesFacts, FieldFacts
<1>2. Peer(Peer(e)) = e
  BY PeerFacts
<1>3. sw[Peer(e)].theirs <= made[e] => sw[Peer(e)].theirs <= made'[e]
  BY <1>1
<1>4. QED
  BY <1>1, <1>2, <1>3 DEF Shaped

\* The state before a step of e and after it.
LEMMA MoveFacts ==
  ASSUME LinkInv, Shake, NEW e \in Ends, NEW j \in SwitchStates, NEW q,
         Becomes(e, j, q)
  PROVE  /\ sw'[e] = j /\ sw'[Peer(e)] = sw[Peer(e)]
         /\ made'[Peer(e)] = made[Peer(e)]
         /\ j.mine = sw[e].mine => made'[e] = made[e]
         /\ j.mine = 0 => made'[e] = made[e]
         /\ j.mine = made[e] + 1 => made'[e] = made[e] + 1
         /\ made'[e] \in Nat /\ made[e] \in Nat /\ made[Peer(e)] \in Nat
         /\ made'[e] >= made[e] /\ net' = q
         /\ sw[e] \in SwitchStates /\ sw[Peer(e)] \in SwitchStates
         /\ Peer(e) \in Ends /\ Peer(e) # e /\ Peer(Peer(e)) = e
         /\ \A d \in Ends : d = e \/ d = Peer(e)
         /\ {Lower, Upper} = {e, Peer(e)}
         /\ Shaped(e) /\ Shaped(Peer(e)) /\ Shaped(Peer(e))'
         /\ \A m \in net : Posted(m) /\ m \in Packets /\ m.to \in Ends
                           /\ m.line \in Nat /\ m.id \in Nat
         /\ Foreign(e) /\ Foreign(Peer(e)) /\ OldOpens(e) /\ OldOpens(Peer(e))
         /\ Halfway(e) /\ Halfway(Peer(e)) /\ Crossing
<1>1. /\ Peer(e) \in Ends /\ Peer(e) # e /\ Peer(Peer(e)) = e
      /\ \A d \in Ends : d = e \/ d = Peer(e)
      /\ {Lower, Upper} = {e, Peer(e)}
  BY PeerFacts
<1>2. /\ Shaped(e) /\ Shaped(Peer(e)) /\ \A m \in net : Posted(m)
      /\ Foreign(e) /\ Foreign(Peer(e)) /\ OldOpens(e) /\ OldOpens(Peer(e))
      /\ Halfway(e) /\ Halfway(Peer(e)) /\ Crossing
  BY <1>1 DEF Shake
<1>3. /\ sw'[e] = j /\ sw'[Peer(e)] = sw[Peer(e)]
      /\ made'[Peer(e)] = made[Peer(e)]
      /\ made'[e] = IF j.mine > made[e] THEN j.mine ELSE made[e]
      /\ made'[e] \in Nat /\ made[e] \in Nat /\ made[Peer(e)] \in Nat
      /\ made'[e] >= made[e] /\ net' = q /\ j.mine \in Nat
      /\ sw[e] \in SwitchStates /\ sw[Peer(e)] \in SwitchStates
  BY BecomesFacts
<1>4. \A m \in net : m \in Packets /\ m.to \in Ends /\ m.line \in Nat /\ m.id \in Nat
  BY DEF LinkInv, TypeOK, Packets
<1>5. /\ j.mine = sw[e].mine => made'[e] = made[e]
      /\ j.mine = 0 => made'[e] = made[e]
      /\ j.mine = made[e] + 1 => made'[e] = made[e] + 1
  BY <1>2, <1>3 DEF Shaped
<1>6. Shaped(Peer(e))'
  BY <1>2, ShapedPeer
<1>7. QED
  BY <1>1, <1>2, <1>3, <1>4, <1>5, <1>6

\* The switch is told of its peer: its new line is one nobody knows yet.
LEMMA LearnOfShake ==
  ASSUME LinkInv, Shake, NEW e \in Ends, NEW j \in SwitchStates,
         Becomes(e, j, net \union {Open(e, made[e] + 1)}),
         sw[e].mine = 0, j.mine = made[e] + 1, j.theirs = sw[e].theirs,
         j.next = sw[e].next, j.link = sw[e].link, j.phase = sw[e].phase,
         j.late = sw[e].late, j.job, j.alive
  PROVE  Shake'
<1> DEFINE p == Peer(e)
           i == sw[e]
           k == sw[p]
           q == net \union {Open(e, made[e] + 1)}
<1>1. /\ sw'[e] = j /\ sw'[p] = k /\ made'[p] = made[p]
      /\ made'[e] = made[e] + 1 /\ made[e] \in Nat /\ made[p] \in Nat
      /\ net' = q /\ i \in SwitchStates /\ k \in SwitchStates
  BY BecomesFacts
<1>2. /\ p \in Ends /\ p # e /\ Peer(p) = e
      /\ \A d \in Ends : d = e \/ d = p
      /\ {Lower, Upper} = {e, p}
  BY PeerFacts
<1>3. /\ Shaped(e) /\ Shaped(p) /\ \A m \in net : Posted(m)
      /\ Foreign(e) /\ Foreign(p) /\ OldOpens(p)
  BY <1>2 DEF Shake
<1>4. i.theirs = 0 /\ i.link.id = 0
  BY <1>3 DEF Shaped
<1>5. /\ k.theirs \in Nat /\ k.mine \in Nat /\ k.theirs <= made[e]
      /\ k.link.id \in Nat
  BY <1>1, <1>2, <1>3, FieldFacts DEF Shaped
<1>6. \A m \in net : m \in Packets /\ m.to \in Ends /\ m.line \in Nat
  BY DEF LinkInv, TypeOK, Packets
<1>7. Open(e, made[e] + 1).kind = "open" /\ Open(e, made[e] + 1).to = p
      /\ Open(e, made[e] + 1).line = made[e] + 1
      /\ Open(e, made[e] + 1).id = 0
  BY DEF Open
<1> HIDE DEF i, k, p, q
<1>8. Shaped(e)' /\ Shaped(p)'
  <2>1. Shaped(e)'
    BY <1>1, <1>2, <1>3, <1>4 DEF Shaped, Unkeyed, i, k, p
  <2>2. QED
    BY <2>1, <1>3, ShapedPeer DEF p, q
<1>9. \A m \in net' : Posted(m)'
  <2> SUFFICES ASSUME NEW m \in q PROVE Posted(m)'
    BY <1>1
  <2>1. CASE m = Open(e, made[e] + 1)
    BY <2>1, <1>1, <1>2, <1>7 DEF Posted
  <2>2. CASE m \in net /\ m.to = e
    BY <2>2, <1>1, <1>2, <1>3, <1>6 DEF Posted, i, k, p
  <2>3. CASE m \in net /\ m.to = p
    BY <2>3, <1>1, <1>2, <1>3, <1>4, <1>6 DEF Posted, i, k, p
  <2>4. QED
    BY <2>1, <2>2, <2>3, <1>2, <1>6 DEF q
<1>10. Crossing'
  BY <1>1, <1>2 DEF Crossing, OpenOut, q
<1>11. OldOpens(e)' /\ OldOpens(p)'
  BY <1>1, <1>2, <1>3, <1>4, <1>7 DEF OldOpens, OpenOut, Old, Unkeyed, Open, q, i, k, p
<1>12. Halfway(e)' /\ Halfway(p)'
  BY <1>1, <1>2, <1>4 DEF Halfway, i
<1>13. Foreign(e)' /\ Foreign(p)'
  BY <1>1, <1>2, <1>4, <1>5, IdFacts DEF Foreign, i, k, p
<1>14. QED
  BY <1>2, <1>8, <1>9, <1>10, <1>11, <1>12, <1>13 DEF Shake

\* A packet is left unheeded, or a timer clears what it set.
LEMMA StayShake ==
  ASSUME LinkInv, Shake, NEW e \in Ends, NEW j \in SwitchStates, NEW q,
         Becomes(e, j, q), j.alive,
         j.mine = sw[e].mine, j.theirs = sw[e].theirs, j.next = sw[e].next,
         j.link = sw[e].link, j.phase = sw[e].phase,
         j.late => sw[e].late, Unkeyed(sw[e]) => j.job,
         \A m \in q : m \in net \/ (/\ m.kind = "err" /\ m.to = Peer(e)
                                    /\ m.line = sw[e].theirs /\ m.line # 0),
         \A m \in net : m \in q \/ (/\ m.to = e
                                    /\ m.kind = "open"
                                         => sw[e].mine # 0 /\ m.line <= sw[e].theirs)
  PROVE  Shake'
<1> DEFINE p == Peer(e)
           i == sw[e]
           k == sw[p]
<1>1. /\ sw'[e] = j /\ sw'[p] = k /\ made'[p] = made[p] /\ made'[e] = made[e]
      /\ made[e] \in Nat /\ made[p] \in Nat
      /\ net' = q /\ i \in SwitchStates /\ k \in SwitchStates
  BY MoveFacts
<1>2. /\ p \in Ends /\ p # e /\ Peer(p) = e
      /\ \A d \in Ends : d = e \/ d = p
      /\ {Lower, Upper} = {e, p}
  BY MoveFacts
<1>3. /\ Shaped(e) /\ Shaped(p) /\ Shaped(p)'
      /\ Foreign(e) /\ Foreign(p) /\ OldOpens(e) /\ OldOpens(p)
      /\ Halfway(e) /\ Halfway(p) /\ Crossing
  BY MoveFacts
<1>4. \A m \in net : Posted(m) /\ m \in Packets /\ m.to \in Ends
                     /\ m.line \in Nat /\ m.id \in Nat
  BY MoveFacts
<1>5. /\ Open(e, i.mine) \in q <=> Open(e, i.mine) \in net
      /\ Open(p, k.mine) \in q => Open(p, k.mine) \in net
      /\ i.mine # 0 /\ i.theirs = 0 /\ Open(p, k.mine) \in net
           => Open(p, k.mine) \in q
  <2>1. /\ Open(e, i.mine).kind = "open" /\ Open(e, i.mine).to = p
        /\ Open(p, k.mine).kind = "open" /\ Open(p, k.mine).to = e
        /\ Open(p, k.mine).line = k.mine
    BY <1>2 DEF Open
  <2>2. ASSUME Open(p, k.mine) \in net PROVE k.mine > 0
    BY <1>1, <1>2, <1>4, <2>1, <2>2, FieldFacts DEF Posted
  <2>3. k.mine \in Nat /\ Open(p, k.mine).line \in Nat
    BY <1>1, <2>1, FieldFacts
  <2>4. i.mine # 0 /\ i.theirs = 0 /\ Open(p, k.mine) \in net
           => Open(p, k.mine) \in q
    BY <2>1, <2>2, <2>3
  <2>5. QED
    BY <1>2, <2>1, <2>4
<1>6. i.theirs \in Nat /\ i.theirs <= made[p]
  BY <1>1, <1>3, FieldFacts DEF Shaped
<1> HIDE DEF i, k, p
<1>7. Shaped(e)'
  BY <1>1, <1>2, <1>3 DEF Shaped, Unkeyed, i, k, p
<1>8. \A m \in net' : Posted(m)'
  <2> SUFFICES ASSUME NEW m \in q PROVE Posted(m)'
    BY <1>1
  <2>1. CASE m \in net /\ m.to = e
    BY <2>1, <1>1, <1>2, <1>4 DEF Posted, i, k, p
  <2>2. CASE m \in net /\ m.to = p
    BY <2>2, <1>1, <1>2, <1>4 DEF Posted, i, k, p
  <2>3. CASE m.kind = "err" /\ m.to = p /\ m.line = i.theirs /\ i.theirs # 0
    BY <2>3, <1>1, <1>2, <1>6 DEF Posted
  <2>4. QED
    BY <2>1, <2>2, <2>3, <1>2, <1>4 DEF i, p
<1>9. Crossing'
  BY <1>1, <1>2, <1>3, <1>5 DEF Crossing, OpenOut, Unkeyed, i, k
<1>10. OldOpens(e)' /\ OldOpens(p)'
  <2>1. OldOpens(e)'
    BY <1>1, <1>2, <1>3, <1>5 DEF OldOpens, OpenOut, Old, Unkeyed, i, k, p
  <2>2. OldOpens(p)'
    BY <1>1, <1>2, <1>3, <1>5 DEF OldOpens, OpenOut, Old, Unkeyed, i, k, p
  <2>3. QED
    BY <2>1, <2>2
<1>11. Halfway(e)' /\ Halfway(p)'
  BY <1>1, <1>2, <1>3, <1>5 DEF Halfway, OpenOut, Old, i, k, p
<1>12. Foreign(e)' /\ Foreign(p)'
  BY <1>1, <1>2, <1>3, <1>5 DEF Foreign, OpenOut, i, k, p
<1>13. QED
  BY <1>2, <1>3, <1>7, <1>8, <1>9, <1>10, <1>11, <1>12 DEF Shake

\* A packet that opens a line to the line of its sender: the message of OpenIs.
LEMMA OpenIs ==
  ASSUME NEW m \in Packets, m.kind = "open", m.id = 0, m.to \in Ends
  PROVE  m = Open(Peer(m.to), m.line)
<1>1. Peer(Peer(m.to)) = m.to
  BY PeerFacts
<1>2. QED
  BY <1>1 DEF Packets, Open

\* The line of e becomes one to the peer's new line, and its channels are gone:
\* there is no link, or a new one.
LEMMA KeyedShake ==
  ASSUME LinkInv, Shake, NEW e \in Ends, NEW j \in SwitchStates, NEW q,
         Becomes(e, j, q), j.alive, NEW m \in net, m.kind = "open", m.to = e,
         ~(sw[e].mine # 0 /\ m.line <= sw[e].theirs),
         j.mine = IF sw[e].mine = 0 THEN made[e] + 1 ELSE sw[e].mine,
         j.theirs = m.line, j.phase = sw[e].phase, j.link.in = 0,
         j.link.id # 0 \/ j.link.never => j.link.age = 0,
         \/ j.link.id = 0 /\ j.next = FirstId(e)
         \/ j.link.id = FirstId(e) + 2 /\ j.next = FirstId(e) + 2,
         \A x \in q :
           \/ x \in net /\ x # m
           \/ x = Open(e, j.mine)
           \/ /\ x.kind = "link" /\ x.to = Peer(e) /\ x.line = m.line
              /\ j.link.id = FirstId(e) + 2 /\ x.id = j.link.id
  PROVE  Shake'
<1> DEFINE p == Peer(e)
           i == sw[e]
           k == sw[p]
<1>1. /\ sw'[e] = j /\ sw'[p] = k /\ made'[p] = made[p]
      /\ made[e] \in Nat /\ made[p] \in Nat /\ made'[e] \in Nat
      /\ made'[e] >= made[e]
      /\ net' = q /\ i \in SwitchStates /\ k \in SwitchStates
  BY MoveFacts
<1>2. /\ p \in Ends /\ p # e /\ Peer(p) = e
      /\ \A d \in Ends : d = e \/ d = p
      /\ {Lower, Upper} = {e, p}
  BY MoveFacts
<1>3. /\ Shaped(e) /\ Shaped(p) /\ Shaped(p)'
      /\ Foreign(e) /\ Foreign(p) /\ OldOpens(e) /\ OldOpens(p)
      /\ Halfway(e) /\ Halfway(p) /\ Crossing
  BY MoveFacts
<1>4. \A x \in net : Posted(x) /\ x \in Packets /\ x.to \in Ends
                     /\ x.line \in Nat /\ x.id \in Nat
  BY MoveFacts
<1>5. /\ m.line \in 1..made[p] /\ m = Open(p, m.line) /\ m.line \in Nat
      /\ j.theirs # 0
  BY <1>1, <1>2, <1>4, OpenIs DEF Posted
<1>6. /\ i.theirs \in Nat /\ i.mine \in Nat /\ i.next \in Nat
      /\ k.theirs \in Nat /\ k.mine \in Nat /\ k.link.id \in Nat
      /\ k.theirs <= made[e] /\ (k.mine # 0 => k.mine = made[p])
      /\ i.mine # 0 => i.mine = made[e]
      /\ i.theirs # 0 => i.mine # 0
      /\ k.link.id # 0 => k.mine # 0
  BY <1>1, <1>2, <1>3, FieldFacts DEF Shaped
<1>7. k.mine # 0 => i.theirs # k.mine
  BY <1>1, <1>5, <1>6
<1>8. made'[e] = j.mine /\ j.mine # 0 /\ (i.mine = 0 => made'[e] > made[e])
      /\ (i.mine # 0 => made'[e] = made[e] /\ j.mine = i.mine)
      /\ j.mine \in Nat
  BY <1>1, <1>6, MoveFacts
<1>9. /\ FirstId(e) \in Nat /\ DrawnBy(e, FirstId(e) + 2)
      /\ FirstId(e) + 2 # 0 /\ FirstId(e) + 2 # 2
      /\ ~DrawnBy(p, FirstId(e) + 2) /\ ~DrawnBy(p, 0) /\ ~DrawnBy(e, 0)
      /\ (FirstId(e) + 2) % 2 = FirstId(e) % 2
  BY <1>2, IdFacts
<1>10. /\ Open(e, j.mine).kind = "open" /\ Open(e, j.mine).to = p
       /\ Open(e, j.mine).line = j.mine /\ Open(e, j.mine).id = 0
       /\ Open(p, k.mine).kind = "open" /\ Open(p, k.mine).to = e
       /\ Open(p, k.mine).line = k.mine
  BY <1>2 DEF Open
<1>11. Open(p, k.mine) \in q => Open(p, k.mine) \in net /\ m.line # k.mine
  BY <1>2, <1>5, <1>10
<1> HIDE DEF i, k, p
<1>12. Shaped(e)'
  BY <1>1, <1>2, <1>5, <1>8, <1>9 DEF Shaped, Unkeyed, p
<1>13. \A x \in net' : Posted(x)'
  <2> SUFFICES ASSUME NEW x \in q PROVE Posted(x)'
    BY <1>1
  <2>1. CASE x \in net /\ x.to = e
    BY <2>1, <1>1, <1>2, <1>4, <1>8 DEF Posted, i, k, p
  <2>2. CASE x \in net /\ x.to = p
    <3>1. Posted(x) /\ x.line \in Nat /\ x.id \in Nat
      BY <2>2, <1>4
    <3>2. x.kind = "link" /\ x.line = k.mine => i.phase = Period
      BY <2>2, <3>1, <1>1, <1>2, <1>7 DEF Posted, i, k, p
    <3>3. QED
      BY <2>2, <3>1, <3>2, <1>1, <1>2, <1>9 DEF Posted, i, k, p
  <2>3. CASE x = Open(e, j.mine)
    <3>1. j.mine \in 1..j.mine
      BY <1>8
    <3>2. x.kind = "open" /\ x.to = p /\ x.line = j.mine /\ x.id = 0
      BY <2>3, <1>10
    <3>3. made'[Peer(p)] = j.mine
      BY <1>2, <1>8
    <3>4. QED
      BY <3>1, <3>2, <3>3 DEF Posted
  <2>4. CASE /\ x.kind = "link" /\ x.to = p /\ x.line = m.line
             /\ j.link.id = FirstId(e) + 2 /\ x.id = j.link.id
    BY <2>4, <1>1, <1>2, <1>5, <1>9 DEF Posted
  <2>5. QED
    BY <2>1, <2>2, <2>3, <2>4, <1>2, <1>4 DEF p
<1>14. Crossing'
  BY <1>1, <1>2, <1>5 DEF Crossing, Unkeyed
<1>15. OldOpens(e)'
  BY <1>1, <1>9 DEF OldOpens, Old
<1>16. OldOpens(p)'
  <2> SUFFICES ASSUME Old(k)
               PROVE  /\ \A x \in q : x.kind = "open" /\ x.to = e
                            => x.line = k.mine /\ k.phase = Period
                      /\ Open(p, k.mine) \notin q /\ k.phase = Period
    BY <1>1, <1>2 DEF OldOpens, OpenOut
  <2>1. \A x \in net : x.kind = "open" /\ x.to = e
                       => x.line = k.mine /\ k.phase = Period
    BY <1>2, <1>3 DEF OldOpens, k, p
  <2>2. QED
    BY <2>1, <1>2, <1>10, <1>11
<1>17. Halfway(e)' /\ Halfway(p)'
  BY <1>1, <1>2, <1>9 DEF Halfway
<1>18. Foreign(e)'
  BY <1>1, <1>2, <1>9 DEF Foreign, p
<1>19. Foreign(p)'
  <2> SUFFICES ASSUME k.theirs = j.mine, DrawnBy(e, k.link.id)
               PROVE  \/ j.phase = Period /\ k.link.age = 0
                      \/ j.theirs # k.mine /\ Open(p, k.mine) \notin q
    BY <1>1, <1>2 DEF Foreign, OpenOut
  <2>1. k.mine # 0 /\ i.mine # 0 /\ k.theirs = i.mine /\ k.theirs # 0
    BY <1>1, <1>6, <1>8, <1>9
  <2>2. \/ i.phase = Period /\ k.link.age = 0
        \/ Open(p, k.mine) \notin net
    BY <2>1, <1>2, <1>3, <1>7 DEF Foreign, OpenOut, i, k, p
  <2>3. CASE Open(p, k.mine) \notin net
    BY <2>3, <1>5, <1>11
  <2>4. QED
    BY <2>2, <2>3 DEF i
<1>20. QED
  BY <1>2, <1>3, <1>12, <1>13, <1>14, <1>15, <1>16, <1>17, <1>18, <1>19 DEF Shake

\* The line of e, for which a link was made already, becomes one to the peer's.
LEMMA EarlyShake ==
  ASSUME LinkInv, Shake, NEW e \in Ends, NEW j \in SwitchStates, NEW q,
         Becomes(e, j, q), j.alive, NEW m \in net, m.kind = "open", m.to = e,
         sw[e].mine # 0, sw[e].theirs = 0, sw[e].link.id = 2,
         j.mine = sw[e].mine, j.theirs = m.line, j.phase = sw[e].phase,
         j.link.id = 2, j.link.in = sw[e].link.in, j.link.age = sw[e].link.age,
         j.link.never = sw[e].link.never, j.next = FirstId(e),
         j.late => sw[e].late,
         \A x \in q :
           \/ x \in net /\ x # m
           \/ /\ x.kind = "ping" /\ x.to = Peer(e) /\ x.line = m.line
  PROVE  Shake'
<1> DEFINE p == Peer(e)
           i == sw[e]
           k == sw[p]
<1>1. /\ sw'[e] = j /\ sw'[p] = k /\ made'[p] = made[p]
      /\ made[e] \in Nat /\ made[p] \in Nat /\ made'[e] \in Nat
      /\ made'[e] >= made[e]
      /\ net' = q /\ i \in SwitchStates /\ k \in SwitchStates
  BY MoveFacts
<1>2. /\ p \in Ends /\ p # e /\ Peer(p) = e
      /\ \A d \in Ends : d = e \/ d = p
      /\ {Lower, Upper} = {e, p}
  BY MoveFacts
<1>3. /\ Shaped(e) /\ Shaped(p) /\ Shaped(p)'
      /\ Foreign(e) /\ Foreign(p) /\ OldOpens(e) /\ OldOpens(p)
      /\ Halfway(e) /\ Halfway(p) /\ Crossing
  BY MoveFacts
<1>4. \A x \in net : Posted(x) /\ x \in Packets /\ x.to \in Ends
                     /\ x.line \in Nat /\ x.id \in Nat
  BY MoveFacts
<1>5. /\ i.theirs \in Nat /\ i.mine \in Nat /\ i.next \in Nat
      /\ i.link.id \in Nat /\ i.theirs <= made[p]
      /\ k.theirs \in Nat /\ k.mine \in Nat /\ k.link.id \in Nat
      /\ k.theirs <= made[e] /\ (k.mine # 0 => k.mine = made[p])
      /\ i.mine # 0 => i.mine = made[e]
      /\ i.theirs # 0 => i.mine # 0
      /\ k.link.id # 0 => k.mine # 0
  BY <1>1, <1>2, <1>3, FieldFacts DEF Shaped
<1>6. /\ Open(e, i.mine).kind = "open" /\ Open(e, i.mine).to = p
      /\ Open(e, i.mine).line = i.mine /\ Open(e, i.mine).id = 0
      /\ Open(p, k.mine).kind = "open" /\ Open(p, k.mine).to = e
      /\ Open(p, k.mine).line = k.mine /\ Open(p, k.mine).id = 0
  BY <1>2 DEF Open
<1>7. made'[e] = made[e]
  BY MoveFacts
<1>8. /\ FirstId(e) \in Nat /\ ~DrawnBy(p, 2) /\ ~DrawnBy(e, 2)
      /\ ~DrawnBy(p, 0) /\ ~DrawnBy(e, 0)
      /\ \A n \in Nat : DrawnBy(e, n) => n # 0 /\ n # 2 /\ ~DrawnBy(p, n)
      /\ \A n \in Nat : DrawnBy(p, n) => n # 0 /\ n # 2 /\ ~DrawnBy(e, n)
  BY <1>2, IdFacts
<1>9. /\ m.line \in 1..made[p] /\ m = Open(p, m.line) /\ m.line \in Nat
      /\ j.theirs # 0
  BY <1>1, <1>2, <1>4, OpenIs DEF Posted
<1>10. /\ Open(p, k.mine) \in q => Open(p, k.mine) \in net /\ m.line # k.mine
       /\ Open(e, i.mine) \in q => Open(e, i.mine) \in net
  BY <1>2, <1>6, <1>9
<1> HIDE DEF i, k, p
<1>11. Shaped(e)'
  BY <1>1, <1>2, <1>3, <1>5, <1>7, <1>8, <1>9 DEF Shaped, Unkeyed, i, p
<1>12. \A x \in net' : Posted(x)'
  <2> SUFFICES ASSUME NEW x \in q PROVE Posted(x)'
    BY <1>1
  <2>1. CASE x \in net /\ x.to = e
    BY <2>1, <1>1, <1>2, <1>4, <1>7 DEF Posted, i, k, p
  <2>2. CASE x \in net /\ x.to = p
    <3>1. Posted(x) /\ x.line \in Nat /\ x.id \in Nat
      BY <2>2, <1>4
    <3>2. x.kind = "link" => x.line # 0 /\ DrawnBy(e, x.id)
      BY <2>2, <3>1, <1>1, <1>2 DEF Posted
    <3>3. x.kind = "link" /\ x.line = k.mine => i.phase = Period
      BY <2>2, <3>1, <3>2, <1>1, <1>2 DEF Posted, i, k, p
    <3>4. x.kind = "link" => x.id # 2
      BY <3>1, <3>2, <1>8
    <3>5. x.kind = "open" => x.line \in 1..made'[e] /\ x.id = 0
      BY <2>2, <3>1, <1>2, <1>7 DEF Posted
    <3>6. x.kind # "open" => x.line \in 1..made'[p]
      BY <2>2, <3>1, <1>1, <1>2 DEF Posted
    <3>7. QED
      BY <2>2, <3>2, <3>3, <3>4, <3>5, <3>6, <1>1, <1>2 DEF Posted, i
  <2>3. CASE x.kind = "ping" /\ x.to = p /\ x.line = m.line
    BY <2>3, <1>1, <1>2, <1>9 DEF Posted
  <2>4. QED
    BY <2>1, <2>2, <2>3, <1>2, <1>4 DEF p
<1>13. Crossing'
  BY <1>1, <1>2, <1>9 DEF Crossing, Unkeyed
<1>14. OldOpens(e)'
  <2> SUFFICES ASSUME Old(i)
               PROVE  /\ \A x \in q : x.kind = "open" /\ x.to = p
                            => x.line = i.mine /\ i.phase = Period
                      /\ k.late \/ (Unkeyed(k) /\ k.link.id # 0)
                           => Open(e, i.mine) \notin q
    BY <1>1, <1>2, <1>9 DEF OldOpens, OpenOut, Old, i, p
  <2>1. QED
    BY <1>2, <1>3, <1>10 DEF OldOpens, OpenOut, i, k, p
<1>15. OldOpens(p)'
  <2> SUFFICES ASSUME Old(k)
               PROVE  /\ \A x \in q : x.kind = "open" /\ x.to = e
                            => x.line = k.mine /\ k.phase = Period
                      /\ Open(p, k.mine) \notin q /\ k.phase = Period
    BY <1>1, <1>2 DEF OldOpens, OpenOut
  <2>1. \A x \in net : x.kind = "open" /\ x.to = e
                       => x.line = k.mine /\ k.phase = Period
    BY <1>2, <1>3 DEF OldOpens, k, p
  <2>2. QED
    BY <2>1, <1>2, <1>6, <1>9, <1>10
<1>16. Halfway(e)'
  <2> SUFFICES ASSUME k.link.id = 2, m.line = k.mine, k.theirs = 0, Old(i) \/ Old(k)
               PROVE  Open(e, i.mine) \notin q
    BY <1>1, <1>2 DEF Halfway, OpenOut, Old, i, p
  <2>1. k.mine # 0 /\ i.mine # 0
    BY <1>5 DEF i
  <2>2. CASE Old(i)
    <3>1. Open(e, i.mine) \notin net
      BY <2>1, <2>2, <1>2, <1>3 DEF OldOpens, OpenOut, Unkeyed, i, k, p
    <3>2. QED
      BY <3>1, <1>10
  <2>3. CASE Old(k)
    <3>1. Open(p, k.mine) \notin net
      BY <2>1, <2>3, <1>2, <1>3 DEF OldOpens, OpenOut, Unkeyed, i, k, p
    <3>2. QED
      BY <3>1, <1>9
  <2>4. QED
    BY <2>2, <2>3
<1>17. Halfway(p)'
  BY <1>1, <1>2, <1>9 DEF Halfway
<1>18. Foreign(e)'
  BY <1>1, <1>2, <1>8 DEF Foreign, p
<1>19. Foreign(p)'
  <2> SUFFICES ASSUME k.theirs = j.mine, DrawnBy(e, k.link.id)
               PROVE  \/ j.phase = Period /\ k.link.age = 0
                      \/ j.theirs # k.mine /\ Open(p, k.mine) \notin q
    BY <1>1, <1>2 DEF Foreign, OpenOut
  <2>1. k.mine # 0 /\ k.theirs = i.mine /\ k.theirs # 0
    BY <1>1, <1>5, <1>8 DEF i
  <2>2. \/ i.phase = Period /\ k.link.age = 0
        \/ Open(p, k.mine) \notin net
    BY <2>1, <1>2, <1>3 DEF Foreign, OpenOut, i, k, p
  <2>3. CASE Open(p, k.mine) \notin net
    BY <2>3, <1>9, <1>10
  <2>4. QED
    BY <2>2, <2>3 DEF i
<1>20. QED
  BY <1>2, <1>3, <1>11, <1>12, <1>13, <1>14, <1>15, <1>16, <1>17, <1>18, <1>19 DEF Shake

\* The timer opens a link on the line there is.
LEMMA LateShake ==
  ASSUME LinkInv, Shake, NEW e \in Ends, NEW j \in SwitchStates, NEW q,
         Becomes(e, j, q), j.alive, sw[e].late, sw[e].link.id = 0, sw[e].mine # 0,
         j.mine = sw[e].mine, j.theirs = sw[e].theirs, j.phase = sw[e].phase,
         j.link = OutLink(sw[e].next + 2), j.next = sw[e].next + 2, ~j.late,
         j.job = sw[e].job,
         net \subseteq q,
         \A x \in q :
           \/ x \in net
           \/ /\ x.kind = "link" /\ x.to = Peer(e) /\ x.line = sw[e].theirs
              /\ x.line # 0 /\ x.id = sw[e].next + 2
  PROVE  Shake'
<1> DEFINE p == Peer(e)
           i == sw[e]
           k == sw[p]
<1>1. /\ sw'[e] = j /\ sw'[p] = k /\ made'[p] = made[p]
      /\ made[e] \in Nat /\ made[p] \in Nat /\ made'[e] \in Nat
      /\ made'[e] >= made[e]
      /\ net' = q /\ i \in SwitchStates /\ k \in SwitchStates
  BY MoveFacts
<1>2. /\ p \in Ends /\ p # e /\ Peer(p) = e
      /\ \A d \in Ends : d = e \/ d = p
      /\ {Lower, Upper} = {e, p}
  BY MoveFacts
<1>3. /\ Shaped(e) /\ Shaped(p) /\ Shaped(p)'
      /\ Foreign(e) /\ Foreign(p) /\ OldOpens(e) /\ OldOpens(p)
      /\ Halfway(e) /\ Halfway(p) /\ Crossing
  BY MoveFacts
<1>4. \A x \in net : Posted(x) /\ x \in Packets /\ x.to \in Ends
                     /\ x.line \in Nat /\ x.id \in Nat
  BY MoveFacts
<1>5. /\ i.theirs \in Nat /\ i.mine \in Nat /\ i.next \in Nat
      /\ i.link.id \in Nat /\ i.theirs <= made[p]
      /\ k.theirs \in Nat /\ k.mine \in Nat /\ k.link.id \in Nat
      /\ k.theirs <= made[e] /\ (k.mine # 0 => k.mine = made[p])
      /\ i.mine # 0 => i.mine = made[e]
      /\ i.theirs # 0 => i.mine # 0
      /\ k.link.id # 0 => k.mine # 0
  BY <1>1, <1>2, <1>3, FieldFacts DEF Shaped
<1>6. /\ Open(e, i.mine).kind = "open" /\ Open(e, i.mine).to = p
      /\ Open(e, i.mine).line = i.mine /\ Open(e, i.mine).id = 0
      /\ Open(p, k.mine).kind = "open" /\ Open(p, k.mine).to = e
      /\ Open(p, k.mine).line = k.mine /\ Open(p, k.mine).id = 0
  BY <1>2 DEF Open
<1>7. made'[e] = made[e]
  BY MoveFacts
<1>8. /\ FirstId(e) \in Nat /\ ~DrawnBy(p, 2) /\ ~DrawnBy(e, 2)
      /\ ~DrawnBy(p, 0) /\ ~DrawnBy(e, 0)
      /\ \A n \in Nat : DrawnBy(e, n) => n # 0 /\ n # 2 /\ ~DrawnBy(p, n)
      /\ \A n \in Nat : DrawnBy(p, n) => n # 0 /\ n # 2 /\ ~DrawnBy(e, n)
  BY <1>2, IdFacts
<1> DEFINE n == i.next + 2
<1>9. /\ n \in Nat /\ n > i.next
      /\ j.link.id = n /\ j.link.age = 0 /\ j.link.in = 0 /\ j.link.never
  BY <1>5 DEF OutLink
<1>10. CASE i.theirs = 0
  <2>1. n = 2 /\ i.phase = Period /\ q = net
    BY <1>3, <1>5, <1>10 DEF Shaped
  <2> HIDE DEF i, k, p, n
  <2>2. Shaped(e)'
    BY <1>1, <1>2, <1>3, <1>5, <1>7, <1>8, <1>9, <1>10, <2>1
    DEF Shaped, Unkeyed, i, p
  <2>3. \A x \in net' : Posted(x)'
    <3> SUFFICES ASSUME NEW x \in net PROVE Posted(x)'
      BY <1>1, <2>1
    <3>1. Posted(x) /\ x.id \in Nat /\ x.line \in Nat /\ x.to \in {e, p}
      BY <1>2, <1>4
    <3>2. CASE x.to = e
      BY <3>1, <3>2, <1>1, <1>2, <1>7 DEF Posted, i, k, p
    <3>3. CASE x.to = p
      BY <3>1, <3>3, <2>1, <1>1, <1>2, <1>7, <1>9 DEF Posted, i, k, p
    <3>4. QED
      BY <3>1, <3>2, <3>3
  <2>4. Crossing'
    BY <1>1, <1>2, <1>3, <2>1 DEF Crossing, OpenOut, Unkeyed, i, k
  <2>5. OldOpens(e)' /\ Halfway(e)'
    BY <1>1, <1>2, <1>5, <1>9, <1>10, <2>1 DEF OldOpens, Halfway, Old, i, k, p
  <2>6. OldOpens(p)'
    BY <1>1, <1>2, <1>3, <1>10, <2>1 DEF OldOpens, Old, OpenOut, Unkeyed, i, k, p
  <2>7. Halfway(p)'
    <3>1. Old(k) => Open(p, k.mine) \notin net
      BY <1>2, <1>3 DEF OldOpens, OpenOut, i, k, p
    <3>2. QED
      BY <3>1, <2>1, <1>1, <1>2, <1>9 DEF Halfway, OpenOut, Old
  <2>8. Foreign(e)'
    BY <1>1, <1>2, <1>10 DEF Foreign, i
  <2>9. Foreign(p)'
    BY <1>1, <1>2, <1>3, <1>5, <1>8, <1>10, <2>1 DEF Foreign, OpenOut, i, k, p
  <2>10. QED
    BY <1>2, <1>3, <2>2, <2>3, <2>4, <2>5, <2>6, <2>7, <2>8, <2>9 DEF Shake
<1>11. CASE i.theirs # 0
  <2>1. /\ i.next >= FirstId(e) /\ i.next % 2 = FirstId(e) % 2
    BY <1>3, <1>11 DEF Shaped
  <2>2. /\ DrawnBy(e, n) /\ n >= FirstId(e) /\ n % 2 = FirstId(e) % 2
        /\ n # 0 /\ n # 2 /\ ~DrawnBy(p, n)
    BY <1>5, <1>9, <2>1, IdFacts
  <2>3. /\ Open(p, k.mine) \in q <=> Open(p, k.mine) \in net
        /\ Open(e, i.mine) \in q <=> Open(e, i.mine) \in net
        /\ \A x \in q : x.kind = "open" => x \in net
    BY <1>6
  <2> HIDE DEF i, k, p, n
  <2>4. Shaped(e)'
    BY <1>1, <1>2, <1>3, <1>5, <1>7, <1>9, <1>11, <2>2 DEF Shaped, Unkeyed, i, p, n
  <2>5. \A x \in net' : Posted(x)'
    <3> SUFFICES ASSUME NEW x \in q PROVE Posted(x)'
      BY <1>1
    <3>1. CASE x \in net /\ x.to = e
      BY <3>1, <1>1, <1>2, <1>4, <1>7 DEF Posted, i, k, p
    <3>2. CASE x \in net /\ x.to = p
      <4>1. Posted(x) /\ x.line \in Nat /\ x.id \in Nat
        BY <3>2, <1>4
      <4>2. x.id <= i.next => x.id <= n
        BY <4>1, <1>5, <1>9
      <4>3. QED
        BY <3>2, <4>1, <4>2, <1>1, <1>2, <1>7, <1>9 DEF Posted, i, k, p, n
    <3>3. CASE x.kind = "link" /\ x.to = p /\ x.line = i.theirs /\ x.id = n
      BY <3>3, <1>1, <1>2, <1>5, <1>9, <1>11, <2>2 DEF Posted, i, n
    <3>4. QED
      BY <3>1, <3>2, <3>3, <1>2, <1>4 DEF i, p, n
  <2>6. Crossing'
    BY <1>1, <1>2, <1>11 DEF Crossing, Unkeyed, i
  <2>7. OldOpens(e)' /\ Halfway(e)' /\ Halfway(p)'
    BY <1>1, <1>2, <1>9, <2>2 DEF OldOpens, Halfway, Old
  <2>8. OldOpens(p)'
    BY <1>1, <1>2, <1>3, <1>11, <2>3 DEF OldOpens, Old, OpenOut, Unkeyed, i, k, p
  <2>9. Foreign(e)'
    BY <1>1, <1>2, <1>9, <2>2 DEF Foreign, p
  <2>10. Foreign(p)'
    BY <1>1, <1>2, <1>3, <2>3 DEF Foreign, OpenOut, i, k, p
  <2>11. QED
    BY <1>2, <1>3, <2>4, <2>5, <2>6, <2>7, <2>8, <2>9, <2>10 DEF Shake
<1>12. QED
  BY <1>10, <1>11

\* A packet on the link, a round that finds it well, and a round that is missed.
LEMMA RefreshShake ==
  ASSUME LinkInv, Shake, NEW e \in Ends, NEW j \in SwitchStates, NEW q,
         Becomes(e, j, q), j.alive,
         j.mine = sw[e].mine, j.theirs = sw[e].theirs, j.next = sw[e].next,
         j.late = sw[e].late, j.job = sw[e].job,
         j.phase \in {sw[e].phase, Period},
         j.link.id = sw[e].link.id, j.link.age = sw[e].link.age,
         j.link.never => sw[e].link.never /\ j.link.in = sw[e].link.in,
         \A x \in net : x \in q \/ (x.to = e /\ x.kind # "open"),
         \A x \in q :
           \/ x \in net
           \/ /\ x.kind = "ping" /\ x.to = Peer(e) /\ x.line = sw[e].theirs
              /\ x.line # 0
           \/ /\ x = Open(e, sw[e].mine) /\ sw[e].link.id # 0
              /\ sw[e].theirs = 0 /\ sw[e].phase = 0 /\ j.phase = Period
  PROVE  Shake'
<1> DEFINE p == Peer(e)
           i == sw[e]
           k == sw[p]
<1>1. /\ sw'[e] = j /\ sw'[p] = k /\ made'[p] = made[p]
      /\ made[e] \in Nat /\ made[p] \in Nat /\ made'[e] \in Nat
      /\ made'[e] >= made[e]
      /\ net' = q /\ i \in SwitchStates /\ k \in SwitchStates
  BY MoveFacts
<1>2. /\ p \in Ends /\ p # e /\ Peer(p) = e
      /\ \A d \in Ends : d = e \/ d = p
      /\ {Lower, Upper} = {e, p}
  BY MoveFacts
<1>3. /\ Shaped(e) /\ Shaped(p) /\ Shaped(p)'
      /\ Foreign(e) /\ Foreign(p) /\ OldOpens(e) /\ OldOpens(p)
      /\ Halfway(e) /\ Halfway(p) /\ Crossing
  BY MoveFacts
<1>4. \A x \in net : Posted(x) /\ x \in Packets /\ x.to \in Ends
                     /\ x.line \in Nat /\ x.id \in Nat
  BY MoveFacts
<1>5. /\ i.theirs \in Nat /\ i.mine \in Nat /\ i.next \in Nat
      /\ i.link.id \in Nat /\ i.theirs <= made[p]
      /\ k.theirs \in Nat /\ k.mine \in Nat /\ k.link.id \in Nat
      /\ k.theirs <= made[e] /\ (k.mine # 0 => k.mine = made[p])
      /\ i.mine # 0 => i.mine = made[e]
      /\ i.theirs # 0 => i.mine # 0
      /\ k.link.id # 0 => k.mine # 0
  BY <1>1, <1>2, <1>3, FieldFacts DEF Shaped
<1>6. /\ Open(e, i.mine).kind = "open" /\ Open(e, i.mine).to = p
      /\ Open(e, i.mine).line = i.mine /\ Open(e, i.mine).id = 0
      /\ Open(p, k.mine).kind = "open" /\ Open(p, k.mine).to = e
      /\ Open(p, k.mine).line = k.mine /\ Open(p, k.mine).id = 0
  BY <1>2 DEF Open
<1>7. made'[e] = made[e]
  BY MoveFacts
<1>8. /\ Open(p, k.mine) \in q <=> Open(p, k.mine) \in net
      /\ Open(e, i.mine) \in net => Open(e, i.mine) \in q
      /\ Open(e, i.mine) \in q => \/ Open(e, i.mine) \in net
                                  \/ i.link.id # 0 /\ i.theirs = 0 /\ i.phase = 0
  BY <1>2, <1>6
<1>9. 0 # Period
  BY DEF Period
<1> HIDE DEF i, k, p
<1>10. Shaped(e)'
  BY <1>1, <1>2, <1>3, <1>7 DEF Shaped, Unkeyed, i, p
<1>11. \A x \in net' : Posted(x)'
  <2> SUFFICES ASSUME NEW x \in q PROVE Posted(x)'
    BY <1>1
  <2>1. CASE x \in net /\ x.to = e
    BY <2>1, <1>1, <1>2, <1>4, <1>7 DEF Posted, i, k, p
  <2>2. CASE x \in net /\ x.to = p
    BY <2>2, <1>1, <1>2, <1>4, <1>7 DEF Posted, i, k, p
  <2>3. CASE x.kind = "ping" /\ x.to = p /\ x.line = i.theirs /\ x.line # 0
    BY <2>3, <1>1, <1>2, <1>5 DEF Posted
  <2>4. CASE x = Open(e, i.mine) /\ i.link.id # 0
    <3>1. i.mine # 0 /\ i.mine = made[e]
      BY <2>4, <1>3, <1>5 DEF Shaped, i
    <3>2. QED
      BY <2>4, <3>1, <1>1, <1>2, <1>5, <1>6, <1>7 DEF Posted
  <2>5. QED
    BY <2>1, <2>2, <2>3, <2>4, <1>2, <1>4 DEF i, p
<1>12. Crossing'
  BY <1>1, <1>2, <1>3, <1>8 DEF Crossing, OpenOut, Unkeyed, i, k
<1>13. OldOpens(e)'
  <2> SUFFICES ASSUME Old(i)
               PROVE  /\ \A x \in q : x.kind = "open" /\ x.to = p
                            => x.line = i.mine /\ j.phase = Period
                      /\ k.late \/ (Unkeyed(k) /\ k.link.id # 0)
                           => /\ Open(e, i.mine) \notin q
                              /\ j.phase = Period \/ i.theirs # 0
    BY <1>1, <1>2 DEF OldOpens, OpenOut, Old, i, p
  <2>1. /\ \A x \in net : x.kind = "open" /\ x.to = p
             => x.line = i.mine /\ i.phase = Period
        /\ k.late \/ (Unkeyed(k) /\ k.link.id # 0)
             => Open(e, i.mine) \notin net /\ (i.phase = Period \/ i.theirs # 0)
    BY <1>3 DEF OldOpens, OpenOut, i, k, p
  <2>2. \A x \in q : x.kind = "open" /\ x.to = p
                     => x.line = i.mine /\ j.phase = Period
    <3> SUFFICES ASSUME NEW x \in q, x.kind = "open", x.to = p
                 PROVE  x.line = i.mine /\ j.phase = Period
      OBVIOUS
    <3>1. CASE x \in net
      BY <2>1, <3>1 DEF i
    <3>2. CASE x = Open(e, i.mine) /\ j.phase = Period
      BY <3>2, <1>6
    <3>3. QED
      BY <3>1, <3>2 DEF i
  <2>3. ASSUME k.late \/ (Unkeyed(k) /\ k.link.id # 0)
        PROVE  Open(e, i.mine) \notin q /\ (j.phase = Period \/ i.theirs # 0)
    BY <2>1, <2>3, <1>8, <1>9 DEF i
  <2>4. QED
    BY <2>2, <2>3
<1>14. OldOpens(p)'
  <2>1. \A x \in q : x.kind = "open" /\ x.to = e => x \in net
    BY <1>2, <1>6 DEF i, p
  <2>2. QED
    BY <2>1, <1>1, <1>2, <1>3, <1>8 DEF OldOpens, OpenOut, Old, Unkeyed, i, k, p
<1>15. Halfway(e)' /\ Halfway(p)'
  <2>1. Halfway(e)'
    BY <1>1, <1>2, <1>3, <1>5, <1>8 DEF Halfway, OpenOut, Old, i, k, p
  <2>2. Halfway(p)'
    BY <1>1, <1>2, <1>3, <1>8 DEF Halfway, OpenOut, Old, i, k, p
  <2>3. QED
    BY <2>1, <2>2
<1>16. Foreign(e)' /\ Foreign(p)'
  <2>1. Foreign(e)'
    BY <1>1, <1>2, <1>3, <1>8 DEF Foreign, OpenOut, i, k, p
  <2>2. Foreign(p)'
    BY <1>1, <1>2, <1>3, <1>8 DEF Foreign, OpenOut, i, k, p
  <2>3. QED
    BY <2>1, <2>2
<1>17. QED
  BY <1>2, <1>3, <1>10, <1>11, <1>12, <1>13, <1>14, <1>15, <1>16 DEF Shake

\* A round resets the identity.
LEMMA ResetShake ==
  ASSUME LinkInv, Shake, NEW e \in Ends, NEW j \in SwitchStates,
         Becomes(e, j, net), j.alive,
         j.mine = 0, j.theirs = 0, j.next = 0, j.link = NoLink,
         j.late = sw[e].late, j.phase = Period
  PROVE  Shake'
<1> DEFINE q == net
<1> DEFINE p == Peer(e)
           i == sw[e]
           k == sw[p]
<1>1. /\ sw'[e] = j /\ sw'[p] = k /\ made'[p] = made[p]
      /\ made[e] \in Nat /\ made[p] \in Nat /\ made'[e] \in Nat
      /\ made'[e] >= made[e]
      /\ net' = q /\ i \in SwitchStates /\ k \in SwitchStates
  BY MoveFacts
<1>2. /\ p \in Ends /\ p # e /\ Peer(p) = e
      /\ \A d \in Ends : d = e \/ d = p
      /\ {Lower, Upper} = {e, p}
  BY MoveFacts
<1>3. /\ Shaped(e) /\ Shaped(p) /\ Shaped(p)'
      /\ Foreign(e) /\ Foreign(p) /\ OldOpens(e) /\ OldOpens(p)
      /\ Halfway(e) /\ Halfway(p) /\ Crossing
  BY MoveFacts
<1>4. \A x \in net : Posted(x) /\ x \in Packets /\ x.to \in Ends
                     /\ x.line \in Nat /\ x.id \in Nat
  BY MoveFacts
<1>5. /\ i.theirs \in Nat /\ i.mine \in Nat /\ i.next \in Nat
      /\ i.link.id \in Nat /\ i.theirs <= made[p]
      /\ k.theirs \in Nat /\ k.mine \in Nat /\ k.link.id \in Nat
      /\ k.theirs <= made[e] /\ (k.mine # 0 => k.mine = made[p])
      /\ i.mine # 0 => i.mine = made[e]
      /\ i.theirs # 0 => i.mine # 0
      /\ k.link.id # 0 => k.mine # 0
  BY <1>1, <1>2, <1>3, FieldFacts DEF Shaped
<1>6. made'[e] = made[e]
  BY MoveFacts
<1>7. j.link.id = 0 /\ j.link.in = 0 /\ j.link.age = 0
  BY DEF NoLink
<1>8. /\ FirstId(e) \in Nat /\ ~DrawnBy(p, 2) /\ ~DrawnBy(e, 2)
      /\ ~DrawnBy(p, 0) /\ ~DrawnBy(e, 0)
      /\ \A n \in Nat : DrawnBy(e, n) => n # 0 /\ n # 2 /\ ~DrawnBy(p, n)
      /\ \A n \in Nat : DrawnBy(p, n) => n # 0 /\ n # 2 /\ ~DrawnBy(e, n)
  BY <1>2, IdFacts
<1> HIDE DEF i, k, p, q
<1>9. Shaped(e)'
  BY <1>1, <1>2, <1>6, <1>7, <1>8 DEF Shaped, Unkeyed, p
<1>10. \A x \in net' : Posted(x)'
  <2> SUFFICES ASSUME NEW x \in net PROVE Posted(x)'
    BY <1>1 DEF q
  <2>1. Posted(x) /\ x.id \in Nat /\ x.line \in Nat /\ x.to \in {e, p}
    BY <1>2, <1>4
  <2>2. CASE x.to = e
    BY <2>1, <2>2, <1>1, <1>2, <1>6 DEF Posted, i, k, p
  <2>3. CASE x.to = p
    BY <2>1, <2>3, <1>1, <1>2, <1>6, <1>7 DEF Posted, i, k, p
  <2>4. QED
    BY <2>1, <2>2, <2>3
<1>11. Crossing'
  BY <1>1, <1>2 DEF Crossing, Unkeyed
<1>12. OldOpens(e)' /\ Halfway(e)' /\ Halfway(p)'
  BY <1>1, <1>2, <1>7 DEF OldOpens, Halfway, Old
<1>13. OldOpens(p)'
  BY <1>1, <1>2, <1>3, <1>7 DEF OldOpens, OpenOut, Old, Unkeyed, i, k, p, q
<1>14. Foreign(e)' /\ Foreign(p)'
  BY <1>1, <1>2, <1>7, <1>8 DEF Foreign
<1>15. QED
  BY <1>2, <1>3, <1>9, <1>10, <1>11, <1>12, <1>13, <1>14 DEF Shake

\* The link of e is refused, or replaced by one that the peer opens.
LEMMA SwapShake ==
  ASSUME LinkInv, Shake, NEW e \in Ends, NEW j \in SwitchStates, NEW q,
         Becomes(e, j, q), j.alive, NEW m \in net, m.to = e, m.kind # "open",
         sw[e].theirs # 0,
         j.mine = sw[e].mine, j.theirs = sw[e].theirs, j.next = sw[e].next,
         j.late = sw[e].late, j.job = sw[e].job, j.phase = sw[e].phase,
         j.link.age = 0, j.link.in = 0,
         \/ j.link.id = 0
         \/ /\ m.kind = "link" /\ m.line = sw[e].mine
            /\ j.link.id = m.id /\ ~j.link.never,
         \A x \in net : x \in q \/ x = m,
         \A x \in q :
           \/ x \in net
           \/ /\ x.kind = "ping" /\ x.to = Peer(e) /\ x.line = sw[e].theirs
  PROVE  Shake'
<1> DEFINE p == Peer(e)
           i == sw[e]
           k == sw[p]
<1>1. /\ sw'[e] = j /\ sw'[p] = k /\ made'[p] = made[p]
      /\ made[e] \in Nat /\ made[p] \in Nat /\ made'[e] \in Nat
      /\ made'[e] >= made[e]
      /\ net' = q /\ i \in SwitchStates /\ k \in SwitchStates
  BY MoveFacts
<1>2. /\ p \in Ends /\ p # e /\ Peer(p) = e
      /\ \A d \in Ends : d = e \/ d = p
      /\ {Lower, Upper} = {e, p}
  BY MoveFacts
<1>3. /\ Shaped(e) /\ Shaped(p) /\ Shaped(p)'
      /\ Foreign(e) /\ Foreign(p) /\ OldOpens(e) /\ OldOpens(p)
      /\ Halfway(e) /\ Halfway(p) /\ Crossing
  BY MoveFacts
<1>4. \A x \in net : Posted(x) /\ x \in Packets /\ x.to \in Ends
                     /\ x.line \in Nat /\ x.id \in Nat
  BY MoveFacts
<1>5. /\ i.theirs \in Nat /\ i.mine \in Nat /\ i.next \in Nat
      /\ i.link.id \in Nat /\ i.theirs <= made[p]
      /\ k.theirs \in Nat /\ k.mine \in Nat /\ k.link.id \in Nat
      /\ k.theirs <= made[e] /\ (k.mine # 0 => k.mine = made[p])
      /\ i.mine # 0 => i.mine = made[e]
      /\ i.theirs # 0 => i.mine # 0
      /\ k.link.id # 0 => k.mine # 0
  BY <1>1, <1>2, <1>3, FieldFacts DEF Shaped
<1>6. /\ Open(e, i.mine).kind = "open" /\ Open(e, i.mine).to = p
      /\ Open(e, i.mine).line = i.mine /\ Open(e, i.mine).id = 0
      /\ Open(p, k.mine).kind = "open" /\ Open(p, k.mine).to = e
      /\ Open(p, k.mine).line = k.mine /\ Open(p, k.mine).id = 0
  BY <1>2 DEF Open
<1>7. made'[e] = made[e]
  BY MoveFacts
<1>8. /\ FirstId(e) \in Nat /\ ~DrawnBy(p, 2) /\ ~DrawnBy(e, 2)
      /\ ~DrawnBy(p, 0) /\ ~DrawnBy(e, 0)
      /\ \A n \in Nat : DrawnBy(e, n) => n # 0 /\ n # 2 /\ ~DrawnBy(p, n)
      /\ \A n \in Nat : DrawnBy(p, n) => n # 0 /\ n # 2 /\ ~DrawnBy(e, n)
  BY <1>2, IdFacts
<1>9. /\ Open(p, k.mine) \in q <=> Open(p, k.mine) \in net
      /\ Open(e, i.mine) \in q <=> Open(e, i.mine) \in net
      /\ \A x \in q : x.kind = "open" => x \in net
  BY <1>2, <1>6
<1>10. j.link.id # 0 => DrawnBy(p, j.link.id) /\ j.link.id # 2
                        /\ ~DrawnBy(e, j.link.id) /\ ~j.link.never
  BY <1>2, <1>4, <1>8 DEF Posted
<1>11. j.link.id # 0 => \/ k.theirs = i.mine /\ j.link.id <= k.next
                        \/ k.phase = Period
  BY <1>2, <1>4 DEF Posted
<1> HIDE DEF i, k, p
<1>12. Shaped(e)'
  BY <1>1, <1>2, <1>3, <1>7, <1>8, <1>10 DEF Shaped, Unkeyed, i, p
<1>13. \A x \in net' : Posted(x)'
  <2> SUFFICES ASSUME NEW x \in q PROVE Posted(x)'
    BY <1>1
  <2>1. CASE x \in net /\ x.to = e
    BY <2>1, <1>1, <1>2, <1>4, <1>7 DEF Posted, i, k, p
  <2>2. CASE x \in net /\ x.to = p
    BY <2>2, <1>1, <1>2, <1>4, <1>7 DEF Posted, i, k, p
  <2>3. CASE x.kind = "ping" /\ x.to = p /\ x.line = i.theirs
    BY <2>3, <1>1, <1>2, <1>5 DEF Posted, i
  <2>4. QED
    BY <2>1, <2>2, <2>3, <1>2, <1>4 DEF i, p
<1>14. Crossing'
  BY <1>1, <1>2, <1>3, <1>9 DEF Crossing, OpenOut, Unkeyed, i, k
<1>15. OldOpens(e)' /\ Halfway(e)' /\ Halfway(p)'
  BY <1>1, <1>2, <1>10 DEF OldOpens, Halfway, Old
<1>16. OldOpens(p)'
  BY <1>1, <1>2, <1>3, <1>9 DEF OldOpens, OpenOut, Old, Unkeyed, i, k, p
<1>17. Foreign(e)'
  BY <1>1, <1>2, <1>8, <1>11 DEF Foreign, i, k, p
<1>18. Foreign(p)'
  BY <1>1, <1>2, <1>3, <1>9 DEF Foreign, OpenOut, i, k, p
<1>19. QED
  BY <1>2, <1>3, <1>12, <1>13, <1>14, <1>15, <1>16, <1>17, <1>18 DEF Shake

\* Five seconds pass when nothing is on its way.
LEMMA TickShake ==
  ASSUME LinkInv, Shake, Tick
  PROVE  Shake'
<1>1. /\ sw \in [Ends -> SwitchStates] /\ UNCHANGED <<made, net, opens, skips, faults>>
      /\ net = {} /\ \A d \in Ends : ~sw[d].late
  BY DEF LinkInv, TypeOK, Tick
<1>2. Longest \in Nat /\ Longest > 6
  BY BoundsAreNat DEF Longest, Idle, Period
<1>3. \A d \in Ends :
        /\ Shaped(d)'
        /\ ~sw'[d].late /\ sw'[d].mine = sw[d].mine /\ sw'[d].theirs = sw[d].theirs
        /\ sw'[d].link.id = sw[d].link.id
  <2> SUFFICES ASSUME NEW d \in Ends
               PROVE  /\ Shaped(d)'
                      /\ ~sw'[d].late /\ sw'[d].mine = sw[d].mine
                      /\ sw'[d].theirs = sw[d].theirs
                      /\ sw'[d].link.id = sw[d].link.id
    OBVIOUS
  <2> DEFINE i == sw[d]
             l == Older(i.link)
             j == [i EXCEPT !.link = l, !.phase = i.phase - 1]
  <2>1. Shaped(d) /\ i \in SwitchStates /\ ~i.late
    BY <1>1 DEF Shake
  <2>2. sw'[d] = j
    BY <2>1 DEF Tick, Shaped
  <2>3. /\ j.link = l /\ j.mine = i.mine /\ j.theirs = i.theirs /\ j.next = i.next
        /\ j.alive = i.alive /\ j.job = i.job /\ j.late = i.late
    BY <2>1 DEF SwitchStates
  <2>4. i.link \in LinkStates /\ i.link.in \in Nat /\ i.link.age \in 0..6
    BY <2>1, FieldFacts
  <2>5. /\ l.id = i.link.id /\ l.never = i.link.never
        /\ l.id = 0 => l = i.link
        /\ l.id # 0 =>
             /\ l.in = IF i.link.in = Longest THEN i.link.in ELSE i.link.in + 1
             /\ l.age = IF i.link.age > Young THEN i.link.age ELSE i.link.age + 1
    BY <2>4 DEF Older, LinkStates
  <2>6. l.id # 0 => l.age # 0
    BY <2>4, <2>5 DEF Young
  <2>7. l.never => l.in >= l.age
    <3>1. i.link.never => i.link.in >= i.link.age
      BY <2>1 DEF Shaped
    <3>2. QED
      BY <3>1, <2>4, <2>5, <1>2 DEF Young
  <2>8. made' = made
    BY <1>1
  <2> HIDE DEF l, j
  <2>9. Shaped(d)'
    BY <2>1, <2>2, <2>3, <2>5, <2>6, <2>7, <2>8 DEF Shaped, Unkeyed
  <2>10. QED
    BY <2>1, <2>2, <2>3, <2>5, <2>9
<1>4. Crossing'
  BY <1>1, <1>3 DEF Shake, Crossing, OpenOut, Unkeyed, Ends
<1>5. ASSUME NEW d \in Ends PROVE OldOpens(d)' /\ Halfway(d)' /\ Foreign(d)'
  <2>1. /\ Peer(d) \in Ends /\ {Lower, Upper} = {d, Peer(d)} /\ Shaped(d)
    BY PeerFacts DEF Shake
  <2>2. net' = {} /\ ~OpenOut(d)'
    BY <1>1 DEF OpenOut
  <2>3. Unkeyed(sw[Peer(d)]) => ~Unkeyed(sw[d])
    BY <2>1, <1>1 DEF Shake, Crossing, OpenOut
  <2>4. sw[d].link.id # 0 => sw[d].mine # 0
    BY <2>1 DEF Shaped
  <2>5. OldOpens(d)'
    BY <1>3, <2>1, <2>2, <2>3, <2>4 DEF OldOpens, Old, Unkeyed
  <2>6. Halfway(d)' /\ Foreign(d)'
    BY <1>3, <2>1, <2>2 DEF Halfway, Foreign
  <2>7. QED
    BY <2>5, <2>6
<1>6. QED
  BY <1>1, <1>3, <1>4, <1>5 DEF Shake

------------------------------------------------------------------------------
(* What feeds a link.                                                      *)

\* Agreement, as one end sees it.
LEMMA AgreedIs ==
  ASSUME NEW e \in Ends
  PROVE  Agreed <=> /\ sw[e].alive /\ sw[Peer(e)].alive
                    /\ sw[e].link.id # 0 /\ sw[e].link.id = sw[Peer(e)].link.id
                    /\ sw[e].theirs = sw[Peer(e)].mine
                    /\ sw[Peer(e)].theirs = sw[e].mine
<1>1. CASE e = Lower
  BY <1>1, PeerFacts DEF Agreed, HasLink, Ends, Peer
<1>2. CASE e = Upper
  BY <1>2, PeerFacts DEF Agreed, HasLink, Ends, Peer
<1>3. QED
  BY <1>1, <1>2 DEF Ends

\* And after a step.
LEMMA AgreedNext ==
  ASSUME NEW e \in Ends
  PROVE  Agreed' <=> /\ sw'[e].alive /\ sw'[Peer(e)].alive
                     /\ sw'[e].link.id # 0 /\ sw'[e].link.id = sw'[Peer(e)].link.id
                     /\ sw'[e].theirs = sw'[Peer(e)].mine
                     /\ sw'[Peer(e)].theirs = sw'[e].mine
<1>1. CASE e = Lower
  BY <1>1, PeerFacts DEF Agreed, HasLink, Ends, Peer
<1>2. CASE e = Upper
  BY <1>2, PeerFacts DEF Agreed, HasLink, Ends, Peer
<1>3. QED
  BY <1>1, <1>2 DEF Ends

\* A link that comes about begins at both ends at once.
LEMMA BegunFed ==
  ASSUME LinkInv', NEW e \in Ends,
         Agreed' =>
           /\ sw'[e].link.in = 0 /\ sw'[Peer(e)].link.in = 0
           /\ sw'[e].link.never => sw'[e].phase = Period \/ Coming(e)'
           /\ sw'[Peer(e)].link.never =>
                sw'[Peer(e)].phase = Period \/ Coming(Peer(e))'
  PROVE  Fed'
<1> SUFFICES ASSUME Agreed'
             PROVE  \A d \in Ends : HeardOf(d)' /\ Rounds(d)'
  BY DEF Fed
<1>1. ASSUME NEW d \in Ends PROVE HeardOf(d)' /\ Rounds(d)'
  <2>1. /\ d \in {e, Peer(e)} /\ Peer(d) \in {e, Peer(e)} /\ Peer(d) \in Ends
    BY PeerFacts
  <2>2. /\ sw'[d].link.in = 0 /\ sw'[Peer(d)].link.in = 0
        /\ sw'[d].link.never => sw'[d].phase = Period \/ Coming(d)'
    BY <2>1
  <2>3. sw'[d] \in SwitchStates /\ sw'[Peer(d)] \in SwitchStates
    BY <2>1 DEF LinkInv, TypeOK
  <2>4. sw'[d].phase \in 0..5 /\ sw'[Peer(d)].link.out \in 0..3
    BY <2>3, FieldFacts
  <2>5. QED
    BY <2>2, <2>4 DEF HeardOf, Rounds, Period
<1>2. QED
  BY <1>1

\* Without a link, without keys or on a line just made there is nothing to feed.
LEMMA NoneFed ==
  ASSUME LinkInv, Shake, NEW e \in Ends, NEW j \in SwitchStates, NEW q,
         Becomes(e, j, q), j.link.id = 0 \/ j.theirs = 0
  PROVE  Fed'
<1> DEFINE p == Peer(e)
           i == sw[e]
           k == sw[p]
<1>1. /\ sw'[e] = j /\ sw'[p] = k /\ made'[p] = made[p]
      /\ made[e] \in Nat /\ made[p] \in Nat /\ made'[e] \in Nat
      /\ made'[e] >= made[e]
      /\ net' = q /\ i \in SwitchStates /\ k \in SwitchStates
  BY MoveFacts
<1>2. /\ p \in Ends /\ p # e /\ Peer(p) = e
      /\ \A d \in Ends : d = e \/ d = p
      /\ {Lower, Upper} = {e, p}
  BY MoveFacts
<1>3. /\ Shaped(e) /\ Shaped(p) /\ Shaped(p)'
      /\ Foreign(e) /\ Foreign(p) /\ OldOpens(e) /\ OldOpens(p)
      /\ Halfway(e) /\ Halfway(p) /\ Crossing
  BY MoveFacts
<1>4. \A x \in net : Posted(x) /\ x \in Packets /\ x.to \in Ends
                     /\ x.line \in Nat /\ x.id \in Nat
  BY MoveFacts
<1>5. /\ i.theirs \in Nat /\ i.mine \in Nat /\ i.next \in Nat
      /\ i.link.id \in Nat /\ i.theirs <= made[p]
      /\ k.theirs \in Nat /\ k.mine \in Nat /\ k.link.id \in Nat
      /\ k.theirs <= made[e] /\ (k.mine # 0 => k.mine = made[p])
      /\ i.mine # 0 => i.mine = made[e]
      /\ i.theirs # 0 => i.mine # 0
      /\ k.link.id # 0 => k.mine # 0
  BY <1>1, <1>2, <1>3, FieldFacts DEF Shaped
<1>6. ~Agreed'
  BY <1>1, <1>5, AgreedNext
<1>7. QED
  BY <1>6 DEF Fed

\* A link the peer opened just now is answered.
LEMMA SwapFed ==
  ASSUME LinkInv, LinkInv', Shake, NEW e \in Ends, NEW j \in SwitchStates, NEW q,
         Becomes(e, j, q), NEW m \in net, m.to = e,
         j.mine = sw[e].mine, j.theirs = sw[e].theirs, j.link.in = 0,
         \/ j.link.id = 0
         \/ /\ m.kind = "link" /\ j.link.id = m.id /\ ~j.link.never
            /\ \E x \in q : /\ x.kind = "ping" /\ x.to = Peer(e)
                            /\ x.line = sw[e].theirs /\ x.id = m.id
  PROVE  Fed'
<1> DEFINE p == Peer(e)
           i == sw[e]
           k == sw[p]
<1>1. /\ sw'[e] = j /\ sw'[p] = k /\ made'[p] = made[p]
      /\ made[e] \in Nat /\ made[p] \in Nat /\ made'[e] \in Nat
      /\ made'[e] >= made[e]
      /\ net' = q /\ i \in SwitchStates /\ k \in SwitchStates
  BY MoveFacts
<1>2. /\ p \in Ends /\ p # e /\ Peer(p) = e
      /\ \A d \in Ends : d = e \/ d = p
      /\ {Lower, Upper} = {e, p}
  BY MoveFacts
<1>3. /\ Shaped(e) /\ Shaped(p) /\ Shaped(p)'
      /\ Foreign(e) /\ Foreign(p) /\ OldOpens(e) /\ OldOpens(p)
      /\ Halfway(e) /\ Halfway(p) /\ Crossing
  BY MoveFacts
<1>4. \A x \in net : Posted(x) /\ x \in Packets /\ x.to \in Ends
                     /\ x.line \in Nat /\ x.id \in Nat
  BY MoveFacts
<1>5. /\ i.theirs \in Nat /\ i.mine \in Nat /\ i.next \in Nat
      /\ i.link.id \in Nat /\ i.theirs <= made[p]
      /\ k.theirs \in Nat /\ k.mine \in Nat /\ k.link.id \in Nat
      /\ k.theirs <= made[e] /\ (k.mine # 0 => k.mine = made[p])
      /\ i.mine # 0 => i.mine = made[e]
      /\ i.theirs # 0 => i.mine # 0
      /\ k.link.id # 0 => k.mine # 0
  BY <1>1, <1>2, <1>3, FieldFacts DEF Shaped
<1> SUFFICES ASSUME Agreed'
             PROVE  /\ k.link.in = 0 /\ ~j.link.never /\ Coming(p)'
  BY <1>1, BegunFed
<1>6. j.link.id # 0 /\ k.link.id = j.link.id /\ i.theirs = k.mine
  BY <1>1, AgreedNext
<1>7. k.link.age = 0
  BY <1>2, <1>4, <1>6 DEF Posted
<1>8. k.link.in = 0
  BY <1>1, <1>2, <1>7, FieldFacts DEF LinkInv, Timely, Young
<1>9. Coming(p)'
  BY <1>1, <1>6 DEF Coming
<1>10. QED
  BY <1>6, <1>8, <1>9

\* A link made when the line gets its keys is one the peer has only if the peer
\* took it just now from a line that was reset just now.
LEMMA KeyedFed ==
  ASSUME LinkInv, LinkInv', Shake, NEW e \in Ends, NEW j \in SwitchStates, NEW q,
         Becomes(e, j, q), NEW m \in net, m.kind = "open", m.to = e,
         ~(sw[e].mine # 0 /\ m.line <= sw[e].theirs),
         j.mine = IF sw[e].mine = 0 THEN made[e] + 1 ELSE sw[e].mine,
         j.theirs = m.line, j.phase = sw[e].phase, j.link.in = 0,
         j.link.id = 0 \/ j.link.id = FirstId(e) + 2
  PROVE  Fed'
<1> DEFINE p == Peer(e)
           i == sw[e]
           k == sw[p]
<1>1. /\ sw'[e] = j /\ sw'[p] = k /\ made'[p] = made[p]
      /\ made[e] \in Nat /\ made[p] \in Nat /\ made'[e] \in Nat
      /\ made'[e] >= made[e]
      /\ net' = q /\ i \in SwitchStates /\ k \in SwitchStates
  BY MoveFacts
<1>2. /\ p \in Ends /\ p # e /\ Peer(p) = e
      /\ \A d \in Ends : d = e \/ d = p
      /\ {Lower, Upper} = {e, p}
  BY MoveFacts
<1>3. /\ Shaped(e) /\ Shaped(p) /\ Shaped(p)'
      /\ Foreign(e) /\ Foreign(p) /\ OldOpens(e) /\ OldOpens(p)
      /\ Halfway(e) /\ Halfway(p) /\ Crossing
  BY MoveFacts
<1>4. \A x \in net : Posted(x) /\ x \in Packets /\ x.to \in Ends
                     /\ x.line \in Nat /\ x.id \in Nat
  BY MoveFacts
<1>5. /\ i.theirs \in Nat /\ i.mine \in Nat /\ i.next \in Nat
      /\ i.link.id \in Nat /\ i.theirs <= made[p]
      /\ k.theirs \in Nat /\ k.mine \in Nat /\ k.link.id \in Nat
      /\ k.theirs <= made[e] /\ (k.mine # 0 => k.mine = made[p])
      /\ i.mine # 0 => i.mine = made[e]
      /\ i.theirs # 0 => i.mine # 0
      /\ k.link.id # 0 => k.mine # 0
  BY <1>1, <1>2, <1>3, FieldFacts DEF Shaped
<1>6. /\ m.line \in 1..made[p] /\ m = Open(p, m.line) /\ m.line \in Nat
  BY <1>1, <1>2, <1>4, OpenIs DEF Posted
<1>7. DrawnBy(e, FirstId(e) + 2)
  BY IdFacts
<1> SUFFICES ASSUME Agreed'
             PROVE  /\ k.link.in = 0 /\ ~k.link.never /\ j.phase = Period
  BY <1>1, BegunFed
<1>8. /\ j.link.id # 0 /\ j.link.id = k.link.id /\ k.theirs = j.mine
      /\ m.line = k.mine
  BY <1>1, AgreedNext
<1>9. DrawnBy(e, k.link.id) /\ k.mine # 0
  BY <1>5, <1>7, <1>8
<1>10. k.theirs = i.mine /\ k.theirs # 0 /\ i.theirs # k.mine
  <2> HIDE DEF i, k, p
  <2>1. i.mine # 0
    <3> SUFFICES ASSUME i.mine = 0 PROVE FALSE
      OBVIOUS
    <3>1. k.theirs = made[e] + 1
      BY <1>8 DEF i
    <3>2. QED
      BY <3>1, <1>1, <1>5
  <2>2. k.theirs = i.mine
    BY <2>1, <1>8 DEF i
  <2>3. i.theirs # k.mine
    BY <2>1, <1>5, <1>6, <1>8, <1>9 DEF i
  <2>4. QED
    BY <2>1, <2>2, <2>3
<1>11. OpenOut(p)
  BY <1>6, <1>8 DEF OpenOut
<1>12. i.phase = Period /\ k.link.age = 0
  BY <1>2, <1>3, <1>9, <1>10, <1>11 DEF Foreign
<1>13. ~k.link.never
  BY <1>2, <1>3, <1>9 DEF Shaped
<1>14. k.link.in = 0
  BY <1>1, <1>2, <1>12, FieldFacts DEF LinkInv, Timely, Young
<1>15. QED
  BY <1>12, <1>13, <1>14

\* Of two links that were made for unkeyed lines the second gets its keys at the
\* moment they were made.
LEMMA EarlyFed ==
  ASSUME LinkInv, LinkInv', Shake, NEW e \in Ends, NEW j \in SwitchStates, NEW q,
         Becomes(e, j, q), NEW m \in net, m.kind = "open", m.to = e,
         sw[e].mine # 0, sw[e].theirs = 0, sw[e].link.id = 2,
         j.mine = sw[e].mine, j.theirs = m.line, j.phase = sw[e].phase,
         j.link.id = 2, j.link.in = sw[e].link.in
  PROVE  Fed'
<1> DEFINE p == Peer(e)
           i == sw[e]
           k == sw[p]
<1>1. /\ sw'[e] = j /\ sw'[p] = k /\ made'[p] = made[p]
      /\ made[e] \in Nat /\ made[p] \in Nat /\ made'[e] \in Nat
      /\ made'[e] >= made[e]
      /\ net' = q /\ i \in SwitchStates /\ k \in SwitchStates
  BY MoveFacts
<1>2. /\ p \in Ends /\ p # e /\ Peer(p) = e
      /\ \A d \in Ends : d = e \/ d = p
      /\ {Lower, Upper} = {e, p}
  BY MoveFacts
<1>3. /\ Shaped(e) /\ Shaped(p) /\ Shaped(p)'
      /\ Foreign(e) /\ Foreign(p) /\ OldOpens(e) /\ OldOpens(p)
      /\ Halfway(e) /\ Halfway(p) /\ Crossing
  BY MoveFacts
<1>4. \A x \in net : Posted(x) /\ x \in Packets /\ x.to \in Ends
                     /\ x.line \in Nat /\ x.id \in Nat
  BY MoveFacts
<1>5. /\ i.theirs \in Nat /\ i.mine \in Nat /\ i.next \in Nat
      /\ i.link.id \in Nat /\ i.theirs <= made[p]
      /\ k.theirs \in Nat /\ k.mine \in Nat /\ k.link.id \in Nat
      /\ k.theirs <= made[e] /\ (k.mine # 0 => k.mine = made[p])
      /\ i.mine # 0 => i.mine = made[e]
      /\ i.theirs # 0 => i.mine # 0
      /\ k.link.id # 0 => k.mine # 0
  BY <1>1, <1>2, <1>3, FieldFacts DEF Shaped
<1>6. m = Open(p, m.line)
  BY <1>2, <1>4, OpenIs DEF Posted
<1> SUFFICES ASSUME Agreed'
             PROVE  /\ i.link.in = 0 /\ k.link.in = 0
                    /\ i.phase = Period /\ k.phase = Period
  BY <1>1, BegunFed
<1>7. k.link.id = 2 /\ k.theirs = i.mine /\ m.line = k.mine
  BY <1>1, AgreedNext
<1>8. OpenOut(p)
  BY <1>6, <1>7 DEF OpenOut
<1>9. ~Old(i) /\ ~Old(k)
  BY <1>2, <1>3, <1>7, <1>8 DEF Halfway
<1>10. i.link.age = 0 /\ k.link.age = 0
  BY <1>1, <1>7, <1>9, FieldFacts DEF Old
<1>11. i.phase = Period /\ k.phase = Period
  BY <1>2, <1>3, <1>7, <1>10 DEF Shaped
<1>12. i.link.in = 0 /\ k.link.in = 0
  BY <1>1, <1>2, <1>10, FieldFacts DEF LinkInv, Timely, Young
<1>13. QED
  BY <1>11, <1>12

\* So does a link that the timer opens.
LEMMA LateFed ==
  ASSUME LinkInv, LinkInv', Shake, NEW e \in Ends, NEW j \in SwitchStates, NEW q,
         Becomes(e, j, q), sw[e].late, sw[e].link.id = 0,
         j.mine = sw[e].mine, j.theirs = sw[e].theirs, j.phase = sw[e].phase,
         j.link = OutLink(sw[e].next + 2)
  PROVE  Fed'
<1> DEFINE p == Peer(e)
           i == sw[e]
           k == sw[p]
<1>1. /\ sw'[e] = j /\ sw'[p] = k /\ made'[p] = made[p]
      /\ made[e] \in Nat /\ made[p] \in Nat /\ made'[e] \in Nat
      /\ made'[e] >= made[e]
      /\ net' = q /\ i \in SwitchStates /\ k \in SwitchStates
  BY MoveFacts
<1>2. /\ p \in Ends /\ p # e /\ Peer(p) = e
      /\ \A d \in Ends : d = e \/ d = p
      /\ {Lower, Upper} = {e, p}
  BY MoveFacts
<1>3. /\ Shaped(e) /\ Shaped(p) /\ Shaped(p)'
      /\ Foreign(e) /\ Foreign(p) /\ OldOpens(e) /\ OldOpens(p)
      /\ Halfway(e) /\ Halfway(p) /\ Crossing
  BY MoveFacts
<1>4. \A x \in net : Posted(x) /\ x \in Packets /\ x.to \in Ends
                     /\ x.line \in Nat /\ x.id \in Nat
  BY MoveFacts
<1>5. /\ i.theirs \in Nat /\ i.mine \in Nat /\ i.next \in Nat
      /\ i.link.id \in Nat /\ i.theirs <= made[p]
      /\ k.theirs \in Nat /\ k.mine \in Nat /\ k.link.id \in Nat
      /\ k.theirs <= made[e] /\ (k.mine # 0 => k.mine = made[p])
      /\ i.mine # 0 => i.mine = made[e]
      /\ i.theirs # 0 => i.mine # 0
      /\ k.link.id # 0 => k.mine # 0
  BY <1>1, <1>2, <1>3, FieldFacts DEF Shaped
<1>6. j.link.id = i.next + 2 /\ j.link.in = 0
  BY DEF OutLink
<1> SUFFICES ASSUME Agreed'
             PROVE  /\ k.link.in = 0 /\ ~k.link.never /\ j.phase = Period
  BY <1>1, <1>6, BegunFed
<1>7. /\ k.link.id = i.next + 2 /\ k.theirs = i.mine /\ i.theirs = k.mine
      /\ k.mine # 0 /\ i.theirs # 0 /\ i.mine # 0
  BY <1>1, <1>5, <1>6, AgreedNext
<1>8. DrawnBy(e, k.link.id)
  <2>1. i.next >= FirstId(e) /\ i.next % 2 = FirstId(e) % 2
    BY <1>3, <1>7 DEF Shaped
  <2>2. QED
    BY <2>1, <1>5, <1>7, IdFacts
<1>9. ~(k.link.id <= i.next)
  BY <1>5, <1>7
<1>10. i.phase = Period /\ k.link.age = 0
  BY <1>2, <1>3, <1>7, <1>8, <1>9 DEF Foreign
<1>11. ~k.link.never
  BY <1>2, <1>3, <1>8 DEF Shaped
<1>12. k.link.in = 0
  BY <1>1, <1>2, <1>10, FieldFacts DEF LinkInv, Timely, Young
<1>13. QED
  BY <1>10, <1>11, <1>12

\* It is enough to follow a link that is there: what each end hears of the other,
\* and the rounds of either.
LEMMA KeptFed ==
  ASSUME Fed, NEW e \in Ends, skips' = skips, Agreed' => Agreed,
         Agreed /\ HeardOf(e) /\ HeardOf(Peer(e)) =>
           /\ HeardOf(e)' /\ HeardOf(Peer(e))'
           /\ Rounds(e) => Rounds(e)'
           /\ Rounds(Peer(e)) => Rounds(Peer(e))'
  PROVE  Fed'
<1>1. /\ Peer(e) \in Ends /\ \A d \in Ends : d = e \/ d = Peer(e)
  BY PeerFacts
<1> SUFFICES ASSUME Agreed', skips <= 1
             PROVE  /\ \A d \in Ends : HeardOf(d)'
                    /\ skips = 0 => \A d \in Ends : Rounds(d)'
                    /\ \E d \in Ends : Rounds(d)'
  BY DEF Fed
<1>2. /\ \A d \in Ends : HeardOf(d)
      /\ skips = 0 => \A d \in Ends : Rounds(d)
      /\ \E d \in Ends : Rounds(d)
  BY DEF Fed
<1>3. \A d \in Ends : HeardOf(d)' /\ (Rounds(d) => Rounds(d)')
  BY <1>1, <1>2
<1>4. QED
  BY <1>2, <1>3

\* A packet that is not for the link of e leaves it as it is.
LEMMA StayFed ==
  ASSUME LinkInv, Shake, Fed, NEW e \in Ends, NEW j \in SwitchStates, NEW q,
         Becomes(e, j, q), skips' = skips,
         j.mine = sw[e].mine, j.theirs = sw[e].theirs,
         j.link = sw[e].link, j.phase = sw[e].phase,
         \A x \in net :
           \/ x \in q
           \/ /\ x.to = e
              /\ \/ x.kind \notin {"ping", "link"} \/ sw[e].theirs = 0
                 \/ x.line # sw[e].mine \/ x.id # sw[e].link.id
  PROVE  Fed'
<1> DEFINE p == Peer(e)
           i == sw[e]
           k == sw[p]
<1>1. /\ sw'[e] = j /\ sw'[p] = k /\ made'[p] = made[p]
      /\ made[e] \in Nat /\ made[p] \in Nat /\ made'[e] \in Nat
      /\ made'[e] >= made[e]
      /\ net' = q /\ i \in SwitchStates /\ k \in SwitchStates
  BY MoveFacts
<1>2. /\ p \in Ends /\ p # e /\ Peer(p) = e
      /\ \A d \in Ends : d = e \/ d = p
      /\ {Lower, Upper} = {e, p}
  BY MoveFacts
<1>3. /\ Shaped(e) /\ Shaped(p) /\ Shaped(p)'
      /\ Foreign(e) /\ Foreign(p) /\ OldOpens(e) /\ OldOpens(p)
      /\ Halfway(e) /\ Halfway(p) /\ Crossing
  BY MoveFacts
<1>4. \A x \in net : Posted(x) /\ x \in Packets /\ x.to \in Ends
                     /\ x.line \in Nat /\ x.id \in Nat
  BY MoveFacts
<1>5. /\ i.theirs \in Nat /\ i.mine \in Nat /\ i.next \in Nat
      /\ i.link.id \in Nat /\ i.theirs <= made[p]
      /\ k.theirs \in Nat /\ k.mine \in Nat /\ k.link.id \in Nat
      /\ k.theirs <= made[e] /\ (k.mine # 0 => k.mine = made[p])
      /\ i.mine # 0 => i.mine = made[e]
      /\ i.theirs # 0 => i.mine # 0
      /\ k.link.id # 0 => k.mine # 0
  BY <1>1, <1>2, <1>3, FieldFacts DEF Shaped
<1>6. Agreed' => Agreed
  BY <1>1, <1>3, AgreedIs, AgreedNext DEF Shaped
<1>7. ASSUME Agreed
      PROVE  /\ Coming(e) => Coming(e)'
             /\ Coming(p) => Coming(p)'
  <2>1. i.theirs # 0
    BY <1>5, <1>7, AgreedIs
  <2> HIDE DEF p
  <2>2. QED
    BY <2>1, <1>1, <1>2 DEF Coming
<1>8. ASSUME Agreed, HeardOf(e), HeardOf(p)
      PROVE  /\ HeardOf(e)' /\ HeardOf(p)'
             /\ Rounds(e) => Rounds(e)'
             /\ Rounds(p) => Rounds(p)'
  <2> HIDE DEF i, k, p
  <2>1. HeardOf(e)' /\ HeardOf(p)'
    BY <1>1, <1>2, <1>7, <1>8 DEF HeardOf, i, k, p
  <2>2. Rounds(e) => Rounds(e)'
    BY <1>1, <1>2, <1>7, <1>8 DEF Rounds, i, k, p
  <2>3. Rounds(p) => Rounds(p)'
    BY <1>1, <1>2, <1>7, <1>8 DEF Rounds, i, k, p
  <2>4. QED
    BY <2>1, <2>2, <2>3
<1>9. QED
  BY <1>6, <1>8, KeptFed

\* A packet on the link is heard, and answered unless it was forestalled.
LEMMA PongFed ==
  ASSUME LinkInv, Shake, Fed, NEW e \in Ends, NEW j \in SwitchStates, NEW q,
         Becomes(e, j, q), skips' = skips, NEW m \in net, m.to = e,
         j.mine = sw[e].mine, j.theirs = sw[e].theirs, j.phase = sw[e].phase,
         j.link.id = sw[e].link.id, ~j.link.never, j.link.in = 0,
         sw[e].link.out <= Recent => j.link.out = sw[e].link.out,
         sw[e].link.out > Recent =>
           \E x \in q : /\ x.kind = "ping" /\ x.to = Peer(e)
                        /\ x.line = sw[e].theirs /\ x.id = sw[e].link.id,
         \A x \in net : x \in q \/ x = m
  PROVE  Fed'
<1> DEFINE p == Peer(e)
           i == sw[e]
           k == sw[p]
<1>1. /\ sw'[e] = j /\ sw'[p] = k /\ made'[p] = made[p]
      /\ made[e] \in Nat /\ made[p] \in Nat /\ made'[e] \in Nat
      /\ made'[e] >= made[e]
      /\ net' = q /\ i \in SwitchStates /\ k \in SwitchStates
  BY MoveFacts
<1>2. /\ p \in Ends /\ p # e /\ Peer(p) = e
      /\ \A d \in Ends : d = e \/ d = p
      /\ {Lower, Upper} = {e, p}
  BY MoveFacts
<1>3. /\ Shaped(e) /\ Shaped(p) /\ Shaped(p)'
      /\ Foreign(e) /\ Foreign(p) /\ OldOpens(e) /\ OldOpens(p)
      /\ Halfway(e) /\ Halfway(p) /\ Crossing
  BY MoveFacts
<1>4. \A x \in net : Posted(x) /\ x \in Packets /\ x.to \in Ends
                     /\ x.line \in Nat /\ x.id \in Nat
  BY MoveFacts
<1>5. /\ i.theirs \in Nat /\ i.mine \in Nat /\ i.next \in Nat
      /\ i.link.id \in Nat /\ i.theirs <= made[p]
      /\ k.theirs \in Nat /\ k.mine \in Nat /\ k.link.id \in Nat
      /\ k.theirs <= made[e] /\ (k.mine # 0 => k.mine = made[p])
      /\ i.mine # 0 => i.mine = made[e]
      /\ i.theirs # 0 => i.mine # 0
      /\ k.link.id # 0 => k.mine # 0
  BY <1>1, <1>2, <1>3, FieldFacts DEF Shaped
<1>6. Agreed' => Agreed
  BY <1>1, <1>3, AgreedIs, AgreedNext DEF Shaped
<1>7. /\ i.phase \in 0..5 /\ k.phase \in 0..5 /\ j.link.out \in Nat
      /\ i.link.out \in Nat /\ k.link.in \in Nat /\ k.link.out \in Nat
  BY <1>1, FieldFacts
<1>8. Coming(p) => Coming(p)'
  BY <1>1, <1>2 DEF Coming
<1>9. ASSUME Agreed, i.link.out > Recent PROVE Coming(p)'
  <2>1. k.mine = i.theirs /\ k.link.id = i.link.id
    BY <1>9, AgreedIs
  <2>2. QED
    BY <2>1, <1>1, <1>9 DEF Coming
<1>10. ASSUME Agreed, HeardOf(e), HeardOf(p)
       PROVE  /\ HeardOf(e)' /\ HeardOf(p)'
              /\ Rounds(e) => Rounds(e)'
              /\ Rounds(p) => Rounds(p)'
  <2> HIDE DEF i, k, p
  <2>1. Coming(p)' \/ (i.link.out <= 2 /\ j.link.out = i.link.out /\ k.link.in <= i.link.out)
    BY <1>2, <1>7, <1>8, <1>9, <1>10 DEF HeardOf, Recent, i, k, p
  <2>2. HeardOf(e)'
    BY <1>1, <1>2, <1>7 DEF HeardOf, k, p
  <2>3. HeardOf(p)'
    BY <1>1, <1>2, <2>1 DEF HeardOf, p
  <2>4. Rounds(e) => Rounds(e)'
    BY <1>1, <1>2, <1>7, <1>8 DEF Rounds, i, k, p
  <2>5. Rounds(p) => Rounds(p)'
    <3> SUFFICES ASSUME Rounds(p) PROVE Rounds(p)'
      OBVIOUS
    <3>1. j.link.in <= 5 - k.phase
      BY <1>7
    <3>2. /\ k.link.in <= 7
          /\ k.link.never =>
               /\ k.link.in <= 5
               /\ Coming(p) \/ k.link.in + k.phase = 5 \/ k.link.in = 5
      BY <1>2, <1>7 DEF Rounds, i, k, p
    <3>3. k.link.in <= 7 - k.phase \/ Coming(p)'
      BY <1>7, <2>1
    <3>4. k.link.never => Coming(p)' \/ k.link.in + k.phase = 5
      BY <1>7, <1>8, <2>1, <3>2
    <3>5. QED
      BY <1>1, <1>2, <3>1, <3>2, <3>3, <3>4 DEF Rounds, p
  <2>6. QED
    BY <2>2, <2>3, <2>4, <2>5
<1>11. QED
  BY <1>6, <1>10, KeptFed

\* A round pings the link.
LEMMA PingFed ==
  ASSUME LinkInv, Shake, Fed, NEW e \in Ends, NEW j \in SwitchStates, NEW q,
         Becomes(e, j, q), skips' = skips, sw[e].phase = 0,
         j.mine = sw[e].mine, j.theirs = sw[e].theirs, j.phase = Period,
         j.link.id = sw[e].link.id, j.link.never = sw[e].link.never,
         j.link.in = sw[e].link.in,
         \E x \in q : /\ x.kind = "ping" /\ x.to = Peer(e)
                      /\ x.line = sw[e].theirs /\ x.id = sw[e].link.id,
         net \subseteq q
  PROVE  Fed'
<1> DEFINE p == Peer(e)
           i == sw[e]
           k == sw[p]
<1>1. /\ sw'[e] = j /\ sw'[p] = k /\ made'[p] = made[p]
      /\ made[e] \in Nat /\ made[p] \in Nat /\ made'[e] \in Nat
      /\ made'[e] >= made[e]
      /\ net' = q /\ i \in SwitchStates /\ k \in SwitchStates
  BY MoveFacts
<1>2. /\ p \in Ends /\ p # e /\ Peer(p) = e
      /\ \A d \in Ends : d = e \/ d = p
      /\ {Lower, Upper} = {e, p}
  BY MoveFacts
<1>3. /\ Shaped(e) /\ Shaped(p) /\ Shaped(p)'
      /\ Foreign(e) /\ Foreign(p) /\ OldOpens(e) /\ OldOpens(p)
      /\ Halfway(e) /\ Halfway(p) /\ Crossing
  BY MoveFacts
<1>4. \A x \in net : Posted(x) /\ x \in Packets /\ x.to \in Ends
                     /\ x.line \in Nat /\ x.id \in Nat
  BY MoveFacts
<1>5. /\ i.theirs \in Nat /\ i.mine \in Nat /\ i.next \in Nat
      /\ i.link.id \in Nat /\ i.theirs <= made[p]
      /\ k.theirs \in Nat /\ k.mine \in Nat /\ k.link.id \in Nat
      /\ k.theirs <= made[e] /\ (k.mine # 0 => k.mine = made[p])
      /\ i.mine # 0 => i.mine = made[e]
      /\ i.theirs # 0 => i.mine # 0
      /\ k.link.id # 0 => k.mine # 0
  BY <1>1, <1>2, <1>3, FieldFacts DEF Shaped
<1>6. Agreed' => Agreed
  BY <1>1, <1>3, AgreedIs, AgreedNext DEF Shaped
<1>7. /\ i.link.in \in Nat /\ k.link.in \in Nat /\ k.phase \in 0..5
  BY <1>1, FieldFacts
<1>8. (Coming(p) => Coming(p)') /\ (Coming(e) => Coming(e)')
  BY <1>1, <1>2 DEF Coming
<1>9. ASSUME Agreed PROVE Coming(p)'
  <2>1. k.mine = i.theirs /\ k.link.id = i.link.id
    BY <1>9, AgreedIs
  <2>2. QED
    BY <2>1, <1>1 DEF Coming
<1>10. ASSUME Agreed, HeardOf(e), HeardOf(p)
       PROVE  /\ HeardOf(e)' /\ HeardOf(p)'
              /\ Rounds(e) => Rounds(e)'
              /\ Rounds(p) => Rounds(p)'
  <2> HIDE DEF i, k, p
  <2>1. HeardOf(e)'
    BY <1>1, <1>2, <1>8, <1>10 DEF HeardOf, i, k, p
  <2>2. HeardOf(p)'
    BY <1>9, <1>10 DEF HeardOf
  <2>3. Rounds(e) => Rounds(e)'
    <3> SUFFICES ASSUME Rounds(e) PROVE Rounds(e)'
      OBVIOUS
    <3>1. /\ k.link.in <= 5 /\ i.link.in <= 7
          /\ i.link.never => i.link.in <= 5 /\ (Coming(e) \/ i.link.in = 5)
      BY <1>2, <1>7 DEF Rounds, i, k, p
    <3>2. QED
      BY <1>1, <1>2, <1>8, <1>9, <1>10, <3>1 DEF Rounds, Period, i, p
  <2>4. Rounds(p) => Rounds(p)'
    BY <1>1, <1>2, <1>7, <1>8 DEF Rounds, i, k, p
  <2>5. QED
    BY <2>1, <2>2, <2>3, <2>4
<1>11. QED
  BY <1>6, <1>10, KeptFed

\* A round that is missed: the other end's rounds feed the link alone.
LEMMA SkipFed ==
  ASSUME LinkInv, Shake, Fed, NEW e \in Ends, NEW j \in SwitchStates,
         Becomes(e, j, net), skips' = skips + 1, skips \in Nat,
         j.mine = sw[e].mine, j.theirs = sw[e].theirs, j.link = sw[e].link
  PROVE  Fed'
<1> DEFINE q == net
<1> DEFINE p == Peer(e)
           i == sw[e]
           k == sw[p]
<1>1. /\ sw'[e] = j /\ sw'[p] = k /\ made'[p] = made[p]
      /\ made[e] \in Nat /\ made[p] \in Nat /\ made'[e] \in Nat
      /\ made'[e] >= made[e]
      /\ net' = q /\ i \in SwitchStates /\ k \in SwitchStates
  BY MoveFacts
<1>2. /\ p \in Ends /\ p # e /\ Peer(p) = e
      /\ \A d \in Ends : d = e \/ d = p
      /\ {Lower, Upper} = {e, p}
  BY MoveFacts
<1>3. /\ Shaped(e) /\ Shaped(p) /\ Shaped(p)'
      /\ Foreign(e) /\ Foreign(p) /\ OldOpens(e) /\ OldOpens(p)
      /\ Halfway(e) /\ Halfway(p) /\ Crossing
  BY MoveFacts
<1>4. \A x \in net : Posted(x) /\ x \in Packets /\ x.to \in Ends
                     /\ x.line \in Nat /\ x.id \in Nat
  BY MoveFacts
<1>5. /\ i.theirs \in Nat /\ i.mine \in Nat /\ i.next \in Nat
      /\ i.link.id \in Nat /\ i.theirs <= made[p]
      /\ k.theirs \in Nat /\ k.mine \in Nat /\ k.link.id \in Nat
      /\ k.theirs <= made[e] /\ (k.mine # 0 => k.mine = made[p])
      /\ i.mine # 0 => i.mine = made[e]
      /\ i.theirs # 0 => i.mine # 0
      /\ k.link.id # 0 => k.mine # 0
  BY <1>1, <1>2, <1>3, FieldFacts DEF Shaped
<1>6. Agreed' => Agreed
  BY <1>1, <1>3, AgreedIs, AgreedNext DEF Shaped
<1>7. /\ Coming(p) <=> Coming(p)'
      /\ Coming(e) <=> Coming(e)'
  BY <1>1, <1>2 DEF Coming
<1> SUFFICES ASSUME Agreed', skips = 0
             PROVE  /\ HeardOf(e)' /\ HeardOf(p)' /\ Rounds(p)'
  BY <1>2 DEF Fed
<1>8. HeardOf(e) /\ HeardOf(p) /\ Rounds(p)
  BY <1>2, <1>6 DEF Fed
<1> HIDE DEF i, k, p, q
<1>9. HeardOf(e)' /\ HeardOf(p)'
  BY <1>1, <1>2, <1>7, <1>8 DEF HeardOf, i, k, p
<1>10. Rounds(p)'
  BY <1>1, <1>2, <1>7, <1>8 DEF Rounds, i, k, p
<1>11. QED
  BY <1>9, <1>10

\* Time goes when nothing is on its way, and a round comes in time.
LEMMA TickFed ==
  ASSUME LinkInv, Shake, Fed, Tick
  PROVE  Fed'
<1>1. /\ net = {} /\ net' = {} /\ skips' = skips
      /\ \A d \in Ends : ~Coming(d) /\ ~Coming(d)'
  BY DEF Tick, Coming
<1>2. Longest \in Nat /\ Longest > 8
  BY BoundsAreNat DEF Longest, Idle, Period
<1>3. ASSUME NEW d \in Ends
      PROVE  /\ sw[d].alive /\ sw[d].phase \in 1..5
             /\ sw[d].link.in \in Nat /\ sw[d].link.out \in 0..3
             /\ sw'[d].phase = sw[d].phase - 1
             /\ sw'[d].alive = sw[d].alive
             /\ sw'[d].mine = sw[d].mine /\ sw'[d].theirs = sw[d].theirs
             /\ sw'[d].link.id = sw[d].link.id
             /\ sw'[d].link.never = sw[d].link.never
             /\ sw[d].link.id # 0 =>
                  /\ sw'[d].link.in = IF sw[d].link.in = Longest THEN sw[d].link.in
                                      ELSE sw[d].link.in + 1
                  /\ sw'[d].link.out = IF sw[d].link.out > 2 THEN sw[d].link.out
                                       ELSE sw[d].link.out + 1
  <2> DEFINE i == sw[d]
             l == Older(i.link)
             j == [i EXCEPT !.link = l, !.phase = i.phase - 1]
  <2>1. Shaped(d) /\ i \in SwitchStates /\ i.alive
    BY DEF Shake, LinkInv, TypeOK, Shaped
  <2>2. sw'[d] = j /\ i.phase > 0
    BY <2>1 DEF Tick
  <2>3. i.link \in LinkStates /\ i.link.in \in Nat /\ i.phase \in 0..5
    BY <2>1, FieldFacts
  <2>4. /\ j.link = l /\ j.mine = i.mine /\ j.theirs = i.theirs
        /\ j.alive = i.alive /\ j.phase = i.phase - 1
    BY <2>1 DEF SwitchStates
  <2>5. /\ l.id = i.link.id /\ l.never = i.link.never
        /\ l.id # 0 =>
             /\ l.in = IF i.link.in = Longest THEN i.link.in ELSE i.link.in + 1
             /\ l.out = IF i.link.out > 2 THEN i.link.out ELSE i.link.out + 1
    BY <2>3 DEF Older, LinkStates, Recent
  <2> HIDE DEF l, j
  <2>6. QED
    BY <2>1, <2>2, <2>3, <2>4, <2>5, FieldFacts
<1>4. Lower \in Ends /\ Peer(Lower) \in Ends
  BY PeerFacts DEF Ends
<1>5. Agreed' => Agreed
  BY <1>3, <1>4, AgreedIs, AgreedNext
<1>6. ASSUME Agreed, NEW d \in Ends
      PROVE  /\ HeardOf(d) => HeardOf(d)'
             /\ Rounds(d) => Rounds(d)'
  <2> DEFINE p == Peer(d)
             l == sw[d].link
             k == sw[p].link
             t == sw[d].phase
  <2>1. p \in Ends /\ l.id # 0 /\ k.id # 0
    BY <1>6, PeerFacts, AgreedIs
  <2>2. /\ l.in \in Nat /\ k.in \in Nat /\ k.out \in 0..3 /\ t \in 1..5
        /\ t' = t - 1 /\ l'.never = l.never
        /\ l'.in = IF l.in = Longest THEN l.in ELSE l.in + 1
        /\ k'.in = IF k.in = Longest THEN k.in ELSE k.in + 1
        /\ k'.out = IF k.out > 2 THEN k.out ELSE k.out + 1
    BY <2>1, <1>3
  <2>3. ~Coming(d) /\ ~Coming(p) /\ ~Coming(d)' /\ ~Coming(p)'
    BY <2>1, <1>1
  <2>4. HeardOf(d) => HeardOf(d)'
    <3>1. HeardOf(d) => k.out > 2 \/ l.in <= k.out
      BY <2>3 DEF HeardOf, Recent
    <3>2. k.out > 2 \/ l.in <= k.out => k'.out > 2 \/ l'.in <= k'.out
      <4> HIDE DEF l, k
      <4>1. QED
        BY <2>2, <1>2
    <3>3. k'.out > 2 \/ l'.in <= k'.out => HeardOf(d)'
      BY DEF HeardOf, Recent
    <3>4. QED
      BY <3>1, <3>2, <3>3
  <2>5. Rounds(d) => Rounds(d)'
    <3>1. Rounds(d) => /\ k.in <= 5 - t /\ l.in <= 7 - t
                       /\ l.never => l.in <= 5 /\ l.in + t = 5
      BY <2>3 DEF Rounds
    <3>2. /\ k.in <= 5 - t /\ l.in <= 7 - t
          /\ l.never => l.in <= 5 /\ l.in + t = 5
          => /\ k'.in <= 5 - t' /\ l'.in <= 7 - t'
             /\ l'.never => l'.in <= 5 /\ l'.in + t' = 5
      <4> HIDE DEF l, k, t
      <4>1. QED
        BY <2>2, <1>2
    <3>3. /\ k'.in <= 5 - t' /\ l'.in <= 7 - t'
          /\ l'.never => l'.in <= 5 /\ l'.in + t' = 5
          => Rounds(d)'
      BY DEF Rounds
    <3>4. QED
      BY <3>1, <3>2, <3>3
  <2>6. QED
    BY <2>4, <2>5
<1>7. QED
  BY <1>1, <1>5, <1>6 DEF Fed

------------------------------------------------------------------------------
(* Each action is one of these steps.                                      *)

\* What an end becomes is a switch's state.
LEMMA BecomesIn ==
  ASSUME LinkInv, LinkInv', NEW e \in Ends, NEW j, NEW q, Becomes(e, j, q)
  PROVE  j \in SwitchStates
<1>1. sw \in [Ends -> SwitchStates] /\ sw' \in [Ends -> SwitchStates]
  BY DEF LinkInv, TypeOK
<1>2. QED
  BY <1>1 DEF Becomes

\* linkToIdentity, and what it sends.
LEMMA LinkToIs ==
  ASSUME NEW e \in Ends, NEW i \in SwitchStates
  PROVE  LET j == LinkTo(i)
         IN /\ j.alive = i.alive /\ j.mine = i.mine /\ j.theirs = i.theirs
            /\ j.phase = i.phase /\ j.late = i.late /\ j.job = i.job
            /\ HasLink(i) =>
                 /\ j.next = i.next /\ j.link.id = i.link.id
                 /\ j.link.in = i.link.in /\ j.link.age = i.link.age
                 /\ j.link.never = i.link.never
                 /\ LinkSends(e, i) = OnLine(e, i, "ping", i.link.id)
            /\ ~HasLink(i) =>
                 /\ j.next = i.next + 2 /\ j.link = OutLink(i.next + 2)
                 /\ LinkSends(e, i) = OnLine(e, i, "link", i.next + 2)
<1>1. CASE HasLink(i)
  <2>1. LinkTo(i) = [i EXCEPT !.met = TRUE, !.link = [i.link EXCEPT !.out = 0]]
    BY <1>1 DEF LinkTo, SwitchStates
  <2>2. i.link \in LinkStates
    BY FieldFacts
  <2> DEFINE l == [i.link EXCEPT !.out = 0]
  <2>3. /\ l.id = i.link.id /\ l.in = i.link.in /\ l.age = i.link.age
        /\ l.never = i.link.never
    BY <2>2 DEF LinkStates
  <2> HIDE DEF l
  <2>4. QED
    BY <1>1, <2>1, <2>3 DEF SwitchStates, LinkSends, l
<1>2. CASE ~HasLink(i)
  BY <1>2 DEF LinkTo, LinkSends, SwitchStates
<1>3. QED
  BY <1>1, <1>2

\* A line job's two seconds are over.
LEMMA JobTimerKept ==
  ASSUME LinkInv, LinkInv', Shake, Fed, NEW e \in Ends, JobTimer(e)
  PROVE  Shake' /\ Fed'
<1> DEFINE i == sw[e]
           j == IF i.mine # 0 THEN [i EXCEPT !.due = FALSE]
                ELSE [i EXCEPT !.due = FALSE, !.job = FALSE, !.wait = FALSE]
<1>1. Becomes(e, j, net) /\ skips' = skips
  BY DEF JobTimer, Counts
<1>2. i \in SwitchStates /\ i.alive
  BY DEF LinkInv, TypeOK, Shake, Shaped
<1>3. /\ j.alive = i.alive /\ j.mine = i.mine /\ j.theirs = i.theirs
      /\ j.next = i.next /\ j.link = i.link /\ j.phase = i.phase
      /\ j.late = i.late /\ (i.mine # 0 => j.job = i.job)
  BY <1>2 DEF SwitchStates
<1>4. Unkeyed(i) => i.job
  BY DEF Shake, Shaped
<1> HIDE DEF j
<1>5. j \in SwitchStates
  BY <1>1, BecomesIn
<1>6. Shake'
  BY <1>1, <1>2, <1>3, <1>4, <1>5, StayShake DEF Unkeyed
<1>7. Fed'
  BY <1>1, <1>3, <1>5, StayFed
<1>8. QED
  BY <1>6, <1>7

\* The switch is told of its peer.
LEMMA LearnOfKept ==
  ASSUME LinkInv, LinkInv', Shake, Fed, NEW e \in Ends, LearnOf(e)
  PROVE  Shake' /\ Fed'
<1> DEFINE i == sw[e]
           j == [i EXCEPT !.mine = Fresh(e), !.due = ~i.job, !.job = TRUE]
<1>1. Becomes(e, j, net \union {Open(e, made[e] + 1)}) /\ i.mine = 0 /\ i.alive
  BY DEF LearnOf, Fresh
<1>2. i \in SwitchStates /\ Shaped(e)
  BY DEF LinkInv, TypeOK, Shake
<1>3. /\ j.alive = i.alive /\ j.mine = made[e] + 1 /\ j.theirs = i.theirs
      /\ j.next = i.next /\ j.link = i.link /\ j.phase = i.phase
      /\ j.late = i.late /\ j.job
  BY <1>2 DEF SwitchStates, Fresh
<1>4. i.link.id = 0
  BY <1>1, <1>2 DEF Shaped
<1> HIDE DEF j
<1>5. j \in SwitchStates
  BY <1>1, BecomesIn
<1>6. Shake'
  BY <1>1, <1>3, <1>5, LearnOfShake
<1>7. Fed'
  BY <1>1, <1>3, <1>4, <1>5, NoneFed
<1>8. QED
  BY <1>6, <1>7

\* The two seconds after an open that was answered are over.
LEMMA LateLinkKept ==
  ASSUME LinkInv, LinkInv', Shake, Fed, NEW e \in Ends, LateLink(e)
  PROVE  Shake' /\ Fed'
<1> DEFINE s == sw[e]
           i == [s EXCEPT !.late = FALSE]
           w == [i EXCEPT !.met = TRUE, !.wait = TRUE, !.job = TRUE, !.due = TRUE]
<1>1. /\ s \in SwitchStates /\ s.alive /\ s.late /\ skips' = skips
      /\ Unkeyed(s) => s.job
  BY DEF LinkInv, TypeOK, Shake, Shaped, LateLink, Counts
<1>2. /\ i \in SwitchStates /\ ~i.late /\ i.alive = s.alive
      /\ i.mine = s.mine /\ i.theirs = s.theirs /\ i.next = s.next
      /\ i.link = s.link /\ i.phase = s.phase /\ i.job = s.job
  BY <1>1 DEF SwitchStates
<1>3. /\ ~w.late /\ w.alive = i.alive /\ w.job
      /\ w.mine = i.mine /\ w.theirs = i.theirs /\ w.next = i.next
      /\ w.link = i.link /\ w.phase = i.phase
  BY <1>2 DEF SwitchStates
<1>4. \/ Becomes(e, i, net) \/ Becomes(e, w, net)
      \/ /\ Becomes(e, LinkTo(i), net \union LinkSends(e, i))
         /\ ~HasLink(i) /\ i.mine # 0
  BY DEF LateLink
<1> HIDE DEF i, w
<1>5. CASE Becomes(e, i, net)
  <2>1. i \in SwitchStates
    BY <1>5, BecomesIn
  <2>2. Shake'
    BY <1>1, <1>2, <1>5, <2>1, StayShake DEF s
  <2>3. Fed'
    BY <1>1, <1>2, <1>5, <2>1, StayFed DEF s
  <2>4. QED
    BY <2>2, <2>3
<1>6. CASE Becomes(e, w, net)
  <2>1. w \in SwitchStates
    BY <1>6, BecomesIn
  <2>2. Shake'
    BY <1>1, <1>2, <1>3, <1>6, <2>1, StayShake DEF s
  <2>3. Fed'
    BY <1>1, <1>2, <1>3, <1>6, <2>1, StayFed DEF s
  <2>4. QED
    BY <2>2, <2>3
<1>7. CASE /\ Becomes(e, LinkTo(i), net \union LinkSends(e, i))
           /\ ~HasLink(i) /\ i.mine # 0
  <2> DEFINE j == LinkTo(i)
             q == net \union LinkSends(e, i)
  <2>1. /\ j.alive = i.alive /\ j.mine = i.mine /\ j.theirs = i.theirs
        /\ j.phase = i.phase /\ j.late = i.late /\ j.job = i.job
        /\ j.next = i.next + 2 /\ j.link = OutLink(i.next + 2)
        /\ LinkSends(e, i) = OnLine(e, i, "link", i.next + 2)
    BY <1>2, <1>7, LinkToIs
  <2>2. j \in SwitchStates /\ s.link.id = 0
    BY <1>2, <1>7, BecomesIn DEF HasLink
  <2>3. Becomes(e, j, q)
    BY <1>7
  <2>4. /\ net \subseteq q
        /\ \A x \in q :
             \/ x \in net
             \/ /\ x.kind = "link" /\ x.to = Peer(e) /\ x.line = s.theirs
                /\ x.line # 0 /\ x.id = s.next + 2
    BY <1>2, <2>1 DEF OnLine
  <2> HIDE DEF j, q
  <2>5. /\ j.alive /\ j.mine = s.mine /\ j.theirs = s.theirs /\ j.phase = s.phase
        /\ ~j.late /\ j.job = s.job /\ j.next = s.next + 2
        /\ j.link = OutLink(s.next + 2) /\ s.mine # 0
    BY <1>1, <1>2, <1>7, <2>1
  <2>6. Shake'
    BY <1>1, <2>2, <2>3, <2>4, <2>5, LateShake
  <2>7. Fed'
    BY <1>1, <2>2, <2>3, <2>5, LateFed
  <2>8. QED
    BY <2>6, <2>7
<1>8. QED
  BY <1>4, <1>5, <1>6, <1>7

\* A round that misses the peer.
LEMMA SkipKept ==
  ASSUME LinkInv, LinkInv', Shake, Fed, NEW e \in Ends, Skip(e)
  PROVE  Shake' /\ Fed'
<1> DEFINE i == sw[e]
           j == [i EXCEPT !.phase = Period]
<1>1. /\ i \in SwitchStates /\ i.alive /\ made \in [Ends -> Nat]
      /\ i.mine # 0 => i.mine = made[e]
      /\ skips \in Nat /\ skips' = skips + 1
  BY BoundsAreNat DEF LinkInv, TypeOK, Shake, Shaped, Skip
<1>2. /\ j.alive = i.alive /\ j.mine = i.mine /\ j.theirs = i.theirs
      /\ j.next = i.next /\ j.link = i.link /\ j.phase = Period
      /\ j.late = i.late /\ j.job = i.job
  BY <1>1 DEF SwitchStates
<1>3. sw' = [sw EXCEPT ![e] = j] /\ made' = made /\ net' = net
  BY DEF Skip
<1>4. ~(j.mine > made[e])
  <2>1. j.mine \in Nat /\ made[e] \in Nat /\ (j.mine = 0 \/ j.mine = made[e])
    BY <1>1, <1>2 DEF SwitchStates
  <2> HIDE DEF j
  <2>2. QED
    BY <2>1
<1> HIDE DEF j
<1>5. Becomes(e, j, net)
  BY <1>1, <1>3, <1>4 DEF Becomes
<1>6. j \in SwitchStates
  BY <1>5, BecomesIn
<1>7. Shake'
  BY <1>1, <1>2, <1>5, <1>6, RefreshShake
<1>8. Fed'
  BY <1>1, <1>2, <1>5, <1>6, SkipFed
<1>9. QED
  BY <1>7, <1>8

\* A round of pings.
LEMMA PingKept ==
  ASSUME LinkInv, LinkInv', Shake, Fed, NEW e \in Ends, Ping(e)
  PROVE  Shake' /\ Fed'
<1> DEFINE i == sw[e]
           j == [Pinged(i) EXCEPT !.phase = Period]
           q == net \union PingSends(e, i)
           r == ResetId(i)
           o == [i EXCEPT !.link = [i.link EXCEPT !.out = 0]]
<1>1. /\ Becomes(e, j, q) /\ skips' = skips /\ i.phase = 0 /\ i.alive
      /\ i \in SwitchStates /\ Shaped(e) /\ Timely(i, skips)
  BY DEF Ping, Counts, LinkInv, TypeOK, Shake
<1>2. j \in SwitchStates
  BY <1>1, BecomesIn
<1>3. i.link \in LinkStates /\ i.theirs \in Nat /\ i.mine \in Nat
  BY <1>1, FieldFacts
<1>4. CASE ~i.met
  <2>1. j = [i EXCEPT !.phase = Period] /\ q = net
    BY <1>4 DEF Pinged, PingSends
  <2>2. /\ j.alive = i.alive /\ j.mine = i.mine /\ j.theirs = i.theirs
        /\ j.next = i.next /\ j.link = i.link /\ j.phase = Period
        /\ j.late = i.late /\ j.job = i.job
    BY <1>1, <2>1 DEF SwitchStates
  <2>3. i.link.id = 0
    BY <1>1, <1>4 DEF Timely
  <2> HIDE DEF j, q
  <2>4. Shake'
    BY <1>1, <1>2, <2>1, <2>2, RefreshShake
  <2>5. Fed'
    BY <1>1, <1>2, <2>2, <2>3, NoneFed
  <2>6. QED
    BY <2>4, <2>5
<1>5. CASE i.met /\ (~HasLink(i) \/ IsIdle(i.link))
  <2>1. /\ q = net
        /\ \/ j = [r EXCEPT !.phase = Period]
           \/ j = [[r EXCEPT !.met = FALSE] EXCEPT !.phase = Period]
    BY <1>5 DEF Pinged, PingSends
  <2>2. /\ r.alive = i.alive /\ r.mine = 0 /\ r.theirs = 0 /\ r.next = 0
        /\ r.link = NoLink /\ r.late = i.late /\ r.phase = i.phase
        /\ r \in SwitchStates
    BY ZenonT(40), <1>1, StartedTimely DEF ResetId, SwitchStates
  <2> HIDE DEF j, q, r
  <2>3. /\ j.alive = r.alive /\ j.mine = r.mine /\ j.theirs = r.theirs
        /\ j.next = r.next /\ j.link = r.link /\ j.late = r.late
        /\ j.phase = Period
    <3>1. CASE j = [r EXCEPT !.phase = Period]
      BY <2>2, <3>1 DEF SwitchStates
    <3>2. CASE j = [[r EXCEPT !.met = FALSE] EXCEPT !.phase = Period]
      BY <2>2, <3>2 DEF SwitchStates
    <3>3. QED
      BY <2>1, <3>1, <3>2
  <2>4. Shake'
    BY <1>1, <1>2, <2>1, <2>2, <2>3, ResetShake
  <2>5. j.link.id = 0
    BY <2>2, <2>3 DEF NoLink
  <2>6. Fed'
    BY <1>1, <1>2, <2>5, NoneFed
  <2>7. QED
    BY <2>4, <2>6
<1>6. CASE i.met /\ HasLink(i) /\ ~IsIdle(i.link) /\ i.theirs # 0
  <2>1. /\ j = [o EXCEPT !.phase = Period]
        /\ q = net \union OnLine(e, i, "ping", i.link.id)
    <3>1. Pinged(i) = [i EXCEPT !.link.out = 0]
      BY <1>6 DEF Pinged
    <3>2. [i EXCEPT !.link.out = 0] = o
      BY <1>1 DEF SwitchStates
    <3>3. QED
      BY <1>6, <3>1, <3>2 DEF PingSends
  <2>2. /\ j.link.id = i.link.id /\ j.link.in = i.link.in
        /\ j.link.age = i.link.age /\ j.link.never = i.link.never
        /\ j.alive = i.alive /\ j.mine = i.mine /\ j.theirs = i.theirs
        /\ j.next = i.next /\ j.phase = Period
        /\ j.late = i.late /\ j.job = i.job
    <3> DEFINE l == [i.link EXCEPT !.out = 0]
    <3>1. l.id = i.link.id /\ l.in = i.link.in /\ l.age = i.link.age
          /\ l.never = i.link.never
      BY <1>3 DEF LinkStates
    <3> HIDE DEF l
    <3>2. QED
      BY <1>1, <2>1, <3>1 DEF SwitchStates, l
  <2> DEFINE x == [kind |-> "ping", to |-> Peer(e), line |-> i.theirs,
                   id |-> i.link.id]
  <2>3. q = net \union {x}
    BY <1>6, <2>1 DEF OnLine
  <2>4. /\ x.kind = "ping" /\ x.to = Peer(e) /\ x.line = i.theirs
        /\ x.id = i.link.id /\ x.line # 0
    BY <1>6
  <2> HIDE DEF j, q, o, x
  <2>5. /\ \A y \in net : y \in q
        /\ \A y \in q :
             \/ y \in net
             \/ /\ y.kind = "ping" /\ y.to = Peer(e) /\ y.line = i.theirs
                /\ y.line # 0
    BY <2>3, <2>4
  <2> HIDE DEF i
  <2>6. Shake'
    <3>1. /\ j.alive /\ j.phase \in {i.phase, Period}
          /\ j.link.never => i.link.never /\ j.link.in = i.link.in
      BY <1>1, <2>2
    <3>2. QED
      BY <1>1, <1>2, <2>2, <2>5, <3>1, RefreshShake DEF i
  <2>7. Fed'
    BY <1>1, <1>2, <2>2, <2>3, <2>4, PingFed DEF i
  <2>8. QED
    BY <2>6, <2>7
<1>7. CASE i.met /\ HasLink(i) /\ ~IsIdle(i.link) /\ i.theirs = 0
  <2>1. j = [i EXCEPT !.phase = Period] /\ q = net \union {Open(e, i.mine)}
    BY <1>7 DEF Pinged, PingSends
  <2>2. /\ j.alive = i.alive /\ j.mine = i.mine /\ j.theirs = i.theirs
        /\ j.next = i.next /\ j.link = i.link /\ j.phase = Period
        /\ j.late = i.late /\ j.job = i.job /\ i.link.id # 0
    BY <1>1, <1>7, <2>1 DEF SwitchStates, HasLink
  <2> HIDE DEF j, q
  <2>3. /\ \A y \in net : y \in q
        /\ \A y \in q :
             \/ y \in net
             \/ /\ y = Open(e, i.mine) /\ i.link.id # 0
                /\ i.theirs = 0 /\ i.phase = 0 /\ j.phase = Period
    BY <1>1, <1>7, <2>1, <2>2
  <2>4. Shake'
    BY ZenonT(40), <1>1, <1>2, <2>2, <2>3, RefreshShake
  <2>5. Fed'
    BY <1>1, <1>2, <1>7, <2>2, NoneFed
  <2>6. QED
    BY <2>4, <2>5
<1>8. QED
  BY <1>4, <1>5, <1>6, <1>7

\* A packet on the line.
LEMMA HandleOnLineKept ==
  ASSUME LinkInv, LinkInv', Shake, Fed, NEW m \in net, m.kind # "open",
         HandleOnLine(m.to, m, net \ {m}), skips' = skips
  PROVE  Shake' /\ Fed'
<1> DEFINE e == m.to
           i == sw[e]
           q == net \ {m}
           gone == [i EXCEPT !.link = NoLink]
           refused == IF m.kind = "ping" THEN OnLine(e, i, "err", m.id) ELSE {}
           n == m.id
<1>1. /\ e \in Ends /\ n \in Nat /\ m.line \in Nat
      /\ i \in SwitchStates /\ i.alive
      /\ m.kind = "link" => n # 0
      /\ Unkeyed(i) => i.job
  <2>1. m \in Packets
    BY DEF LinkInv, TypeOK
  <2>2. e \in Ends /\ n \in Nat /\ m.line \in Nat
    BY <2>1 DEF Packets
  <2>3. Posted(m) /\ Shaped(e)
    BY <2>2 DEF Shake
  <2>4. m.kind = "link" => n # 0
    BY <2>2, <2>3, PeerFacts, IdFacts DEF Posted
  <2>5. QED
    BY <2>2, <2>3, <2>4 DEF LinkInv, TypeOK, Shaped
<1>2. \/ Becomes(e, i, q) /\ (i.theirs = 0 \/ m.line # i.mine)
      \/ Becomes(e, gone, q) /\ i.theirs # 0
      \/ /\ Becomes(e, Ponged(i), q \union Pongs(e, i))
         /\ i.theirs # 0
      \/ /\ Becomes(e, Accepted(i, n), q \union OnLine(e, i, "ping", n))
         /\ i.theirs # 0 /\ m.line = i.mine /\ m.kind = "link"
      \/ /\ Becomes(e, i, q \union refused)
         /\ i.theirs # 0 /\ m.kind # "link" /\ (n # i.link.id \/ i.link.id = 0)
  BY DEF HandleOnLine, HasLink
<1>3. i.link \in LinkStates /\ i.link.out \in 0..3
  BY <1>1, FieldFacts
<1>4. \A x \in net : x.kind = "open" => x \in q
  OBVIOUS
<1> HIDE DEF e, i, gone, refused, n
<1>5. CASE Becomes(e, i, q) /\ (i.theirs = 0 \/ m.line # i.mine)
  <2>1. \A x \in net : x \in q \/ (x = m /\ x.to = e)
    BY DEF e
  <2> HIDE DEF q
  <2>2. Shake'
    BY <1>1, <1>4, <1>5, <2>1, StayShake DEF i, q
  <2>3. Fed'
    BY <1>1, <1>5, <2>1, StayFed DEF i
  <2>4. QED
    BY <2>2, <2>3
<1>6. CASE Becomes(e, gone, q) /\ i.theirs # 0
  <2>1. /\ gone.alive = i.alive /\ gone.mine = i.mine /\ gone.theirs = i.theirs
        /\ gone.next = i.next /\ gone.late = i.late /\ gone.job = i.job
        /\ gone.phase = i.phase /\ gone.link.id = 0 /\ gone.link.in = 0
        /\ gone.link.age = 0
    BY <1>1 DEF gone, SwitchStates, NoLink
  <2>2. gone \in SwitchStates
    BY <1>1, <1>6, BecomesIn
  <2>3. (\A x \in net : x \in q \/ x = m) /\ (\A x \in q : x \in net) /\ m.to = e
    BY DEF e
  <2> HIDE DEF q
  <2>4. Shake'
    BY <1>1, <1>6, <2>1, <2>2, <2>3, SwapShake DEF i
  <2>5. Fed'
    BY <1>1, <1>6, <2>1, <2>2, NoneFed
  <2>6. QED
    BY <2>4, <2>5
<1>7. CASE /\ Becomes(e, Ponged(i), q \union Pongs(e, i))
           /\ i.theirs # 0
  <2> DEFINE j == Ponged(i)
             b == q \union Pongs(e, i)
             o == IF i.link.out > Recent THEN 0 ELSE i.link.out
             l == [i.link EXCEPT !.never = FALSE, !.in = 0, !.out = o]
  <2>1. j = [i EXCEPT !.link = l]
    BY <1>1, <1>3 DEF Ponged, SwitchStates, LinkStates
  <2>2. l.id = i.link.id /\ l.in = 0 /\ l.age = i.link.age /\ ~l.never /\ l.out = o
    BY <1>3 DEF LinkStates
  <2> HIDE DEF l
  <2>3. /\ j.alive /\ j.mine = i.mine /\ j.theirs = i.theirs
        /\ j.next = i.next /\ j.late = i.late /\ j.job = i.job
        /\ j.phase = i.phase /\ j.link.id = i.link.id /\ j.link.in = 0
        /\ j.link.age = i.link.age /\ ~j.link.never
        /\ i.link.out <= Recent => j.link.out = i.link.out
    BY <1>1, <1>3, <2>1, <2>2 DEF SwitchStates, Recent
  <2>4. j \in SwitchStates
    BY <1>1, <1>7, BecomesIn
  <2>5. /\ m.to = e
        /\ \A x \in net : x \in b \/ x = m
        /\ \A x \in net : x \in b \/ (x.to = e /\ x.kind # "open")
        /\ \A x \in b :
             \/ x \in net
             \/ /\ x.kind = "ping" /\ x.to = Peer(e) /\ x.line = i.theirs
                /\ x.line # 0
        /\ i.link.out > Recent =>
             \E x \in b : /\ x.kind = "ping" /\ x.to = Peer(e)
                          /\ x.line = i.theirs /\ x.id = i.link.id
    <3> DEFINE y == [kind |-> "ping", to |-> Peer(e), line |-> i.theirs,
                     id |-> i.link.id]
    <3>1. Pongs(e, i) = IF i.link.out > Recent THEN {y} ELSE {}
      BY <1>7 DEF Pongs, OnLine
    <3>2. /\ y.kind = "ping" /\ y.to = Peer(e) /\ y.line = i.theirs
          /\ y.id = i.link.id /\ y.line # 0
      BY <1>7
    <3> HIDE DEF y
    <3>3. QED
      BY <3>1, <3>2, <1>4 DEF e
  <2>6. Becomes(e, j, b)
    BY <1>7
  <2> HIDE DEF j, b
  <2>7. Shake'
    <3>1. /\ j.phase \in {i.phase, Period}
          /\ j.link.never => i.link.never /\ j.link.in = i.link.in
      BY <2>3
    <3>2. QED
      BY <1>1, <2>3, <2>4, <2>5, <2>6, <3>1, RefreshShake DEF i
  <2>8. Fed'
    BY <1>1, <2>3, <2>4, <2>5, <2>6, PongFed DEF i
  <2>9. QED
    BY <2>7, <2>8
<1>8. CASE /\ Becomes(e, Accepted(i, n), q \union OnLine(e, i, "ping", n))
           /\ i.theirs # 0 /\ m.line = i.mine /\ m.kind = "link"
  <2> DEFINE j == Accepted(i, n)
             b == q \union OnLine(e, i, "ping", n)
  <2>1. /\ j.alive /\ j.mine = i.mine /\ j.theirs = i.theirs
        /\ j.next = i.next /\ j.late = i.late /\ j.job = i.job
        /\ j.phase = i.phase /\ j.link.id = n /\ j.link.in = 0
        /\ j.link.age = 0 /\ ~j.link.never
    BY <1>1 DEF Accepted, InLink, SwitchStates
  <2>2. j \in SwitchStates
    BY <1>1, <1>8, BecomesIn
  <2>3. /\ m.to = e /\ m.line = i.mine
        /\ \A x \in net : x \in b \/ x = m
        /\ \A x \in b :
             \/ x \in net
             \/ x.kind = "ping" /\ x.to = Peer(e) /\ x.line = i.theirs
        /\ \E x \in b : /\ x.kind = "ping" /\ x.to = Peer(e)
                        /\ x.line = i.theirs /\ x.id = n
    <3> DEFINE y == [kind |-> "ping", to |-> Peer(e), line |-> i.theirs, id |-> n]
    <3>1. OnLine(e, i, "ping", n) = {y}
      BY <1>8 DEF OnLine
    <3>2. y.kind = "ping" /\ y.to = Peer(e) /\ y.line = i.theirs /\ y.id = n
      OBVIOUS
    <3> HIDE DEF y
    <3>3. QED
      BY <3>1, <3>2, <1>8 DEF e
  <2>4. Becomes(e, j, b)
    BY <1>8
  <2> HIDE DEF j, b
  <2>5. Shake'
    BY <1>1, <1>8, <2>1, <2>2, <2>3, <2>4, SwapShake DEF i, n
  <2>6. Fed'
    BY <1>1, <1>8, <2>1, <2>2, <2>3, <2>4, SwapFed DEF i, n
  <2>7. QED
    BY <2>5, <2>6
<1>9. CASE /\ Becomes(e, i, q \union refused)
           /\ i.theirs # 0 /\ m.kind # "link" /\ (n # i.link.id \/ i.link.id = 0)
  <2> DEFINE b == q \union refused
  <2>1. /\ \A x \in net : x \in b \/ (x = m /\ x.to = e)
        /\ \A x \in b : x \in net \/ (/\ x.kind = "err" /\ x.to = Peer(e)
                                      /\ x.line = i.theirs /\ x.line # 0)
    BY <1>9 DEF refused, OnLine, e
  <2>2. Becomes(e, i, b)
    BY <1>9
  <2> HIDE DEF b
  <2>3. Shake'
    BY <1>1, <2>1, <2>2, StayShake DEF i
  <2>4. CASE n # i.link.id
    BY <1>1, <2>1, <2>2, <2>3, <2>4, StayFed DEF i, n
  <2>5. CASE i.link.id = 0
    BY <1>1, <2>2, <2>3, <2>5, NoneFed
  <2>6. QED
    BY <1>9, <2>3, <2>4, <2>5
<1>10. QED
  BY <1>2, <1>5, <1>6, <1>7, <1>8, <1>9

\* An open of the peer's line.
LEMMA HandleOpenKept ==
  ASSUME LinkInv, LinkInv', Shake, Fed, NEW m \in net, m.kind = "open",
         HandleOpen(m.to, m.line, net \ {m}), skips' = skips
  PROVE  Shake' /\ Fed'
<1> DEFINE e == m.to
           i == sw[e]
           n == m.line
           q == net \ {m}
           k == Keyed(e, i, n)
           w == [k EXCEPT !.late = TRUE, !.wait = FALSE]
<1>1. /\ e \in Ends /\ n \in Nat /\ n # 0 /\ m \in Packets
      /\ i \in SwitchStates /\ Shaped(e) /\ Timely(i, skips)
  <2>1. m \in Packets
    BY DEF LinkInv, TypeOK
  <2>2. e \in Ends /\ n \in Nat
    BY <2>1 DEF Packets
  <2>3. Posted(m) /\ Shaped(e)
    BY <2>2 DEF Shake
  <2>4. made[Peer(e)] \in Nat
    BY <2>2, PeerFacts DEF LinkInv, TypeOK
  <2>5. n # 0
    BY <2>3, <2>4 DEF Posted
  <2>6. QED
    BY <2>1, <2>2, <2>3, <2>5 DEF LinkInv, TypeOK
<1>2. /\ k \in SwitchStates /\ k.alive = i.alive /\ k.phase = i.phase
      /\ k.mine = IF i.mine = 0 THEN made[e] + 1 ELSE i.mine
      /\ k.theirs = n /\ k.next = FirstId(e) /\ k.late = i.late
      /\ k.link = IF i.theirs # 0 THEN NoLink ELSE i.link
  <2>1. k \in SwitchStates
    BY <1>1, KeyedTimely
  <2>2. QED
    BY <1>1, <2>1 DEF Keyed, Fresh, SwitchStates
<1>3. \/ Becomes(e, i, q) /\ i.mine # 0 /\ n <= i.theirs
      \/ /\ ~(i.mine # 0 /\ n <= i.theirs)
         /\ i.job /\ i.mine # 0
         /\ Becomes(e, LinkTo(k), q \union LinkSends(e, k))
      \/ /\ ~(i.mine # 0 /\ n <= i.theirs)
         /\ ~(i.job /\ i.mine # 0)
         /\ Becomes(e, IF i.wait THEN LinkTo(w) ELSE w,
                    q \union {Open(e, k.mine)}
                      \union (IF i.wait THEN LinkSends(e, w) ELSE {}))
  BY DEF HandleOpen
<1>4. /\ m.to = e /\ m.line = n
      /\ \A x \in q : x \in net /\ x # m
      /\ \A x \in net : x \in q \/ x = m
  OBVIOUS
<1>5. FirstId(e) \in Nat
  BY <1>1, IdFacts
<1> HIDE DEF e, i, n, q, k, w
<1>6. CASE Becomes(e, i, q) /\ i.mine # 0 /\ n <= i.theirs
  <2>1. i.alive /\ (Unkeyed(i) => i.job)
    BY <1>1 DEF Shaped, i
  <2>2. Shake'
    BY <1>1, <1>4, <1>6, <2>1, StayShake DEF i
  <2>3. Fed'
    BY <1>1, <1>4, <1>6, StayFed DEF i
  <2>4. QED
    BY <2>2, <2>3
<1>7. CASE /\ ~(i.mine # 0 /\ n <= i.theirs)
           /\ i.job /\ i.mine # 0
           /\ Becomes(e, LinkTo(k), q \union LinkSends(e, k))
           /\ HasLink(k)
  <2> DEFINE j == LinkTo(k)
             b == q \union LinkSends(e, k)
  <2>1. i.theirs = 0 /\ i.link.id = 2 /\ k.link = i.link /\ i.alive
    <3>1. i.theirs = 0
      BY <1>2, <1>7 DEF HasLink, NoLink
    <3>2. QED
      BY <1>1, <1>2, <1>7, <3>1 DEF HasLink, Shaped, i
  <2>2. /\ j.alive /\ j.mine = i.mine /\ j.theirs = n /\ j.phase = i.phase
        /\ j.late = i.late /\ j.next = FirstId(e) /\ j.link.id = 2
        /\ j.link.in = i.link.in /\ j.link.age = i.link.age
        /\ j.link.never = i.link.never
        /\ LinkSends(e, k) = OnLine(e, k, "ping", 2)
    <3>1. /\ j.alive = k.alive /\ j.mine = k.mine /\ j.theirs = k.theirs
          /\ j.phase = k.phase /\ j.late = k.late
          /\ j.next = k.next /\ j.link.id = k.link.id
          /\ j.link.in = k.link.in /\ j.link.age = k.link.age
          /\ j.link.never = k.link.never
          /\ LinkSends(e, k) = OnLine(e, k, "ping", k.link.id)
      BY <1>1, <1>2, <1>7, LinkToIs
    <3> HIDE DEF j
    <3>2. QED
      BY <1>2, <1>7, <2>1, <3>1
  <2>3. j \in SwitchStates
    BY <1>1, <1>7, BecomesIn
  <2>4. \A x \in b :
          \/ x \in net /\ x # m
          \/ x.kind = "ping" /\ x.to = Peer(e) /\ x.line = n
    <3> DEFINE y == [kind |-> "ping", to |-> Peer(e), line |-> n, id |-> 2]
    <3>1. LinkSends(e, k) = {y}
      BY <1>1, <1>2, <2>2 DEF OnLine
    <3>2. y.kind = "ping" /\ y.to = Peer(e) /\ y.line = n
      OBVIOUS
    <3> HIDE DEF y
    <3>3. QED
      BY <1>4, <3>1, <3>2
  <2>5. Becomes(e, j, b)
    BY <1>7
  <2> HIDE DEF j, b
  <2>6. Shake'
    BY <1>1, <1>4, <1>7, <2>1, <2>2, <2>3, <2>4, <2>5, EarlyShake DEF i
  <2>7. Fed'
    BY <1>1, <1>4, <1>7, <2>1, <2>2, <2>3, <2>5, EarlyFed DEF i
  <2>8. QED
    BY <2>6, <2>7
<1>8. ASSUME NEW j, NEW b, Becomes(e, j, b),
             ~(i.mine # 0 /\ n <= i.theirs),
             j.alive = k.alive, j.mine = k.mine, j.theirs = n, j.phase = k.phase,
             \/ j.link = k.link /\ k.link.id = 0 /\ j.next = FirstId(e)
             \/ j.link = OutLink(FirstId(e) + 2) /\ j.next = FirstId(e) + 2,
             \A x \in b :
               \/ x \in net /\ x # m
               \/ x = Open(e, j.mine)
               \/ /\ x.kind = "link" /\ x.to = Peer(e) /\ x.line = n
                  /\ j.link = OutLink(FirstId(e) + 2) /\ x.id = FirstId(e) + 2
      PROVE  Shake' /\ Fed'
  <2>1. j \in SwitchStates /\ j.alive
    BY <1>1, <1>2, <1>8, BecomesIn DEF Shaped, i
  <2>2. /\ j.mine = IF i.mine = 0 THEN made[e] + 1 ELSE i.mine
        /\ j.phase = i.phase
    BY <1>2, <1>8
  <2>3. FirstId(e) + 2 # 0
    BY <1>5
  <2>4. /\ OutLink(FirstId(e) + 2).id = FirstId(e) + 2
        /\ OutLink(FirstId(e) + 2).in = 0 /\ OutLink(FirstId(e) + 2).age = 0
    BY DEF OutLink
  <2>5. k.link.id = 0 => k.link.in = 0 /\ (k.link.never => k.link.age = 0)
    <3>1. NoLink.in = 0 /\ NoLink.age = 0
      BY DEF NoLink
    <3>2. i.link.id = 0 => i.link.in = 0 /\ (i.link.never => i.link.age = 0)
      <4>1. i.link.id = 0 => i.link.in = 0
        BY <1>1 DEF Timely
      <4>2. i.link.never => i.link.in >= i.link.age
        BY <1>1 DEF Shaped, i
      <4>3. i.link.age \in 0..6
        BY <1>1, FieldFacts
      <4>4. QED
        BY <4>1, <4>2, <4>3
    <3>3. QED
      BY <1>2, <3>1, <3>2
  <2>6. /\ j.link.in = 0 /\ (j.link.id # 0 \/ j.link.never => j.link.age = 0)
        /\ \/ j.link.id = 0 /\ j.next = FirstId(e)
           \/ j.link.id = FirstId(e) + 2 /\ j.next = FirstId(e) + 2
    BY <1>8, <2>4, <2>5
  <2>7. \A x \in b :
          \/ x \in net /\ x # m
          \/ x = Open(e, j.mine)
          \/ /\ x.kind = "link" /\ x.to = Peer(e) /\ x.line = n
             /\ j.link.id = FirstId(e) + 2 /\ x.id = j.link.id
    BY <1>8, <2>4
  <2>8. Shake'
    BY <1>1, <1>4, <1>8, <2>1, <2>2, <2>6, <2>7, KeyedShake DEF i
  <2>9. Fed'
    BY <1>1, <1>4, <1>8, <2>1, <2>2, <2>6, KeyedFed DEF i
  <2>10. QED
    BY <2>8, <2>9
<1>9. CASE /\ ~(i.mine # 0 /\ n <= i.theirs)
           /\ Becomes(e, LinkTo(k), q \union LinkSends(e, k))
           /\ ~HasLink(k)
  <2> DEFINE y == [kind |-> "link", to |-> Peer(e), line |-> n,
                   id |-> FirstId(e) + 2]
  <2>1. /\ LinkTo(k).alive = k.alive /\ LinkTo(k).mine = k.mine
        /\ LinkTo(k).theirs = n /\ LinkTo(k).phase = k.phase
        /\ LinkTo(k).next = FirstId(e) + 2
        /\ LinkTo(k).link = OutLink(FirstId(e) + 2)
        /\ LinkSends(e, k) = {y}
    BY <1>1, <1>2, <1>9, LinkToIs DEF OnLine
  <2>2. /\ y.kind = "link" /\ y.to = Peer(e) /\ y.line = n
        /\ y.id = FirstId(e) + 2
    OBVIOUS
  <2> HIDE DEF y
  <2>3. QED
    BY <1>4, <1>8, <1>9, <2>1, <2>2
<1>10. CASE /\ ~(i.mine # 0 /\ n <= i.theirs)
            /\ ~(i.job /\ i.mine # 0)
            /\ Becomes(e, IF i.wait THEN LinkTo(w) ELSE w,
                       q \union {Open(e, k.mine)}
                         \union (IF i.wait THEN LinkSends(e, w) ELSE {}))
  <2>1. k.link.id = 0
    <3>1. i.theirs = 0 => i.mine = 0 /\ i.link.id = 0
      BY <1>1, <1>10 DEF Shaped, Unkeyed, i
    <3>2. QED
      BY <1>2, <3>1 DEF NoLink
  <2>2. /\ w \in SwitchStates /\ w.alive = k.alive /\ w.mine = k.mine
        /\ w.theirs = n /\ w.phase = k.phase /\ w.next = FirstId(e)
        /\ w.link = k.link
    BY <1>2 DEF w, SwitchStates
  <2>3. CASE i.wait
    <3> DEFINE y == [kind |-> "link", to |-> Peer(e), line |-> n,
                     id |-> FirstId(e) + 2]
               b == (q \union {Open(e, k.mine)}) \union {y}
    <3>1. /\ LinkTo(w).alive = k.alive /\ LinkTo(w).mine = k.mine
          /\ LinkTo(w).theirs = n /\ LinkTo(w).phase = k.phase
          /\ LinkTo(w).next = FirstId(e) + 2
          /\ LinkTo(w).link = OutLink(FirstId(e) + 2)
          /\ LinkSends(e, w) = {y}
      BY <1>1, <2>1, <2>2, LinkToIs DEF OnLine, HasLink
    <3>2. /\ y.kind = "link" /\ y.to = Peer(e) /\ y.line = n
          /\ y.id = FirstId(e) + 2
      OBVIOUS
    <3>3. Becomes(e, LinkTo(w), b)
      BY <1>10, <2>3, <3>1
    <3> HIDE DEF y
    <3>4. \A x \in b :
            \/ x \in net /\ x # m
            \/ x = Open(e, k.mine)
            \/ x.kind = "link" /\ x.to = Peer(e) /\ x.line = n /\ x.id = FirstId(e) + 2
      BY <1>4, <3>2
    <3> HIDE DEF b
    <3>5. QED
      BY <1>8, <1>10, <3>1, <3>3, <3>4
  <2>4. CASE ~i.wait
    <3> DEFINE b == q \union {Open(e, k.mine)} \union {}
    <3>1. Becomes(e, w, b)
      BY <1>10, <2>4
    <3>2. \A x \in b : (x \in net /\ x # m) \/ x = Open(e, k.mine)
      BY <1>4
    <3> HIDE DEF b
    <3>3. QED
      BY <1>8, <1>10, <2>1, <2>2, <3>1, <3>2
  <2>5. QED
    BY <2>3, <2>4
<1>11. QED
  BY <1>3, <1>6, <1>7, <1>9, <1>10

\* Every step keeps the invariant: what is lost and who restarts counts as a
\* fault, and there is nothing to show once there was one.
LEMMA KeptStep ==
  ASSUME KeptInv, [Next]_vars
  PROVE  KeptInv'
<1>1. LinkInv /\ LinkInv'
  BY LinkStep DEF KeptInv
<1> SUFFICES ASSUME faults' = 0 PROVE Shake' /\ Fed'
  BY <1>1 DEF KeptInv
<1>2. faults \in Nat /\ (Fault => FALSE)
  BY <1>1, BoundsAreNat DEF LinkInv, TypeOK, Fault
<1>3. faults = 0
  <2>1. faults' = faults \/ faults' = faults + 1
    BY <1>2 DEF Next, Due, Deliver, Vanish, JobTimer, LateLink, Ping, Tick, LearnOf,
                Skip, Lose, Crash, Restart, Fault, Counts, vars
  <2>2. QED
    BY <1>2, <2>1
<1>4. Shake /\ Fed
  BY <1>3 DEF KeptInv
<1>5. CASE UNCHANGED vars
  <2>1. Shake'
    <3>1. \A e \in Ends : Shaped(e)'
      BY <1>4, <1>5 DEF vars, Shake, Shaped, Unkeyed
    <3>2. \A m \in net' : Posted(m)'
      BY <1>4, <1>5 DEF vars, Shake, Posted
    <3>3. Crossing'
      BY <1>4, <1>5 DEF vars, Shake, Crossing, OpenOut, Unkeyed
    <3>4. \A e \in Ends : OldOpens(e)'
      BY <1>4, <1>5 DEF vars, Shake, OldOpens, OpenOut, Old, Unkeyed
    <3>5. \A e \in Ends : Halfway(e)'
      BY <1>4, <1>5 DEF vars, Shake, Halfway, OpenOut, Old
    <3>6. \A e \in Ends : Foreign(e)'
      BY <1>4, <1>5 DEF vars, Shake, Foreign, OpenOut
    <3>7. QED
      BY <3>1, <3>2, <3>3, <3>4, <3>5, <3>6 DEF Shake
  <2>2. Fed'
    BY <1>4, <1>5 DEF vars, Fed, Agreed, HeardOf, Rounds, Coming
  <2>3. QED
    BY <2>1, <2>2
<1>6. ASSUME NEW m \in net, Deliver(m) PROVE Shake' /\ Fed'
  <2>1. skips' = skips
    BY <1>6 DEF Deliver, Counts
  <2>2. CASE m.kind = "open"
    BY <1>1, <1>4, <1>6, <2>1, <2>2, HandleOpenKept DEF Deliver
  <2>3. CASE m.kind # "open"
    BY <1>1, <1>4, <1>6, <2>1, <2>3, HandleOnLineKept DEF Deliver
  <2>4. QED
    BY <2>2, <2>3
<1>7. ASSUME NEW m \in net, Vanish(m) PROVE FALSE
  <2>1. Shaped(m.to)
    BY <1>1, <1>4 DEF LinkInv, TypeOK, Packets, Shake
  <2>2. QED
    BY <1>7, <2>1 DEF Vanish, Shaped
<1>8. CASE Tick
  BY <1>1, <1>4, <1>8, TickShake, TickFed
<1>9. ~(\E m \in net : Lose(m)) /\ ~(\E e \in Ends : Crash(e) \/ Restart(e))
  BY <1>2 DEF Lose, Crash, Restart
<1>10. QED
  BY <1>1, <1>4, <1>5, <1>6, <1>7, <1>8, <1>9, JobTimerKept, LateLinkKept,
     PingKept, LearnOfKept, SkipKept DEF Next, Due

\* Before the first step nothing has been sent, and nobody has a link.
LEMMA KeptInit == Init => KeptInv
<1> SUFFICES ASSUME Init PROVE KeptInv
  OBVIOUS
<1>1. LinkInv
  BY LinkInit
<1>2. PICK p \in 1..Period :
        sw = [e \in Ends |->
                [Started EXCEPT !.phase = IF e = Lower THEN Period ELSE p]]
  BY DEF Init
<1>3. /\ made = [e \in Ends |-> 0] /\ net = {}
  BY DEF Init
<1>4. ASSUME NEW e \in Ends
      PROVE  /\ sw[e].alive /\ sw[e].mine = 0 /\ sw[e].theirs = 0
             /\ sw[e].next = 0 /\ sw[e].link = NoLink /\ ~sw[e].late
             /\ made[e] = 0
  BY <1>2, <1>3 DEF Started
<1>5. /\ NoLink.id = 0 /\ NoLink.never /\ NoLink.in = 0 /\ NoLink.age = 0
  BY DEF NoLink
<1>6. ASSUME NEW e \in Ends
      PROVE  Shaped(e) /\ OldOpens(e) /\ Halfway(e) /\ Foreign(e)
  <2>1. Peer(e) \in Ends /\ ~DrawnBy(Peer(e), 0)
    BY PeerFacts, IdFacts
  <2>2. Shaped(e)
    BY <1>4, <1>5, <2>1 DEF Shaped, Unkeyed
  <2>3. OldOpens(e) /\ Halfway(e) /\ Foreign(e)
    BY <1>4, <1>5 DEF OldOpens, Old, Halfway, Foreign
  <2>4. QED
    BY <2>2, <2>3
<1>7. Crossing
  BY <1>4 DEF Crossing, Unkeyed, Ends
<1>8. Shake
  BY <1>3, <1>6, <1>7 DEF Shake
<1>9. ~Agreed
  BY <1>4, <1>5 DEF Agreed, HasLink, Ends
<1>10. QED
  BY <1>1, <1>8, <1>9 DEF KeptInv, Fed

\* The handshake leaves no more than Shake says, and the rounds feed a link that
\* both have, while nothing is lost and nobody restarts (THSwitch processOpen,
\* THLine, THMeshBuckets).
THEOREM KeptInvariant == Spec => []KeptInv
BY KeptInit, KeptStep, PTL DEF Spec

------------------------------------------------------------------------------
(* No switch gives up a live link.                                         *)

\* A step of one end that keeps its line and the id of its link.
LEMMA AgreedStays ==
  ASSUME LinkInv, Agreed, NEW e \in Ends, NEW j \in SwitchStates,
         sw' = [sw EXCEPT ![e] = j], j.alive = sw[e].alive,
         j.mine = sw[e].mine, j.theirs = sw[e].theirs, j.link.id = sw[e].link.id
  PROVE  Agreed'
<1>1. sw \in [Ends -> SwitchStates] /\ Peer(e) \in Ends /\ Peer(e) # e
  BY PeerFacts DEF LinkInv, TypeOK
<1>2. sw'[e] = j /\ sw'[Peer(e)] = sw[Peer(e)]
  BY <1>1
<1>3. QED
  BY <1>2, AgreedIs, AgreedNext

\* In a round the link is not idle: what feeds it came within 50 s, and within
\* the first 25 s if it is the first.
LEMMA FedNotIdle ==
  ASSUME LinkInv, Shake, Fed, Agreed, skips <= 1, NEW e \in Ends, sw[e].phase = 0
  PROVE  ~IsIdle(sw[e].link)
<1> DEFINE p == Peer(e)
           l == sw[e].link
<1>1. /\ p \in Ends /\ Peer(p) = e /\ \A d \in Ends : d = e \/ d = p
      /\ sw[e] \in SwitchStates /\ sw[p] \in SwitchStates
  BY PeerFacts DEF LinkInv, TypeOK
<1>2. /\ l.in \in Nat /\ l.age \in 0..6 /\ sw[p].phase \in 0..5
  BY <1>1, FieldFacts
<1>3. Rounds(e) \/ Rounds(p)
  BY <1>1 DEF Fed
<1>4. l.in <= 7 /\ (l.never => l.in <= 5)
  <2>1. CASE Rounds(e)
    BY <2>1, <1>2 DEF Rounds
  <2>2. CASE Rounds(p)
    <3>1. sw[Peer(p)].link.in <= 5 - sw[p].phase \/ sw[Peer(p)].link.in <= 5
      BY <2>2 DEF Rounds
    <3>2. l.in <= 5
      BY <3>1, <1>1, <1>2
    <3>3. QED
      BY <3>2, <1>2
  <2>3. QED
    BY <1>3, <2>1, <2>2
<1>5. l.never => l.in >= l.age
  BY DEF Shake, Shaped
<1> HIDE DEF l
<1>6. ~((l.never \/ l.in >= 10) /\ l.age > 5)
  BY <1>2, <1>4, <1>5
<1>7. QED
  BY <1>6 DEF IsIdle, Idle, Young, l

\* The step of one end that might.
LEMMA PingAgrees ==
  ASSUME LinkInv, LinkInv', Shake, Fed, Agreed, skips <= 1, NEW e \in Ends, Ping(e)
  PROVE  Agreed'
<1> DEFINE i == sw[e]
           o == [i EXCEPT !.link = [i.link EXCEPT !.out = 0]]
           j == [Pinged(i) EXCEPT !.phase = Period]
<1>1. /\ i \in SwitchStates /\ i.phase = 0 /\ i.link.id # 0
      /\ sw' = [sw EXCEPT ![e] = j] /\ Becomes(e, j, net \union PingSends(e, i))
  BY AgreedIs DEF LinkInv, TypeOK, Ping, Becomes
<1>2. j \in SwitchStates
  BY <1>1, BecomesIn
<1>3. i.link \in LinkStates
  BY <1>1, FieldFacts
<1>4. ~IsIdle(i.link)
  BY <1>1, FedNotIdle
<1>5. Pinged(i) \in {i, o}
  <2>1. [i EXCEPT !.link.out = 0] = o
    BY <1>1 DEF SwitchStates
  <2>2. QED
    BY <1>1, <1>4, <2>1 DEF Pinged, HasLink
<1>6. /\ o.link.id = i.link.id /\ o.alive = i.alive /\ o.mine = i.mine
      /\ o.theirs = i.theirs /\ o.phase = i.phase
      /\ o \in SwitchStates
  <2> DEFINE l == [i.link EXCEPT !.out = 0]
  <2>1. l \in LinkStates /\ l.id = i.link.id
    BY <1>3 DEF LinkStates, Recent
  <2> HIDE DEF l
  <2>2. QED
    BY <1>1, <2>1 DEF SwitchStates, l
<1> HIDE DEF o
<1>7. /\ j.alive = i.alive /\ j.mine = i.mine /\ j.theirs = i.theirs
      /\ j.link.id = i.link.id
  <2>1. CASE j = [i EXCEPT !.phase = Period]
    BY <2>1, <1>1 DEF SwitchStates
  <2>2. CASE j = [o EXCEPT !.phase = Period]
    <3> HIDE DEF j
    <3>1. QED
      BY <2>2, <1>6 DEF SwitchStates
  <2>3. QED
    BY <1>5, <2>1, <2>2
<1> HIDE DEF j
<1>8. QED
  BY <1>1, <1>2, <1>7, AgreedStays

\* Of a packet that pings a link the receiver at most learns the time.
LEMMA PongAgrees ==
  ASSUME LinkInv, LinkInv', Agreed, NEW m \in net, m.kind = "ping", Deliver(m)
  PROVE  Agreed'
<1> DEFINE e == m.to
           i == sw[e]
           q == net \ {m}
<1>1. e \in Ends /\ i \in SwitchStates
  BY DEF LinkInv, TypeOK, Packets
<1>2. i.link \in LinkStates
  BY <1>1, FieldFacts
<1>3. \/ Becomes(e, i, q)
      \/ Becomes(e, Ponged(i), q \union Pongs(e, i))
      \/ Becomes(e, i, q \union OnLine(e, i, "err", m.id))
  BY DEF Deliver, HandleOnLine
<1>4. /\ Ponged(i).alive = i.alive /\ Ponged(i).mine = i.mine
      /\ Ponged(i).theirs = i.theirs /\ Ponged(i).link.id = i.link.id
  <2> DEFINE o == IF i.link.out > Recent THEN 0 ELSE i.link.out
             l == [i.link EXCEPT !.never = FALSE, !.in = 0, !.out = o]
  <2>1. Ponged(i) = [i EXCEPT !.link = l]
    BY <1>1, <1>2 DEF Ponged, SwitchStates, LinkStates
  <2>2. l.id = i.link.id
    BY <1>2 DEF LinkStates
  <2> HIDE DEF l
  <2>3. QED
    BY <1>1, <2>1, <2>2 DEF SwitchStates
<1> HIDE DEF i, q
<1>5. CASE Becomes(e, i, q) \/ Becomes(e, i, q \union OnLine(e, i, "err", m.id))
  BY <1>1, <1>5, AgreedStays DEF Becomes, i
<1>6. CASE Becomes(e, Ponged(i), q \union Pongs(e, i))
  <2>1. Ponged(i) \in SwitchStates
    BY <1>1, <1>6, BecomesIn
  <2>2. QED
    BY <1>1, <1>4, <1>6, <2>1, AgreedStays DEF Becomes, i
<1>7. QED
  BY <1>3, <1>5, <1>6

\* The timers find a line and a link.
LEMMA TimersAgree ==
  ASSUME LinkInv, LinkInv', Agreed, NEW e \in Ends, JobTimer(e) \/ LateLink(e) \/ Skip(e)
  PROVE  Agreed'
<1> DEFINE i == sw[e]
           w == [i EXCEPT !.due = FALSE, !.job = FALSE, !.wait = FALSE]
<1>1. i \in SwitchStates /\ HasLink(i)
  BY AgreedIs DEF LinkInv, TypeOK, HasLink
<1>2. HasLink([i EXCEPT !.late = FALSE])
  BY <1>1 DEF HasLink, SwitchStates
<1>3. \/ sw' = [sw EXCEPT ![e] = [i EXCEPT !.due = FALSE]]
      \/ sw' = [sw EXCEPT ![e] = w]
      \/ sw' = [sw EXCEPT ![e] = [i EXCEPT !.late = FALSE]]
      \/ sw' = [sw EXCEPT ![e] = [i EXCEPT !.phase = Period]]
  <2>1. JobTimer(e) => \/ sw' = [sw EXCEPT ![e] = [i EXCEPT !.due = FALSE]]
                       \/ sw' = [sw EXCEPT ![e] = w]
    BY DEF JobTimer, Becomes
  <2>2. LateLink(e) => sw' = [sw EXCEPT ![e] = [i EXCEPT !.late = FALSE]]
    BY <1>2 DEF LateLink, Becomes
  <2>3. Skip(e) => sw' = [sw EXCEPT ![e] = [i EXCEPT !.phase = Period]]
    BY <1>1 DEF Skip
  <2>4. QED
    BY <2>1, <2>2, <2>3
<1>4. ASSUME NEW j, sw' = [sw EXCEPT ![e] = j], j \in SwitchStates,
             j.alive = i.alive, j.mine = i.mine, j.theirs = i.theirs,
             j.link = i.link
      PROVE  Agreed'
  BY <1>4, AgreedStays
<1>5. CASE sw' = [sw EXCEPT ![e] = [i EXCEPT !.due = FALSE]]
  BY <1>1, <1>4, <1>5 DEF SwitchStates
<1>6. CASE sw' = [sw EXCEPT ![e] = w]
  BY <1>1, <1>4, <1>6 DEF SwitchStates
<1>7. CASE sw' = [sw EXCEPT ![e] = [i EXCEPT !.late = FALSE]]
  BY <1>1, <1>4, <1>7 DEF SwitchStates
<1>8. CASE sw' = [sw EXCEPT ![e] = [i EXCEPT !.phase = Period]]
  <2> DEFINE f == [i EXCEPT !.phase = Period]
  <2>1. /\ f \in SwitchStates /\ f.alive = i.alive /\ f.mine = i.mine
        /\ f.theirs = i.theirs /\ f.link = i.link
    BY <1>1 DEF SwitchStates, Period
  <2> HIDE DEF f
  <2>2. QED
    BY <1>4, <1>8, <2>1 DEF f
<1>9. QED
  BY <1>3, <1>5, <1>6, <1>7, <1>8

\* Time alone ends no link.
LEMMA TickAgrees ==
  ASSUME LinkInv, Agreed, Tick
  PROVE  Agreed'
<1>1. ASSUME NEW d \in Ends
      PROVE  /\ sw'[d].alive = sw[d].alive /\ sw'[d].mine = sw[d].mine
             /\ sw'[d].theirs = sw[d].theirs /\ sw'[d].link.id = sw[d].link.id
  <2> DEFINE i == sw[d]
             l == Older(i.link)
  <2>1. i \in SwitchStates /\ i.link \in LinkStates
    BY FieldFacts DEF LinkInv, TypeOK
  <2>2. sw'[d] = IF i.alive THEN [i EXCEPT !.link = l, !.phase = i.phase - 1] ELSE i
    BY DEF Tick
  <2>3. l.id = i.link.id
    BY <2>1 DEF Older, LinkStates
  <2> HIDE DEF l
  <2>4. QED
    BY <2>1, <2>2, <2>3 DEF SwitchStates
<1>2. Lower \in Ends /\ Peer(Lower) \in Ends
  BY PeerFacts DEF Ends
<1>3. QED
  BY <1>1, <1>2, AgreedIs, AgreedNext

\* A link both have is kept while no packet is lost, whatever the order of the
\* rounds of the two switches, of which one may miss the peer (THMeshBuckets
\* pingLines, THLine and the link's unreliable channel).
THEOREM KeptCorrect == Spec => EstablishedKept
<1>1. ASSUME KeptInv, [Next]_vars, Agreed, Calm, faults' = 0, skips' <= 1
      PROVE  Agreed'
  <2>1. LinkInv /\ LinkInv' /\ skips \in Nat
    BY <1>1, LinkStep, BoundsAreNat DEF KeptInv, LinkInv, TypeOK
  <2>2. faults \in Nat /\ ~Fault
    BY <1>1, <2>1, BoundsAreNat DEF LinkInv, TypeOK, Fault
  <2>3. faults = 0 /\ skips <= 1
    <3>1. /\ faults' = faults \/ faults' = faults + 1
          /\ skips' = skips \/ skips' = skips + 1
      BY <1>1, <2>2 DEF Next, Due, Deliver, Vanish, JobTimer, LateLink, Ping, Tick,
                        LearnOf, Skip, Lose, Crash, Restart, Fault, Counts, vars
    <3>2. QED
      BY <1>1, <2>1, <2>2, <3>1
  <2>4. Shake /\ Fed
    BY <1>1, <2>3 DEF KeptInv
  <2>5. CASE UNCHANGED vars
    BY <1>1, <2>5 DEF vars, Agreed
  <2>6. ASSUME NEW m \in net, Deliver(m) PROVE Agreed'
    BY <1>1, <2>1, <2>6, PongAgrees DEF Calm
  <2>7. ASSUME NEW m \in net, Vanish(m) PROVE Agreed'
    BY <1>1, <2>7 DEF Vanish, Agreed
  <2>8. ASSUME NEW e \in Ends, LearnOf(e) PROVE FALSE
    BY <1>1, <2>4, <2>8, AgreedIs DEF LearnOf, Shake, Shaped
  <2>9. ~(\E m \in net : Lose(m)) /\ ~(\E e \in Ends : Crash(e) \/ Restart(e))
    BY <2>2 DEF Lose, Crash, Restart
  <2>10. QED
    BY <1>1, <2>1, <2>3, <2>4, <2>5, <2>6, <2>7, <2>8, <2>9, PingAgrees,
       TimersAgree, TickAgrees DEF Next, Due
<1>2. KeptInv /\ [Next]_vars =>
        [Agreed /\ Calm /\ faults' = 0 /\ skips' <= 1 => Agreed']_vars
  BY <1>1
<1>3. QED
  BY <1>2, KeptInvariant, PTL DEF Spec, EstablishedKept

================================================================================
