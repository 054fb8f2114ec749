--------------------------- MODULE PathChoice_proofs ---------------------------
(***************************************************************************)
(* Theorems about PathChoice: types, and that the active path is justified.*)
(***************************************************************************)
EXTENDS PathChoice, TLAPS

\* What the choice rests on: an answer comes along a path, and no path has
\* more than its rank, which never goes down.
Best(i) == IF i.active = Relayed THEN 0 ELSE i.priority[i.active]

Sound(i) ==
  /\ i.active # Relayed => i.active \in i.paths \intersect works
  /\ \A r \in Routes : i.priority[r] <= Best(i)
  /\ \A r \in Routes : i.priority[r] <= Rank(i, r)

PathInv ==
  /\ TypeOK
  /\ \A m \in net : m.kind = "reply" => m.over \in Routes
  /\ \A e \in Ends : Sound(peer[e])

\* A rank is a priority above 0.
LEMMA RankType ==
  ASSUME NEW i, NEW r
  PROVE  Rank(i, r) \in 1..2
BY DEF Rank

\* Adding paths keeps a sound identity so (THIdentity addPath).
LEMMA AddedSound ==
  ASSUME NEW i \in Identity, NEW S \in SUBSET Routes, NEW mine \in SUBSET Routes,
         near \in BOOLEAN, Sound(i)
  PROVE  Added(i, S, mine) \in Identity /\ Sound(Added(i, S, mine))
<1> DEFINE j == Added(i, S, mine)
<1>1. /\ j \in Identity
      /\ i.paths \subseteq j.paths /\ j.active = i.active
      /\ j.priority = i.priority /\ (i.isLocal => j.isLocal)
  BY DEF Added, Identity
<1>2. \A r \in Routes : Rank(i, r) <= Rank(j, r)
  BY <1>1 DEF Rank
<1>3. \A r \in Routes : j.priority[r] <= Rank(j, r)
  <2>1. TAKE r \in Routes
  <2>2. i.priority[r] \in 0..2 /\ i.priority[r] <= Rank(i, r)
    BY DEF Identity, Sound
  <2> QED BY <1>1, <1>2, <2>2, RankType
<1> QED BY <1>1, <1>3 DEF Sound, Best

\* So does taking the priorities away (THLine handlePath).
LEMMA UnrankedSound ==
  ASSUME NEW i \in Identity, Sound(i)
  PROVE  Unranked(i) \in Identity /\ Sound(Unranked(i))
<1> DEFINE j == Unranked(i)
<1>1. /\ j \in Identity
      /\ j.paths = i.paths /\ j.active = i.active
      /\ \A r \in Routes : j.priority[r] = 0
  BY DEF Unranked, Identity
<1>2. Best(j) = 0
  BY <1>1 DEF Best, Identity
<1> QED BY <1>1, <1>2, RankType DEF Sound

\* And ranking a path that is known and works (THIdentity checkPriorityPath).
LEMMA RankedSound ==
  ASSUME NEW i \in Identity, NEW r \in i.paths \intersect works, Sound(i)
  PROVE  Ranked(i, r) \in Identity /\ Sound(Ranked(i, r))
<1> DEFINE j == Ranked(i, r)
           p == [i.priority EXCEPT ![r] = Rank(i, r)]
           best == IF i.active = Relayed THEN 0 ELSE p[i.active]
<1>1. r \in Routes /\ r # Relayed /\ i.active \in Routes \union {Relayed}
  BY DEF Identity, Routes, Relayed
<1>2. p \in [Routes -> 0..2]
  BY <1>1, RankType DEF Identity
<1>3. p[r] = Rank(i, r) /\ \A q \in Routes \ {r} : p[q] = i.priority[q]
  BY <1>1 DEF Identity
<1>4. best \in 0..2
  BY <1>1, <1>2
<1>5. /\ j.paths = i.paths /\ j.isLocal = i.isLocal /\ j.priority = p
      /\ j.active = IF p[r] > best THEN r ELSE i.active
      /\ j \in Identity
  BY <1>1, <1>2 DEF Ranked, Identity
<1>6. \A q \in Routes : Rank(j, q) = Rank(i, q)
  BY <1>5 DEF Rank
<1>7. \A q \in Routes : i.priority[q] \in 0..2 /\ i.priority[q] <= Best(i)
  BY DEF Identity, Sound
<1>8. \A q \in Routes : j.priority[q] <= Rank(j, q)
  BY <1>3, <1>5, <1>6, RankType DEF Sound
<1>9. Best(i) <= best
  <2>1. CASE i.active = Relayed
    BY <2>1, <1>4 DEF Best
  <2>2. CASE i.active = r
    BY <2>2, <1>1, <1>3, RankType DEF Best, Sound
  <2>3. CASE i.active \in Routes \ {r}
    BY <2>3, <1>1, <1>3, <1>7, <1>4 DEF Best
  <2> QED BY <1>1, <2>1, <2>2, <2>3
<1>10. Best(i) \in 0..2
  BY <1>1 DEF Best, Identity
<1>11. CASE p[r] > best
  <2>1. j.active = r /\ Best(j) = p[r]
    BY <1>11, <1>5, <1>1 DEF Best
  <2>2. \A q \in Routes : j.priority[q] <= Best(j)
    BY <2>1, <1>1, <1>2, <1>3, <1>4, <1>5, <1>7, <1>9, <1>10, <1>11
  <2> QED BY <2>1, <2>2, <1>5, <1>8 DEF Sound
<1>12. CASE ~(p[r] > best)
  <2>1. j.active = i.active /\ Best(j) = best
    BY <1>12, <1>5 DEF Best
  <2>2. \A q \in Routes : j.priority[q] <= Best(j)
    BY <2>1, <1>1, <1>2, <1>3, <1>4, <1>5, <1>7, <1>9, <1>10, <1>12
  <2> QED BY <2>1, <2>2, <1>5, <1>8 DEF Sound
<1> QED BY <1>11, <1>12

LEMMA InitPathInv == Init => PathInv
<1> SUFFICES ASSUME Init PROVE PathInv
  OBVIOUS
<1>1. TypeOK
  BY BoundsAreNat DEF Init, TypeOK, Routes
<1>2. ASSUME NEW e \in Ends PROVE Sound(peer[e])
  <2>1. /\ peer[e] \in Identity
        /\ peer[e].active \in (peer[e].paths \intersect works) \union {Relayed}
        /\ peer[e].priority = [r \in Routes |-> 0]
    BY <1>2 DEF Init
  <2>2. Best(peer[e]) = 0
    BY <2>1 DEF Best, Identity
  <2> QED BY <2>1, <2>2, RankType DEF Sound
<1> QED BY <1>1, <1>2 DEF Init, PathInv

\* Deliver is the step that changes an identity.
LEMMA DeliverPathInv ==
  ASSUME PathInv, NEW m \in net, Deliver(m)
  PROVE  PathInv'
<1> USE DEF PathInv
<1>1. /\ near' = near /\ works' = works /\ asks' = asks /\ open' = open
      /\ faults' = faults
  BY DEF Deliver, place
<1>2. m \in Message /\ m.from \in Ends /\ Peer(m.from) \in Ends
  BY DEF TypeOK, Message, Peer, Ends
<1>3. CASE m.kind = "path" /\ HandlePath(m)
  <2> DEFINE e == Peer(m.from)
             i == Added(peer[e], m.offers, own[e])
  <2>1. peer[e] \in Identity /\ Sound(peer[e]) /\ own[e] \in SUBSET Routes
        /\ m.offers \in SUBSET Routes /\ near \in BOOLEAN
    BY <1>2 DEF TypeOK, Message
  <2>2. i \in Identity /\ Sound(i)
    BY <2>1, AddedSound
  <2>3. Unranked(i) \in Identity /\ Sound(Unranked(i))
    BY <2>2, UnrankedSound
  <2>4. peer' = [peer EXCEPT ![e] = Unranked(i)] /\ own' = own
    BY <1>3 DEF HandlePath
  <2>5. net' = (net \ {m}) \union {Reply(m.from, m.id, r) : r \in i.paths}
    BY <1>3 DEF HandlePath
  <2>6. \A r \in i.paths : /\ Reply(m.from, m.id, r) \in Message
                           /\ Reply(m.from, m.id, r).over \in Routes
    <3>1. TAKE r \in i.paths
    <3>2. r \in Routes /\ m.id \in 1..MaxAsks
      BY <2>2, <1>2 DEF Identity, Message
    <3> QED BY <3>2, <1>2 DEF Reply, Message
  <2>7. peer' \in [Ends -> Identity]
    BY <2>3, <2>4 DEF TypeOK
  <2>8. \A x \in Ends : Sound(peer[x])'
    <3>1. TAKE x \in Ends
    <3>2. peer'[x] = (IF x = e THEN Unranked(i) ELSE peer[x])
      BY <2>4 DEF TypeOK
    <3>3. Sound(peer'[x])
      BY <3>2, <2>3
    <3> QED BY <3>3, <1>1 DEF Sound, Best, Rank
  <2>9. net' \subseteq Message /\ \A n \in net' : n.kind = "reply" => n.over \in Routes
    BY <2>5, <2>6 DEF TypeOK
  <2> QED BY <1>1, <2>4, <2>7, <2>8, <2>9 DEF TypeOK
<1>4. CASE m.kind = "reply" /\ HandleReply(m)
  <2> DEFINE e == m.from
             i == Added(peer[e], {m.over}, own'[e])
  <2>1. m.over \in Routes /\ m.over \in works
    BY <1>4 DEF Deliver, Routes, Relayed
  <2>2. own' = [own EXCEPT ![e] = @ \union {m.over}] /\ net' = net \ {m}
        /\ peer' = [peer EXCEPT ![e] = Ranked(i, m.over)]
    BY <1>4 DEF HandleReply
  <2>3. own' \in [Ends -> SUBSET Routes]
    BY <2>1, <2>2, <1>2 DEF TypeOK
  <2>4. peer[e] \in Identity /\ Sound(peer[e]) /\ own'[e] \in SUBSET Routes
        /\ near \in BOOLEAN
    BY <2>3, <1>2 DEF TypeOK
  <2>5. i \in Identity /\ Sound(i) /\ m.over \in i.paths
    <3>1. i \in Identity /\ Sound(i)
      BY <2>1, <2>4, AddedSound
    <3>2. m.over \in i.paths
      BY <2>4 DEF Added, Identity
    <3> QED BY <3>1, <3>2
  <2>6. Ranked(i, m.over) \in Identity /\ Sound(Ranked(i, m.over))
    BY <2>1, <2>5, RankedSound
  <2>7. peer' \in [Ends -> Identity]
    BY <2>2, <2>6 DEF TypeOK
  <2>8. \A x \in Ends : Sound(peer[x])'
    <3>1. TAKE x \in Ends
    <3>2. peer'[x] = (IF x = e THEN Ranked(i, m.over) ELSE peer[x])
      BY <2>2 DEF TypeOK
    <3>3. Sound(peer'[x])
      BY <3>2, <2>6
    <3> QED BY <3>3, <1>1 DEF Sound, Best, Rank
  <2> QED BY <1>1, <2>2, <2>3, <2>7, <2>8 DEF TypeOK
<1>5. CASE m.kind = "reply" /\ RefuseReply(m)
  BY <1>1, <1>5 DEF RefuseReply, TypeOK, Sound, Best, Rank
<1> QED BY <1>3, <1>4, <1>5 DEF Deliver

\* A step that leaves the identities and the place alone keeps them sound.
LEMMA SoundKept ==
  ASSUME PathInv, peer' = peer, works' = works
  PROVE  (\A e \in Ends : Sound(peer[e]))'
BY DEF PathInv, Sound, Best, Rank

LEMMA NextPathInv == PathInv /\ [Next]_vars => PathInv'
<1> SUFFICES ASSUME PathInv, [Next]_vars PROVE PathInv'
  OBVIOUS
<1>1. ASSUME NEW e \in Ends, Negotiate(e) PROVE PathInv'
  <2>1. peer' = peer /\ works' = works /\ near' = near /\ own' = own
        /\ faults' = faults
    BY <1>1 DEF Negotiate, place
  <2>2. asks[e] + 1 \in 1..MaxAsks
    BY <1>1, TwoSwitches, BoundsAreNat DEF Negotiate, PathInv, TypeOK, Ends
  <2>3. Request(e, asks[e] + 1) \in Message /\ Request(e, asks[e] + 1).kind = "path"
    BY <1>1, <2>2 DEF PathInv, TypeOK, Request, Offers, Message, Identity
  <2>4. asks' \in [Ends -> 0..MaxAsks] /\ open' \in [Ends -> SUBSET (1..MaxAsks)]
    BY <1>1, <2>2, BoundsAreNat DEF Negotiate, PathInv, TypeOK
  <2>5. net' = net \union {Request(e, asks[e] + 1)}
    BY <1>1 DEF Negotiate
  <2> QED BY <2>1, <2>3, <2>4, <2>5, SoundKept DEF PathInv, TypeOK
<1>2. ASSUME NEW e \in Ends, NEW id \in open[e], Expire(e, id) PROVE PathInv'
  <2>1. peer' = peer /\ works' = works /\ near' = near /\ own' = own
        /\ asks' = asks /\ net' = net
    BY <1>2 DEF Expire, place
  <2>2. faults' \in 0..MaxFaults
    BY <1>2, BoundsAreNat DEF Expire, PathInv, TypeOK
  <2>3. open' \in [Ends -> SUBSET (1..MaxAsks)]
    BY <1>2 DEF Expire, PathInv, TypeOK
  <2> QED BY <2>1, <2>2, <2>3, SoundKept DEF PathInv, TypeOK
<1>3. ASSUME NEW m \in net, Deliver(m) PROVE PathInv'
  BY <1>3, DeliverPathInv
<1>4. ASSUME NEW m \in net, Lose(m) PROVE PathInv'
  <2>1. peer' = peer /\ works' = works /\ near' = near /\ own' = own
        /\ asks' = asks /\ open' = open /\ net' \subseteq net
    BY <1>4 DEF Lose, place
  <2>2. faults' \in 0..MaxFaults
    BY <1>4, BoundsAreNat DEF Lose, PathInv, TypeOK
  <2> QED BY <2>1, <2>2, SoundKept DEF PathInv, TypeOK
<1>5. CASE UNCHANGED vars
  <2>1. peer' = peer /\ works' = works
    BY <1>5 DEF vars
  <2> QED BY <1>5, <2>1, SoundKept DEF vars, PathInv, TypeOK
<1> QED BY <1>1, <1>2, <1>3, <1>4, <1>5 DEF Next

\* The inductive invariant of the paths: answers come along paths, and no
\* priority exceeds the rank of its path or that of the active one.
THEOREM PathInvariant == Spec => []PathInv
BY InitPathInv, NextPathInv, PTL DEF Spec

\* Every reachable state is typed; in particular no priority exceeds 2,
\* whatever answers come (checkPriorityPath).
THEOREM PathTypeCorrect == Spec => []TypeOK
<1>1. PathInv => TypeOK
  BY DEF PathInv
<1> QED BY <1>1, PathInvariant, PTL

\* The active path is one on which something has come from the peer and has
\* the highest priority, for any number of negotiations, losses and late
\* answers (handlePath, checkPriorityPath).
THEOREM ActiveCorrect == Spec => []ActiveJustified
<1>1. PathInv => ActiveJustified
  BY DEF PathInv, ActiveJustified, Sound, Best
<1> QED BY <1>1, PathInvariant, PTL

================================================================================
