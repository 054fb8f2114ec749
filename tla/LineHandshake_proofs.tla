------------------------- MODULE LineHandshake_proofs -------------------------
(***************************************************************************)
(* What holds of the lines two switches open, for every bound: openLines   *)
(* lists the current line exactly when it is open, no channel outlives the *)
(* second of the line it was opened on, a line that was begun gets its     *)
(* link, and two switches that go with each other's lines stay so.         *)
(***************************************************************************)
EXTENDS LineHandshake, SequenceTheorems, TLAPS

Number == Nat \ {0}

\* What an identity keeps: its entry in openLines and its current line go
\* together, and the job of a line that is not open is pending.
Good(i) ==
  /\ i.listed = IF i.out = 0 THEN {} ELSE {i.line}
  /\ i.line = 0 => i.out = 0
  /\ i.line # 0 /\ i.out = 0 => i.job # 0

\* What it keeps of the peer: a line the peer made, and channels opened on that
\* line or on one of the same second.
Sound(e, i) ==
  /\ i.out <= Made(Peer(e))
  /\ \A c \in i.chans :
       /\ c.on <= Made(Peer(e))
       /\ c.on # 0 => i.out # 0 /\ At(e, c.on) = At(e, i.out)

Fits(e, i) == i \in Identity /\ Good(i) /\ Sound(e, i)

\* The seconds of a switch's lines rise, from 1.
Rising ==
  \A e \in Ends : \A m, n \in 1..Made(e) :
    at[e][m] >= 1 /\ (m <= n => at[e][m] <= at[e][n])

\* The inductive invariant: a line is the last its switch made, and only lines
\* that were made have opens on their way.
LineInv ==
  /\ TypeOK
  /\ Rising
  /\ \A e \in Ends : /\ Fits(e, idn[e])
                     /\ idn[e].line \in {0, Made(e)}
                     /\ net[e] \subseteq 1..Made(Peer(e))

\* What a step of e does, whichever it is: it keeps its line, gives it up or
\* makes the next one, and the open of a new line is sent.
Moves(e) ==
  LET p == Peer(e) IN
  /\ idn'[p] = idn[p] /\ at'[p] = at[p]
  /\ net[p] \subseteq net'[p]
  /\ \/ idn'[e].line \in {0, idn[e].line} /\ at'[e] = at[e]
     \/ /\ idn'[e].line = Fresh(e) /\ Made(e)' = Fresh(e)
        /\ idn'[e].line \in net'[p]

\* A step that is no fault gives up no line, goes back to no line of an earlier
\* second, and opens the link of a line that was begun.
Holds(e) ==
  /\ faults' = faults
  /\ idn'[e].line = idn[e].line \/ idn[e].line = 0
  /\ idn[e].line # 0 => At(e, idn[e].out) <= At(e, idn'[e].out)
  /\ \A n \in net[e] \ net'[e] : At(e, n) <= At(e, idn'[e].out)
  /\ /\ idn[e].line # 0 /\ idn[e].out = 0 /\ idn'[e].out # 0
     /\ LinkOf(idn[e]) = {} \/ idn[e].wait = "none"
     => LinkOf(idn'[e]) # {}

\* A fault leaves its switch without an open line.
Fails(e) == faults' = faults + 1 /\ idn'[e].out = 0

Steps(e) == Moves(e) /\ (Holds(e) \/ Fails(e))

LEMMA PeerOf ==
  ASSUME NEW e \in Ends
  PROVE  /\ Peer(e) \in Ends /\ Peer(e) # e /\ Peer(Peer(e)) = e
         /\ \A x \in Ends : x = e \/ x = Peer(e)
BY TwoSwitches DEF Peer, Ends

\* What LineInv says of one end.
LEMMA InvAt ==
  ASSUME LineInv, NEW e \in Ends
  PROVE  /\ idn[e] \in Identity /\ Good(idn[e]) /\ Sound(e, idn[e])
         /\ idn[e].line \in Nat /\ idn[e].out \in Nat /\ Made(e) \in Nat
         /\ idn[e].line \in {0, Made(e)}
         /\ Fresh(e) \in Number /\ Fresh(e) = Made(e) + 1
         /\ net[e] \subseteq 1..Made(Peer(e))
<1>1. /\ idn[e] \in Identity /\ Good(idn[e]) /\ Sound(e, idn[e])
      /\ idn[e].line \in {0, Made(e)} /\ net[e] \subseteq 1..Made(Peer(e))
  BY DEF LineInv, Fits
<1>2. at[e] \in Seq(Nat)
  BY DEF LineInv, TypeOK
<1>3. Made(e) \in Nat
  BY <1>2, LenProperties DEF Made
<1> QED BY <1>1, <1>3 DEF Identity, Fresh, Number

\* The seconds of the peer's lines.
LEMMA Times ==
  ASSUME LineInv, NEW e \in Ends
  PROVE  /\ At(e, 0) = 0
         /\ \A n \in 1..Made(Peer(e)) : At(e, n) \in Nat /\ At(e, n) >= 1
         /\ \A n \in 0..Made(Peer(e)) : At(e, n) \in Nat
         /\ \A m, n \in 0..Made(Peer(e)) : m <= n => At(e, m) <= At(e, n)
<1> DEFINE p == Peer(e)
<1>1. p \in Ends
  BY PeerOf
<1>2. at[p] \in Seq(Nat) /\ Made(p) \in Nat
  BY <1>1, InvAt DEF LineInv, TypeOK
<1>3. \A n \in 1..Made(p) : at[p][n] \in Nat
  BY <1>2, ElementOfSeq DEF Made
<1>4. \A m, n \in 1..Made(p) : at[p][m] >= 1 /\ (m <= n => at[p][m] <= at[p][n])
  BY <1>1 DEF LineInv, Rising
<1>5. \A n : At(e, n) = IF n = 0 THEN 0 ELSE at[p][n]
  BY DEF At
<1> HIDE DEF p
<1>6. \A n \in 1..Made(p) : At(e, n) \in Nat /\ At(e, n) >= 1
  BY <1>2, <1>3, <1>4, <1>5
<1>7. At(e, 0) = 0 /\ \A n \in 0..Made(p) : n = 0 \/ n \in 1..Made(p)
  BY <1>2, <1>5
<1>8. \A n \in 0..Made(p) : At(e, n) \in Nat
  BY <1>6, <1>7
<1>9. ASSUME NEW m \in 0..Made(p), NEW n \in 0..Made(p), m <= n
      PROVE  At(e, m) <= At(e, n)
  <2>1. CASE m = 0
    BY <1>7, <1>8, <2>1
  <2>2. CASE m # 0
    <3>1. m \in 1..Made(p) /\ n \in 1..Made(p)
      BY <1>2, <1>9, <2>2
    <3> QED BY <1>4, <1>5, <1>9, <3>1
  <2> QED BY <2>1, <2>2
<1> QED BY <1>6, <1>7, <1>8, <1>9 DEF p

------------------------------------------------------------------------------
(* What the parts of the handlers leave of an identity.                    *)

\* Two identities that have the same channels and line of the peer.
LEMMA SoundSame ==
  ASSUME NEW e, NEW i, NEW k, Sound(e, i), k.out = i.out, k.chans \subseteq i.chans
  PROVE  Sound(e, k)
BY DEF Sound

\* Entering a channel in the table: it is found there, and fits.
LEMMA OpenedFits ==
  ASSUME LineInv, NEW e \in Ends, NEW i, Fits(e, i), NEW t \in Types
  PROVE  /\ Fits(e, Opened(i, t))
         /\ Opened(i, t).line = i.line /\ Opened(i, t).out = i.out
         /\ Opened(i, t).wait = i.wait /\ Opened(i, t).job = i.job
         /\ Opened(i, t).timers = i.timers /\ Opened(i, t).knows = i.knows
         /\ Opened(i, t).next = i.next + 2
         /\ Opened(i, t).chans = {c \in i.chans : c.id # i.next + 2}
                                 \union {[id |-> i.next + 2, type |-> t, on |-> i.out]}
<1> DEFINE n == i.next + 2
           o == [id |-> n, type |-> t, on |-> i.out]
           cs == {c \in i.chans : c.id # n} \union {o}
<1>1. Opened(i, t) = [i EXCEPT !.next = n, !.chans = cs]
  BY DEF Opened
<1>2. i \in Identity /\ n \in Nat
  BY DEF Fits, Identity
<1>3. o \in [id : Nat, type : Types, on : Nat] /\ o.on = i.out
  BY <1>2 DEF Identity
<1>4. cs \in SUBSET [id : Nat, type : Types, on : Nat]
  BY <1>2, <1>3 DEF Identity
<1>5. \A c \in cs : c.on = i.out \/ c \in i.chans
  BY <1>3
<1> HIDE DEF n, o, cs
<1>6. Opened(i, t) \in Identity
  BY <1>1, <1>2, <1>4 DEF Identity
<1>7. /\ Opened(i, t).next = n /\ Opened(i, t).chans = cs
      /\ Opened(i, t).line = i.line /\ Opened(i, t).wait = i.wait
      /\ Opened(i, t).out = i.out /\ Opened(i, t).listed = i.listed
      /\ Opened(i, t).job = i.job /\ Opened(i, t).timers = i.timers
      /\ Opened(i, t).knows = i.knows
  BY <1>1, <1>2 DEF Identity
<1>8. Good(Opened(i, t))
  BY <1>7 DEF Fits, Good
<1>9. Sound(e, Opened(i, t))
  BY <1>5, <1>7 DEF Fits, Sound
<1> QED BY <1>6, <1>7, <1>8, <1>9 DEF Fits, n, o, cs

\* openLine, which keeps a line there is and sends the open of one it makes.
LEMMA OpeningFits ==
  ASSUME LineInv, NEW e \in Ends, NEW i, Fits(e, i), MayStart(i), NEW n \in Number
  PROVE  /\ Fits(e, Opening(i, n))
         /\ SendsOpen(i) \in BOOLEAN
         /\ SendsOpen(i) => Opening(i, n).line # 0
         /\ Opening(i, n).out = i.out
         /\ \/ Opening(i, n).line = i.line
            \/ i.line = 0 /\ Opening(i, n).line = n /\ SendsOpen(i)
<1>0. 0 \notin Jobs
  BY BoundsAreNat DEF Jobs
<1> DEFINE j == IF i.job # 0 THEN i.job ELSE CHOOSE k \in Jobs : k \notin i.timers
<1>1. i \in Identity /\ Good(i) /\ Sound(e, i)
  BY DEF Fits
<1>2. j \in Jobs /\ j # 0
  BY <1>0, <1>1 DEF Identity, MayStart
<1> DEFINE ts == IF i.job # 0 THEN i.timers ELSE i.timers \union {j}
           l == IF i.line = 0 /\ i.knows THEN n ELSE i.line
<1>3. Opening(i, n) =
        IF Bails(i) THEN i
        ELSE [i EXCEPT !.job = j, !.timers = ts, !.line = l]
  BY DEF Opening
<1>4. ts \in SUBSET Jobs /\ l \in Nat
  BY <1>1, <1>2 DEF Identity, Number
<1>5. /\ l = 0 => i.line = 0
      /\ l # i.line => i.line = 0 /\ l = n /\ i.knows
      /\ i.knows => l # 0
  BY DEF Number
<1>6. SendsOpen(i) \in BOOLEAN
  BY <1>1 DEF SendsOpen, Bails, Identity
<1> HIDE DEF j, ts, l
<1>7. CASE Bails(i)
  BY <1>3, <1>6, <1>7 DEF SendsOpen
<1>8. CASE ~Bails(i)
  <2> DEFINE r == [i EXCEPT !.job = j, !.timers = ts, !.line = l]
  <2>1. Opening(i, n) = r
    BY <1>3, <1>8
  <2>2. r \in Identity
    BY <1>1, <1>2, <1>4 DEF Identity
  <2>3. /\ r.line = l /\ r.out = i.out /\ r.listed = i.listed
        /\ r.chans = i.chans /\ r.job = j
    BY <1>1 DEF Identity
  <2> HIDE DEF r
  <2>4. Good(r)
    BY <1>1, <1>2, <1>5, <2>3 DEF Good
  <2>5. Sound(e, r)
    BY <1>1, <2>3, SoundSame
  <2>6. SendsOpen(i) <=> i.knows
    BY <1>1, <1>8 DEF SendsOpen, Identity
  <2> QED BY <1>5, <1>6, <2>1, <2>2, <2>3, <2>4, <2>5, <2>6 DEF Fits
<1> QED BY <1>7, <1>8

\* An open that is not dumped: channels stay only if it is of the same second.
LEMMA KeyedFits ==
  ASSUME LineInv, NEW e \in Ends, NEW n \in net[e], ~Dumped(e, idn[e], n)
  PROVE  LET i == idn[e]
             k == Keyed(e, i, n)
         IN /\ Fits(e, k)
            /\ k.out = n /\ k.line = IF i.line # 0 THEN i.line ELSE Fresh(e)
            /\ k.wait = i.wait
            /\ i.out = 0 => k.chans = i.chans
            /\ i.line # 0 => At(e, i.out) <= At(e, n)
<1> DEFINE i == idn[e]
           l == IF i.line # 0 THEN i.line ELSE Fresh(e)
           cs == IF i.out > 0 /\ At(e, i.out) < At(e, n) THEN {} ELSE i.chans
           r == [i EXCEPT !.line = l, !.out = n, !.next = FirstId(e),
                          !.listed = {l}, !.chans = cs, !.reach = TRUE,
                          !.knows = TRUE, !.met = TRUE, !.job = 0]
<1>1. /\ i \in Identity /\ Good(i) /\ Sound(e, i) /\ i.out \in Nat
      /\ Fresh(e) \in Number /\ net[e] \subseteq 1..Made(Peer(e))
  BY InvAt
<1>2. n \in 1..Made(Peer(e)) /\ n \in Number /\ Made(Peer(e)) \in Nat
  BY <1>1, InvAt, PeerOf DEF Number
<1>3. l \in Number /\ i.listed \union {l} = {l}
  BY <1>1 DEF Identity, Number, Good
<1>4. FirstId(e) \in Nat
  BY DEF FirstId
<1>5. Keyed(e, i, n) = r
  BY <1>3 DEF Keyed
<1>6. cs \in SUBSET [id : Nat, type : Types, on : Nat] /\ cs \subseteq i.chans
  BY <1>1 DEF Identity
<1>7. i.out \in 0..Made(Peer(e)) /\ At(e, i.out) \in Nat /\ At(e, n) \in Nat
  <2>1. i.out \in 0..Made(Peer(e))
    BY <1>1, <1>2 DEF Sound
  <2> QED BY <1>2, <2>1, Times
<1>8. i.line # 0 => At(e, i.out) <= At(e, n)
  BY <1>7 DEF Dumped
<1>9. \A c \in cs : c.on # 0 => At(e, c.on) = At(e, n)
  <2> SUFFICES ASSUME NEW c \in cs, c.on # 0 PROVE At(e, c.on) = At(e, n)
    OBVIOUS
  <2>1. c \in i.chans /\ i.out # 0 /\ At(e, c.on) = At(e, i.out)
    BY <1>1, <1>6 DEF Sound
  <2>2. i.line # 0 /\ i.out > 0
    BY <1>1, <2>1 DEF Good
  <2>3. ~(At(e, i.out) < At(e, n))
    BY <2>2
  <2> QED BY <1>7, <1>8, <2>1, <2>2, <2>3
<1>10. i.out = 0 => cs = i.chans
  OBVIOUS
<1>11. l = IF i.line # 0 THEN i.line ELSE Fresh(e)
  OBVIOUS
<1> HIDE DEF l, cs
<1>12. r \in Identity
  BY <1>1, <1>2, <1>3, <1>4, <1>6 DEF Identity, Number
<1>13. /\ r.line = l /\ r.out = n /\ r.listed = {l} /\ r.chans = cs
       /\ r.wait = i.wait
  BY <1>1 DEF Identity
<1> HIDE DEF r
<1>14. Good(r)
  BY <1>2, <1>3, <1>13 DEF Good, Number
<1>15. Sound(e, r)
  BY <1>1, <1>2, <1>6, <1>9, <1>13 DEF Sound, Number
<1> HIDE DEF i
<1> QED BY <1>5, <1>8, <1>10, <1>11, <1>12, <1>13, <1>14, <1>15 DEF Fits, i

\* Giving the line up.
LEMMA ClosedFits ==
  ASSUME LineInv, NEW e \in Ends, NEW i, Fits(e, i)
  PROVE  /\ Fits(e, Closed(i)) /\ Closed(i).line = 0 /\ Closed(i).out = 0
         /\ Closed(i).job = i.job /\ Closed(i).timers = i.timers
<1>1. /\ i \in Identity /\ Good(i) /\ Made(Peer(e)) \in Nat
  BY InvAt, PeerOf DEF Fits
<1>2. /\ Closed(i) \in Identity /\ Closed(i).line = 0 /\ Closed(i).out = 0
      /\ Closed(i).chans = {} /\ Closed(i).listed = {}
      /\ Closed(i).job = i.job /\ Closed(i).timers = i.timers
  BY <1>1 DEF Identity, Good, Closed
<1> HIDE DEF Closed
<1> QED BY <1>1, <1>2 DEF Fits, Good, Sound

\* The link of an answer and the channel that waited.
LEMMA ServedFits ==
  ASSUME LineInv, NEW e \in Ends, NEW i, Fits(e, i)
  PROVE  /\ Fits(e, Served(i))
         /\ Served(i).line = i.line /\ Served(i).out = i.out
         /\ Fits(e, Linked(i))
         /\ Linked(i).line = i.line /\ Linked(i).out = i.out
<1>1. "link" \in Types
  BY DEF Types
<1>2. /\ Fits(e, Linked(i))
      /\ Linked(i).line = i.line /\ Linked(i).out = i.out
  BY <1>1, OpenedFits DEF Linked
<1>3. CASE i.wait = "none"
  BY <1>2, <1>3 DEF Served
<1>4. CASE i.wait # "none"
  <2> DEFINE o == Opened(i, i.wait)
             w == [o EXCEPT !.wait = "none"]
  <2>1. i.wait \in Types
    BY <1>4 DEF Fits, Identity
  <2>2. Fits(e, o) /\ o.line = i.line /\ o.out = i.out
    BY <2>1, OpenedFits
  <2>3. Served(i) = w
    BY <1>4 DEF Served
  <2> HIDE DEF o
  <2>4. /\ w \in Identity /\ w.line = o.line /\ w.out = o.out
        /\ w.listed = o.listed /\ w.chans = o.chans /\ w.job = o.job
    BY <2>2 DEF Fits, Identity
  <2> HIDE DEF w
  <2>5. Good(w) /\ Sound(e, w)
    BY <2>2, <2>4, SoundSame DEF Fits, Good
  <2> QED BY <1>2, <2>2, <2>3, <2>4, <2>5 DEF Fits
<1> QED BY <1>3, <1>4

\* An answer is served with a link, unless the channel that waits takes the
\* place of a link opened before.
LEMMA ServedLink ==
  ASSUME LineInv, NEW e \in Ends, NEW i, Fits(e, i),
         LinkOf(i) = {} \/ i.wait = "none"
  PROVE  LinkOf(Served(Linked(i))) # {}
<1> DEFINE k == Linked(i)
           o == [id |-> i.next + 2, type |-> "link", on |-> i.out]
<1>1. i \in Identity /\ i.next \in Nat /\ "link" \in Types
  BY DEF Fits, Identity, Types
<1>2. CASE LinkOf(i) # {}
  <2>1. k = i /\ i.wait = "none"
    BY <1>2 DEF Linked
  <2>2. Served(k) = i
    BY <2>1 DEF Served
  <2> QED BY <1>2, <2>2
<1>3. CASE LinkOf(i) = {}
  <2>1. k = Opened(i, "link")
    BY <1>3 DEF Linked
  <2>2. Fits(e, k) /\ o \in k.chans /\ k.next = i.next + 2
    BY <1>1, <2>1, OpenedFits
  <2>3. o.type = "link" /\ o.id = i.next + 2
    OBVIOUS
  <2> HIDE DEF k, o
  <2>4. CASE k.wait = "none"
    <3>1. Served(k) = k
      BY <2>4 DEF Served
    <3> QED BY <2>2, <2>3, <3>1 DEF LinkOf, k
  <2>5. CASE k.wait # "none"
    <3> DEFINE s == Opened(k, k.wait)
               w == [s EXCEPT !.wait = "none"]
    <3>1. k.wait \in Types
      BY <2>2, <2>5 DEF Fits, Identity
    <3>2. /\ Fits(e, s)
          /\ s.chans = {c \in k.chans : c.id # k.next + 2}
                       \union {[id |-> k.next + 2, type |-> k.wait, on |-> k.out]}
      BY <2>2, <3>1, OpenedFits
    <3>3. o \in s.chans
      BY <1>1, <2>2, <2>3, <3>2
    <3>4. Served(k) = w
      BY <2>5 DEF Served
    <3> HIDE DEF s
    <3>5. w.chans = s.chans
      BY <3>2 DEF Fits, Identity
    <3> HIDE DEF w
    <3> QED BY <2>3, <3>3, <3>4, <3>5 DEF LinkOf, k
  <2> QED BY <2>4, <2>5
<1> QED BY <1>2, <1>3

------------------------------------------------------------------------------
(* The steps.                                                              *)

\* The seconds a switch's lines were made in stay; a new line's is no earlier.
LEMMA Grown ==
  ASSUME LineInv, NEW e \in Ends, NEW s \in Seconds(e),
         at' = [at EXCEPT ![e] = Append(@, s)]
  PROVE  /\ at' \in [Ends -> Seq(Nat)] /\ Rising'
         /\ Made(e)' = Fresh(e)
         /\ at'[Peer(e)] = at[Peer(e)]
         /\ \A n \in 1..Made(e) : at'[e][n] = at[e][n]
<1>1. /\ at \in [Ends -> Seq(Nat)] /\ at[e] \in Seq(Nat)
      /\ Made(e) \in Nat /\ Fresh(e) = Made(e) + 1
  BY InvAt DEF LineInv, TypeOK
<1>2. /\ \A x \in Ends : \A m, n \in 1..Made(x) :
           at[x][m] >= 1 /\ (m <= n => at[x][m] <= at[x][n])
      /\ \A n \in 1..Made(e) : at[e][n] \in Nat
  BY <1>1, ElementOfSeq DEF LineInv, Rising, Made
<1>3. /\ s \in Nat /\ s >= 1
      /\ \A n \in 1..Made(e) : at[e][n] <= s
  <2>1. CASE Made(e) = 0
    BY <1>1, <2>1 DEF Seconds
  <2>2. CASE Made(e) # 0
    <3>1. Made(e) \in 1..Made(e) /\ s \in {at[e][Made(e)], at[e][Made(e)] + 1}
      BY <1>1, <2>2 DEF Seconds
    <3>2. /\ at[e][Made(e)] \in Nat /\ at[e][Made(e)] >= 1
          /\ \A n \in 1..Made(e) : at[e][n] <= at[e][Made(e)]
      BY <1>2, <3>1
    <3> QED BY <1>2, <3>1, <3>2
  <2> QED BY <2>1, <2>2
<1>4. /\ at'[e] = Append(at[e], s) /\ at'[Peer(e)] = at[Peer(e)]
      /\ \A x \in Ends : x # e => at'[x] = at[x]
  BY <1>1, PeerOf
<1>5. /\ at'[e] \in Seq(Nat) /\ Made(e)' = Made(e) + 1
      /\ \A n \in 1..Made(e) : at'[e][n] = at[e][n]
      /\ at'[e][Made(e) + 1] = s
  <2>1. /\ Append(at[e], s) \in Seq(Nat) /\ Len(Append(at[e], s)) = Len(at[e]) + 1
        /\ \A n \in 1..Len(at[e]) : Append(at[e], s)[n] = at[e][n]
        /\ Append(at[e], s)[Len(at[e]) + 1] = s
    BY <1>1, <1>3, AppendProperties
  <2> QED BY <1>4, <2>1 DEF Made
<1>6. at' \in [Ends -> Seq(Nat)]
  BY <1>1, <1>5
<1>7. Rising'
  <2>1. ASSUME NEW m \in 1..(Made(e) + 1), NEW n \in 1..(Made(e) + 1)
        PROVE  at'[e][m] >= 1 /\ (m <= n => at'[e][m] <= at'[e][n])
    <3>1. /\ m \in 1..Made(e) \/ m = Made(e) + 1
          /\ n \in 1..Made(e) \/ n = Made(e) + 1
      BY <1>1, <2>1
    <3>2. CASE m \in 1..Made(e) /\ n \in 1..Made(e)
      BY <1>2, <1>5, <3>2
    <3>3. CASE m \in 1..Made(e) /\ n = Made(e) + 1
      BY <1>2, <1>3, <1>5, <3>3
    <3>4. CASE m = Made(e) + 1
      <4>1. m <= n => n = Made(e) + 1
        BY <1>1, <3>1, <3>4
      <4>2. at'[e][m] = s /\ (n = Made(e) + 1 => at'[e][n] = s)
        BY <1>5, <3>4
      <4>3. at'[e][m] >= 1 /\ (n = Made(e) + 1 => at'[e][m] <= at'[e][n])
        <5>1. s >= 1 /\ s <= s
          BY <1>3
        <5> QED BY <4>2, <5>1, Zenon
      <4> QED BY <4>1, <4>3
    <3> QED BY <3>1, <3>2, <3>3, <3>4
  <2>2. ASSUME NEW x \in Ends, x # e,
               NEW m \in 1..Made(x)', NEW n \in 1..Made(x)'
        PROVE  at'[x][m] >= 1 /\ (m <= n => at'[x][m] <= at'[x][n])
    <3>1. at'[x] = at[x] /\ Made(x)' = Made(x)
      BY <1>4, <2>2 DEF Made
    <3> QED BY <1>2, <2>2, <3>1
  <2>3. ASSUME NEW x \in Ends, NEW m \in 1..Made(x)', NEW n \in 1..Made(x)'
        PROVE  at'[x][m] >= 1 /\ (m <= n => at'[x][m] <= at'[x][n])
    <3>1. CASE x = e
      BY <1>5, <2>1, <2>3, <3>1
    <3>2. CASE x # e
      BY <2>2, <2>3, <3>2
    <3> QED BY <3>1, <3>2
  <2> QED BY <2>3 DEF Rising
<1> QED BY <1>1, <1>4, <1>5, <1>6, <1>7

\* Sound(e, i) for the seconds after the step.
AtNext(e, n) == IF n = 0 THEN 0 ELSE at'[Peer(e)][n]

SoundNext(e, i) ==
  /\ i.out <= Len(at'[Peer(e)])
  /\ \A c \in i.chans :
       /\ c.on <= Len(at'[Peer(e)])
       /\ c.on # 0 => i.out # 0 /\ AtNext(e, c.on) = AtNext(e, i.out)

\* What is kept of the peer stays right while the seconds of its lines stay.
LEMMA SoundLasts ==
  ASSUME LineInv, NEW e \in Ends, NEW i, Fits(e, i),
         Len(at'[Peer(e)]) \in Nat, Made(Peer(e)) <= Len(at'[Peer(e)]),
         \A n \in 1..Made(Peer(e)) : at'[Peer(e)][n] = at[Peer(e)][n]
  PROVE  SoundNext(e, i)
<1> DEFINE p == Peer(e)
           l == Len(at'[p])
<1>1. /\ i.out \in Nat /\ i.chans \subseteq [id : Nat, type : Types, on : Nat]
      /\ Made(p) \in Nat /\ Sound(e, i)
  BY InvAt, PeerOf DEF Fits, Identity
<1>2. \A n \in 0..Made(p) : AtNext(e, n) = At(e, n)
  <2> SUFFICES ASSUME NEW n \in 0..Made(p) PROVE AtNext(e, n) = At(e, n)
    OBVIOUS
  <2>1. n = 0 \/ n \in 1..Made(p)
    BY <1>1
  <2>2. n # 0 => at'[p][n] = at[p][n]
    BY <2>1
  <2> QED BY <2>2 DEF At, AtNext
<1>3. l \in Nat /\ Made(p) <= l
  OBVIOUS
<1> HIDE DEF l
<1>4. i.out <= Made(p) /\ i.out <= l /\ i.out \in 0..Made(p)
  BY <1>1, <1>3 DEF Sound
<1>5. ASSUME NEW c \in i.chans
      PROVE  /\ c.on <= l
             /\ c.on # 0 => i.out # 0 /\ AtNext(e, c.on) = AtNext(e, i.out)
  <2>1. c.on \in Nat
    BY <1>1
  <2>2. c.on <= Made(p) /\ (c.on # 0 => i.out # 0 /\ At(e, c.on) = At(e, i.out))
    BY <1>1 DEF Sound
  <2>3. c.on \in 0..Made(p) /\ c.on <= l
    BY <1>1, <1>3, <2>1, <2>2
  <2> QED BY <1>2, <1>4, <2>2, <2>3
<1> QED BY <1>4, <1>5 DEF SoundNext, l

\* A switch that is left with an identity that fits, with the line it had, the
\* next one or none, keeps the invariant and moves.
LEMMA BecomesKeeps ==
  ASSUME LineInv, NEW e \in Ends, NEW i, Fits(e, i),
         NEW opens \in BOOLEAN, opens => i.line # 0,
         \/ i.line \in {0, idn[e].line}
         \/ i.line = Fresh(e) /\ opens,
         NEW q \in [Ends -> SUBSET Nat],
         q[e] \subseteq net[e], q[Peer(e)] = net[Peer(e)],
         Becomes(e, i, opens, q), faults' \in 0..MaxFaults
  PROVE  /\ LineInv' /\ Moves(e)
         /\ idn'[e] = i /\ net'[e] = q[e]
<1> DEFINE p == Peer(e)
<1>1. p \in Ends /\ p # e /\ Peer(p) = e /\ \A x \in Ends : x = e \/ x = p
  BY PeerOf
<1>2. /\ idn \in [Ends -> Identity] /\ at \in [Ends -> Seq(Nat)]
      /\ Made(e) \in Nat /\ Made(p) \in Nat
      /\ Fresh(e) = Made(e) + 1 /\ idn[e].line \in {0, Made(e)}
      /\ idn[p].line \in {0, Made(p)} /\ Fits(p, idn[p])
      /\ net[e] \subseteq 1..Made(p) /\ net[p] \subseteq 1..Made(e)
  BY <1>1, InvAt DEF LineInv, TypeOK
<1>3. i \in Identity /\ Good(i) /\ i.line \in Nat
  BY DEF Fits, Identity
<1>4. idn' = [idn EXCEPT ![e] = i] /\ idn'[e] = i /\ idn'[p] = idn[p]
  BY <1>1, <1>2 DEF Becomes
<1>5. /\ net' \in [Ends -> SUBSET Nat] /\ net'[e] = q[e]
      /\ net'[p] = IF opens THEN net[p] \union {i.line} ELSE net[p]
  BY <1>1, <1>3 DEF Becomes
<1>6. /\ at' \in [Ends -> Seq(Nat)] /\ Rising' /\ at'[p] = at[p]
      /\ \A n \in 1..Made(e) : at'[e][n] = at[e][n]
      /\ \/ i.line <= Made(e) /\ at'[e] = at[e] /\ Made(e)' = Made(e)
         \/ i.line = Fresh(e) /\ opens /\ Made(e)' = Fresh(e)
  <2>1. CASE i.line > Made(e)
    <3>1. PICK s \in Seconds(e) : at' = [at EXCEPT ![e] = Append(@, s)]
      BY <2>1 DEF Becomes
    <3>2. i.line = Fresh(e) /\ opens
      BY <1>2, <1>3, <2>1
    <3> QED BY <3>1, <3>2, Grown
  <2>2. CASE ~(i.line > Made(e))
    <3>1. at' = at
      BY <2>2 DEF Becomes
    <3>2. Rising' /\ Made(e)' = Made(e)
      BY <3>1 DEF LineInv, Rising, Made
    <3> QED BY <1>2, <1>3, <2>2, <3>1, <3>2
  <2> QED BY <2>1, <2>2
<1>7. Made(p)' = Made(p) /\ Made(e)' \in Nat /\ Made(e) <= Made(e)'
  BY <1>2, <1>6 DEF Made
<1>8. /\ \A x \in Ends : Sound(x, idn[x])'
      /\ \A x \in Ends : net'[x] \subseteq 1..Len(at'[Peer(x)])
  <2>1. SoundNext(e, i)
    <3>1. Len(at'[p]) \in Nat /\ Made(p) <= Len(at'[p])
      BY <1>2, <1>6 DEF Made
    <3>2. \A n \in 1..Made(p) : at'[p][n] = at[p][n]
      BY <1>6
    <3> QED BY <3>1, <3>2, SoundLasts
  <2>2. PICK k : k = idn[p]
    OBVIOUS
  <2>3. SoundNext(p, k)
    <3>1. Fits(p, k) /\ Peer(p) = e
      BY <1>1, <1>2, <2>2
    <3>2. Len(at'[e]) \in Nat /\ Made(e) <= Len(at'[e])
      BY <1>7 DEF Made
    <3> QED BY <1>1, <1>6, <3>1, <3>2, SoundLasts
  <2>4. idn'[p] = k
    BY <1>4, <2>2
  <2>5. Sound(e, idn[e])'
    BY <1>4, <2>1 DEF Sound, SoundNext, At, AtNext, Made, Peer
  <2>6. Sound(p, idn[p])'
    BY <2>3, <2>4 DEF Sound, SoundNext, At, AtNext, Made, Peer
  <2>7. net'[e] \subseteq 1..Len(at'[p])
    BY <1>2, <1>5, <1>6 DEF Made
  <2>8. net'[p] \subseteq 1..Len(at'[e])
    <3>1. net[p] \subseteq 1..Len(at'[e])
      BY <1>2, <1>7 DEF Made
    <3>2. opens => i.line \in 1..Len(at'[e])
      <4>1. i.line # 0 => i.line \in 1..Made(e)'
        BY <1>2, <1>3, <1>6, <1>7
      <4> QED BY <4>1 DEF Made
    <3> QED BY <1>5, <3>1, <3>2
  <2> QED BY <1>1, <2>5, <2>6, <2>7, <2>8
<1>9. \A x \in Ends : idn'[x] \in Identity /\ Good(idn'[x])
  BY <1>1, <1>2, <1>3, <1>4 DEF Fits
<1>10. /\ i.line \in {0, Len(at'[e])}
       /\ idn[p].line \in {0, Len(at'[p])}
  BY <1>2, <1>3, <1>6 DEF Made
<1>11. idn' \in [Ends -> Identity]
  BY <1>2, <1>3, <1>4
<1>12. LineInv'
  <2>1. TypeOK'
    BY <1>5, <1>6, <1>11 DEF TypeOK
  <2>2. \A x \in Ends : Fits(x, idn[x])'
    BY <1>8, <1>9 DEF Fits, Good
  <2>3. \A x \in Ends : /\ idn'[x].line \in {0, Len(at'[x])}
                        /\ net'[x] \subseteq 1..Len(at'[Peer(x)])
    BY <1>1, <1>4, <1>8, <1>10
  <2> QED BY <1>6, <2>1, <2>2, <2>3 DEF LineInv, Made, Peer
<1>13. Moves(e)
  <2>1. net[p] \subseteq net'[p]
    BY <1>5
  <2>2. \/ i.line \in {0, idn[e].line} /\ at'[e] = at[e]
        \/ i.line = Fresh(e) /\ Made(e)' = Fresh(e) /\ i.line \in net'[p]
    BY <1>2, <1>3, <1>5, <1>6
  <2> QED BY <1>4, <1>6, <2>1, <2>2 DEF Moves
<1> QED BY <1>4, <1>5, <1>12, <1>13

\* openLine, for an identity i that has the line of e, or none that counts.
LEMMA OpeningStep ==
  ASSUME LineInv, NEW e \in Ends, NEW i, Fits(e, i), MayStart(i),
         Becomes(e, Opening(i, Fresh(e)), SendsOpen(i), net),
         i.line \in {0, idn[e].line},
         faults' \in 0..MaxFaults
  PROVE  /\ LineInv' /\ Moves(e)
         /\ idn'[e].out = i.out /\ net'[e] = net[e]
         /\ idn'[e].line = i.line \/ i.line = 0
<1> DEFINE o == Opening(i, Fresh(e))
<1>1. Fresh(e) \in Number /\ net \in [Ends -> SUBSET Nat]
  BY InvAt DEF LineInv, TypeOK
<1>2. /\ Fits(e, o) /\ SendsOpen(i) \in BOOLEAN
      /\ SendsOpen(i) => o.line # 0
      /\ o.out = i.out
      /\ o.line = i.line \/ (i.line = 0 /\ o.line = Fresh(e) /\ SendsOpen(i))
  BY <1>1, OpeningFits
<1>3. Becomes(e, o, SendsOpen(i), net)
  OBVIOUS
<1> HIDE DEF o
<1>4. LineInv' /\ Moves(e) /\ idn'[e] = o /\ net'[e] = net[e]
  BY <1>1, <1>2, <1>3, BecomesKeeps
<1> QED BY <1>2, <1>4

\* openLine, openChannel: the line stays or there was none.
LEMMA StartStep ==
  ASSUME LineInv, NEW e \in Ends,
         \/ StartLine(e)
         \/ \E t \in Types : PendChannel(e, t) \/ OpenChannel(e, t)
  PROVE  LineInv' /\ Steps(e)
<1> DEFINE d == idn[e]
<1>1. /\ d \in Identity /\ Good(d) /\ Fits(e, d)
      /\ d.out \in 0..Made(Peer(e)) /\ At(e, d.out) \in Nat
  <2>1. d.out \in 0..Made(Peer(e))
    BY InvAt, PeerOf DEF Sound
  <2> QED BY <2>1, InvAt, Times DEF Fits
<1>2. ASSUME faults' = faults PROVE faults' \in 0..MaxFaults
  BY <1>2 DEF LineInv, TypeOK
<1>3. ASSUME NEW i, Fits(e, i), MayStart(i), i.line = d.line, i.out = d.out,
             Becomes(e, Opening(i, Fresh(e)), SendsOpen(i), net),
             faults' = faults
      PROVE  LineInv' /\ Steps(e)
  <2>1. i.line \in {0, idn[e].line}
    BY <1>3
  <2>2. /\ LineInv' /\ Moves(e) /\ idn'[e].out = i.out /\ net'[e] = net[e]
        /\ idn'[e].line = i.line \/ i.line = 0
    BY <1>2, <1>3, <2>1, OpeningStep
  <2>3. Holds(e)
    BY <1>1, <1>3, <2>2 DEF Holds
  <2> QED BY <2>2, <2>3 DEF Steps
<1> HIDE DEF d
<1>4. CASE StartLine(e)
  BY <1>1, <1>3, <1>4 DEF StartLine, d
<1>5. ASSUME NEW t \in Types, PendChannel(e, t)
      PROVE  LineInv' /\ Steps(e)
  <2> DEFINE i == [d EXCEPT !.wait = t]
  <2>1. /\ MayStart(d) /\ faults' = faults
        /\ Becomes(e, Opening(i, Fresh(e)), SendsOpen(i), net)
    BY <1>5 DEF PendChannel, d
  <2>2. /\ i \in Identity /\ i.line = d.line /\ i.out = d.out
        /\ i.job = d.job /\ i.timers = d.timers
        /\ i.listed = d.listed /\ i.chans = d.chans
    BY <1>1 DEF Identity
  <2> HIDE DEF i
  <2>3. Fits(e, i) /\ MayStart(i)
    BY <1>1, <2>1, <2>2, SoundSame DEF Fits, Good, MayStart
  <2> QED BY <1>3, <2>1, <2>2, <2>3
<1>6. ASSUME NEW t \in Types, OpenChannel(e, t)
      PROVE  LineInv' /\ Steps(e)
  <2> DEFINE i == Opened(d, t)
  <2>1. /\ MayStart(d) /\ faults' = faults
        /\ Becomes(e, Opening(i, Fresh(e)), SendsOpen(i), net)
    BY <1>6 DEF OpenChannel, d
  <2>2. /\ Fits(e, i) /\ i.line = d.line /\ i.out = d.out
        /\ i.job = d.job /\ i.timers = d.timers
    BY <1>1, OpenedFits
  <2> HIDE DEF i
  <2>3. MayStart(i)
    BY <2>1, <2>2 DEF MayStart
  <2> QED BY <1>3, <2>1, <2>2, <2>3
<1> QED BY <1>4, <1>5, <1>6

\* A step that changes what e keeps but neither lines nor opens on their way.
LEMMA QuietStep ==
  ASSUME LineInv, NEW e \in Ends, NEW i, Fits(e, i),
         i.line \in {0, idn[e].line},
         idn' = [idn EXCEPT ![e] = i], UNCHANGED <<at, net>>,
         faults' \in 0..MaxFaults
  PROVE  LineInv' /\ Moves(e) /\ idn'[e] = i /\ net'[e] = net[e]
<1>1. /\ idn \in [Ends -> Identity] /\ net \in [Ends -> SUBSET Nat]
      /\ Peer(e) \in Ends /\ Peer(e) # e
      /\ idn[e].line \in {0, Made(e)} /\ Made(e) \in Nat
  BY InvAt, PeerOf DEF LineInv, TypeOK
<1>2. idn'[e] = i /\ idn'[Peer(e)] = idn[Peer(e)] /\ i \in Identity
  BY <1>1 DEF Fits
<1>3. net = [net EXCEPT ![Peer(e)] = @]
  BY <1>1
<1>4. i.line <= Made(e) /\ ~(i.line > Made(e))
  BY <1>1
<1>5. Becomes(e, i, FALSE, net)
  BY <1>4 DEF Becomes
<1> QED BY <1>1, <1>5, BecomesKeeps

\* The timer leaves the line alone.
LEMMA TimerStep ==
  ASSUME LineInv, NEW e \in Ends, NEW j \in Jobs, Timer(e, j)
  PROVE  LineInv' /\ Steps(e)
<1> DEFINE d == idn[e]
           i == [d EXCEPT !.timers = @ \ {j}]
           k == IF i.line # 0 THEN i
                ELSE [i EXCEPT !.wait = "none", !.job = IF @ = j THEN 0 ELSE @]
<1>1. /\ d \in Identity /\ Good(d) /\ Sound(e, d)
      /\ d.out \in 0..Made(Peer(e)) /\ At(e, d.out) \in Nat
  <2>1. d.out \in 0..Made(Peer(e))
    BY InvAt, PeerOf DEF Sound
  <2> QED BY <2>1, InvAt, Times
<1>2. idn' = [idn EXCEPT ![e] = k] /\ UNCHANGED <<at, net, faults>>
  BY DEF Timer
<1>3. /\ i \in Identity /\ i.line = d.line /\ i.out = d.out
      /\ i.chans = d.chans /\ i.listed = d.listed /\ i.job = d.job
  BY <1>1 DEF Identity
<1> HIDE DEF i
<1>4. /\ k \in Identity /\ k.line = d.line /\ k.out = d.out
      /\ k.chans = d.chans /\ k.listed = d.listed
      /\ k.line # 0 => k.job = d.job
  BY <1>3 DEF Identity
<1> HIDE DEF k
<1>5. Fits(e, k)
  BY <1>1, <1>4, SoundSame DEF Fits, Good
<1>6. LineInv' /\ Moves(e) /\ idn'[e] = k /\ net'[e] = net[e]
  <2>1. faults' \in 0..MaxFaults
    BY <1>2 DEF LineInv, TypeOK
  <2> QED BY <1>2, <1>4, <1>5, <2>1, QuietStep DEF d
<1>7. Holds(e)
  BY <1>1, <1>2, <1>4, <1>6 DEF Holds, d
<1> QED BY <1>6, <1>7 DEF Steps

\* An open that arrives is dumped, or keys the line to one of the peer's that
\* is of no earlier second.
LEMMA OpenStep ==
  ASSUME LineInv, NEW e \in Ends, NEW n \in net[e],
         NEW q \in [Ends -> SUBSET Nat], ProcessOpen(e, n, q), faults' = faults,
         q[Peer(e)] = net[Peer(e)], q[e] \subseteq net[e], net[e] \ q[e] \subseteq {n}
  PROVE  LineInv' /\ Steps(e)
<1> DEFINE d == idn[e]
           k == Keyed(e, d, n)
           s == Served(IF Answers(d) THEN Linked(k) ELSE k)
<1>1. /\ d \in Identity /\ Good(d) /\ Sound(e, d) /\ Fits(e, d)
      /\ d.line \in Nat /\ d.line \in {0, Made(e)} /\ Fresh(e) \in Number
      /\ n \in 1..Made(Peer(e))
      /\ d.out \in 0..Made(Peer(e)) /\ At(e, d.out) \in Nat /\ At(e, n) \in Nat
  <2>1. d.out \in 0..Made(Peer(e)) /\ n \in 1..Made(Peer(e))
    BY InvAt, PeerOf DEF Sound
  <2> QED BY <2>1, InvAt, Times DEF Fits
<1>2. faults' \in 0..MaxFaults
  BY DEF LineInv, TypeOK
<1>3. CASE Dumped(e, d, n)
  <2>1. net' = q /\ UNCHANGED <<idn, at>>
    BY <1>3 DEF ProcessOpen
  <2>2. At(e, n) <= At(e, d.out)
    BY <1>1, <1>3 DEF Dumped
  <2>3. idn[Peer(e)] = idn'[Peer(e)] /\ idn'[e] = idn[e]
    BY <2>1
  <2>4. LineInv'
    <3>1. \A x \in Ends : net'[x] \subseteq net[x]
      BY <2>1, PeerOf
    <3>2. \A x \in Ends : /\ Fits(x, idn[x])
                          /\ idn[x].line \in {0, Made(x)}
                          /\ net'[x] \subseteq 1..Made(Peer(x))
      BY <3>1 DEF LineInv
    <3>3. TypeOK'
      BY <1>2, <2>1 DEF LineInv, TypeOK
    <3>4. \A x \in Ends : /\ Fits(x, idn[x])'
                          /\ idn'[x].line \in {0, Made(x)'}
                          /\ net'[x] \subseteq 1..Made(Peer(x))'
      BY <2>1, <3>2 DEF Fits, Good, Sound, At, Made, Peer
    <3>5. Rising'
      BY <2>1 DEF LineInv, Rising, Made
    <3> QED BY <3>3, <3>4, <3>5 DEF LineInv, Peer
  <2>5. Moves(e)
    BY <2>1, <2>3 DEF Moves
  <2>6. Holds(e)
    BY <1>1, <2>1, <2>2, <2>3 DEF Holds
  <2> QED BY <2>4, <2>5, <2>6 DEF Steps
<1>4. CASE ~Dumped(e, d, n)
  <2>1. Becomes(e, s, ~Answers(d), q)
    BY <1>4 DEF ProcessOpen
  <2>2. /\ Fits(e, k) /\ k.out = n
        /\ k.line = IF d.line # 0 THEN d.line ELSE Fresh(e)
        /\ k.wait = d.wait
        /\ d.out = 0 => k.chans = d.chans
        /\ d.line # 0 => At(e, d.out) <= At(e, n)
    BY <1>4, KeyedFits
  <2> HIDE DEF k
  <2>3. /\ Fits(e, Linked(k))
        /\ Linked(k).line = k.line /\ Linked(k).out = k.out
    BY <2>2, ServedFits
  <2>4. Fits(e, s) /\ s.line = k.line /\ s.out = n
    BY <2>2, <2>3, ServedFits
  <2>5. /\ d.line # 0 /\ d.out = 0
        /\ LinkOf(d) = {} \/ d.wait = "none"
        => LinkOf(s) # {}
    <3> SUFFICES ASSUME d.line # 0, d.out = 0, LinkOf(d) = {} \/ d.wait = "none"
                 PROVE  LinkOf(s) # {}
      OBVIOUS
    <3>1. Answers(d)
      BY <1>1 DEF Answers, Good
    <3>2. s = Served(Linked(k))
      BY <3>1
    <3>3. LinkOf(k) = LinkOf(d)
      BY <2>2 DEF LinkOf
    <3>4. LinkOf(k) = {} \/ k.wait = "none"
      BY <2>2, <3>3
    <3> HIDE DEF s
    <3> QED BY <2>2, <3>2, <3>4, ServedLink
  <2> DEFINE b == ~Answers(d)
  <2>6. /\ b \in BOOLEAN /\ Becomes(e, s, b, q)
        /\ d.line = 0 => b
    BY <2>1 DEF Answers
  <2> HIDE DEF s, b
  <2>7. /\ s.line # 0
        /\ s.line = d.line \/ (s.line = Fresh(e) /\ b)
    BY <1>1, <2>2, <2>4, <2>6 DEF Number
  <2>8. LineInv' /\ Moves(e) /\ idn'[e] = s /\ net'[e] = q[e]
    <3>1. s.line \in {0, idn[e].line} \/ (s.line = Fresh(e) /\ b)
      BY <2>7
    <3> QED BY <1>2, <2>4, <2>6, <2>7, <3>1, BecomesKeeps
  <2>9. Holds(e)
    <3>1. d.line # 0 => s.line = d.line
      BY <2>2, <2>4
    <3>2. \A m \in net[e] \ q[e] : m = n
      OBVIOUS
    <3>3. \A m \in net[e] \ net'[e] : At(e, m) <= At(e, idn'[e].out)
      BY <1>1, <2>4, <2>8, <3>2
    <3> QED BY <2>2, <2>4, <2>5, <2>8, <3>1, <3>3 DEF Holds, d
  <2> QED BY <2>8, <2>9 DEF Steps
<1> QED BY <1>3, <1>4

\* A reset, an introduction and a restart give the line up; the introduction
\* begins another one.
LEMMA FaultStep ==
  ASSUME LineInv, NEW e \in Ends, Reset(e) \/ Introduce(e) \/ Restart(e)
  PROVE  LineInv' /\ Steps(e)
<1> DEFINE d == idn[e]
<1>1. d \in Identity /\ Good(d) /\ Fits(e, d) /\ Made(Peer(e)) \in Nat
  BY InvAt, PeerOf DEF Fits
<1>2. faults' \in 0..MaxFaults /\ faults' = faults + 1
  BY BoundsAreNat DEF LineInv, TypeOK, Fault, Reset, Introduce, Restart
<1>3. /\ Fits(e, Closed(d)) /\ Closed(d).line = 0 /\ Closed(d).out = 0
      /\ Closed(d).job = d.job /\ Closed(d).timers = d.timers
  BY <1>1, ClosedFits
<1> HIDE DEF d
<1>4. ASSUME NEW i, Fits(e, i), i.line = 0,
             idn' = [idn EXCEPT ![e] = i], UNCHANGED <<at, net>>
      PROVE  LineInv' /\ Steps(e)
  <2>1. i.out = 0
    BY <1>4 DEF Fits, Good
  <2>2. LineInv' /\ Moves(e) /\ idn'[e] = i
    BY <1>2, <1>4, QuietStep
  <2> QED BY <1>2, <2>1, <2>2 DEF Steps, Fails
<1>5. CASE Reset(e)
  <2> DEFINE c == Closed(d)
             i == [c EXCEPT !.knows = FALSE]
  <2>1. idn' = [idn EXCEPT ![e] = i] /\ UNCHANGED <<at, net>>
    BY <1>5 DEF Reset, d
  <2>2. Fits(e, c) /\ c.line = 0
    BY <1>3
  <2> HIDE DEF c
  <2>3. /\ i \in Identity /\ i.line = c.line /\ i.out = c.out
        /\ i.chans = c.chans /\ i.listed = c.listed
    BY <2>2 DEF Fits, Identity
  <2> HIDE DEF i
  <2>4. Fits(e, i) /\ i.line = 0
    BY <2>2, <2>3, SoundSame DEF Fits, Good
  <2> QED BY <1>4, <2>1, <2>4
<1>6. CASE Restart(e)
  <2>1. PICK k \in BOOLEAN : idn' = [idn EXCEPT ![e] = Unknown(k)]
    BY <1>6 DEF Restart
  <2>2. Unknown(k) \in Identity /\ Good(Unknown(k)) /\ Unknown(k).line = 0
    BY DEF Unknown, Identity, Good
  <2>3. Sound(e, Unknown(k))
    BY <1>1 DEF Unknown, Sound
  <2>4. UNCHANGED <<at, net>>
    BY <1>6 DEF Restart
  <2> HIDE DEF Unknown
  <2> QED BY <1>4, <2>1, <2>2, <2>3, <2>4 DEF Fits
<1>7. CASE Introduce(e)
  <2> DEFINE c == IF d.line # 0 THEN Closed(d) ELSE d
             i == [c EXCEPT !.reach = TRUE, !.knows = TRUE]
  <2>1. Fits(e, c) /\ c.line = 0 /\ c.job = d.job /\ c.timers = d.timers
    BY <1>1, <1>3
  <2>2. MayStart(d) /\ Becomes(e, Opening(i, Fresh(e)), SendsOpen(i), net)
    BY <1>7 DEF Introduce, d
  <2> HIDE DEF c
  <2>3. /\ i \in Identity /\ i.line = c.line /\ i.out = c.out
        /\ i.chans = c.chans /\ i.listed = c.listed
        /\ i.job = c.job /\ i.timers = c.timers
    BY <2>1 DEF Fits, Identity
  <2> HIDE DEF i
  <2>4. Fits(e, i) /\ i.line = 0 /\ i.out = 0 /\ MayStart(i)
    BY <2>1, <2>2, <2>3, SoundSame DEF Fits, Good, MayStart
  <2>5. LineInv' /\ Moves(e) /\ idn'[e].out = 0
    BY <1>2, <2>2, <2>4, OpeningStep
  <2> QED BY <1>2, <2>5 DEF Steps, Fails
<1> QED BY <1>5, <1>6, <1>7

------------------------------------------------------------------------------
(* The theorems.                                                           *)

\* Every step is one of some end.
LEMMA NextStep ==
  ASSUME LineInv, Next
  PROVE  LineInv' /\ \E e \in Ends : Steps(e)
<1>0. net \in [Ends -> SUBSET Nat]
  BY DEF LineInv, TypeOK
<1>1. ASSUME NEW e \in Ends, NEW n \in net[e], Deliver(e, n)
      PROVE  LineInv' /\ Steps(e)
  <2> DEFINE q == [net EXCEPT ![e] = @ \ {n}]
  <2>1. ProcessOpen(e, n, q) /\ faults' = faults
    BY <1>1 DEF Deliver
  <2>2. /\ q \in [Ends -> SUBSET Nat] /\ q[Peer(e)] = net[Peer(e)]
        /\ q[e] \subseteq net[e] /\ net[e] \ q[e] \subseteq {n}
    BY <1>0, PeerOf
  <2> HIDE DEF q
  <2> QED BY <2>1, <2>2, OpenStep
<1>2. ASSUME NEW e \in Ends, NEW n \in net[e], Repeat(e, n)
      PROVE  LineInv' /\ Steps(e)
  BY <1>0, <1>2, OpenStep DEF Repeat
<1> QED BY <1>1, <1>2, StartStep, TimerStep, FaultStep DEF Next

\* The inductive invariant holds: it is what makes the properties below
\* independent of how many lines, jobs, channels and faults there are.
THEOREM LineInvariant == Spec => []LineInv
<1>1. Init => LineInv
  <2> SUFFICES ASSUME Init PROVE LineInv
    OBVIOUS
  <2>1. PICK k \in [Ends -> BOOLEAN] : idn = [e \in Ends |-> Unknown(k[e])]
    BY DEF Init
  <2>2. \A b \in BOOLEAN :
          /\ Unknown(b) \in Identity /\ Good(Unknown(b)) /\ Unknown(b).line = 0
          /\ Unknown(b).out = 0 /\ Unknown(b).chans = {}
    BY DEF Unknown, Identity, Good
  <2>3. \A e \in Ends : /\ idn[e] \in Identity /\ Good(idn[e]) /\ idn[e].line = 0
                        /\ idn[e].out = 0 /\ idn[e].chans = {}
    BY <2>1, <2>2
  <2>4. at = [e \in Ends |-> <<>>] /\ net = [e \in Ends |-> {}] /\ faults = 0
    BY DEF Init
  <2>5. \A e \in Ends : Made(e) = 0
    BY <2>4 DEF Made
  <2>6. \A e \in Ends : Fits(e, idn[e])
    BY <2>3, <2>5, PeerOf DEF Fits, Sound
  <2>7. Rising
    BY <2>5 DEF Rising
  <2>8. TypeOK
    BY <2>1, <2>3, <2>4, BoundsAreNat DEF TypeOK
  <2> QED BY <2>3, <2>4, <2>6, <2>7, <2>8 DEF LineInv
<1>2. LineInv /\ [Next]_vars => LineInv'
  <2>1. LineInv /\ Next => LineInv'
    BY NextStep
  <2>2. LineInv /\ UNCHANGED vars => LineInv'
    BY DEF vars, LineInv, TypeOK, Rising, Fits, Good, Sound, At, Made, Peer
  <2> QED BY <2>1, <2>2
<1> QED BY <1>1, <1>2, PTL DEF Spec

\* Every state is typed: numbers of lines, jobs and channel ids are what the
\* code's types say (THLine, THIdentity, THPendingJob).
THEOREM LineTypeCorrect == Spec => []TypeOK
BY LineInvariant, PTL DEF LineInv

\* A switch finds a line by its id exactly while it is its identity's current
\* line and open (THSwitch openLines, closeLine, processOpen).
THEOREM OpenLinesCorrect == Spec => []OpenLinesCurrent
<1>1. LineInv => OpenLinesCurrent
  BY DEF LineInv, Fits, Good, OpenLinesCurrent
<1> QED BY <1>1, LineInvariant, PTL

\* No channel outlives the second of the peer's line it was opened on
\* (THCipherSet2a processOpen and its calls of closeChannels).
THEOREM ChannelsCorrect == Spec => []ChannelsOfLine
<1>1. LineInv => ChannelsOfLine
  BY DEF LineInv, Fits, Sound, ChannelsOfLine
<1> QED BY <1>1, LineInvariant, PTL

\* A line that was begun gets its link in the step that completes it, however
\* late and in whatever order timers, answers and faults come (THSwitch
\* processOpen and the timer of openLine).
THEOREM BegunLinkedCorrect == Spec => BegunLinked
<1> DEFINE Begun(e) ==
      /\ idn[e].line # 0 /\ idn[e].out = 0 /\ idn'[e].out # 0
      /\ LinkOf(idn[e]) = {} \/ idn[e].wait = "none"
      => LinkOf(idn'[e]) # {}
<1>1. LineInv /\ [Next]_vars => [\A e \in Ends : Begun(e)]_vars
  <2> SUFFICES ASSUME LineInv, Next PROVE \A x \in Ends : Begun(x)
    BY DEF vars
  <2>1. PICK e \in Ends : Steps(e)
    BY NextStep
  <2>2. Begun(e)
    BY <2>1 DEF Steps, Holds, Fails
  <2>3. Begun(Peer(e))
    BY <2>1 DEF Steps, Moves
  <2> QED BY <2>2, <2>3, PeerOf
<1> QED BY <1>1, LineInvariant, PTL DEF Spec, BegunLinked

------------------------------------------------------------------------------
(* Agreement.                                                              *)

\* Once a switch goes with its peer's line, by the second, no open, timer or
\* channel ends that (THCipherSet2a processOpen, "older than the current one").
THEOREM AgreementLastsCorrect == Spec => AgreementLasts
<1>1. LineInv /\ [Next]_vars =>
        [\A e \in Ends :
           Agrees(e) /\ idn[Peer(e)].line # 0 /\ faults' = faults => Agrees(e)']_vars
  <2> SUFFICES ASSUME LineInv, Next
               PROVE  \A x \in Ends :
                        Agrees(x) /\ idn[Peer(x)].line # 0 /\ faults' = faults
                          => Agrees(x)'
    BY DEF vars
  <2>1. PICK e \in Ends : Steps(e)
    BY NextStep
  <2> DEFINE p == Peer(e)
  <2>2. p \in Ends /\ p # e /\ Peer(p) = e /\ \A x \in Ends : x = e \/ x = p
    BY PeerOf
  <2>3. LineInv'
    BY NextStep
  <2> SUFFICES ASSUME NEW x \in Ends, Agrees(x), idn[Peer(x)].line # 0,
                      faults' = faults
               PROVE  Agrees(x)'
    OBVIOUS
  <2>4. Moves(e) /\ Holds(e)
    <3>1. faults \in Nat
      BY BoundsAreNat DEF LineInv, TypeOK
    <3>2. ~Fails(e)
      BY <3>1 DEF Fails
    <3> QED BY <2>1, <3>2 DEF Steps
  <2>5. CASE x = e
    <3>1. /\ idn[p].line \in 1..Made(p) /\ idn[p].line = Made(p)
          /\ idn'[p] = idn[p] /\ at'[p] = at[p]
      BY <2>2, <2>4, <2>5, InvAt DEF Moves
    <3>2. At(e, idn[e].out) = At(e, idn[p].line) /\ At(e, idn[p].line) >= 1
      BY <2>5, <3>1, Times DEF Agrees
    <3>3. idn[e].line # 0
      <4>1. idn[e].line = 0 => idn[e].out = 0
        BY InvAt DEF Good
      <4> QED BY <3>2, <4>1, Times
    <3>4. At(e, idn[e].out) <= At(e, idn'[e].out)
      BY <2>4, <3>3 DEF Holds
    <3>5. idn'[e].out \in 0..Made(p)
      <4>1. idn'[e].out \in Nat /\ idn'[e].out <= Len(at'[p])
        BY <2>3 DEF LineInv, Fits, Identity, Sound, Made, Peer
      <4> QED BY <3>1, <4>1 DEF Made
    <3>6. At(e, idn'[e].out) <= At(e, idn[p].line)
      BY <3>1, <3>5, Times
    <3>7. At(e, idn'[e].out) = At(e, idn[p].line)
      <4>1. At(e, idn'[e].out) \in Nat /\ At(e, idn[p].line) \in Nat
        BY <3>1, <3>5, Times
      <4> QED BY <3>2, <3>4, <3>6, <4>1
    <3> QED BY <2>5, <3>1, <3>7 DEF Agrees, At, Peer
  <2>6. CASE x = p
    <3>1. /\ idn'[p] = idn[p] /\ idn[e].line # 0 /\ idn'[e].line = idn[e].line
          /\ At(p, idn[p].out) = At(p, idn[e].line)
      BY <2>2, <2>4, <2>6 DEF Moves, Holds, Agrees
    <3>2. idn[e].line # Fresh(e)
      BY InvAt
    <3>3. at'[e] = at[e]
      BY <2>4, <3>1, <3>2 DEF Moves
    <3> QED BY <2>2, <2>6, <3>1, <3>3 DEF Agrees, At, Peer
  <2> QED BY <2>2, <2>5, <2>6
<1> QED BY <1>1, LineInvariant, PTL DEF Spec, AgreementLasts

\* e knows of a line of its peer no earlier than the one it has, or its open is
\* on its way.
Told(e) ==
  LET x == idn[Peer(e)].line
  IN x # 0 => x \in net[e] \/ At(e, x) <= At(e, idn[e].out)

\* e has not given up a line.
Steady(e) == idn[e].line = Made(e) /\ Made(e) <= 1 /\ Told(e)

\* The inductive invariant behind QuietAgreement: a single fault leaves one of
\* the two ends steady.
AgreeInv ==
  /\ faults = 0 => \A e \in Ends : Steady(e)
  /\ faults = 1 => \E e \in Ends : Steady(e)

\* Each step keeps the peer steady; one that is no fault keeps its own end
\* steady too.
LEMMA StepsKeep ==
  ASSUME LineInv, LineInv', NEW e \in Ends, Steps(e)
  PROVE  /\ Steady(Peer(e)) => (Steady(Peer(e))')
         /\ Holds(e) /\ Steady(e) => (Steady(e)')
<1> DEFINE p == Peer(e)
<1>1. p \in Ends /\ p # e /\ Peer(p) = e /\ \A x \in Ends : x = e \/ x = p
  BY PeerOf
<1>2. /\ idn[e].line \in {0, Made(e)} /\ Made(e) \in Nat /\ Made(p) \in Nat
      /\ idn[p].line \in {0, Made(p)} /\ Fresh(e) = Made(e) + 1
      /\ net[e] \subseteq 1..Made(p) /\ net[p] \subseteq 1..Made(e)
      /\ idn[p].out \in 0..Made(e) /\ idn[e].out \in 0..Made(p)
      /\ idn[e].line = 0 => idn[e].out = 0
  <2>1. \A x \in Ends : /\ idn[x].line \in {0, Made(x)} /\ Made(x) \in Nat
                        /\ net[x] \subseteq 1..Made(Peer(x))
                        /\ idn[x].out \in Nat /\ idn[x].out <= Made(Peer(x))
                        /\ idn[x].line = 0 => idn[x].out = 0
    BY InvAt DEF Sound, Good
  <2>2. p \in Ends /\ Peer(p) = e
    BY <1>1
  <2>3. Fresh(e) = Made(e) + 1
    BY DEF Fresh
  <2> HIDE DEF p
  <2>4. /\ net[p] \subseteq 1..Made(e)
        /\ idn[p].out \in Nat /\ idn[p].out <= Made(e)
    BY <2>1, <2>2
  <2>5. net[e] \subseteq 1..Made(p) /\ idn[e].out \in Nat /\ idn[e].out <= Made(p)
    BY <2>1 DEF p
  <2> QED BY <2>1, <2>2, <2>3, <2>4, <2>5
<1> HIDE DEF p
<1>3. /\ idn'[p] = idn[p] /\ at'[p] = at[p]
      /\ net[p] \subseteq net'[p]
      /\ \/ idn'[e].line \in {0, idn[e].line} /\ at'[e] = at[e]
         \/ /\ idn'[e].line = Fresh(e) /\ Made(e)' = Fresh(e)
            /\ idn'[e].line \in net'[p]
  BY DEF Steps, Moves, p
<1>4. ASSUME Steady(p) PROVE Steady(p)'
  <2>1. /\ idn[p].line = Made(p) /\ Made(p) <= 1
        /\ idn[e].line # 0 =>
             idn[e].line \in net[p] \/ At(p, idn[e].line) <= At(p, idn[p].out)
    BY <1>1, <1>4 DEF Steady, Told
  <2>2. /\ idn'[p].line = Len(at'[p]) /\ Len(at'[p]) <= 1
    BY <1>3, <2>1 DEF Made
  <2>3. idn'[e].line # 0 =>
          \/ idn'[e].line \in net'[p]
          \/ /\ at'[e] = at[e] /\ idn'[e].line = idn[e].line
             /\ At(p, idn[e].line) <= At(p, idn[p].out)
    BY <1>3, <2>1
  <2>4. Told(p)'
    BY <1>1, <1>3, <2>3 DEF Told, At, Peer
  <2> QED BY <2>2, <2>4 DEF Steady, Made
<1>5. ASSUME Holds(e), Steady(e) PROVE Steady(e)'
  <2>1. /\ idn[e].line = Made(e) /\ Made(e) <= 1
        /\ idn[p].line # 0 =>
             idn[p].line \in net[e] \/ At(e, idn[p].line) <= At(e, idn[e].out)
    BY <1>5 DEF Steady, Told, p
  <2>2. /\ idn'[e].line = idn[e].line \/ idn[e].line = 0
        /\ idn[e].line # 0 => At(e, idn[e].out) <= At(e, idn'[e].out)
        /\ \A n \in net[e] \ net'[e] : At(e, n) <= At(e, idn'[e].out)
    BY <1>5 DEF Holds
  <2>3. idn'[e].line = Made(e)' /\ Made(e)' <= 1
    <3>1. at'[e] = at[e] => Made(e)' = Made(e)
      BY DEF Made
    <3> QED BY <1>2, <1>3, <2>1, <2>2, <3>1
  <2>4. idn[p].line # 0 =>
          idn[p].line \in net'[e] \/ At(e, idn[p].line) <= At(e, idn'[e].out)
    <3> SUFFICES ASSUME idn[p].line # 0, idn[p].line \notin net'[e]
                 PROVE  At(e, idn[p].line) <= At(e, idn'[e].out)
      OBVIOUS
    <3>1. CASE idn[p].line \in net[e]
      BY <2>2, <3>1
    <3>2. CASE At(e, idn[p].line) <= At(e, idn[e].out)
      <4>1. /\ At(e, 0) = 0 /\ At(e, idn[p].line) \in Nat
            /\ At(e, idn[p].line) >= 1 /\ At(e, idn[e].out) \in Nat
        <5>1. idn[p].line \in 1..Made(p)
          BY <1>2
        <5> QED BY <1>2, <5>1, Times DEF p
      <4>2. idn[e].line # 0
        BY <1>2, <3>2, <4>1
      <4>3. idn'[e].out \in 0..Made(p)
        <5>1. idn'[e].out \in Nat /\ idn'[e].out <= Len(at'[p])
          BY DEF LineInv, Fits, Identity, Sound, Made, Peer, p
        <5> QED BY <1>3, <5>1 DEF Made
      <4>4. At(e, idn'[e].out) \in Nat
        BY <4>3, Times DEF p
      <4> QED BY <2>2, <3>2, <4>1, <4>2, <4>4
    <3> QED BY <2>1, <3>1, <3>2
  <2>5. Told(e)'
    BY <1>3, <2>4 DEF Told, At, Peer, p
  <2> QED BY <2>3, <2>5 DEF Steady
<1> QED BY <1>4, <1>5 DEF p

\* A single fault leaves one end steady.
THEOREM AgreeInvariant == Spec => []AgreeInv
<1>1. Init => AgreeInv
  <2> SUFFICES ASSUME Init PROVE AgreeInv
    OBVIOUS
  <2>1. PICK k \in [Ends -> BOOLEAN] : idn = [e \in Ends |-> Unknown(k[e])]
    BY DEF Init
  <2>2. \A e \in Ends : /\ idn[e].line = 0 /\ idn[Peer(e)].line = 0
                        /\ at[e] = <<>>
    BY <2>1, PeerOf DEF Init, Unknown
  <2>3. \A e \in Ends : Steady(e)
    BY <2>2 DEF Steady, Told, Made
  <2> QED BY <2>3 DEF Init, AgreeInv
<1>2. LineInv /\ LineInv' /\ AgreeInv /\ [Next]_vars => AgreeInv'
  <2> SUFFICES ASSUME LineInv, LineInv', AgreeInv, [Next]_vars PROVE AgreeInv'
    OBVIOUS
  <2>1. faults \in Nat
    BY BoundsAreNat DEF LineInv, TypeOK
  <2>2. CASE Next
    <3>1. PICK e \in Ends : Steps(e)
      BY <2>2, NextStep
    <3>2. /\ Steady(Peer(e)) => (Steady(Peer(e))')
          /\ Holds(e) /\ Steady(e) => (Steady(e)')
      BY <3>1, StepsKeep
    <3>3. Peer(e) \in Ends /\ \A x \in Ends : x = e \/ x = Peer(e)
      BY PeerOf
    <3>4. CASE Holds(e)
      <4>1. \A x \in Ends : Steady(x) => (Steady(x)')
        BY <3>2, <3>3, <3>4
      <4>2. faults' = faults
        BY <3>4 DEF Holds
      <4> QED BY <4>1, <4>2 DEF AgreeInv
    <3>5. CASE Fails(e)
      <4>1. faults' # 0 /\ (faults' = 1 => faults = 0)
        BY <2>1, <3>5 DEF Fails
      <4> QED BY <3>2, <3>3, <4>1 DEF AgreeInv
    <3> QED BY <3>1, <3>4, <3>5 DEF Steps
  <2>3. CASE UNCHANGED vars
    BY <2>3 DEF vars, AgreeInv, Steady, Told, At, Made, Peer
  <2> QED BY <2>2, <2>3
<1> QED BY <1>1, <1>2, LineInvariant, PTL DEF Spec

\* Once every open has arrived, two open lines go with each other, by the
\* second, after at most one restart, reset or introduction (THSwitch
\* processOpen, THCipherSet2a processOpen).
THEOREM AgreementCorrect == Spec => []QuietAgreement
<1>1. LineInv /\ AgreeInv => QuietAgreement
  <2> SUFFICES ASSUME LineInv, AgreeInv, \A e \in Ends : net[e] = {}, BothOpen,
                      faults < 2
               PROVE  \A e \in Ends : Agrees(e)
    BY DEF QuietAgreement
  <2>1. faults = 0 \/ faults = 1
    BY BoundsAreNat DEF LineInv, TypeOK
  <2>2. PICK y \in Ends : Steady(y)
    BY <2>1, PeerOf DEF AgreeInv, Ends
  <2> DEFINE p == Peer(y)
  <2>3. p \in Ends /\ Peer(p) = y /\ \A x \in Ends : x = y \/ x = p
    BY PeerOf
  <2>4. \A x \in Ends : /\ idn[x].out \in 1..Made(Peer(x)) /\ idn[x].line = Made(x)
                        /\ Made(x) \in Nat
    <3> SUFFICES ASSUME NEW x \in Ends
                 PROVE  /\ idn[x].out \in 1..Made(Peer(x)) /\ idn[x].line = Made(x)
                        /\ Made(x) \in Nat
      OBVIOUS
    <3>1. idn[x].out # 0
      BY DEF BothOpen
    <3>2. /\ idn[x].line \in {0, Made(x)} /\ Made(x) \in Nat
          /\ idn[x].line = 0 => idn[x].out = 0
          /\ idn[x].out \in Nat /\ idn[x].out <= Made(Peer(x))
      BY InvAt DEF Sound, Good
    <3>3. Made(Peer(x)) \in Nat
      BY InvAt, PeerOf
    <3> QED BY <3>1, <3>2, <3>3
  <2>5. Agrees(p)
    <3>1. Made(y) <= 1 /\ idn[p].out \in 1..Made(y) /\ idn[y].line = Made(y)
          /\ Made(y) \in Nat
      BY <2>2, <2>3, <2>4 DEF Steady
    <3>2. idn[p].out = idn[y].line
      BY <3>1
    <3> QED BY <2>3, <3>2 DEF Agrees
  <2>6. Agrees(y)
    <3>1. idn[p].line = Made(p) /\ Made(p) \in Nat /\ idn[y].out \in 1..Made(p)
      BY <2>3, <2>4
    <3>2. At(y, idn[p].line) <= At(y, idn[y].out)
      BY <2>2, <3>1 DEF Steady, Told
    <3>3. At(y, idn[y].out) <= At(y, idn[p].line)
      BY <3>1, Times
    <3>4. At(y, idn[y].out) \in Nat /\ At(y, idn[p].line) \in Nat
      BY <3>1, Times
    <3>5. At(y, idn[y].out) = At(y, idn[p].line)
      BY <3>2, <3>3, <3>4
    <3> QED BY <3>5 DEF Agrees
  <2> QED BY <2>3, <2>5, <2>6
<1> QED BY <1>1, LineInvariant, AgreeInvariant, PTL

==============================================================================
