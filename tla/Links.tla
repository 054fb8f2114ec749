-------------------------------- MODULE Links ---------------------------------
(***************************************************************************)
(* The link channel two switches keep on their line: the link branch of    *)
(* THLine, THMeshBuckets linkToIdentity, pingLines and handlePacket, and   *)
(* the unreliable channel they use.  A switch pings the link of every      *)
(* identity in its buckets each 25 s, gives up one that was silent for     *)
(* 50 s, and resets an identity that has none.                             *)
(*                                                                         *)
(* Time goes in units of five seconds.  Packets arrive or are lost, and    *)
(* the timers of 2 s fire, within a unit, in any order.                    *)
(***************************************************************************)
EXTENDS Integers

CONSTANTS Lower, Upper,  \* the two switches, by the order of their hashnames
          MaxOpens,      \* bound: times a switch is told of its peer
          MaxFaults      \* bound: losses, crashes, restarts and rounds of pings
                         \* that miss the peer

Ends == {Lower, Upper}
Peer(e) == IF e = Lower THEN Upper ELSE Lower

ASSUME TwoSwitches == Lower # Upper
ASSUME BoundsAreNat == MaxOpens \in Nat /\ MaxFaults \in Nat

VARIABLES sw,      \* sw[e]: what e keeps about its peer
          made,    \* made[e]: the last line e made
          net,     \* the packets on their way
          opens,   \* times a switch was told of its peer
          skips,   \* rounds that missed the peer
          faults   \* losses, crashes and restarts so far

vars == <<sw, made, net, opens, skips, faults>>

Period == 5   \* of pingLines, 25 s
Idle == 10    \* a link is idle after 50 s without a packet in
Young == 5    \* and is not looked at in its first 25 s
Recent == 2   \* a packet out in the last 10 s: a ping in is not answered

NoLink == [id |-> 0, never |-> TRUE, in |-> 0, out |-> 0, age |-> 0]

\* A link this switch opens: it has sent, and nothing has come.
OutLink(id) == [id |-> id, never |-> TRUE, in |-> 0, out |-> 0, age |-> 0]

\* A link the peer opened: its packet has come, and is answered at once.
InLink(id) == [id |-> id, never |-> FALSE, in |-> 0, out |-> 0, age |-> 0]

Started ==
  [alive  |-> TRUE,
   mine   |-> 0,        \* its current line, 0 for nil
   theirs |-> 0,        \* the peer's line, 0 until an open came
   next   |-> 0,        \* _nextChannelId
   link   |-> NoLink,
   met    |-> FALSE,    \* the identity is in a bucket
   job    |-> FALSE,    \* a line job is pending
   due    |-> FALSE,    \* the timer of a line job runs
   late   |-> FALSE,    \* the timer that opens a missing link runs
   wait   |-> FALSE,    \* a link waits for a line
   phase  |-> Period]   \* until the next round of pings

Init ==
  /\ \E p \in 1..Period :
       sw = [e \in Ends |->
               [Started EXCEPT !.phase = IF e = Lower THEN Period ELSE p]]
  /\ made = [e \in Ends |-> 0]
  /\ net = {}
  /\ opens = 0 /\ skips = 0 /\ faults = 0

Fresh(e) == made[e] + 1

Open(e, n) == [kind |-> "open", to |-> Peer(e), line |-> n, id |-> 0]

\* A packet on the line of i; one without keys goes nowhere.
OnLine(e, i, kind, id) ==
  IF i.theirs = 0 THEN {}
  ELSE {[kind |-> kind, to |-> Peer(e), line |-> i.theirs, id |-> id]}

Becomes(e, i, q) ==
  /\ sw' = [sw EXCEPT ![e] = i]
  /\ made' = [made EXCEPT ![e] = IF i.mine > @ THEN i.mine ELSE @]
  /\ net' = q

Counts == UNCHANGED <<opens, skips, faults>>

------------------------------------------------------------------------------
(* Lines                                                                   *)

\* openLine for a peer whose paths are known: from a seed, or a see.
LearnOf(e) ==
  /\ opens < MaxOpens /\ opens' = opens + 1
  /\ sw[e].alive /\ sw[e].mine = 0 /\ ~sw[e].due
  /\ Becomes(e, [sw[e] EXCEPT !.mine = Fresh(e), !.due = ~sw[e].job, !.job = TRUE],
             net \union {Open(e, Fresh(e))})
  /\ UNCHANGED <<skips, faults>>

\* The two seconds of a line job are over.
JobTimer(e) ==
  /\ sw[e].due
  /\ Becomes(e, IF sw[e].mine # 0 THEN [sw[e] EXCEPT !.due = FALSE]
                ELSE [sw[e] EXCEPT !.due = FALSE, !.job = FALSE, !.wait = FALSE],
             net)
  /\ Counts

HasLink(i) == i.link.id # 0

\* linkToIdentity on a line: a link is opened, one that is there is used.
LinkTo(i) ==
  IF HasLink(i) THEN [i EXCEPT !.met = TRUE, !.link.out = 0]
  ELSE [i EXCEPT !.met = TRUE, !.next = @ + 2, !.link = OutLink(i.next + 2)]
LinkSends(e, i) ==
  IF HasLink(i) THEN OnLine(e, i, "ping", i.link.id)
  ELSE OnLine(e, i, "link", i.next + 2)

FirstId(e) == IF e = Upper THEN 1 ELSE 2

\* The current line, or a new one, is now one to the peer's line n.
Keyed(e, i, n) ==
  [i EXCEPT !.mine = IF @ = 0 THEN Fresh(e) ELSE @, !.theirs = n,
            !.next = FirstId(e), !.job = FALSE, !.met = TRUE,
            !.link = IF i.theirs # 0 THEN NoLink ELSE @]

\* processOpen: an answer is followed by a link at once, an open is answered
\* and a link opened if there is none in two seconds.
HandleOpen(e, n, q) ==
  LET i == sw[e]
      k == Keyed(e, i, n)
      w == [k EXCEPT !.late = TRUE, !.wait = FALSE]
  IN IF i.mine # 0 /\ n <= i.theirs THEN Becomes(e, i, q)
     ELSE IF i.job /\ i.mine # 0
     THEN Becomes(e, LinkTo(k), q \union LinkSends(e, k))
     ELSE Becomes(e, IF i.wait THEN LinkTo(w) ELSE w,
                  q \union {Open(e, k.mine)}
                    \union (IF i.wait THEN LinkSends(e, w) ELSE {}))

\* The two seconds after an open that was answered are over.  A link for a line
\* that has been given up since waits for another.
LateLink(e) ==
  LET i == [sw[e] EXCEPT !.late = FALSE] IN
  /\ sw[e].late
  /\ IF HasLink(i) THEN Becomes(e, i, net)
     ELSE IF i.mine # 0 THEN Becomes(e, LinkTo(i), net \union LinkSends(e, i))
     ELSE Becomes(e, [i EXCEPT !.met = TRUE, !.wait = TRUE, !.job = TRUE,
                               !.due = TRUE], net)
  /\ Counts

\* Mutant: the ids of a line that is gone count on, from below zero.
ResetBelowZero(i) == [i EXCEPT !.link = NoLink, !.mine = 0, !.theirs = 0, !.next = -1]

\* reset: the channels, the line and the paths go.
ResetId(i) == [i EXCEPT !.link = NoLink, !.mine = 0, !.theirs = 0, !.next = 0]

------------------------------------------------------------------------------
(* Links                                                                   *)

\* Mutant: the time of the packet is not kept.
PongedUntimed(i) ==
  [i EXCEPT !.link.never = FALSE, !.link.out = IF @ > Recent THEN 0 ELSE @]

\* A packet on the link: it is answered unless something went out just now.
Ponged(i) ==
  [i EXCEPT !.link.never = FALSE, !.link.in = 0,
            !.link.out = IF @ > Recent THEN 0 ELSE @]
Pongs(e, i) ==
  IF i.link.out > Recent THEN OnLine(e, i, "ping", i.link.id) ELSE {}

Accepted(i, id) == [i EXCEPT !.met = TRUE, !.link = InLink(id)]

\* A packet that opens a link replaces the link there is, a ping for a link
\* that is not there is refused, and a refused link is gone.
HandleOnLine(e, m, q) ==
  LET i == sw[e] IN
  IF i.theirs = 0 \/ m.line # i.mine THEN Becomes(e, i, q)
  ELSE IF HasLink(i) /\ m.id = i.link.id
  THEN IF m.kind = "err" THEN Becomes(e, [i EXCEPT !.link = NoLink], q)
       ELSE Becomes(e, Ponged(i), q \union Pongs(e, i))
  ELSE IF m.kind = "link"
  THEN Becomes(e, Accepted(i, m.id), q \union OnLine(e, i, "ping", m.id))
  ELSE Becomes(e, i, q \union IF m.kind = "ping" THEN OnLine(e, i, "err", m.id)
                              ELSE {})

Deliver(m) ==
  /\ sw[m.to].alive
  /\ IF m.kind = "open" THEN HandleOpen(m.to, m.line, net \ {m})
     ELSE HandleOnLine(m.to, m, net \ {m})
  /\ Counts

\* Mutant: a link that was never answered is not taken for idle.
IsIdleOnce(l) == ~l.never /\ l.in >= Idle /\ l.age > Young

IsIdle(l) == (l.never \/ l.in >= Idle) /\ l.age > Young

\* Mutant: an idle link is only taken out of the bucket.
PingedUnbucketed(i) ==
  IF ~i.met THEN i
  ELSE IF ~HasLink(i) THEN ResetId(i)
  ELSE IF IsIdle(i.link) THEN [i EXCEPT !.met = FALSE]
  ELSE IF i.theirs # 0 THEN [i EXCEPT !.link.out = 0]
  ELSE i

\* pingLines, as far as it concerns the peer.
Pinged(i) ==
  IF ~i.met THEN i
  ELSE IF ~HasLink(i) THEN ResetId(i)
  ELSE IF IsIdle(i.link) THEN [ResetId(i) EXCEPT !.met = FALSE]
  ELSE IF i.theirs # 0 THEN [i EXCEPT !.link.out = 0]
  ELSE i
PingSends(e, i) ==
  IF ~i.met \/ ~HasLink(i) \/ IsIdle(i.link) THEN {}
  ELSE IF i.theirs # 0 THEN OnLine(e, i, "ping", i.link.id)
  ELSE {Open(e, i.mine)}

Ping(e) ==
  /\ sw[e].alive /\ sw[e].phase = 0
  /\ Becomes(e, [Pinged(sw[e]) EXCEPT !.phase = Period],
             net \union PingSends(e, sw[e]))
  /\ Counts

\* The identity in front of the peer in its bucket is taken out of it during
\* the round, and the peer is passed over.
Skip(e) ==
  /\ sw[e].alive /\ sw[e].phase = 0
  /\ faults + skips < MaxFaults /\ skips' = skips + 1
  /\ sw' = [sw EXCEPT ![e].phase = Period]
  /\ UNCHANGED <<made, net, opens, faults>>

------------------------------------------------------------------------------
(* Time, and what goes wrong                                               *)

\* Bound: silence is not told apart beyond this.
Longest == Idle + Period * (MaxFaults + 1)

Older(l) ==
  IF l.id = 0 THEN l
  ELSE [l EXCEPT !.in = IF @ = Longest THEN @ ELSE @ + 1,
                 !.out = IF @ > Recent THEN @ ELSE @ + 1,
                 !.age = IF @ > Young THEN @ ELSE @ + 1]

\* Five seconds pass once all that is due has happened.
Tick ==
  /\ net = {}
  /\ \A e \in Ends : ~sw[e].late /\ ~sw[e].due /\ (sw[e].alive => sw[e].phase > 0)
  /\ sw' = [e \in Ends |->
       IF sw[e].alive
       THEN [sw[e] EXCEPT !.link = Older(@), !.phase = @ - 1] ELSE sw[e]]
  /\ UNCHANGED <<made, net, opens, skips, faults>>

Fault == faults + skips < MaxFaults /\ faults' = faults + 1 /\ UNCHANGED <<opens, skips>>

Lose(m) == Fault /\ net' = net \ {m} /\ UNCHANGED <<sw, made>>

\* The process ends; what is sent to it is lost.
Crash(e) ==
  /\ sw[e].alive /\ Fault
  /\ sw' = [sw EXCEPT ![e] = [Started EXCEPT !.alive = FALSE]]
  /\ UNCHANGED <<made, net>>

Vanish(m) ==
  ~sw[m.to].alive /\ net' = net \ {m} /\ UNCHANGED <<sw, made, opens, skips, faults>>

Restart(e) ==
  /\ Fault
  /\ sw' = [sw EXCEPT ![e] = Started]
  /\ UNCHANGED <<made, net>>

\* What happens by itself.
Due ==
  \/ \E m \in net : Deliver(m)
  \/ \E m \in net : Vanish(m)
  \/ \E e \in Ends : JobTimer(e)
  \/ \E e \in Ends : LateLink(e)
  \/ \E e \in Ends : Ping(e)
  \/ Tick

Next ==
  \/ Due
  \/ \E e \in Ends : LearnOf(e)
  \/ \E e \in Ends : Skip(e)
  \/ \E m \in net : Lose(m)
  \/ \E e \in Ends : Crash(e)
  \/ \E e \in Ends : Restart(e)

Spec == Init /\ [][Next]_vars /\ WF_vars(Due)

------------------------------------------------------------------------------
(* Properties.                                                             *)

LinkStates ==
  [id : Nat, never : BOOLEAN, in : Nat, out : 0..Recent + 1, age : 0..Young + 1]

SwitchStates ==
  [alive : BOOLEAN, mine : Nat, theirs : Nat, next : Nat, link : LinkStates,
   met : BOOLEAN, job : BOOLEAN, due : BOOLEAN, late : BOOLEAN, wait : BOOLEAN,
   phase : 0..Period]

Packets ==
  [kind : {"open", "link", "ping", "err"}, to : Ends, line : Nat, id : Nat]

\* Lines and channel ids are numbers that were given out, and a link keeps its
\* times (THLine, THIdentity, THChannel).
TypeOK ==
  /\ sw \in [Ends -> SwitchStates]
  /\ made \in [Ends -> Nat]
  /\ net \in SUBSET Packets
  /\ opens \in 0..MaxOpens /\ skips \in 0..MaxFaults /\ faults \in 0..MaxFaults

\* A link on which nothing comes is given up within 75 s, and 25 s more for
\* each round that misses the peer: also one that was never answered, that the
\* peer has replaced or refused, or whose peer restarted.
SilenceBounded ==
  \A e \in Ends : sw[e].link.in < Idle + Period * (skips + 1)

Agreed ==
  /\ \A e \in Ends : sw[e].alive /\ HasLink(sw[e])
  /\ sw[Lower].link.id = sw[Upper].link.id
  /\ \A e \in Ends : sw[e].theirs = sw[Peer(e)].mine

Calm == \A m \in net : m.kind = "ping"

\* A link both have, with no open, link or refusal on its way, is kept while no
\* packet is lost, in whatever order the rounds of the two switches fall, and
\* also when one round misses the peer: no switch gives up a live link.
EstablishedKept ==
  [][Agreed /\ Calm /\ faults' = 0 /\ skips' <= 1 => Agreed']_vars

Apart == \A e \in Ends : ~HasLink(sw[e])

\* Links that cross, that one switch alone has, or that are on a line the other
\* gave up, come to an end: in the end both have one link, or neither has any.
Converges == <>[](Agreed \/ Apart)

==============================================================================
