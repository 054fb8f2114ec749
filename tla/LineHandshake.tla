---------------------------- MODULE LineHandshake -----------------------------
(***************************************************************************)
(* Two switches that open a line to each other: THSwitch openLine,         *)
(* openChannel, processOpen and closeLine with the parts of THCipherSet2a  *)
(* and THLine they call.  What a switch keeps about its peer is the        *)
(* THIdentity and the pending jobs that concern it.                        *)
(*                                                                         *)
(* The lines of a switch are numbered in the order it makes them; a number *)
(* stands for the line's id, its ECDH key and its cached open.  An open    *)
(* says in which second it was generated, and opens are told older from    *)
(* newer by that alone: a switch that gives up a line may make the next    *)
(* one within the same second.  Clocks are not turned back.  Encryption    *)
(* and signatures are ideal: an open says which line it is of, and nobody  *)
(* else can make one.  The network delays, reorders and repeats opens.     *)
(***************************************************************************)
EXTENDS Integers, FiniteSets, Sequences

CONSTANTS Lower, Upper,  \* the two switches, by the order of their hashnames
          MaxJobs,       \* bound: timers of line jobs a switch has at a time
          MaxChannels,   \* bound: channels in the table and waiting
          MaxFaults      \* bound: restarts, resets and introductions

Ends == {Lower, Upper}
Peer(e) == IF e = Lower THEN Upper ELSE Lower
Jobs == 1..MaxJobs
Types == {"app", "link"}

ASSUME TwoSwitches == Lower # Upper
ASSUME BoundsAreNat == MaxJobs \in Nat /\ MaxChannels \in Nat /\ MaxFaults \in Nat

VARIABLES idn,     \* idn[e]: what e keeps about its peer
          at,      \* at[e]: for each line e made, the second of its open
          net,     \* net[e]: the peer's lines whose opens are on their way to e
          faults   \* restarts, resets and introductions so far

vars == <<idn, at, net, faults>>

\* Mutant: a line that no open completed is older than time itself.
UnknownBelowZero(k) ==
  [line |-> 0, out |-> -1, next |-> 0, listed |-> {}, reach |-> FALSE,
   knows |-> k, met |-> FALSE, job |-> 0, timers |-> {}, wait |-> "none",
   chans |-> {}]

Unknown(k) ==
  [line   |-> 0,      \* currentLine, 0 for nil
   out    |-> 0,      \* its peer's line (outLineId, createdAt); 0 until an open came
   next   |-> 0,      \* its _nextChannelId
   listed |-> {},     \* the lines to the peer in openLines
   reach  |-> FALSE,  \* there is an active path, or a relay
   knows  |-> k,      \* there are paths and cipher parts
   met    |-> FALSE,  \* the identity is in a bucket
   job    |-> 0,      \* its pending line job
   timers |-> {},     \* line jobs whose two seconds have not passed
   wait   |-> "none", \* type of the pending channel job
   chans  |-> {}]     \* the channels this switch opened that are in the table

\* Seeds or the application may tell a switch that starts of its peer.
Init ==
  /\ \E k \in [Ends -> BOOLEAN] : idn = [e \in Ends |-> Unknown(k[e])]
  /\ at = [e \in Ends |-> <<>>]
  /\ net = [e \in Ends |-> {}]
  /\ faults = 0

Made(e) == Len(at[e])
Fresh(e) == Made(e) + 1

\* The second the peer of e made its line n in, as its open says (at); what e
\* keeps of it (createdAt) is 0 until an open came.
At(e, n) == IF n = 0 THEN 0 ELSE at[Peer(e)][n]

\* A line is made in the second of the line before it or, bound, the next one.
Seconds(e) == IF Made(e) = 0 THEN {1} ELSE {at[e][Made(e)], at[e][Made(e)] + 1}

\* e is left with i; with an open, the one of its line goes to the peer.
Becomes(e, i, opens, q) ==
  /\ idn' = [idn EXCEPT ![e] = i]
  /\ IF i.line > Made(e)
     THEN \E s \in Seconds(e) : at' = [at EXCEPT ![e] = Append(@, s)]
     ELSE UNCHANGED at
  /\ net' = IF opens THEN [q EXCEPT ![Peer(e)] = @ \union {i.line}] ELSE q

------------------------------------------------------------------------------
(* Opening                                                                 *)

\* The channel takes the line's next id and enters the table under it.
Opened(i, t) ==
  LET n == i.next + 2
  IN [i EXCEPT !.next = n,
               !.chans = {c \in @ : c.id # n}
                         \union {[id |-> n, type |-> t, on |-> i.out]}]

LinkOf(i) == {c \in i.chans : c.type = "link"}

\* openLine returns early for a line that can be reached.
Bails(i) == i.line # 0 /\ i.reach

\* Bound: a new job needs a number no running timer has.
MayStart(i) == i.job # 0 \/ i.timers # Jobs

\* openLine: a job with its timer unless one is pending, and a line, made if
\* there is none, whose open is sent if the identity's paths are known.
Opening(i, n) ==
  LET j == IF i.job # 0 THEN i.job ELSE CHOOSE k \in Jobs : k \notin i.timers
  IN IF Bails(i) THEN i
     ELSE [i EXCEPT !.job = j,
                    !.timers = IF i.job # 0 THEN @ ELSE @ \union {j},
                    !.line = IF @ = 0 /\ i.knows THEN n ELSE @]

SendsOpen(i) == ~Bails(i) /\ i.knows

StartLine(e) ==
  /\ ~Bails(idn[e]) /\ MayStart(idn[e])
  /\ Becomes(e, Opening(idn[e], Fresh(e)), SendsOpen(idn[e]), net)
  /\ UNCHANGED faults

\* Applications open channels at any time; the switch opens a link channel,
\* once it has met the peer, if there is none.
Wants(e, t) ==
  /\ Cardinality(idn[e].chans) < MaxChannels
  /\ t = "link" => idn[e].met /\ LinkOf(idn[e]) = {}

\* openChannel without a current line.
PendChannel(e, t) ==
  /\ Wants(e, t)
  /\ idn[e].line = 0
  /\ idn[e].wait = "none" /\ MayStart(idn[e])
  /\ LET i == [idn[e] EXCEPT !.wait = t]
     IN Becomes(e, Opening(i, Fresh(e)), SendsOpen(i), net)
  /\ UNCHANGED faults

\* openChannel with a current line, open or not: the channel sends its first
\* packet, and a line that has no path for it calls openLine instead.
OpenChannel(e, t) ==
  /\ Wants(e, t)
  /\ idn[e].line # 0 /\ MayStart(idn[e])
  /\ LET i == Opened(idn[e], t)
     IN Becomes(e, Opening(i, Fresh(e)), SendsOpen(i), net)
  /\ UNCHANGED faults

\* Mutant: the channel that waits is not given up.
TimerKeepsWaiting(e, j) ==
  /\ j \in idn[e].timers
  /\ LET i == [idn[e] EXCEPT !.timers = @ \ {j}]
     IN idn' = [idn EXCEPT ![e] =
                  [i EXCEPT !.job = IF i.line = 0 /\ @ = j THEN 0 ELSE @]]
  /\ UNCHANGED <<at, net, faults>>

\* Mutant: the job is done for, also when the line it made is there.
TimerDropsJob(e, j) ==
  /\ j \in idn[e].timers
  /\ LET i == [idn[e] EXCEPT !.timers = @ \ {j}, !.job = IF @ = j THEN 0 ELSE @]
     IN idn' = [idn EXCEPT ![e] = IF i.line # 0 THEN i ELSE [i EXCEPT !.wait = "none"]]
  /\ UNCHANGED <<at, net, faults>>

\* The two seconds of line job j are over.
Timer(e, j) ==
  /\ j \in idn[e].timers
  /\ LET i == [idn[e] EXCEPT !.timers = @ \ {j}]
     IN idn' = [idn EXCEPT ![e] =
                  IF i.line # 0 THEN i
                  ELSE [i EXCEPT !.wait = "none",
                                 !.job = IF @ = j THEN 0 ELSE @]]
  /\ UNCHANGED <<at, net, faults>>

------------------------------------------------------------------------------
(* An open arrives                                                         *)

\* Mutant: only the same open again is dumped.
DumpedSame(e, i, n) == i.line # 0 /\ n = i.out

\* An open of an earlier second than that of the current line, or that line's
\* own open again.
Dumped(e, i, n) == i.line # 0 /\ (At(e, n) < At(e, i.out) \/ n = i.out)

\* Line ids start at 1 for the switch with the higher hashname.
FirstId(e) == IF e = Upper THEN 1 ELSE 2

\* Mutant: the channels of the line to the older line stay.
KeyedKeepsChannels(e, i, n) ==
  LET l == IF i.line # 0 THEN i.line ELSE Fresh(e)
  IN [i EXCEPT !.line = l, !.out = n, !.next = FirstId(e),
               !.listed = @ \union {l},
               !.reach = TRUE, !.knows = TRUE, !.met = TRUE,
               !.job = 0]

\* The current line, or a new one, is now one to the peer's line n, and the
\* identity's job is done.  Channels of a line whose open is of an earlier
\* second are closed; those of one of the same second stay.
Keyed(e, i, n) ==
  LET l == IF i.line # 0 THEN i.line ELSE Fresh(e)
  IN [i EXCEPT !.line = l, !.out = n, !.next = FirstId(e),
               !.listed = @ \union {l},
               !.chans = IF i.out > 0 /\ At(e, i.out) < At(e, n) THEN {} ELSE @,
               !.reach = TRUE, !.knows = TRUE, !.met = TRUE,
               !.job = 0]

\* Mutant: an open answers any pending job, also without a line of ours.
AnswersByJob(i) == i.job # 0

\* The open answers one of ours.
Answers(i) == i.job # 0 /\ i.line # 0

\* After an answer the peer is linked to at once, if it is not yet.
Linked(i) == IF LinkOf(i) = {} THEN Opened(i, "link") ELSE i

Served(i) ==
  IF i.wait = "none" THEN i ELSE [Opened(i, i.wait) EXCEPT !.wait = "none"]

ProcessOpen(e, n, q) ==
  LET i == idn[e]
      k == Keyed(e, i, n)
  IN IF Dumped(e, i, n) THEN net' = q /\ UNCHANGED <<idn, at>>
     ELSE Becomes(e, Served(IF Answers(i) THEN Linked(k) ELSE k), ~Answers(i), q)

Deliver(e, n) ==
  /\ n \in net[e]
  /\ ProcessOpen(e, n, [net EXCEPT ![e] = @ \ {n}])
  /\ UNCHANGED faults

\* The network delivers a copy.
Repeat(e, n) ==
  /\ n \in net[e]
  /\ ProcessOpen(e, n, net)
  /\ UNCHANGED faults

------------------------------------------------------------------------------
(* Giving up                                                               *)

Fault == faults < MaxFaults /\ faults' = faults + 1

\* Mutant: the line stays in openLines.
ClosedListed(i) ==
  [i EXCEPT !.chans = {}, !.line = 0, !.out = 0, !.next = 0, !.reach = FALSE]

\* closeChannels and closeLine.
Closed(i) ==
  [i EXCEPT !.chans = {}, !.listed = @ \ {i.line}, !.line = 0, !.out = 0,
            !.next = 0, !.reach = FALSE]

\* pingLines resets an identity whose link channel is idle or missing.
Reset(e) ==
  /\ Fault
  /\ idn[e].met
  /\ idn' = [idn EXCEPT ![e] = [Closed(idn[e]) EXCEPT !.knows = FALSE]]
  /\ UNCHANGED <<at, net>>

\* A connect request of a third switch tells of the peer: a line to it is
\* taken for dead, and opened anew through the relay.
Introduce(e) ==
  /\ Fault
  /\ MayStart(idn[e])
  /\ LET c == IF idn[e].line # 0 THEN Closed(idn[e]) ELSE idn[e]
         i == [c EXCEPT !.reach = TRUE, !.knows = TRUE]
     IN Becomes(e, Opening(i, Fresh(e)), SendsOpen(i), net)

\* The process ends and starts anew; nothing is stored.
Restart(e) ==
  /\ Fault
  /\ \E k \in BOOLEAN : idn' = [idn EXCEPT ![e] = Unknown(k)]
  /\ UNCHANGED <<at, net>>

Next ==
  \E e \in Ends :
    \/ StartLine(e)
    \/ \E t \in Types : PendChannel(e, t) \/ OpenChannel(e, t)
    \/ \E j \in Jobs : Timer(e, j)
    \/ \E n \in net[e] : Deliver(e, n) \/ Repeat(e, n)
    \/ Reset(e) \/ Introduce(e) \/ Restart(e)

\* Timers fire and opens arrive; nothing obliges anybody to open anything.
Fairness ==
  \A e \in Ends :
    /\ \A j \in Jobs : WF_vars(Timer(e, j))
    /\ \A n \in 1..(MaxFaults + 1) : WF_vars(Deliver(e, n))

Spec == Init /\ [][Next]_vars /\ Fairness

------------------------------------------------------------------------------
(* Properties.                                                             *)

Identity ==
  [line : Nat, out : Nat, next : Nat, listed : SUBSET Nat,
   reach : BOOLEAN, knows : BOOLEAN, met : BOOLEAN,
   job : {0} \union Jobs, timers : SUBSET Jobs, wait : Types \union {"none"},
   chans : SUBSET [id : Nat, type : Types, on : Nat]]

\* Lines, jobs and channel ids are numbers that were given out, and opens are
\* for lines (THSwitch, THIdentity, THLine).
TypeOK ==
  /\ idn \in [Ends -> Identity]
  /\ at \in [Ends -> Seq(Nat)]
  /\ net \in [Ends -> SUBSET Nat]
  /\ faults \in 0..MaxFaults

\* The switch finds a line by the id in a packet exactly while it is the
\* current line of its identity and an open has completed it: packets for a
\* line that was given up are dropped, and those for the current one are not.
OpenLinesCurrent ==
  \A e \in Ends :
    idn[e].listed = IF idn[e].out = 0 THEN {} ELSE {idn[e].line}

\* No channel outlives the second of the peer's line it was opened on, whichever
\* of an open, a reset, an introduction or a restart ended that line: a later
\* line numbers its channels anew, and does not know of it.
ChannelsOfLine ==
  \A e \in Ends : \A c \in idn[e].chans :
    c.on # 0 => idn[e].out # 0 /\ At(e, c.on) = At(e, idn[e].out)

Mutual(e) ==
  idn[e].out = idn[Peer(e)].line /\ idn[Peer(e)].out = idn[e].line

BothOpen == \A e \in Ends : idn[e].out # 0

\* e goes with the peer's current line, or with one of the same second.
Agrees(e) == At(e, idn[e].out) = At(e, idn[Peer(e)].line)

\* When every open has arrived, in whatever order and however often, two open
\* lines go with each other, also when one switch restarted, was reset or was
\* introduced anew in between; a line given up in the same second as the
\* current one was made in may be in its place.  (After two such events the
\* older of two opens can arrive last at a switch that has forgotten the newer
\* one, while its peer does not answer what it takes for an answer.)
QuietAgreement ==
  (\A e \in Ends : net[e] = {}) /\ BothOpen /\ faults < 2
    => \A e \in Ends : Agrees(e)

\* A switch that goes with its peer's current line, by the second, does so
\* until one of them restarts, is reset or introduced: no open that is late,
\* repeated or crosses another takes it back to a line of an earlier second,
\* and no timer or channel ends the peer's line (THCipherSet2a processOpen,
\* THSwitch openLine).
AgreementLasts ==
  [][\A e \in Ends :
       Agrees(e) /\ idn[Peer(e)].line # 0 /\ faults' = faults => Agrees(e)']_vars

\* A line a switch begins carries a link channel from the step on in which the
\* peer's open completes it, whichever timers have passed in between: the job
\* that tells an answer from an opening is still there (THSwitch processOpen,
\* the timer of openLine).  (A link channel that was opened too early, before
\* the line was complete, can lose its place to the channel that waited.)
BegunLinked ==
  [][\A e \in Ends :
       /\ idn[e].line # 0 /\ idn[e].out = 0 /\ idn'[e].out # 0
       /\ LinkOf(idn[e]) = {} \/ idn[e].wait = "none"
       => LinkOf(idn'[e]) # {}]_vars

\* Without a restart, reset or introduction, a switch that begins to open a
\* line gets one that both have completed, also when both begin at once.
HandshakeCompletes ==
  \A e \in Ends :
    idn[e].line # 0 ~> (BothOpen /\ Mutual(e)) \/ faults > 0

\* Without such an event, a channel that waits for a line is opened, or given
\* up by the timer.
WaitingServed ==
  \A e \in Ends :
    idn[e].wait # "none" ~> idn[e].wait = "none" \/ faults > 0

\* THSwitch.m:216 says of the job's timer "Unable to finalize the line" and
\* :220 "remove any pending channel jobs": a channel that waits is opened or
\* given up, whatever happened to the peer.
WaitingEnds ==
  \A e \in Ends : idn[e].wait # "none" ~> idn[e].wait = "none"

==============================================================================
