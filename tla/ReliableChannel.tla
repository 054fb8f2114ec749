--------------------------- MODULE ReliableChannel ---------------------------
(***************************************************************************)
(* One end of a THReliableChannel, as operators from a channel and a       *)
(* packet to the channel afterwards and to the packets put on the line.    *)
(* Every handler of the program runs to its end on the main queue, so one  *)
(* operator here is one handler: with the superclass call, the line's part *)
(* of the dispatch, and the sends it makes.  The two ends, their           *)
(* applications and the network are composed in LossyChannel and           *)
(* FifoChannel.                                                            *)
(***************************************************************************)
EXTENDS SeqBuffer

CONSTANT Payload      \* what applications send: a body or a json object

NoNum == -1           \* the key seq, or ack, is not in the packet's json
NoBody == "no body"   \* THPacket new: neither a body nor json of its own
End == "end"          \* {"end": true}
Err == "err"          \* {"err": "Unknown channel packet type."}

ASSUME PayloadIsContent == Payload \intersect {NoBody, End, Err} = {}

Content == Payload \union {End}
Num == Nat \union {NoNum}

\* A packet on the line: it has a seq exactly when it has content.  Its type
\* is there exactly in the packet that opens the channel, so it is not a
\* field (see LossyChannel!Typed).
Packet == [seq : Nat, ack : Num, miss : SUBSET Nat, body : Content]
          \union
          [seq : {NoNum}, ack : Num, miss : SUBSET Nat, body : {NoBody, Err}]

ErrorReply == [seq |-> NoNum, ack |-> NoNum, miss |-> {}, body |-> Err]

\* THChannelState.  Absent: no channel object has this id.
States == {"Absent", "Opening", "Open", "Ended", "Errored"}

\* What the out buffer keeps of a packet is the packet: its ack is the one of
\* the first transmission, its miss is removed before it is ever sent again.
\* The in buffer keeps what the delegate and the end check look at.
Kept == [seq : Nat, ack : Num, body : Content]
Arrived == [seq : Nat, body : Content]

Channel == [state : States,
            registered : BOOLEAN,   \* it is in toIdentity.channels
            sequence : Nat,         \* the next seq to give out
            lastAck : Nat,          \* the last ack put in a packet
            lastProcessed : Nat,    \* the last seq handed to the delegate, or 0
            nextExpected : Nat,
            missing : SUBSET Nat,   \* what the next packet asks for
            in : SUBSET Arrived,
            out : SUBSET Kept,
            ping : BOOLEAN]         \* a checkAckPing timer runs

NoChannel == [state |-> "Absent", registered |-> FALSE, sequence |-> 0,
              lastAck |-> 0, lastProcessed |-> 0, nextExpected |-> 0,
              missing |-> {}, in |-> Empty, out |-> Empty, ping |-> FALSE]

\* Mutant: a channel that has processed nothing says so with -1.
NewChannelBelowZero(state) ==
  [NoChannel EXCEPT !.state = state, !.registered = TRUE, !.lastProcessed = -1]

\* initToIdentity:, then the identity's table of channels.
NewChannel(state) == [NoChannel EXCEPT !.state = state, !.registered = TRUE]

------------------------------------------------------------------------------
(* sendPacket:                                                             *)

MaySend(c) == c.state \notin {"Ended", "Errored"}

\* Mutant: acks the packet expected next.
StampedEarly(c, body) ==
  [seq  |-> IF body = NoBody THEN NoNum ELSE c.sequence,
   ack  |-> IF c.lastProcessed >= c.lastAck THEN c.nextExpected ELSE NoNum,
   miss |-> c.missing,
   body |-> body]

\* The packet as sendPacket completes it.
Stamped(c, body) ==
  [seq  |-> IF body = NoBody THEN NoNum ELSE c.sequence,
   ack  |-> IF c.lastProcessed >= c.lastAck THEN c.lastProcessed ELSE NoNum,
   miss |-> c.missing,
   body |-> body]

Keep(m) == [seq |-> m.seq, ack |-> m.ack, body |-> m.body]

AfterSend(c, body) ==
  [c EXCEPT !.sequence = IF body = NoBody THEN @ ELSE @ + 1,
            !.lastAck = IF c.lastProcessed >= @ THEN c.lastProcessed ELSE @,
            !.out = IF body = NoBody THEN @ ELSE Push(@, Keep(Stamped(c, body)))]

\* What reaches the line when the channel sends m.
Transmitted(c, m) == IF c.state = "Open" THEN {m} ELSE {}

------------------------------------------------------------------------------
(* close, and the identity's closeChannels                                 *)

\* close sends an end packet unless the channel is opening or has ended; the
\* caller of this operator puts Stamped(c, End) on the line in that case.
SendsEnd(c) == c.state \notin {"Opening", "Ended", "Errored"}

\* Mutant: the closed channel stays in the table.
AfterCloseListed(c) ==
  [(IF SendsEnd(c) THEN AfterSend(c, End) ELSE c) EXCEPT
      !.state = IF @ = "Opening" THEN @ ELSE "Ended"]

AfterClose(c) ==
  [(IF SendsEnd(c) THEN AfterSend(c, End) ELSE c) EXCEPT
      !.state = IF @ = "Opening" THEN @ ELSE "Ended",
      !.registered = FALSE]

AfterCloseChannels(c) == [c EXCEPT !.state = "Ended", !.registered = FALSE]

------------------------------------------------------------------------------
(* handlePacket:                                                           *)

\* Mutant: the errored channel stays in the table.
DispatchedListed(c, m) ==
  [c EXCEPT !.state = IF m.body = Err THEN "Errored"
                      ELSE IF m.seq = 0 /\ m.ack \in {0, NoNum} THEN "Open"
                      ELSE @]

\* What happens to the channel before its buffers are touched: the line sets
\* a channel open that gets a packet with seq 0 and ack 0 (an absent ack
\* reads as 0); the superclass turns an err into an errored channel that is
\* no longer in the table.
Dispatched(c, m) ==
  [c EXCEPT !.state = IF m.body = Err THEN "Errored"
                      ELSE IF m.seq = 0 /\ m.ack \in {0, NoNum} THEN "Open"
                      ELSE @,
            !.registered = @ /\ m.body # Err]

\* resendMissingPackets: what goes out again for a request, if the channel is
\* open.
Resent(c, m) ==
  IF c.state # "Open" THEN {}
  ELSE {[seq |-> p.seq, ack |-> p.ack, miss |-> {}, body |-> p.body] :
          p \in PacketsForMiss(c.out, m.miss)}

Acknowledged(out, m) == IF m.ack = NoNum THEN out ELSE ClearThrough(out, m.ack)

\* Mutant: only a packet above the last one processed is buffered.
BufferedAbove(c, m) ==
  IF m.seq # NoNum /\ m.seq > c.lastProcessed
    THEN Push(c.in, [seq |-> m.seq, body |-> m.body])
    ELSE c.in

\* A packet with a seq goes on the incoming buffer unless its seq is below
\* the last one processed.
Buffered(c, m) ==
  IF m.seq # NoNum /\ m.seq >= c.lastProcessed
    THEN Push(c.in, [seq |-> m.seq, body |-> m.body])
    ELSE c.in

\* The loop of delegateHandlePackets, which takes packets n, n+1, ... while
\* the front of the buffer is the one expected and stops behind an end, stops
\* in front of k.
RunEnds(buf, n, k) ==
  /\ n <= k
  /\ \A i \in n..(k - 1) : i \in Seqs(buf)
  /\ \A i \in n..(k - 2) : PacketAt(buf, i).body # End
  /\ n < k => FrontIs(buf, n)
  /\ \/ k \notin Seqs(buf)
     \/ n = k /\ ~FrontIs(buf, n)
     \/ n < k /\ PacketAt(buf, k - 1).body = End

\* Where the run may end: at n, or behind a buffered packet.
RunLimits(buf, n) == {n} \union {i + 1 : i \in Seqs(buf)}

\* Mutant: an end ends nothing.
RunNeverCloses(buf, n, k) == FALSE

\* The last packet of the run n..k-1 ends the channel.
RunCloses(buf, n, k) == n < k /\ PacketAt(buf, k - 1).body = End

\* Mutant: the number expected next does not move.
AfterRunExpectingSame(c, buf, k) ==
  LET n == c.nextExpected
      left == IF n < k THEN PopBelow(buf, k) ELSE buf
      closes == RunCloses(buf, n, k)
  IN [c EXCEPT !.in = left,
               !.lastProcessed = IF n < k THEN k - 1 ELSE @,
               !.missing = IF buf = Empty THEN @ ELSE MissingSeqFrom(left, k),
               !.state = IF closes THEN "Ended" ELSE @,
               !.registered = @ /\ ~closes]

\* Mutant: the missing numbers are listed once, before the loop.
AfterRunListingFirst(c, buf, k) ==
  LET n == c.nextExpected
      closes == RunCloses(buf, n, k)
  IN [c EXCEPT !.in = IF n < k THEN PopBelow(buf, k) ELSE buf,
               !.lastProcessed = IF n < k THEN k - 1 ELSE @,
               !.nextExpected = k,
               !.missing = IF buf = Empty THEN @ ELSE MissingSeqFrom(c.in, n),
               !.state = IF closes THEN "Ended" ELSE @,
               !.registered = @ /\ ~closes]

\* The channel after the loop, its run being nextExpected..k-1.  The list of
\* missing numbers is computed at every turn of the loop, so afterwards it is
\* that of the packets left; an empty buffer leaves the old list alone.
AfterRun(c, buf, k) ==
  LET n == c.nextExpected
      left == IF n < k THEN PopBelow(buf, k) ELSE buf
      closes == RunCloses(buf, n, k)
  IN [c EXCEPT !.in = left,
               !.lastProcessed = IF n < k THEN k - 1 ELSE @,
               !.nextExpected = k,
               !.missing = IF buf = Empty THEN @ ELSE MissingSeqFrom(left, k),
               !.state = IF closes THEN "Ended" ELSE @,
               !.registered = @ /\ ~closes]

\* Mutant: no checkAckPing timer is started.
HandledWithoutPing(c, m, k) ==
  LET d == Dispatched(c, m)
  IN AfterRun([d EXCEPT !.out = Acknowledged(@, m)], Buffered(c, m), k)

\* What an end holds after handlePacket, before the request that the loop
\* may send; k says where the run of delivered packets stops.
Handled(c, m, k) ==
  LET d == Dispatched(c, m)
      acked == [d EXCEPT !.out = Acknowledged(@, m), !.ping = TRUE]
  IN AfterRun(acked, Buffered(c, m), k)

\* Mutant: every packet is answered.
RequestsAlways(c) == MaySend(c)

\* The loop leaves a buffer whose front is not the packet expected: the
\* channel asks for what is missing, with an empty packet.
Requests(c) ==
  /\ MaySend(c)
  /\ c.in # Empty
  /\ c.missing # {}

AfterHandle(c, m, k) ==
  LET h == Handled(c, m, k) IN IF Requests(h) THEN AfterSend(h, NoBody) ELSE h

\* Everything the handler puts on the line.
HandleSends(c, m, k) ==
  LET h == Handled(c, m, k)
  IN Resent(Dispatched(c, m), m) \union
     (IF Requests(h) THEN Transmitted(h, Stamped(h, NoBody)) ELSE {})

\* A packet with a type and seq 0, for a channel that is not in the table:
\* the line makes an opening channel, enters it, has it handle the packet,
\* and then sets it open, whatever the packet did to it.
Newborn == [NewChannel("Opening") EXCEPT !.ping = TRUE]

Accepted(m, k) ==
  [AfterRun(Newborn, Buffered(Newborn, m), k) EXCEPT !.state = "Open"]

\* A packet without a type, for a channel that is not in the table, is
\* ignored when it is an end, an err, or bare, and is refused otherwise.
Spurious(m) ==
  \/ m.body \in {End, Err}
  \/ m.seq = NoNum /\ m.ack = NoNum /\ m.miss = {}

------------------------------------------------------------------------------
(* checkAckPing, when its timer fires                                      *)

PingSends(c) == c.lastAck < c.lastProcessed /\ MaySend(c)

AfterPing(c) ==
  [(IF PingSends(c) THEN AfterSend(c, NoBody) ELSE c) EXCEPT !.ping = FALSE]

==============================================================================
