----------------------------- MODULE LossyChannel -----------------------------
(***************************************************************************)
(* Two switches and one reliable channel between them, over a network that *)
(* loses, duplicates, delays and reorders packets, as UDP does: net[e] is  *)
(* the set of all packets ever sent to e, any of which may arrive at any   *)
(* time, any number of times, or never.                                    *)
(*                                                                         *)
(* The opener creates the channel with its first packet; the responder's   *)
(* line creates the other end when that packet arrives.  Once an end has   *)
(* left the table of channels the same packet creates a new object: born   *)
(* counts the objects, and the histories are those of the current one.     *)
(***************************************************************************)
EXTENDS ReliableChannel, Sequences

CONSTANTS Opener, Responder,
          Script,    \* Script[e]: what the application of e sends, in order
          MaxBorn    \* bound: channel objects the responder creates

Ends == {Opener, Responder}
Peer(e) == IF e = Opener THEN Responder ELSE Opener

ASSUME TwoEnds == Opener # Responder
ASSUME ScriptIsContent == Script \in [Ends -> Seq(Payload)]
ASSUME MaxBornIsNat == MaxBorn \in Nat

VARIABLES ch,         \* ch[e]: the end of e
          net,        \* net[e]: the packets sent to e
          sent,       \* sent[e]: contents given a seq by the current object of e
          delivered,  \* delivered[e]: contents handed to the delegate of e
          born        \* channel objects the responder has created

vars == <<ch, net, sent, delivered, born>>

Init ==
  /\ ch = [e \in Ends |-> NoChannel]
  /\ net = [e \in Ends |-> {}]
  /\ sent = [e \in Ends |-> <<>>]
  /\ delivered = [e \in Ends |-> <<>>]
  /\ born = 0

\* The packet that opens the channel has a type; no other packet has one.
Typed(e, m) == e = Responder /\ m.seq = 0

Send(e, ms) == net' = [net EXCEPT ![Peer(e)] = @ \union ms]

\* The application of e gives the content b to channel c of e.
SendContent(e, c, b) ==
  /\ ch' = [ch EXCEPT ![e] = AfterSend(c, b)]
  /\ sent' = [sent EXCEPT ![e] = Append(@, b)]
  /\ Send(e, Transmitted(c, Stamped(c, b)))
  /\ UNCHANGED <<delivered, born>>

NextContent(e) == Script[e][Len(sent[e]) + 1]
HasContent(e) == Len(sent[e]) < Len(Script[e])

\* openChannel:firstPacket: on a line that is open.
OpenChannel ==
  /\ ch[Opener].state = "Absent"
  /\ HasContent(Opener)
  /\ SendContent(Opener, NewChannel("Open"), NextContent(Opener))

AppSend(e) ==
  /\ ch[e].state = "Open"
  /\ HasContent(e)
  /\ SendContent(e, ch[e], NextContent(e))

\* The application closes its end.
Close(e) ==
  /\ ch[e].state = "Open"
  /\ ch' = [ch EXCEPT ![e] = AfterClose(ch[e])]
  /\ sent' = [sent EXCEPT ![e] = Append(@, End)]
  /\ Send(e, Transmitted(ch[e], Stamped(ch[e], End)))
  /\ UNCHANGED <<delivered, born>>

\* The application closes an end that has failed: nothing is sent.
CloseErrored(e) ==
  /\ ch[e].state = "Errored"
  /\ ch' = [ch EXCEPT ![e] = AfterClose(ch[e])]
  /\ UNCHANGED <<net, sent, delivered, born>>

\* The identity closes its channels: a newer open arrived on its line, or the
\* mesh reset it.
CloseChannels(e) ==
  /\ ch[e].registered
  /\ ch' = [ch EXCEPT ![e] = AfterCloseChannels(ch[e])]
  /\ UNCHANGED <<net, sent, delivered, born>>

\* What the run n..k-1 of the buffer hands to the delegate.
Run(buf, n, k) == [i \in 1..(k - n) |-> PacketAt(buf, n + i - 1).body]

\* A packet for a channel in the table.
Handle(e, m) ==
  /\ ch[e].registered
  /\ LET buf == Buffered(ch[e], m)
         n == ch[e].nextExpected
     IN \E k \in RunLimits(buf, n) :
          /\ RunEnds(buf, n, k)
          /\ ch' = [ch EXCEPT ![e] = AfterHandle(ch[e], m, k)]
          /\ delivered' = [delivered EXCEPT ![e] = @ \o Run(buf, n, k)]
          /\ Send(e, HandleSends(ch[e], m, k))
  /\ UNCHANGED <<sent, born>>

\* The line of the responder makes a channel for the packet that opens it.
Accept(e, m) ==
  /\ ~ch[e].registered
  /\ Typed(e, m)
  /\ born < MaxBorn
  /\ LET buf == Buffered(Newborn, m)
     IN \E k \in RunLimits(buf, 0) :
          /\ RunEnds(buf, 0, k)
          /\ ch' = [ch EXCEPT ![e] = Accepted(m, k)]
          /\ delivered' = [delivered EXCEPT ![e] = Run(buf, 0, k)]
  /\ sent' = [sent EXCEPT ![e] = <<>>]
  /\ born' = born + 1
  /\ UNCHANGED net

\* The line answers a packet without a type with an err.
Refuse(e, m) ==
  /\ ~ch[e].registered
  /\ ~Typed(e, m)
  /\ ~Spurious(m)
  /\ Send(e, {ErrorReply})
  /\ UNCHANGED <<ch, sent, delivered, born>>

\* A checkAckPing timer of e fires.
AckPing(e) ==
  /\ ch[e].ping
  /\ ch' = [ch EXCEPT ![e] = AfterPing(ch[e])]
  /\ Send(e, IF PingSends(ch[e]) THEN Transmitted(ch[e], Stamped(ch[e], NoBody))
             ELSE {})
  /\ UNCHANGED <<sent, delivered, born>>

Receive(e, m) == Handle(e, m) \/ Accept(e, m) \/ Refuse(e, m)

Next ==
  \/ OpenChannel
  \/ \E e \in Ends :
       \/ AppSend(e)
       \/ Close(e)
       \/ CloseErrored(e)
       \/ CloseChannels(e)
       \/ AckPing(e)
       \/ \E m \in net[e] : Receive(e, m)

Spec == Init /\ [][Next]_vars

------------------------------------------------------------------------------
(* Properties.                                                             *)

\* A channel keeps the state its code gives it and the network holds packets
\* (THReliableChannel).
TypeOK ==
  /\ ch \in [Ends -> Channel]
  /\ net \in [Ends -> SUBSET Packet]
  /\ sent \in [Ends -> Seq(Content)]
  /\ delivered \in [Ends -> Seq(Content)]
  /\ born \in Nat

\* The streams between the two current objects are one session.
OneSession == born <= 1

IsPrefixOf(s, t) == Len(s) <= Len(t) /\ \A i \in 1..Len(s) : s[i] = t[i]

\* What the delegate of an end is handed is a prefix of what the other end
\* sent: in order, without gaps, nothing twice, whatever the network does and
\* whatever requests, resends and pings cross.
\* The opener's end has one session only; between a second object of the
\* responder and the opener's first one the promise is void.
InOrder ==
  \A e \in Ends : e = Responder \/ OneSession =>
    IsPrefixOf(delivered[e], sent[Peer(e)])

\* Why: a packet of the stream from e, wherever it is kept, is the one that
\* was given its seq; and an end that is not there yet has no history.
Genuine(e, p) == p.seq < Len(sent[e]) /\ p.body = sent[e][p.seq + 1]

StreamInv(e) ==
  LET r == Peer(e) IN
  /\ ch[e].sequence = Len(sent[e])
  /\ \A p \in ch[e].out \union ch[r].in : Genuine(e, p)
  /\ \A m \in net[r] : m.seq # NoNum => Genuine(e, m)
  /\ Len(delivered[r]) = ch[r].nextExpected
  /\ IsPrefixOf(delivered[r], sent[e])

Unborn(e) ==
  /\ ch[e] = NoChannel /\ sent[e] = <<>> /\ delivered[e] = <<>>

OrderInv ==
  /\ \A e \in Ends : ch[e].state = "Absent" => Unborn(e)
  /\ born = 0 => ch[Responder].state = "Absent"
  /\ \A e \in Ends : e = Opener \/ OneSession => StreamInv(e)

\* The sequence numbers an end still owes its peer.
Unprocessed(e) == ch[Peer(e)].nextExpected..(ch[e].sequence - 1)

\* An end keeps every packet its peer has not processed, so that a request
\* can be answered.  For the responder this is so from seq 1 on only: an end
\* that has processed nothing sends ack 0, and its peer drops packet 0.
Retained ==
  OneSession =>
    \A e \in Ends : \A n \in Unprocessed(e) :
      n \in Seqs(ch[e].out) \/ (e = Responder /\ n = 0)

\* An ack on the line, however old, names a packet its sender has processed,
\* except that an end that has processed nothing sends ack 0.
AckSound ==
  OneSession =>
    \A e \in Ends : \A m \in net[e] :
      m.ack > 0 => m.ack < ch[Peer(e)].nextExpected

\* The list of missing numbers, which is computed in one handler and sent by
\* later ones, is never stale: it is exactly the expected numbers below the
\* highest one buffered that are not buffered.
MissingIsCurrent ==
  \A e \in Ends :
    LET c == ch[e] IN
    c.missing = {i \in UNION {c.nextExpected..(j - 1) : j \in Seqs(c.in)} :
                   i \notin Seqs(c.in)}

\* An end that has ended or failed stays so: no late packet, timer or request
\* makes it deliver or send content again, or brings it back to the table,
\* unless the responder's line makes a new object.
EndedStaysEnded ==
  [][\A e \in Ends :
       ch[e].state \in {"Ended", "Errored"} /\ born' = born =>
         /\ ch'[e].state \in {ch[e].state, "Ended"} /\ ~ch'[e].registered
         /\ delivered'[e] = delivered[e] /\ sent'[e] = sent[e]
         /\ \A m \in net'[Peer(e)] \ net[Peer(e)] : m = ErrorReply]_vars

\* While the responder has had one object for the channel, the two ends are
\* the two streams of ReliableStream: the promise to the applications.
Life(e) == IF ch[e].state = "Absent" THEN "none"
           ELSE IF ch[e].state = "Open" THEN "live" ELSE "over"
Stream == INSTANCE ReliableStream WITH
            life <- [e \in Ends |-> Life(e)], Last <- End
StreamSpec ==
  Stream!Init /\ [][OneSession' => [Stream!Next]_(Stream!vars)]_vars

\* What THReliableChannel.m:67 says of a packet with a seq, "If this is a new
\* seq object we'll need to pass it off": no channel keeps the very packet it
\* expects next in its buffer.
NewSeqPassedOff ==
  \A e \in Ends :
    ch[e].registered => ch[e].nextExpected \notin Seqs(ch[e].in)

==============================================================================
