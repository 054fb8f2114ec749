----------------------------- MODULE FifoChannel ------------------------------
(***************************************************************************)
(* The two ends of LossyChannel over a network that keeps the order of     *)
(* packets and loses at most MaxLoss of them: what the channel achieves    *)
(* when the network is kind to it.  There are no retransmission timers in  *)
(* the code, so nothing but an arriving packet or a checkAckPing timer     *)
(* makes an end speak, besides its application.                            *)
(***************************************************************************)
EXTENDS ReliableChannel, Sequences, SequencesExt

CONSTANTS Opener, Responder,
          Amount,    \* bound: Amount[e] packets of content from e
          MaxLoss    \* bound: packets the network loses

Ends == {Opener, Responder}
Peer(e) == IF e = Opener THEN Responder ELSE Opener

ASSUME TwoEnds == Opener # Responder
ASSUME AmountIsNat == Amount \in [Ends -> Nat]

VARIABLES ch,       \* ch[e]: the end of e
          queue,    \* queue[e]: the packets on their way to e
          losses    \* packets lost so far

vars == <<ch, queue, losses>>

Init ==
  /\ ch = [e \in Ends |-> NoChannel]
  /\ queue = [e \in Ends |-> <<>>]
  /\ losses = 0

\* The packets a handler sends, in its order: resends go out by rising seq, a
\* request or a ping comes last.
Ordered(ms) ==
  CHOOSE s \in [1..Cardinality(ms) -> ms] :
    /\ IsInjective(s)
    /\ \A i, j \in DOMAIN s :
         i < j => s[i].seq # NoNum /\ (s[j].seq = NoNum \/ s[i].seq < s[j].seq)

Post(q, e, ms) == [q EXCEPT ![Peer(e)] = @ \o Ordered(ms)]

SendContent(e, c, b) ==
  /\ ch' = [ch EXCEPT ![e] = AfterSend(c, b)]
  /\ queue' = Post(queue, e, Transmitted(c, Stamped(c, b)))
  /\ UNCHANGED losses

OpenChannel ==
  /\ ch[Opener].state = "Absent"
  /\ \E b \in Payload : SendContent(Opener, NewChannel("Open"), b)

AppSend(e) ==
  /\ ch[e].state = "Open"
  /\ ch[e].sequence < Amount[e]
  /\ \E b \in Payload : SendContent(e, ch[e], b)

\* Mutant: closes without an end.
CloseSilently(e) ==
  /\ ch[e].state = "Open"
  /\ ch' = [ch EXCEPT ![e] = AfterClose(ch[e])]
  /\ UNCHANGED <<queue, losses>>

Close(e) ==
  /\ ch[e].state = "Open"
  /\ ch' = [ch EXCEPT ![e] = AfterClose(ch[e])]
  /\ queue' = Post(queue, e, Transmitted(ch[e], Stamped(ch[e], End)))
  /\ UNCHANGED losses

\* The application closes an end that has failed: nothing is sent.
CloseErrored(e) ==
  /\ ch[e].state = "Errored"
  /\ ch' = [ch EXCEPT ![e] = AfterClose(ch[e])]
  /\ UNCHANGED <<queue, losses>>

Handle(e, m, q) ==
  /\ ch[e].registered
  /\ LET buf == Buffered(ch[e], m)
         n == ch[e].nextExpected
     IN \E k \in RunLimits(buf, n) :
          /\ RunEnds(buf, n, k)
          /\ ch' = [ch EXCEPT ![e] = AfterHandle(ch[e], m, k)]
          /\ queue' = Post(q, e, HandleSends(ch[e], m, k))

\* The first packet that arrives makes the responder's end; the queue holds
\* no copy of it that could make another one.
Accept(e, m, q) ==
  /\ ~ch[e].registered
  /\ e = Responder /\ m.seq = 0
  /\ LET buf == Buffered(Newborn, m)
     IN \E k \in RunLimits(buf, 0) :
          RunEnds(buf, 0, k) /\ ch' = [ch EXCEPT ![e] = Accepted(m, k)]
  /\ queue' = q

Refuse(e, m, q) ==
  /\ ~ch[e].registered
  /\ ~(e = Responder /\ m.seq = 0)
  /\ UNCHANGED ch
  /\ queue' = IF Spurious(m) THEN q ELSE Post(q, e, {ErrorReply})

\* The oldest packet on its way to e arrives.
Deliver(e) ==
  /\ queue[e] # <<>>
  /\ LET m == Head(queue[e])
         q == [queue EXCEPT ![e] = Tail(@)]
     IN Handle(e, m, q) \/ Accept(e, m, q) \/ Refuse(e, m, q)
  /\ UNCHANGED losses

AckPing(e) ==
  /\ ch[e].ping
  /\ ch' = [ch EXCEPT ![e] = AfterPing(ch[e])]
  /\ queue' = Post(queue, e, IF PingSends(ch[e])
                               THEN Transmitted(ch[e], Stamped(ch[e], NoBody))
                               ELSE {})
  /\ UNCHANGED losses

Lose(e) ==
  /\ queue[e] # <<>>
  /\ losses < MaxLoss
  /\ losses' = losses + 1
  /\ queue' = [queue EXCEPT ![e] = Tail(@)]
  /\ UNCHANGED ch

Next ==
  \/ OpenChannel
  \/ \E e \in Ends :
       \/ AppSend(e) \/ Close(e) \/ CloseErrored(e)
       \/ Deliver(e) \/ AckPing(e) \/ Lose(e)

\* The main queue runs every handler and every timer that is due; nothing
\* obliges an application to send or to close.
Fairness == \A e \in Ends : WF_vars(Deliver(e)) /\ WF_vars(AckPing(e))

Spec == Init /\ [][Next]_vars /\ Fairness

------------------------------------------------------------------------------
(* Properties.                                                             *)

Over == \E e \in Ends : ch[e].state \in {"Ended", "Errored"}

\* The numbers of the contents e can send: its packets and its end.
Numbers(e) == 0..Amount[e]

\* When packets arrive in order and none is lost, no end ever fails: an err
\* reply, which the line sends for a channel it does not know, cannot
\* overtake the packets and the end it follows.
NoFalseError ==
  losses = 0 => \A e \in Ends : ch[e].state # "Errored"

\* When packets arrive in order and none is lost, everything an end sends is
\* eventually processed by the other end, unless one of them goes over.
EverythingProcessed ==
  \A e \in Ends : \A n \in Numbers(e) :
    ch[e].sequence > n ~>
      (ch[Peer(e)].nextExpected > n \/ Over \/ losses > 0)

\* When packets arrive in order and none is lost, an end that ends takes the
\* other end with it.
EndReaches ==
  \A e \in Ends :
    ch[e].state = "Ended" ~>
      (ch[Peer(e)].state \in {"Ended", "Errored"} \/ losses > 0)

\* When none is lost, every packet but the first eventually leaves the
\* sender's out buffer: acks get through without the application's help.
AcksDrain ==
  \A e \in Ends : \A n \in Numbers(e) \ {0} :
    n \in Seqs(ch[e].out) ~>
      (n \notin Seqs(ch[e].out) \/ Over \/ losses > 0)

\* The ends stop talking: requests, resends, refusals and pings answer one
\* another only finitely often, also when a packet is lost.
FallsSilent == <>[](\A e \in Ends : queue[e] = <<>>)

\* One lost packet is repaired once the receiver sees the gap, unless it is
\* the responder's first: the opener's packets ack it before it arrives, so
\* that the responder no longer has it (see LossyChannel!Retained).
Repairable(e, n) == e = Responder \/ n > 0

GapsClose ==
  \A e \in Ends : \A n \in Numbers(Peer(e)) :
    Repairable(e, n) =>
      (n \in ch[e].missing ~> (n \notin ch[e].missing \/ Over))

==============================================================================
