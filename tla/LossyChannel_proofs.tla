------------------------- MODULE LossyChannel_proofs --------------------------
(***************************************************************************)
(* Theorems about LossyChannel, for every script of contents and every     *)
(* number of objects the responder makes.                                  *)
(***************************************************************************)
EXTENDS LossyChannel, ReliableChannel_proofs, SequenceTheorems

LEMMA PeerProperty ==
  \A e \in Ends : Peer(e) \in Ends /\ Peer(e) # e /\ Peer(Peer(e)) = e
BY TwoEnds DEF Ends, Peer

\* What an application sends next is content.
LEMMA NextContentType ==
  ASSUME NEW e \in Ends, TypeOK, HasContent(e)
  PROVE  NextContent(e) \in Payload
<1>1. Len(sent[e]) + 1 \in 1..Len(Script[e])
  BY ScriptIsContent DEF TypeOK, HasContent
<1> QED BY <1>1, ScriptIsContent DEF NextContent

\* A run of a buffer hands over contents, one for each number.
LEMMA RunType ==
  ASSUME NEW buf \in SUBSET Arrived, NEW n \in Nat, NEW k \in Nat, n <= k,
         \A i \in n..(k - 1) : i \in Seqs(buf)
  PROVE  /\ Run(buf, n, k) \in Seq(Content)
         /\ Len(Run(buf, n, k)) = k - n
         /\ \A i \in 1..(k - n) : Run(buf, n, k)[i] = PacketAt(buf, n + i - 1).body
<1>1. \A i \in 1..(k - n) : PacketAt(buf, n + i - 1) \in Arrived
  <2> TAKE i \in 1..(k - n)
  <2>1. n + i - 1 \in n..(k - 1)
    OBVIOUS
  <2> QED BY <2>1, PacketAtProperty
<1> QED BY <1>1 DEF Run, Arrived

\* Where a run stops, it has not gone back.
LEMMA RunEndsProperty ==
  ASSUME NEW c \in Channel, NEW m \in Packet,
         NEW k \in RunLimits(Buffered(c, m), c.nextExpected),
         RunEnds(Buffered(c, m), c.nextExpected, k)
  PROVE  /\ k \in Nat /\ c.nextExpected <= k
         /\ \A i \in c.nextExpected..(k - 1) : i \in Seqs(Buffered(c, m))
<1>1. Buffered(c, m) \in SUBSET Arrived /\ k \in Nat
  BY BufferedType
<1> QED BY <1>1 DEF RunEnds

\* Every reachable state is typed: in particular no number of a channel ever
\* goes below 0, and what is on the line is a packet.
THEOREM TypeCorrect == Spec => []TypeOK
<1>1. Init => TypeOK
  BY NewChannelType DEF Init, TypeOK
<1>2. TypeOK /\ [Next]_vars => TypeOK'
  <2> SUFFICES ASSUME TypeOK, [Next]_vars PROVE TypeOK'
    OBVIOUS
  <2> USE PeerProperty
  <2>1. ASSUME NEW e \in Ends, NEW c \in Channel, NEW b \in Content,
               SendContent(e, c, b)
        PROVE  TypeOK'
    <3>1. AfterSend(c, b) \in Channel /\ Stamped(c, b) \in Packet
      BY AfterSendType, StampedType
    <3>2. Transmitted(c, Stamped(c, b)) \subseteq Packet
      BY <3>1 DEF Transmitted
    <3>3. Append(sent[e], b) \in Seq(Content)
      BY DEF TypeOK
    <3> QED BY <2>1, <3>1, <3>2, <3>3 DEF SendContent, Send, TypeOK
  <2>2. CASE OpenChannel
    <3>1. NewChannel("Open") \in Channel
      BY NewChannelType DEF States
    <3>2. NextContent(Opener) \in Content
      BY <2>2, NextContentType DEF OpenChannel, Ends, Content
    <3> QED BY <2>1, <2>2, <3>1, <3>2 DEF OpenChannel, Ends
  <2>3. ASSUME NEW e \in Ends, AppSend(e) PROVE TypeOK'
    <3>1. ch[e] \in Channel /\ NextContent(e) \in Content
      BY <2>3, NextContentType DEF AppSend, TypeOK, Content
    <3> QED BY <2>1, <2>3, <3>1 DEF AppSend
  <2>4. ASSUME NEW e \in Ends, Close(e) PROVE TypeOK'
    <3>1. ch[e] \in Channel /\ AfterClose(ch[e]) \in Channel
      BY AfterCloseType DEF TypeOK
    <3>2. Transmitted(ch[e], Stamped(ch[e], End)) \subseteq Packet
      BY <3>1, StampedType DEF Transmitted, Content
    <3>3. Append(sent[e], End) \in Seq(Content)
      BY DEF TypeOK, Content
    <3> QED BY <2>4, <3>1, <3>2, <3>3 DEF Close, Send, TypeOK
  <2>5. ASSUME NEW e \in Ends, CloseChannels(e) PROVE TypeOK'
    <3>1. AfterCloseChannels(ch[e]) \in Channel
      BY ZenonT(40) DEF AfterCloseChannels, TypeOK, Channel, States
    <3> QED BY <2>5, <3>1 DEF CloseChannels, TypeOK
  <2>6. ASSUME NEW e \in Ends, AckPing(e) PROVE TypeOK'
    <3>1. ch[e] \in Channel /\ AfterPing(ch[e]) \in Channel
      BY AfterPingType DEF TypeOK
    <3>2. Transmitted(ch[e], Stamped(ch[e], NoBody)) \subseteq Packet
      BY <3>1, StampedType DEF Transmitted
    <3> QED BY <2>6, <3>1, <3>2 DEF AckPing, Send, TypeOK
  <2>7. ASSUME NEW e \in Ends, NEW m \in net[e], Handle(e, m) PROVE TypeOK'
    <3> DEFINE buf == Buffered(ch[e], m)
               n == ch[e].nextExpected
    <3>1. ch[e] \in Channel /\ m \in Packet
      BY DEF TypeOK
    <3>2. PICK k \in RunLimits(buf, n) :
            /\ RunEnds(buf, n, k)
            /\ ch' = [ch EXCEPT ![e] = AfterHandle(ch[e], m, k)]
            /\ delivered' = [delivered EXCEPT ![e] = @ \o Run(buf, n, k)]
            /\ Send(e, HandleSends(ch[e], m, k))
      BY <2>7 DEF Handle
    <3>3. /\ k \in Nat /\ n \in Nat /\ n <= k /\ buf \in SUBSET Arrived
          /\ \A i \in n..(k - 1) : i \in Seqs(buf)
      BY <3>1, <3>2, RunEndsProperty, BufferedType DEF Channel
    <3>4. AfterHandle(ch[e], m, k) \in Channel
      BY <3>1, <3>3, AfterHandleFields
    <3>5. HandleSends(ch[e], m, k) \subseteq Packet
      BY <3>1, <3>3, HandleSendsShape
    <3>6. delivered[e] \o Run(buf, n, k) \in Seq(Content)
      <4>1. Run(buf, n, k) \in Seq(Content)
        BY <3>3, RunType
      <4> HIDE DEF buf, n
      <4> QED BY <4>1, ConcatProperties DEF TypeOK
    <3>7. UNCHANGED <<sent, born>>
      BY <2>7 DEF Handle
    <3> HIDE DEF buf, n
    <3> QED BY <3>2, <3>4, <3>5, <3>6, <3>7 DEF Send, TypeOK
  <2>8. ASSUME NEW e \in Ends, NEW m \in net[e], Accept(e, m) PROVE TypeOK'
    <3> DEFINE buf == Buffered(Newborn, m)
    <3>1. Newborn \in Channel /\ m \in Packet /\ Newborn.nextExpected = 0
      BY NewChannelType DEF TypeOK, Newborn, NewChannel, NoChannel
    <3>2. PICK k \in RunLimits(buf, 0) :
            /\ RunEnds(buf, 0, k)
            /\ ch' = [ch EXCEPT ![e] = Accepted(m, k)]
            /\ delivered' = [delivered EXCEPT ![e] = Run(buf, 0, k)]
      BY <2>8 DEF Accept
    <3>3. /\ k \in Nat /\ 0 \in Nat /\ 0 <= k /\ buf \in SUBSET Arrived
          /\ \A i \in 0..(k - 1) : i \in Seqs(buf)
      BY <3>1, <3>2, RunEndsProperty, BufferedType
    <3>4. Accepted(m, k) \in Channel
      BY <3>1, <3>3, AcceptedFields
    <3> HIDE DEF buf
    <3>5. Run(buf, 0, k) \in Seq(Content)
      BY ONLY <3>3, RunType
    <3> QED BY <2>8, <3>2, <3>4, <3>5 DEF Accept, TypeOK
  <2>9. ASSUME NEW e \in Ends, NEW m \in net[e], Refuse(e, m) PROVE TypeOK'
    BY <2>9 DEF Refuse, Send, TypeOK, ErrorReply, Packet, Num
  <2>10. ASSUME NEW e \in Ends, CloseErrored(e) PROVE TypeOK'
    <3>1. AfterClose(ch[e]) \in Channel
      BY AfterCloseType DEF TypeOK
    <3> QED BY <2>10, <3>1 DEF CloseErrored, TypeOK
  <2>11. CASE UNCHANGED vars
    BY <2>11 DEF vars, TypeOK
  <2> QED BY <2>2, <2>3, <2>4, <2>5, <2>6, <2>7, <2>8, <2>9, <2>10, <2>11
      DEF Next, Receive
<1> QED BY <1>1, <1>2, PTL DEF Spec

------------------------------------------------------------------------------
(* OrderInv, the inductive invariant behind InOrder: one lemma for each way *)
(* a step can touch a stream.                                               *)

\* The stream from e survives a step in which e gives out no number and the
\* receiver takes nothing: old packets may be sent again, acked ones dropped.
LEMMA StreamStays ==
  ASSUME NEW e \in Ends, TypeOK, StreamInv(e),
         sent'[e] = sent[e],
         ch'[e].sequence = ch[e].sequence,
         ch'[e].out \subseteq ch[e].out,
         \A m \in net'[Peer(e)] :
           \/ m \in net[Peer(e)]
           \/ m.seq = NoNum
           \/ \E q \in ch[e].out : m.seq = q.seq /\ m.body = q.body,
         ch'[Peer(e)].in \subseteq ch[Peer(e)].in,
         ch'[Peer(e)].nextExpected = ch[Peer(e)].nextExpected,
         delivered'[Peer(e)] = delivered[Peer(e)]
  PROVE  StreamInv(e)'
BY DEF StreamInv, Genuine, IsPrefixOf, Peer

\* It survives a step in which the application of e sends the content b.
LEMMA StreamGrows ==
  ASSUME NEW e \in Ends, NEW c \in Channel, NEW b \in Content,
         TypeOK, StreamInv(e),
         c.sequence = ch[e].sequence, c.out = ch[e].out,
         sent'[e] = Append(sent[e], b),
         ch'[e].sequence = AfterSend(c, b).sequence,
         ch'[e].out = AfterSend(c, b).out,
         net'[Peer(e)] \subseteq net[Peer(e)] \union {Stamped(c, b)},
         ch'[Peer(e)] = ch[Peer(e)],
         delivered'[Peer(e)] = delivered[Peer(e)]
  PROVE  StreamInv(e)'
<1> DEFINE new == Stamped(c, b)
<1> USE PeerProperty
<1>1. /\ sent[e] \in Seq(Content) /\ sent'[e] \in Seq(Content)
      /\ Len(sent'[e]) = Len(sent[e]) + 1
      /\ \A i \in 1..Len(sent[e]) : sent'[e][i] = sent[e][i]
      /\ sent'[e][Len(sent[e]) + 1] = b
  BY DEF TypeOK
<1>2. b # NoBody
  BY PayloadIsContent DEF Content, NoBody, End
<1>3. ch'[e].sequence = Len(sent'[e])
  BY <1>1, <1>2, AfterSendFields DEF StreamInv
<1>4. new.seq = Len(sent[e]) /\ new.body = b
  BY <1>2 DEF Stamped, StreamInv
<1>5. ASSUME NEW p, p.seq \in Nat, Genuine(e, p) PROVE Genuine(e, p)'
  BY <1>1, <1>5 DEF Genuine
<1>6. Genuine(e, new)'
  BY <1>1, <1>4 DEF Genuine
<1>7. Genuine(e, Keep(new))'
  BY <1>1, <1>4 DEF Genuine, Keep
<1>8. \A p \in ch[e].out \union ch[Peer(e)].in : p.seq \in Nat /\ Genuine(e, p)
  BY DEF StreamInv, TypeOK, Channel, Kept, Arrived
<1>9. ch'[e].out \subseteq ch[e].out \union {Keep(new)}
  BY <1>2, AfterSendFields, PushProperty
<1>10. ASSUME NEW m \in net[Peer(e)], m.seq # NoNum
       PROVE  m.seq \in Nat /\ Genuine(e, m)
  BY <1>10 DEF StreamInv, TypeOK, Packet
<1> HIDE DEF new
<1>11. \A p \in ch'[e].out \union ch'[Peer(e)].in : Genuine(e, p)'
  BY <1>5, <1>7, <1>8, <1>9
<1>12. \A m \in net'[Peer(e)] : m.seq # NoNum => Genuine(e, m)'
  BY <1>5, <1>6, <1>10 DEF new
<1>13. /\ Len(delivered'[Peer(e)]) = ch'[Peer(e)].nextExpected
       /\ IsPrefixOf(delivered[Peer(e)], sent[e])'
  BY <1>1 DEF StreamInv, IsPrefixOf, TypeOK
<1> QED BY <1>3, <1>11, <1>12, <1>13 DEF StreamInv, Peer

\* A prefix of t, continued with the next elements of t, is a prefix of t.
LEMMA ExtendPrefix ==
  ASSUME NEW t \in Seq(Content), NEW d \in Seq(Content), NEW r \in Seq(Content),
         IsPrefixOf(d, t),
         \A i \in 1..Len(r) : Len(d) + i <= Len(t) /\ r[i] = t[Len(d) + i]
  PROVE  /\ d \o r \in Seq(Content)
         /\ Len(d \o r) = Len(d) + Len(r)
         /\ IsPrefixOf(d \o r, t)
<1>1. /\ d \o r \in Seq(Content)
      /\ Len(d \o r) = Len(d) + Len(r)
      /\ \A i \in 1..(Len(d) + Len(r)) :
           (d \o r)[i] = IF i <= Len(d) THEN d[i] ELSE r[i - Len(d)]
  BY ConcatProperties
<1>2. Len(d) \in Nat /\ Len(r) \in Nat /\ Len(t) \in Nat
  OBVIOUS
<1>3. Len(d) + Len(r) <= Len(t)
  <2>1. CASE Len(r) = 0
    BY <2>1, <1>2 DEF IsPrefixOf
  <2>2. CASE Len(r) > 0
    <3>1. Len(r) \in 1..Len(r)
      BY <2>2, <1>2
    <3>2. Len(d) + Len(r) <= Len(t)
      BY <3>1
    <3> QED BY <3>2, <1>2
  <2> QED BY <2>1, <2>2, <1>2
<1>4. ASSUME NEW i \in 1..(Len(d) + Len(r)) PROVE (d \o r)[i] = t[i]
  <2>1. CASE i <= Len(d)
    BY <2>1, <1>1, <1>2 DEF IsPrefixOf
  <2>2. CASE ~(i <= Len(d))
    <3>1. i - Len(d) \in 1..Len(r) /\ Len(d) + (i - Len(d)) = i
      BY <2>2, <1>2
    <3>2. (d \o r)[i] = r[i - Len(d)]
      BY <2>2, <1>1, <1>2
    <3> QED BY <3>1, <3>2
  <2> QED BY <2>1, <2>2
<1> QED BY <1>1, <1>3, <1>4 DEF IsPrefixOf

\* The receiver of the stream from e, whose channel is c, takes a packet m:
\* what is buffered then is genuine.
LEMMA BufferedGenuine ==
  ASSUME NEW e \in Ends, NEW c, NEW m,
         m.seq # NoNum => Genuine(e, m),
         \A p \in c.in : Genuine(e, p)
  PROVE  \A p \in Buffered(c, m) : Genuine(e, p)
<1>1. m.seq # NoNum => Genuine(e, [seq |-> m.seq, body |-> m.body])
  BY DEF Genuine
<1> QED BY <1>1, PushProperty DEF Buffered

\* What its delegate has been handed, d, and then the run of a buffer of
\* genuine packets, is a prefix of what e sent.
LEMMA StreamTaken ==
  ASSUME NEW e \in Ends, TypeOK,
         NEW buf \in SUBSET Arrived, NEW d \in Seq(Content), NEW k \in Nat,
         Len(d) <= k, \A i \in Len(d)..(k - 1) : i \in Seqs(buf),
         \A p \in buf : Genuine(e, p),
         IsPrefixOf(d, sent[e])
  PROVE  /\ d \o Run(buf, Len(d), k) \in Seq(Content)
         /\ Len(d \o Run(buf, Len(d), k)) = k
         /\ IsPrefixOf(d \o Run(buf, Len(d), k), sent[e])
<1> DEFINE n == Len(d)
           run == Run(buf, n, k)
<1>1. n \in Nat /\ n <= k /\ Len(sent[e]) \in Nat
  BY DEF TypeOK
<1>2. /\ run \in Seq(Content) /\ Len(run) = k - n
      /\ \A i \in 1..(k - n) : run[i] = PacketAt(buf, n + i - 1).body
  BY <1>1, RunType
<1>3. \A j \in n..(k - 1) : /\ j < Len(sent[e])
                            /\ PacketAt(buf, j).body = sent[e][j + 1]
  BY PacketAtProperty DEF Genuine
<1>4. ASSUME NEW i \in 1..(k - n)
      PROVE  n + i <= Len(sent[e]) /\ run[i] = sent[e][n + i]
  <2> HIDE DEF n, run
  <2>1. (n + i - 1) \in n..(k - 1) /\ (n + i - 1) + 1 = n + i
    BY <1>1
  <2>2. /\ n + i - 1 < Len(sent[e])
        /\ PacketAt(buf, n + i - 1).body = sent[e][(n + i - 1) + 1]
    BY <2>1, <1>3
  <2>3. run[i] = PacketAt(buf, n + i - 1).body
    BY <1>2
  <2> QED BY <1>1, <2>1, <2>2, <2>3
<1> HIDE DEF run
<1>5. sent[e] \in Seq(Content) /\ d \in Seq(Content) /\ run \in Seq(Content)
  BY <1>2 DEF TypeOK
<1>6. /\ d \o run \in Seq(Content)
      /\ Len(d \o run) = Len(d) + Len(run)
      /\ IsPrefixOf(d \o run, sent[e])
  BY <1>2, <1>4, <1>5, ExtendPrefix
<1> QED BY <1>1, <1>2, <1>6 DEF run

\* A step of e that sends the content b keeps the invariant: c is the channel
\* that sends it, x what becomes of it, ms what reaches the network.
LEMMA SendingStep ==
  ASSUME NEW e \in Ends, NEW c \in Channel, NEW x \in Channel,
         NEW b \in Content, NEW ms, TypeOK, OrderInv,
         e = Responder => born # 0,
         c.sequence = ch[e].sequence, c.out = ch[e].out,
         c.in = ch[e].in, c.nextExpected = ch[e].nextExpected,
         x.sequence = AfterSend(c, b).sequence, x.out = AfterSend(c, b).out,
         x.in = c.in, x.nextExpected = c.nextExpected, x.state # "Absent",
         ms \subseteq {Stamped(c, b)},
         ch' = [ch EXCEPT ![e] = x],
         sent' = [sent EXCEPT ![e] = Append(@, b)],
         Send(e, ms), UNCHANGED <<delivered, born>>
  PROVE  OrderInv'
<1> DEFINE r == Peer(e)
<1> USE PeerProperty
<1>1. /\ ch'[e] = x /\ ch'[r] = ch[r]
      /\ sent'[e] = Append(sent[e], b) /\ sent'[r] = sent[r]
      /\ net'[r] = net[r] \union ms /\ net'[e] = net[e]
      /\ delivered' = delivered /\ born' = born
  BY DEF TypeOK, Send
<1>2. StreamInv(e) => StreamInv(e)'
  BY <1>1, StreamGrows
<1>3. StreamInv(r) => StreamInv(r)'
  BY <1>1, StreamStays
<1>4. Ends = {e, r}
  BY DEF Ends, Peer
<1>5. \A f \in Ends : f = Opener \/ OneSession' => StreamInv(f)'
  BY <1>1, <1>2, <1>3, <1>4 DEF OrderInv, OneSession
<1>6. \A f \in Ends : ch'[f].state = "Absent" => Unborn(f)'
  BY <1>1, <1>4 DEF OrderInv, Unborn
<1>7. born' = 0 => ch'[Responder].state = "Absent"
  BY <1>1, <1>4 DEF OrderInv, Ends
<1> QED BY <1>5, <1>6, <1>7 DEF OrderInv

\* A step of e that sends no content and takes none keeps it: ms is what it
\* sends again, or sends without a seq.
LEMMA QuietStep ==
  ASSUME NEW e \in Ends, NEW x \in Channel, NEW ms, TypeOK, OrderInv,
         ch[e].state = "Absent" => x = ch[e],
         ch[e].state # "Absent" => x.state # "Absent",
         x.sequence = ch[e].sequence, x.out \subseteq ch[e].out,
         x.in = ch[e].in, x.nextExpected = ch[e].nextExpected,
         \A m \in ms : m.seq = NoNum,
         ch' = [ch EXCEPT ![e] = x], Send(e, ms),
         UNCHANGED <<sent, delivered, born>>
  PROVE  OrderInv'
<1> DEFINE r == Peer(e)
<1> USE PeerProperty
<1>1. /\ ch'[e] = x /\ ch'[r] = ch[r]
      /\ net'[r] = net[r] \union ms /\ net'[e] = net[e]
      /\ sent' = sent /\ delivered' = delivered /\ born' = born
  BY DEF TypeOK, Send
<1>2. StreamInv(e) => StreamInv(e)'
  BY <1>1, StreamStays
<1>3. StreamInv(r) => StreamInv(r)'
  BY <1>1, StreamStays
<1>4. Ends = {e, r}
  BY DEF Ends, Peer
<1>5. \A f \in Ends : f = Opener \/ OneSession' => StreamInv(f)'
  BY <1>1, <1>2, <1>3, <1>4 DEF OrderInv, OneSession
<1>6. \A f \in Ends : ch'[f].state = "Absent" => Unborn(f)'
  BY <1>1, <1>4 DEF OrderInv, Unborn
<1>7. born' = 0 => ch'[Responder].state = "Absent"
  BY <1>1, <1>4 DEF OrderInv, Ends
<1> QED BY <1>5, <1>6, <1>7 DEF OrderInv

\* A packet for a channel in the table keeps it.
LEMMA HandlingStep ==
  ASSUME NEW e \in Ends, NEW m \in net[e], TypeOK, OrderInv, Handle(e, m)
  PROVE  OrderInv'
<1> DEFINE r == Peer(e)
           c == ch[e]
           n == c.nextExpected
           buf == Buffered(c, m)
<1> USE PeerProperty
<1>1. c \in Channel /\ m \in Packet /\ c.registered /\ c.state # "Absent"
  BY DEF Handle, TypeOK, OrderInv, Unborn, NoChannel
<1>2. PICK k \in RunLimits(buf, n) :
        /\ RunEnds(buf, n, k)
        /\ ch' = [ch EXCEPT ![e] = AfterHandle(c, m, k)]
        /\ delivered' = [delivered EXCEPT ![e] = @ \o Run(buf, n, k)]
        /\ Send(e, HandleSends(c, m, k))
  BY DEF Handle
<1>3. k \in Nat /\ n \in Nat /\ n <= k
  BY <1>1, <1>2, RunEndsProperty DEF Channel
<1> DEFINE x == AfterHandle(c, m, k)
           ms == HandleSends(c, m, k)
           d == delivered[e] \o Run(buf, n, k)
<1>4. /\ x.in \subseteq buf /\ x.out \subseteq c.out
      /\ x.sequence = c.sequence /\ x.nextExpected = k
      /\ x.state # "Absent"
  <2>1. /\ x.in = IF n < k THEN PopBelow(buf, k) ELSE buf
        /\ x.out = Acknowledged(c.out, m)
        /\ x.sequence = c.sequence /\ x.nextExpected = k
        /\ x.state \in {c.state, "Open", "Ended", "Errored"}
    BY <1>1, <1>3, AfterHandleFields
  <2>2. PopBelow(buf, k) \subseteq buf
    BY DEF PopBelow
  <2>3. Acknowledged(c.out, m) \subseteq c.out
    BY DEF Acknowledged, ClearThrough
  <2> HIDE DEF x, buf
  <2> QED BY <1>1, <2>1, <2>2, <2>3
<1>5. \A p \in ms : \/ p.seq = NoNum
                    \/ \E q \in c.out : p.seq = q.seq /\ p.body = q.body
  BY <1>1, <1>3, HandleSendsShape
<1>6. /\ ch'[e] = x /\ ch'[r] = ch[r] /\ sent' = sent /\ born' = born
      /\ net'[r] = net[r] \union ms /\ net'[e] = net[e]
      /\ delivered'[e] = d /\ delivered'[r] = delivered[r]
  BY <1>2 DEF TypeOK, Send, Handle
<1>7. StreamInv(e) => StreamInv(e)'
  <2> HIDE DEF x, ms, d, buf, n
  <2> QED BY <1>4, <1>5, <1>6, StreamStays
<1>8. StreamInv(r) => StreamInv(r)'
  <2> SUFFICES ASSUME StreamInv(r) PROVE StreamInv(r)'
    OBVIOUS
  <2>1. /\ m.seq # NoNum => Genuine(r, m)
        /\ \A p \in c.in : Genuine(r, p)
        /\ delivered[e] \in Seq(Content) /\ Len(delivered[e]) = n
        /\ IsPrefixOf(delivered[e], sent[r])
    BY DEF StreamInv, TypeOK
  <2>2. \A p \in buf : Genuine(r, p)
    BY <2>1, BufferedGenuine
  <2>3. Len(d) = k /\ IsPrefixOf(d, sent[r])
    <3>1. /\ buf \in SUBSET Arrived
          /\ \A i \in n..(k - 1) : i \in Seqs(buf)
      BY <1>1, <1>2, BufferedType, RunEndsProperty
    <3> DEFINE old == delivered[e]
    <3>2. /\ r \in Ends /\ old \in Seq(Content) /\ Len(old) = n
          /\ IsPrefixOf(old, sent[r])
      BY <2>1
    <3>3. d = old \o Run(buf, Len(old), k)
      BY <2>1
    <3> HIDE DEF buf, n, r, old, d
    <3> QED BY ONLY TypeOK, <1>3, <2>2, <3>1, <3>2, <3>3, StreamTaken
  <2> HIDE DEF x, ms, d, buf, n
  <2>4. Peer(r) = e /\ r \in Ends
    OBVIOUS
  <2> QED BY <1>4, <1>6, <2>2, <2>3, <2>4 DEF StreamInv, Genuine
<1> HIDE DEF x, ms, d, buf, n
<1>9. Ends = {e, r}
  BY DEF Ends, Peer
<1>10. \A f \in Ends : f = Opener \/ OneSession' => StreamInv(f)'
  BY <1>6, <1>7, <1>8, <1>9 DEF OrderInv, OneSession
<1>11. \A f \in Ends : ch'[f].state = "Absent" => Unborn(f)'
  BY <1>4, <1>6, <1>9 DEF OrderInv, Unborn
<1>12. born' = 0 => ch'[Responder].state = "Absent"
  BY <1>1, <1>6, <1>9 DEF OrderInv, Ends
<1> QED BY <1>10, <1>11, <1>12 DEF OrderInv

\* So does the packet for which the responder makes a new object: the stream
\* to it starts again at its first content.
LEMMA AcceptingStep ==
  ASSUME NEW e \in Ends, NEW m \in net[e], TypeOK, OrderInv, Accept(e, m)
  PROVE  OrderInv'
<1> DEFINE r == Peer(e)
           buf == Buffered(Newborn, m)
<1> USE PeerProperty
<1>1. /\ Newborn \in Channel /\ Newborn.nextExpected = 0 /\ Newborn.in = {}
      /\ m \in Packet /\ e = Responder /\ r = Opener
  BY NewChannelType
     DEF TypeOK, Newborn, NewChannel, NoChannel, Empty, Accept, Typed, Peer
<1>2. PICK k \in RunLimits(buf, 0) :
        /\ RunEnds(buf, 0, k)
        /\ ch' = [ch EXCEPT ![e] = Accepted(m, k)]
        /\ delivered' = [delivered EXCEPT ![e] = Run(buf, 0, k)]
  BY DEF Accept
<1>3. k \in Nat
  BY <1>1, <1>2, RunEndsProperty
<1> DEFINE x == Accepted(m, k)
           d == Run(buf, 0, k)
<1>4. /\ x.in \subseteq buf /\ x.out = {} /\ x.sequence = 0
      /\ x.nextExpected = k /\ x.state = "Open"
  BY <1>1, <1>3, AcceptedFields, ZenonT(40) DEF PopBelow
<1>5. /\ ch'[e] = x /\ ch'[r] = ch[r] /\ net' = net /\ born' = born + 1
      /\ sent'[e] = <<>> /\ sent'[r] = sent[r]
      /\ delivered'[e] = d /\ delivered'[r] = delivered[r]
      /\ born \in Nat
  BY <1>2 DEF TypeOK, Accept
<1>6. StreamInv(r)'
  <2>1. StreamInv(r) /\ \A p \in Newborn.in : Genuine(r, p)
    BY <1>1 DEF OrderInv
  <2>2. m.seq # NoNum => Genuine(r, m)
    BY <2>1 DEF StreamInv
  <2>3. /\ <<>> \in Seq(Content) /\ Len(<<>>) = Newborn.nextExpected
        /\ IsPrefixOf(<<>>, sent[r])
    BY <1>1 DEF IsPrefixOf, TypeOK
  <2>4. \A p \in buf : Genuine(r, p)
    BY <2>1, <2>2, BufferedGenuine
  <2>5. d \in Seq(Content) /\ Len(d) = k /\ IsPrefixOf(d, sent[r])
    <3>1. /\ buf \in SUBSET Arrived /\ 0 <= k
          /\ \A i \in 0..(k - 1) : i \in Seqs(buf)
      BY <1>1, <1>2, BufferedType, RunEndsProperty
    <3> DEFINE none == <<>>
    <3>2. d \in Seq(Content)
      <4> HIDE DEF buf
      <4> QED BY ONLY <1>3, <3>1, RunType DEF d
    <3>3. /\ r \in Ends /\ none \in Seq(Content) /\ Len(none) = 0
          /\ IsPrefixOf(none, sent[r])
      BY <1>1, <2>3
    <3>4. d = none \o Run(buf, Len(none), k)
      BY <3>2, <3>3
    <3> HIDE DEF buf, r, none, d
    <3> QED BY ONLY TypeOK, <1>3, <2>4, <3>1, <3>2, <3>3, <3>4, StreamTaken
  <2> HIDE DEF x, d, buf
  <2>6. Peer(r) = e /\ r \in Ends
    OBVIOUS
  <2> QED BY <1>4, <1>5, <2>1, <2>4, <2>5, <2>6 DEF StreamInv, Genuine
<1>7. OneSession' => StreamInv(e)'
  <2> SUFFICES ASSUME OneSession' PROVE StreamInv(e)'
    OBVIOUS
  <2>1. born = 0
    BY <1>5 DEF OneSession
  <2>2. Unborn(e) /\ StreamInv(e)
    BY <1>1, <2>1 DEF OrderInv, OneSession
  <2>3. ch[e].sequence = 0
    BY <2>2 DEF Unborn, NoChannel
  <2> HIDE DEF x, d, buf
  <2> QED BY <1>4, <1>5, <2>2, <2>3, StreamStays DEF Unborn
<1> HIDE DEF x, d, buf
<1>8. Ends = {e, r}
  BY DEF Ends, Peer
<1>9. \A f \in Ends : f = Opener \/ OneSession' => StreamInv(f)'
  BY <1>6, <1>7, <1>8, <1>1
<1>10. \A f \in Ends : ch'[f].state = "Absent" => Unborn(f)'
  BY <1>4, <1>5, <1>8 DEF OrderInv, Unborn
<1>11. born' # 0
  BY <1>5
<1> QED BY <1>9, <1>10, <1>11 DEF OrderInv

\* In every reachable state each packet of a stream, wherever it is kept, is
\* the one its sender gave that seq, and the delegate has been handed a prefix
\* of the stream: the handlers' invariant behind InOrder.
THEOREM OrderInvariant == Spec => []OrderInv
<1>1. Init => OrderInv
  <2> SUFFICES ASSUME Init PROVE OrderInv
    OBVIOUS
  <2> USE PeerProperty
  <2>1. /\ NoChannel.state = "Absent" /\ NoChannel.sequence = 0
        /\ NoChannel.in = {} /\ NoChannel.out = {} /\ NoChannel.nextExpected = 0
    BY DEF NoChannel, Empty
  <2>2. \A e \in Ends : /\ ch[e] = NoChannel /\ net[e] = {}
                        /\ sent[e] = <<>> /\ delivered[e] = <<>>
    BY DEF Init
  <2>3. \A e \in Ends : StreamInv(e)
    BY <2>1, <2>2 DEF StreamInv, IsPrefixOf
  <2>4. Responder \in Ends
    BY DEF Ends
  <2> QED BY <2>1, <2>2, <2>3, <2>4 DEF OrderInv, Unborn
<1>2. TypeOK /\ TypeOK' /\ OrderInv /\ [Next]_vars => OrderInv'
  <2> SUFFICES ASSUME TypeOK, TypeOK', OrderInv, [Next]_vars PROVE OrderInv'
    OBVIOUS
  <2> USE PeerProperty
  <2>1. CASE OpenChannel
    <3> DEFINE c == NewChannel("Open")
               b == NextContent(Opener)
    <3>1. /\ Opener \in Ends /\ Opener # Responder
          /\ c \in Channel /\ c.state = "Open"
          /\ c.sequence = 0 /\ c.out = {} /\ c.in = {} /\ c.nextExpected = 0
      BY TwoEnds, NewChannelType
         DEF Ends, NewChannel, NoChannel, States, Empty
    <3>2. b \in Content
      BY <2>1, <3>1, NextContentType DEF OpenChannel, Content
    <3>3. /\ ch[Opener].sequence = 0 /\ ch[Opener].out = {}
          /\ ch[Opener].in = {} /\ ch[Opener].nextExpected = 0
      BY <2>1, <3>1 DEF OpenChannel, OrderInv, Unborn, NoChannel, Empty
    <3>4. SendContent(Opener, c, b)
      BY <2>1 DEF OpenChannel
    <3> HIDE DEF c, b
    <3>5. AfterSend(c, b) \in Channel /\ AfterSend(c, b).state = "Open"
          /\ AfterSend(c, b).in = c.in
          /\ AfterSend(c, b).nextExpected = c.nextExpected
      BY <3>1, <3>2, AfterSendType, AfterSendFields
    <3>6. Transmitted(c, Stamped(c, b)) \subseteq {Stamped(c, b)}
      BY DEF Transmitted
    <3> QED BY <3>1, <3>2, <3>3, <3>4, <3>5, <3>6, SendingStep
            DEF SendContent
  <2>2. ASSUME NEW e \in Ends, AppSend(e) PROVE OrderInv'
    <3> DEFINE c == ch[e]
               b == NextContent(e)
    <3>1. c \in Channel /\ c.state = "Open" /\ (e = Responder => born # 0)
      BY <2>2 DEF AppSend, TypeOK, OrderInv
    <3>2. b \in Content
      BY <2>2, NextContentType DEF AppSend, Content
    <3>3. SendContent(e, c, b)
      BY <2>2 DEF AppSend
    <3>4. AfterSend(c, b) \in Channel /\ AfterSend(c, b).state = "Open"
          /\ AfterSend(c, b).in = c.in
          /\ AfterSend(c, b).nextExpected = c.nextExpected
      BY <3>1, <3>2, AfterSendType, AfterSendFields
    <3>5. Transmitted(c, Stamped(c, b)) \subseteq {Stamped(c, b)}
      BY DEF Transmitted
    <3> HIDE DEF b
    <3> QED BY <3>1, <3>2, <3>3, <3>4, <3>5, SendingStep DEF SendContent
  <2>3. ASSUME NEW e \in Ends, Close(e) PROVE OrderInv'
    <3> DEFINE c == ch[e]
    <3>1. c \in Channel /\ c.state = "Open" /\ (e = Responder => born # 0)
      BY <2>3 DEF Close, TypeOK, OrderInv
    <3>2. End \in Content
      BY DEF Content
    <3>3. /\ AfterClose(c) \in Channel /\ AfterClose(c).state = "Ended"
          /\ AfterClose(c).in = c.in
          /\ AfterClose(c).nextExpected = c.nextExpected
          /\ AfterClose(c).sequence = AfterSend(c, End).sequence
          /\ AfterClose(c).out = AfterSend(c, End).out
      BY <3>1, AfterCloseType, AfterCloseFields
    <3>4. Transmitted(c, Stamped(c, End)) \subseteq {Stamped(c, End)}
      BY DEF Transmitted
    <3> QED BY <2>3, <3>1, <3>2, <3>3, <3>4, SendingStep DEF Close
  <2>4. ASSUME NEW e \in Ends, CloseChannels(e) PROVE OrderInv'
    <3>1. ch[e] \in Channel /\ ch[e].state # "Absent"
      BY <2>4 DEF CloseChannels, TypeOK, OrderInv, Unborn, NoChannel
    <3> DEFINE x == AfterCloseChannels(ch[e])
    <3>2. /\ x \in Channel /\ x.state = "Ended"
          /\ x.sequence = ch[e].sequence /\ x.out = ch[e].out
          /\ x.in = ch[e].in /\ x.nextExpected = ch[e].nextExpected
      BY <3>1 DEF AfterCloseChannels, Channel, States
    <3>3. Send(e, {}) /\ ch' = [ch EXCEPT ![e] = x]
      BY <2>4 DEF CloseChannels, Send, TypeOK
    <3> HIDE DEF x
    <3> QED BY <2>4, <3>1, <3>2, <3>3, QuietStep DEF CloseChannels
  <2>5. ASSUME NEW e \in Ends, AckPing(e) PROVE OrderInv'
    <3> DEFINE x == AfterPing(ch[e])
               ms == IF PingSends(ch[e])
                       THEN Transmitted(ch[e], Stamped(ch[e], NoBody)) ELSE {}
    <3>1. ch[e] \in Channel /\ ch[e].state # "Absent"
      BY <2>5 DEF AckPing, TypeOK, OrderInv, Unborn, NoChannel
    <3>2. /\ x \in Channel /\ x.state = ch[e].state
          /\ x.sequence = ch[e].sequence /\ x.out = ch[e].out
          /\ x.in = ch[e].in /\ x.nextExpected = ch[e].nextExpected
      BY <3>1, AfterPingType, AfterPingFields
    <3>3. \A m \in ms : m.seq = NoNum
      BY DEF Transmitted, Stamped
    <3>4. Send(e, ms) /\ ch' = [ch EXCEPT ![e] = x]
      BY <2>5 DEF AckPing
    <3> HIDE DEF x, ms
    <3> QED BY <2>5, <3>1, <3>2, <3>3, <3>4, QuietStep DEF AckPing
  <2>6. ASSUME NEW e \in Ends, NEW m \in net[e], Refuse(e, m) PROVE OrderInv'
    <3>1. ch[e] \in Channel /\ ch' = [ch EXCEPT ![e] = ch[e]]
      BY <2>6 DEF Refuse, TypeOK
    <3>2. \A p \in {ErrorReply} : p.seq = NoNum
      BY DEF ErrorReply
    <3> QED BY <2>6, <3>1, <3>2, QuietStep DEF Refuse
  <2>7. ASSUME NEW e \in Ends, NEW m \in net[e], Handle(e, m) PROVE OrderInv'
    BY <2>7, HandlingStep
  <2>8. ASSUME NEW e \in Ends, NEW m \in net[e], Accept(e, m) PROVE OrderInv'
    BY <2>8, AcceptingStep
  <2>9. ASSUME NEW e \in Ends, CloseErrored(e) PROVE OrderInv'
    <3> DEFINE x == AfterClose(ch[e])
    <3>1. ch[e] \in Channel /\ ch[e].state = "Errored" /\ ~SendsEnd(ch[e])
      BY <2>9 DEF CloseErrored, TypeOK, SendsEnd
    <3>2. /\ x \in Channel /\ x.state = "Ended"
          /\ x.sequence = ch[e].sequence /\ x.out = ch[e].out
          /\ x.in = ch[e].in /\ x.nextExpected = ch[e].nextExpected
      BY <3>1 DEF AfterClose, Channel, States
    <3>3. Send(e, {}) /\ ch' = [ch EXCEPT ![e] = x]
      BY <2>9 DEF CloseErrored, Send, TypeOK
    <3> HIDE DEF x
    <3> QED BY <2>9, <3>1, <3>2, <3>3, QuietStep DEF CloseErrored
  <2>10. CASE UNCHANGED vars
    BY <2>10 DEF vars, OrderInv, OneSession, StreamInv, Genuine, IsPrefixOf,
                Unborn
  <2> QED BY <2>1, <2>2, <2>3, <2>4, <2>5, <2>6, <2>7, <2>8, <2>9, <2>10
      DEF Next, Receive
<1>3. Spec => []TypeOK
  BY TypeCorrect
<1> QED BY <1>1, <1>2, <1>3, PTL DEF Spec

\* Whatever the network loses, repeats, delays or reorders, the delegate of an
\* end is handed a prefix of what the other end sent.
THEOREM OrderCorrect == Spec => []InOrder
<1>1. OrderInv => InOrder
  BY PeerProperty DEF OrderInv, InOrder, StreamInv, Ends, Peer, OneSession
<1> QED BY <1>1, OrderInvariant, PTL

------------------------------------------------------------------------------
(* EndsSettled, the inductive invariant behind MissingIsCurrent and, with    *)
(* the two above, behind everything below.                                  *)

\* Between two handlers each end is settled; the responder's end has taken
\* the packet that opened it.
EndSettled(e) ==
  /\ Settled(ch[e])
  /\ ch[e].state # "Opening"
  /\ e = Responder /\ ch[e].state # "Absent" => ch[e].nextExpected > 0

EndsSettled == \A e \in Ends : EndSettled(e)

\* It is kept by a step that leaves e with the channel x.
LEMMA SettledStep ==
  ASSUME NEW e \in Ends, NEW x \in Channel, TypeOK, EndsSettled,
         ch' = [ch EXCEPT ![e] = x],
         Settled(x), x.state # "Opening",
         e = Responder /\ x.state # "Absent" => x.nextExpected > 0
  PROVE  EndsSettled'
<1>1. ch'[e] = x /\ \A f \in Ends \ {e} : ch'[f] = ch[f]
  BY DEF TypeOK
<1> QED BY <1>1 DEF EndsSettled, EndSettled

\* Every reachable channel is settled.
THEOREM SettledInvariant == Spec => []EndsSettled
<1>1. Init => EndsSettled
  BY NewSettles DEF Init, EndsSettled, EndSettled, NoChannel
<1>2. TypeOK /\ EndsSettled /\ [Next]_vars => EndsSettled'
  <2> SUFFICES ASSUME TypeOK, EndsSettled, [Next]_vars PROVE EndsSettled'
    OBVIOUS
  <2>1. \A e \in Ends : ch[e] \in Channel /\ EndSettled(e)
    BY DEF TypeOK, EndsSettled
  <2>2. ASSUME NEW e \in Ends, NEW c \in Channel, NEW b \in Content,
               Settled(c), c.state = "Open",
               e = Responder => c.nextExpected > 0, SendContent(e, c, b)
        PROVE  EndsSettled'
    <3>1. /\ AfterSend(c, b) \in Channel /\ Settled(AfterSend(c, b))
          /\ AfterSend(c, b).state = "Open"
          /\ AfterSend(c, b).nextExpected = c.nextExpected
      BY <2>2, AfterSendType, AfterSendFields, SendSettles
    <3>2. ch' = [ch EXCEPT ![e] = AfterSend(c, b)]
      BY <2>2 DEF SendContent
    <3> QED BY <2>2, <3>1, <3>2, SettledStep
  <2>3. CASE OpenChannel
    <3>1. /\ NewChannel("Open") \in Channel
          /\ NewChannel("Open").state = "Open"
      BY NewChannelType DEF States, NewChannel, NoChannel
    <3>2. Opener \in Ends /\ Opener # Responder
      BY TwoEnds DEF Ends
    <3>3. NextContent(Opener) \in Content
      BY <2>3, <3>2, NextContentType DEF OpenChannel, Content
    <3> QED BY <2>2, <2>3, <3>1, <3>2, <3>3, NewSettles DEF OpenChannel
  <2>4. ASSUME NEW e \in Ends, AppSend(e) PROVE EndsSettled'
    <3>1. NextContent(e) \in Content
      BY <2>4, NextContentType DEF AppSend, Content
    <3> QED BY <2>1, <2>2, <2>4, <3>1 DEF AppSend, EndSettled
  <2>5. ASSUME NEW e \in Ends, Close(e) PROVE EndsSettled'
    <3>1. /\ AfterClose(ch[e]) \in Channel /\ Settled(AfterClose(ch[e]))
          /\ AfterClose(ch[e]).state = "Ended"
          /\ AfterClose(ch[e]).nextExpected = ch[e].nextExpected
      BY <2>1, <2>5, AfterCloseType, AfterCloseFields, CloseSettles
         DEF Close, EndSettled
    <3> QED BY <2>1, <2>5, <3>1, SettledStep DEF Close, EndSettled
  <2>6. ASSUME NEW e \in Ends, CloseErrored(e) PROVE EndsSettled'
    <3>1. AfterClose(ch[e]) \in Channel /\ Settled(AfterClose(ch[e]))
      BY <2>1, <2>6, AfterCloseType, CloseSettles DEF CloseErrored, EndSettled
    <3>2. /\ AfterClose(ch[e]).state = "Ended"
          /\ AfterClose(ch[e]).nextExpected = ch[e].nextExpected
      BY <2>1, <2>6 DEF AfterClose, SendsEnd, CloseErrored, Channel
    <3> QED BY <2>1, <2>6, <3>1, <3>2, SettledStep DEF CloseErrored, EndSettled
  <2>7. ASSUME NEW e \in Ends, CloseChannels(e) PROVE EndsSettled'
    <3>1. Settled(AfterCloseChannels(ch[e]))
      BY <2>1, CloseChannelsSettles DEF EndSettled
    <3>2. /\ AfterCloseChannels(ch[e]) \in Channel
          /\ AfterCloseChannels(ch[e]).state = "Ended"
          /\ AfterCloseChannels(ch[e]).nextExpected = ch[e].nextExpected
      BY <2>1 DEF AfterCloseChannels, Channel, States
    <3>3. ch[e].state # "Absent"
      BY <2>1, <2>7 DEF CloseChannels, EndSettled, Settled
    <3> QED BY <2>1, <2>7, <3>1, <3>2, <3>3, SettledStep
            DEF CloseChannels, EndSettled
  <2>8. ASSUME NEW e \in Ends, AckPing(e) PROVE EndsSettled'
    <3>1. /\ AfterPing(ch[e]) \in Channel /\ Settled(AfterPing(ch[e]))
          /\ AfterPing(ch[e]).state = ch[e].state
          /\ AfterPing(ch[e]).nextExpected = ch[e].nextExpected
      BY <2>1, AfterPingType, AfterPingFields, PingSettles DEF EndSettled
    <3> QED BY <2>1, <2>8, <3>1, SettledStep DEF AckPing, EndSettled
  <2>9. ASSUME NEW e \in Ends, NEW m \in net[e], Handle(e, m) PROVE EndsSettled'
    <3> DEFINE c == ch[e]
               buf == Buffered(c, m)
               n == c.nextExpected
    <3>1. c \in Channel /\ m \in Packet /\ Settled(c)
      BY <2>1 DEF TypeOK, EndSettled
    <3>2. PICK k \in RunLimits(buf, n) :
            /\ RunEnds(buf, n, k)
            /\ ch' = [ch EXCEPT ![e] = AfterHandle(c, m, k)]
      BY <2>9 DEF Handle
    <3>3. Settled(AfterHandle(c, m, k))
      BY <3>1, <3>2, HandleSettles
    <3>4. k \in Nat /\ n \in Nat /\ n <= k
      BY <3>1, <3>2, RunEndsProperty DEF Channel
    <3>5. /\ AfterHandle(c, m, k) \in Channel
          /\ AfterHandle(c, m, k).nextExpected = k
          /\ AfterHandle(c, m, k).state \in {c.state, "Open", "Ended", "Errored"}
      BY <3>1, <3>4, AfterHandleFields
    <3>6. /\ c.state # "Opening" /\ c.state # "Absent"
          /\ e = Responder => n > 0
      BY <2>1, <2>9 DEF Handle, EndSettled, Settled
    <3> DEFINE x == AfterHandle(c, m, k)
    <3>7. /\ x \in Channel /\ Settled(x) /\ x.state # "Opening"
          /\ e = Responder /\ x.state # "Absent" => x.nextExpected > 0
          /\ ch' = [ch EXCEPT ![e] = x]
      <4> HIDE DEF buf, n
      <4> QED BY <3>2, <3>3, <3>4, <3>5, <3>6
    <3> HIDE DEF buf, n, x
    <3> QED BY <3>7, SettledStep
  <2>10. ASSUME NEW e \in Ends, NEW m \in net[e], Accept(e, m) PROVE EndsSettled'
    <3> DEFINE buf == Buffered(Newborn, m)
    <3>1. m \in Packet /\ m.seq = 0
      BY <2>10 DEF TypeOK, Accept, Typed
    <3>2. PICK k \in RunLimits(buf, 0) :
            /\ RunEnds(buf, 0, k)
            /\ ch' = [ch EXCEPT ![e] = Accepted(m, k)]
      BY <2>10 DEF Accept
    <3>3. k = 1 /\ Settled(Accepted(m, k))
      BY <3>1, <3>2, AcceptedSettles
    <3>4. /\ Accepted(m, k) \in Channel /\ Accepted(m, k).state = "Open"
          /\ Accepted(m, k).nextExpected = 1
      BY <3>1, <3>3, AcceptedFields
    <3> DEFINE x == Accepted(m, k)
    <3>5. /\ x \in Channel /\ Settled(x) /\ x.state = "Open"
          /\ x.nextExpected > 0 /\ ch' = [ch EXCEPT ![e] = x]
      <4> HIDE DEF buf
      <4> QED BY <3>2, <3>3, <3>4
    <3> HIDE DEF buf, x
    <3> QED BY <3>5, SettledStep
  <2>11. ASSUME NEW e \in Ends, NEW m \in net[e], Refuse(e, m) PROVE EndsSettled'
    BY <2>11 DEF Refuse, EndsSettled, EndSettled
  <2>12. CASE UNCHANGED vars
    BY <2>12 DEF vars, EndsSettled, EndSettled
  <2> QED BY <2>3, <2>4, <2>5, <2>6, <2>7, <2>8, <2>9, <2>10, <2>11, <2>12
      DEF Next, Receive
<1>3. Spec => []TypeOK
  BY TypeCorrect
<1> QED BY <1>1, <1>2, <1>3, PTL DEF Spec

\* The list of missing numbers an end sends is that of its buffer, whichever
\* handler computed it and however long ago.
THEOREM MissingCorrect == Spec => []MissingIsCurrent
<1>1. EndsSettled => MissingIsCurrent
  BY DEF EndsSettled, EndSettled, Settled, MissingIsCurrent, Gaps
<1> QED BY <1>1, SettledInvariant, PTL

\* What a step may do to an end that is over, as in EndedStaysEnded.
StaysOver(e) ==
  /\ ch'[e].state \in {ch[e].state, "Ended"} /\ ~ch'[e].registered
  /\ delivered'[e] = delivered[e] /\ sent'[e] = sent[e]
  /\ \A m \in net'[Peer(e)] \ net[Peer(e)] : m = ErrorReply

\* A step of the other end leaves the end as it is.
LEMMA OtherStays ==
  ASSUME NEW e \in Ends, NEW f \in Ends, f # e, ~ch[e].registered,
         ch'[e] = ch[e], sent'[e] = sent[e], delivered'[e] = delivered[e],
         net'[Peer(e)] = net[Peer(e)]
  PROVE  StaysOver(e)
BY DEF StaysOver

\* An end that is over stays so, in every reachable state and whatever still
\* arrives, until the responder's line makes a new object.
THEOREM EndedCorrect == Spec => EndedStaysEnded
<1>1. ASSUME TypeOK, EndsSettled, [Next]_vars, NEW e \in Ends,
             ch[e].state \in {"Ended", "Errored"}, born' = born
      PROVE  StaysOver(e)
  <2> USE PeerProperty
  <2>1. ch[e] \in Channel /\ ~ch[e].registered /\ born \in Nat
    BY <1>1 DEF TypeOK, EndsSettled, EndSettled, Settled
  <2>2. ASSUME NEW f \in Ends, f # e, NEW ms, Send(f, ms)
        PROVE  net'[Peer(e)] = net[Peer(e)]
    BY <1>1, <2>2 DEF Send, TypeOK
  <2>3. CASE OpenChannel
    <3>1. Opener \in Ends /\ Opener # e
      BY <1>1, <2>3 DEF OpenChannel, Ends
    <3> QED BY <1>1, <2>1, <2>2, <2>3, <3>1
            DEF OpenChannel, SendContent, StaysOver, TypeOK
  <2>4. ASSUME NEW f \in Ends, AppSend(f) PROVE StaysOver(e)
    <3>1. f # e
      BY <1>1, <2>4 DEF AppSend
    <3> QED BY <1>1, <2>1, <2>2, <2>4, <3>1
            DEF AppSend, SendContent, StaysOver, TypeOK
  <2>5. ASSUME NEW f \in Ends, Close(f) PROVE StaysOver(e)
    <3>1. f # e
      BY <1>1, <2>5 DEF Close
    <3> QED BY <1>1, <2>1, <2>2, <2>5, <3>1 DEF Close, StaysOver, TypeOK
  <2>6. ASSUME NEW f \in Ends, CloseErrored(f) PROVE StaysOver(e)
    <3>1. CASE f = e
      <4>1. /\ AfterClose(ch[e]).state = "Ended"
            /\ ~AfterClose(ch[e]).registered
        BY <2>1, <2>6, <3>1 DEF AfterClose, SendsEnd, CloseErrored, Channel
      <4> QED BY <1>1, <2>6, <3>1, <4>1 DEF CloseErrored, StaysOver, TypeOK
    <3>2. CASE f # e
      BY <1>1, <2>1, <2>6, <3>2 DEF CloseErrored, StaysOver, TypeOK
    <3> QED BY <3>1, <3>2
  <2>7. ASSUME NEW f \in Ends, CloseChannels(f) PROVE StaysOver(e)
    BY <1>1, <2>1, <2>7 DEF CloseChannels, StaysOver, TypeOK
  <2>8. ASSUME NEW f \in Ends, AckPing(f) PROVE StaysOver(e)
    <3>1. CASE f = e
      <4>1. ~PingSends(ch[e])
        BY <1>1 DEF PingSends, MaySend
      <4>2. /\ AfterPing(ch[e]).state = ch[e].state
            /\ AfterPing(ch[e]).registered = ch[e].registered
        BY <2>1, AfterPingFields
      <4>3. net'[Peer(e)] = net[Peer(e)]
        BY <1>1, <2>8, <3>1, <4>1 DEF AckPing, Send, TypeOK
      <4> QED BY <1>1, <2>1, <2>8, <3>1, <4>2, <4>3
              DEF AckPing, StaysOver, TypeOK
    <3>2. CASE f # e
      BY <1>1, <2>1, <2>2, <2>8, <3>2 DEF AckPing, StaysOver, TypeOK
    <3> QED BY <3>1, <3>2
  <2>9. ASSUME NEW f \in Ends, NEW m \in net[f], Handle(f, m) PROVE StaysOver(e)
    <3>1. f # e
      BY <2>1, <2>9 DEF Handle
    <3>2. /\ ch'[e] = ch[e] /\ delivered'[e] = delivered[e] /\ sent' = sent
          /\ net'[Peer(e)] = net[Peer(e)]
      BY <1>1, <2>2, <2>9, <3>1 DEF Handle, TypeOK
    <3> QED BY <2>1, <3>2 DEF StaysOver
  <2>10. ASSUME NEW f \in Ends, NEW m \in net[f], Accept(f, m) PROVE FALSE
    BY <1>1, <2>1, <2>10 DEF Accept
  <2>11. ASSUME NEW f \in Ends, NEW m \in net[f], Refuse(f, m) PROVE StaysOver(e)
    BY <1>1, <2>1, <2>11 DEF Refuse, Send, StaysOver, TypeOK
  <2>12. CASE UNCHANGED vars
    BY <1>1, <2>1, <2>12 DEF vars, StaysOver
  <2> QED BY <1>1, <2>3, <2>4, <2>5, <2>6, <2>7, <2>8, <2>9, <2>10, <2>11, <2>12
      DEF Next, Receive
<1>2. TypeOK /\ EndsSettled /\ [Next]_vars =>
        [\A e \in Ends :
           ch[e].state \in {"Ended", "Errored"} /\ born' = born =>
             StaysOver(e)]_vars
  BY <1>1
<1>3. Spec => []TypeOK /\ []EndsSettled
  BY TypeCorrect, SettledInvariant
<1>4. Spec => [][\A e \in Ends :
                   ch[e].state \in {"Ended", "Errored"} /\ born' = born =>
                     StaysOver(e)]_vars
  BY <1>2, <1>3, PTL DEF Spec
<1> QED BY <1>4 DEF EndedStaysEnded, StaysOver

------------------------------------------------------------------------------
(* RetainInv, the inductive invariant behind AckSound and Retained.         *)

\* The ack a, from e, names a packet that e has processed; the opener's ack 0
\* says nothing, the responder has packet 0 before it sends anything.
AckHeld(e, a) ==
  a > 0 \/ (a = 0 /\ e = Responder) => a < ch[e].nextExpected

\* Every ack of e does, on the line or in a packet that may go out again.
AcksHeld(e) == \A p \in ch[e].out \union net[Peer(e)] : AckHeld(e, p.ack)

\* e keeps what its peer has not processed.
Owes(e) ==
  \A n \in Unprocessed(e) :
    n \in Seqs(ch[e].out) \/ (e = Responder /\ n = 0)

RetainInv ==
  /\ \A e \in Ends : e = Opener \/ OneSession => AcksHeld(e)
  /\ OneSession => \A e \in Ends : Owes(e)

\* The acks of e stay held in a step after which e expects no less than
\* before, and in which it sends only acks it sent before, none, or the last
\* packet it has processed by then.
LEMMA AcksStay ==
  ASSUME NEW e \in Ends, TypeOK, TypeOK', EndsSettled', AcksHeld(e),
         ch[e].nextExpected <= ch'[e].nextExpected,
         e = Responder => ch'[e].state # "Absent" \/ ch'[e] = ch[e],
         \A p \in ch'[e].out \union net'[Peer(e)] :
           \/ \E q \in ch[e].out \union net[Peer(e)] : p.ack = q.ack
           \/ p.ack = NoNum
           \/ p.ack = ch'[e].lastProcessed /\ ch'[e].state # "Absent"
  PROVE  AcksHeld(e)'
<1>1. /\ ch[e].nextExpected \in Nat /\ ch'[e].nextExpected \in Nat
      /\ ch'[e].lastProcessed =
           IF ch'[e].nextExpected = 0 THEN 0 ELSE ch'[e].nextExpected - 1
      /\ e = Responder /\ ch'[e].state # "Absent" => ch'[e].nextExpected > 0
  BY DEF TypeOK, Channel, EndsSettled, EndSettled, Settled
<1>2. \A q \in ch[e].out \union net[Peer(e)] :
        q.ack \in Num /\ AckHeld(e, q.ack)
  <2>1. ch[e].out \in SUBSET Kept /\ net[Peer(e)] \in SUBSET Packet
    BY PeerProperty DEF TypeOK, Channel
  <2>2. \A q \in Kept \union Packet : q.ack \in Num
    BY DEF Kept, Packet
  <2> QED BY <2>1, <2>2 DEF AcksHeld
<1>3. ASSUME NEW a \in Num, AckHeld(e, a) PROVE AckHeld(e, a)'
  BY <1>1, <1>3 DEF AckHeld, Num, NoNum
<1>4. ch'[e].state # "Absent" => AckHeld(e, ch[e].lastProcessed)'
  BY <1>1 DEF AckHeld
<1>5. AckHeld(e, NoNum)'
  BY DEF AckHeld, NoNum
<1>6. ASSUME NEW p \in ch'[e].out \union net'[Peer(e)]
      PROVE  AckHeld(e, p.ack)'
  <2>1. CASE \E q \in ch[e].out \union net[Peer(e)] : p.ack = q.ack
    <3>1. p.ack \in Num /\ AckHeld(e, p.ack)
      BY <2>1, <1>2
    <3> QED BY <3>1, <1>3
  <2>2. CASE p.ack = NoNum
    BY <2>2, <1>5 DEF AckHeld
  <2>3. CASE p.ack = ch'[e].lastProcessed /\ ch'[e].state # "Absent"
    BY <2>3, <1>4 DEF AckHeld
  <2> QED BY <2>1, <2>2, <2>3
<1> QED BY <1>6 DEF AcksHeld

\* What e owes stays kept in a step after which its peer expects no less,
\* in which it buffers what it gives out and drops only what is acked.
LEMMA OwesStays ==
  ASSUME NEW e \in Ends, TypeOK, TypeOK', Owes(e),
         ch[Peer(e)].nextExpected <= ch'[Peer(e)].nextExpected,
         \A n \in ch[e].sequence..(ch'[e].sequence - 1) :
           n \in Seqs(ch'[e].out),
         NEW a \in Num, AckHeld(Peer(e), a),
         \A n \in Seqs(ch[e].out) : n > a => n \in Seqs(ch'[e].out)
  PROVE  Owes(e)'
<1> DEFINE r == Peer(e)
<1>1. /\ r \in Ends /\ (r = Responder <=> e = Opener)
      /\ e \in {Opener, Responder} /\ Opener # Responder
  BY TwoEnds DEF Ends, Peer
<1>2. /\ ch[e].sequence \in Nat /\ ch'[e].sequence \in Nat
      /\ ch[r].nextExpected \in Nat /\ ch'[r].nextExpected \in Nat
  BY <1>1 DEF TypeOK, Channel
<1>3. SUFFICES ASSUME NEW n \in ch'[r].nextExpected..(ch'[e].sequence - 1),
                      n \notin Seqs(ch'[e].out)
               PROVE  e = Responder /\ n = 0
  BY DEF Owes, Unprocessed
<1>4. n \in ch[r].nextExpected..(ch[e].sequence - 1)
  BY <1>2, <1>3
<1>5. CASE n \in Seqs(ch[e].out)
  <2>1. n <= a /\ n \in Nat /\ a \in Nat
    BY <1>2, <1>4, <1>5, <1>3 DEF Num, NoNum
  <2>2. ~(a < ch[r].nextExpected)
    BY <1>2, <1>4, <2>1
  <2>3. a = 0 /\ r # Responder
    BY <2>1, <2>2 DEF AckHeld
  <2> QED BY <1>1, <2>1, <2>3
<1>6. CASE n \notin Seqs(ch[e].out)
  BY <1>4, <1>6 DEF Owes, Unprocessed
<1> QED BY <1>5, <1>6

\* A step of e that leaves it with the channel x and puts ms on the network
\* keeps the invariant; a is the ack it takes, if it takes one.
LEMMA RetainStep ==
  ASSUME NEW e \in Ends, NEW x \in Channel, NEW ms, NEW a \in Num,
         TypeOK, TypeOK', EndsSettled', RetainInv,
         ch' = [ch EXCEPT ![e] = x], Send(e, ms), born' = born,
         ch[e].nextExpected <= x.nextExpected,
         x.state # "Absent" \/ x = ch[e],
         \A p \in x.out \union ms :
           \/ \E q \in ch[e].out : p.ack = q.ack
           \/ p.ack = NoNum
           \/ p.ack = x.lastProcessed /\ x.state # "Absent",
         \A n \in ch[e].sequence..(x.sequence - 1) : n \in Seqs(x.out),
         a = NoNum \/ \E m \in net[e] : m.ack = a,
         \A n \in Seqs(ch[e].out) : n > a => n \in Seqs(x.out)
  PROVE  RetainInv'
<1> DEFINE r == Peer(e)
<1> USE PeerProperty
<1>1. /\ ch'[e] = x /\ ch'[r] = ch[r]
      /\ net'[r] = net[r] \union ms /\ net'[e] = net[e]
      /\ r \in Ends /\ r # e /\ Peer(r) = e
  BY DEF TypeOK, Send
<1>2. ch[r].sequence \in Nat /\ ch[r].nextExpected \in Nat
  BY <1>1 DEF TypeOK, Channel
<1>3. AcksHeld(e) => AcksHeld(e)'
  <2>1. \A p \in ch'[e].out \union net'[Peer(e)] :
           \/ \E q \in ch[e].out \union net[Peer(e)] : p.ack = q.ack
           \/ p.ack = NoNum
           \/ p.ack = ch'[e].lastProcessed /\ ch'[e].state # "Absent"
    BY <1>1
  <2>2. /\ ch[e].nextExpected <= ch'[e].nextExpected
        /\ e = Responder => ch'[e].state # "Absent" \/ ch'[e] = ch[e]
    BY <1>1
  <2> QED BY <2>1, <2>2, AcksStay
<1>4. AcksHeld(r) => AcksHeld(r)'
  <2>1. \A p \in ch'[r].out \union net'[Peer(r)] :
           \E q \in ch[r].out \union net[Peer(r)] : p.ack = q.ack
    BY <1>1
  <2>2. /\ ch[r].nextExpected <= ch'[r].nextExpected
        /\ r = Responder => ch'[r].state # "Absent" \/ ch'[r] = ch[r]
    BY <1>1, <1>2
  <2> HIDE DEF r
  <2> QED BY <1>1, <2>1, <2>2, AcksStay
<1>5. OneSession /\ Owes(e) => Owes(e)'
  <2> SUFFICES ASSUME OneSession, Owes(e) PROVE Owes(e)'
    OBVIOUS
  <2>1. AckHeld(r, a)
    <3>1. AcksHeld(r)
      BY <1>1 DEF RetainInv
    <3> QED BY <1>1, <3>1 DEF AcksHeld, AckHeld, NoNum
  <2>2. ch[r].nextExpected <= ch'[r].nextExpected
    BY <1>1, <1>2
  <2> QED BY <1>1, <2>1, <2>2, OwesStays
<1>6. Owes(r) => Owes(r)'
  <2>1. NoNum \in Num /\ AckHeld(Peer(r), NoNum)
    BY DEF Num, AckHeld, NoNum
  <2>2. \A n \in ch[r].sequence..(ch'[r].sequence - 1) : n \in Seqs(ch'[r].out)
    BY <1>1, <1>2
  <2> HIDE DEF r
  <2> QED BY <1>1, <2>1, <2>2, OwesStays
<1>7. Ends = {e, r}
  BY DEF Ends, Peer
<1> QED BY <1>3, <1>4, <1>5, <1>6, <1>7 DEF RetainInv, OneSession

\* A step of e that sends the content b with its channel c.
LEMMA SendingRetains ==
  ASSUME NEW e \in Ends, NEW c \in Channel, NEW x \in Channel,
         NEW b \in Content, NEW ms,
         TypeOK, TypeOK', EndsSettled', RetainInv,
         c.sequence = ch[e].sequence, c.out = ch[e].out,
         c.nextExpected = ch[e].nextExpected,
         x.sequence = AfterSend(c, b).sequence, x.out = AfterSend(c, b).out,
         x.nextExpected = c.nextExpected, x.lastProcessed = c.lastProcessed,
         x.state # "Absent", ms \subseteq {Stamped(c, b)},
         ch' = [ch EXCEPT ![e] = x], Send(e, ms), born' = born
  PROVE  RetainInv'
<1> DEFINE new == Keep(Stamped(c, b))
<1>1. b # NoBody
  BY PayloadIsContent DEF Content, NoBody, End
<1>2. /\ new.seq = ch[e].sequence /\ new.ack = Stamped(c, b).ack
      /\ new.ack \in {NoNum, x.lastProcessed}
  BY <1>1 DEF Keep, Stamped
<1>3. /\ x.out \subseteq ch[e].out \union {new}
      /\ Seqs(x.out) = Seqs(ch[e].out) \union {new.seq}
      /\ x.sequence = ch[e].sequence + 1
  BY <1>1, AfterSendFields, PushProperty
<1> HIDE DEF new
<1>4. \A p \in x.out \union ms :
           \/ \E q \in ch[e].out : p.ack = q.ack
           \/ p.ack = NoNum
           \/ p.ack = x.lastProcessed /\ x.state # "Absent"
  BY <1>2, <1>3
<1>5. /\ \A n \in ch[e].sequence..(x.sequence - 1) : n \in Seqs(x.out)
      /\ ch[e].nextExpected <= x.nextExpected
  BY <1>2, <1>3, SMTT(40) DEF TypeOK, Channel
<1>6. NoNum \in Num
  BY DEF Num
<1> QED BY <1>3, <1>4, <1>5, <1>6, RetainStep

\* A step of e that sends no content and takes no packet.
LEMMA QuietRetains ==
  ASSUME NEW e \in Ends, NEW x \in Channel, NEW ms,
         TypeOK, TypeOK', EndsSettled', RetainInv,
         x.state # "Absent" \/ x = ch[e],
         x.sequence = ch[e].sequence, x.out = ch[e].out,
         x.nextExpected = ch[e].nextExpected,
         \A p \in ms : \/ p.ack = NoNum
                       \/ p.ack = x.lastProcessed /\ x.state # "Absent",
         ch' = [ch EXCEPT ![e] = x], Send(e, ms), born' = born
  PROVE  RetainInv'
<1>1. NoNum \in Num
  BY DEF Num
<1>2. /\ \A n \in ch[e].sequence..(x.sequence - 1) : n \in Seqs(x.out)
      /\ ch[e].nextExpected <= x.nextExpected
  BY DEF TypeOK, Channel
<1> QED BY <1>1, <1>2, RetainStep

\* A packet for a channel in the table.
LEMMA HandlingRetains ==
  ASSUME NEW e \in Ends, NEW m \in net[e],
         TypeOK, TypeOK', EndsSettled, EndsSettled', RetainInv, Handle(e, m)
  PROVE  RetainInv'
<1> DEFINE c == ch[e]
           buf == Buffered(c, m)
           n == c.nextExpected
<1>1. /\ c \in Channel /\ m \in Packet /\ c.registered
      /\ c.state # "Absent" /\ m.ack \in Num
  BY DEF Handle, TypeOK, EndsSettled, EndSettled, Settled, Packet
<1>2. PICK k \in RunLimits(buf, n) :
        /\ RunEnds(buf, n, k)
        /\ ch' = [ch EXCEPT ![e] = AfterHandle(c, m, k)]
        /\ Send(e, HandleSends(c, m, k))
  BY DEF Handle
<1>3. k \in Nat /\ n \in Nat /\ n <= k
  BY <1>1, <1>2, RunEndsProperty DEF Channel
<1> DEFINE x == AfterHandle(c, m, k)
           ms == HandleSends(c, m, k)
<1>4. /\ x \in Channel /\ x.out = Acknowledged(c.out, m)
      /\ x.sequence = c.sequence /\ x.nextExpected = k
      /\ x.lastProcessed = IF n < k THEN k - 1 ELSE c.lastProcessed
      /\ x.state # "Absent"
  <2>1. x.state \in {c.state, "Open", "Ended", "Errored"}
    BY <1>1, <1>3, AfterHandleFields
  <2> HIDE DEF buf
  <2> QED BY <1>1, <1>3, <2>1, AfterHandleFields, SMTT(40)
<1>5. \A p \in ms : \/ \E q \in c.out : p.ack = q.ack
                    \/ p.ack \in {NoNum, x.lastProcessed}
  BY <1>1, <1>3, <1>4, HandleSendsShape
<1>6. /\ x.out \subseteq c.out
      /\ \A i \in Seqs(c.out) : i > m.ack => i \in Seqs(x.out)
  BY <1>4 DEF Acknowledged, ClearThrough, Seqs
<1>7. \A i \in c.sequence..(x.sequence - 1) : i \in Seqs(x.out)
  BY <1>1, <1>4 DEF Channel
<1>8. ch' = [ch EXCEPT ![e] = x] /\ Send(e, ms) /\ born' = born
  BY <1>2 DEF Handle
<1>9. \A p \in x.out \union ms :
           \/ \E q \in ch[e].out : p.ack = q.ack
           \/ p.ack = NoNum
           \/ p.ack = x.lastProcessed /\ x.state # "Absent"
  BY <1>4, <1>5, <1>6
<1>10. n <= x.nextExpected /\ \E q \in net[e] : q.ack = m.ack
  BY <1>3, <1>4
<1> HIDE DEF x, ms, buf
<1> QED BY <1>1, <1>4, <1>6, <1>7, <1>8, <1>9, <1>10, RetainStep

\* The packet for which the responder makes an object: before the first one
\* it has no stream of its own, and the opener's packet 0 is taken at once.
LEMMA AcceptingRetains ==
  ASSUME NEW e \in Ends, NEW m \in net[e],
         TypeOK, TypeOK', EndsSettled', OrderInv, RetainInv, Accept(e, m)
  PROVE  RetainInv'
<1> DEFINE r == Peer(e)
<1> USE PeerProperty
<1>1. /\ e = Responder /\ r = Opener /\ Opener # Responder /\ r \in Ends
      /\ m \in Packet /\ m.seq = 0 /\ Peer(r) = e /\ Ends = {e, r}
  BY TwoEnds DEF TypeOK, Accept, Typed, Peer, Ends
<1>2. PICK k \in RunLimits(Buffered(Newborn, m), 0) :
        /\ RunEnds(Buffered(Newborn, m), 0, k)
        /\ ch' = [ch EXCEPT ![e] = Accepted(m, k)]
  BY DEF Accept
<1>3. k = 1
  BY <1>1, <1>2, AcceptedSettles
<1> DEFINE x == Accepted(m, k)
<1>4. x.out = {} /\ x.sequence = 0 /\ x.nextExpected = 1 /\ x.state = "Open"
  BY <1>1, <1>3, AcceptedFields
<1> HIDE DEF x
<1>5. /\ ch'[e] = x /\ ch'[r] = ch[r] /\ net' = net
      /\ born \in Nat /\ born' = born + 1
  BY <1>1, <1>2 DEF TypeOK, Accept, x
<1>6. AcksHeld(Opener)'
  BY <1>1, <1>5 DEF RetainInv, AcksHeld, AckHeld
<1>7. SUFFICES ASSUME OneSession' PROVE AcksHeld(e)' /\ Owes(e)' /\ Owes(r)'
  BY <1>1, <1>6 DEF RetainInv
<1>8. OneSession /\ ch[e].nextExpected = 0
  BY <1>1, <1>5, <1>7 DEF OneSession, OrderInv, Unborn, NoChannel
<1>9. AcksHeld(e)'
  <2>1. AcksHeld(e)
    BY <1>8 DEF RetainInv
  <2>2. /\ \A p \in ch'[e].out \union net'[Peer(e)] :
             \E q \in ch[e].out \union net[Peer(e)] : p.ack = q.ack
        /\ ch[e].nextExpected <= ch'[e].nextExpected
        /\ ch'[e].state # "Absent"
    BY <1>4, <1>5, <1>8
  <2> QED BY <2>1, <2>2, AcksStay
<1>10. Owes(e)'
  <2>1. ch'[r].nextExpected \in Nat
    BY <1>1 DEF TypeOK, Channel
  <2> QED BY <1>4, <1>5, <2>1 DEF Owes, Unprocessed
<1>11. Owes(r)'
  <2>1. Owes(r) /\ NoNum \in Num /\ AckHeld(Peer(r), NoNum)
    BY <1>1, <1>8 DEF RetainInv, AckHeld, Num, NoNum
  <2>2. ch[r].sequence \in Nat
    BY <1>1 DEF TypeOK, Channel
  <2>3. /\ \A n \in ch[r].sequence..(ch'[r].sequence - 1) :
             n \in Seqs(ch'[r].out)
        /\ ch[Peer(r)].nextExpected <= ch'[Peer(r)].nextExpected
    BY <1>1, <1>4, <1>5, <1>8, <2>2
  <2> HIDE DEF r
  <2> QED BY <1>1, <1>5, <2>1, <2>3, OwesStays
<1> QED BY <1>9, <1>10, <1>11

\* In every reachable state the acks of an end, however old, name packets it
\* has processed, and while there is one session an end keeps what its peer
\* has not processed.
THEOREM RetainInvariant == Spec => []RetainInv
<1>1. Init => RetainInv
  <2> SUFFICES ASSUME Init PROVE RetainInv
    OBVIOUS
  <2>1. \A e \in Ends : /\ ch[e] = NoChannel /\ net[Peer(e)] = {}
                        /\ ch[Peer(e)] = NoChannel
    BY PeerProperty DEF Init
  <2> QED BY <2>1
          DEF RetainInv, AcksHeld, Owes, Unprocessed, NoChannel, Empty
<1>2. TypeOK /\ TypeOK' /\ EndsSettled /\ EndsSettled' /\ OrderInv /\ RetainInv
      /\ [Next]_vars => RetainInv'
  <2> SUFFICES ASSUME TypeOK, TypeOK', EndsSettled, EndsSettled', OrderInv,
                      RetainInv, [Next]_vars
               PROVE  RetainInv'
    OBVIOUS
  <2>1. \A e \in Ends : ch[e] \in Channel /\ EndSettled(e)
    BY DEF TypeOK, EndsSettled
  <2>2. ASSUME NEW e \in Ends, NEW c \in Channel, NEW b \in Content,
               c.state = "Open", c.sequence = ch[e].sequence,
               c.out = ch[e].out, c.nextExpected = ch[e].nextExpected,
               SendContent(e, c, b)
        PROVE  RetainInv'
    <3> DEFINE x == AfterSend(c, b)
               ms == Transmitted(c, Stamped(c, b))
    <3>1. /\ x \in Channel /\ x.state = "Open"
          /\ x.nextExpected = c.nextExpected
          /\ x.lastProcessed = c.lastProcessed
      BY <2>2, AfterSendType, AfterSendFields
    <3>2. ms \subseteq {Stamped(c, b)}
      BY DEF Transmitted
    <3>3. ch' = [ch EXCEPT ![e] = x] /\ Send(e, ms) /\ born' = born
      BY <2>2 DEF SendContent
    <3>4. x.sequence = AfterSend(c, b).sequence /\ x.out = AfterSend(c, b).out
      OBVIOUS
    <3> HIDE DEF x, ms
    <3> QED BY <2>2, <3>1, <3>2, <3>3, <3>4, SendingRetains
  <2>3. CASE OpenChannel
    <3> DEFINE c == NewChannel("Open")
    <3>1. Opener \in Ends
      BY DEF Ends
    <3>2. /\ c \in Channel /\ c.state = "Open"
          /\ c.sequence = ch[Opener].sequence /\ c.out = ch[Opener].out
          /\ c.nextExpected = ch[Opener].nextExpected
      BY <2>3, <3>1, NewChannelType
         DEF States, NewChannel, NoChannel, OpenChannel, OrderInv, Unborn
    <3>3. NextContent(Opener) \in Content
      BY <2>3, <3>1, NextContentType DEF OpenChannel, Content
    <3> HIDE DEF c
    <3> QED BY <2>2, <2>3, <3>1, <3>2, <3>3 DEF OpenChannel, c
  <2>4. ASSUME NEW e \in Ends, AppSend(e) PROVE RetainInv'
    <3>1. NextContent(e) \in Content
      BY <2>4, NextContentType DEF AppSend, Content
    <3> QED BY <2>1, <2>2, <2>4, <3>1 DEF AppSend
  <2>5. ASSUME NEW e \in Ends, Close(e) PROVE RetainInv'
    <3> DEFINE c == ch[e]
               x == AfterClose(c)
               ms == Transmitted(c, Stamped(c, End))
    <3>1. c \in Channel /\ c.state = "Open" /\ End \in Content
      BY <2>1, <2>5 DEF Close, Content
    <3>2. /\ x \in Channel /\ x.state = "Ended"
          /\ x.nextExpected = c.nextExpected
          /\ x.lastProcessed = c.lastProcessed
          /\ x.sequence = AfterSend(c, End).sequence
          /\ x.out = AfterSend(c, End).out
      BY <3>1, AfterCloseType, AfterCloseFields
    <3>3. ms \subseteq {Stamped(c, End)}
      BY DEF Transmitted
    <3>4. ch' = [ch EXCEPT ![e] = x] /\ Send(e, ms) /\ born' = born
      BY <2>5 DEF Close
    <3> HIDE DEF x, ms
    <3> QED BY <3>1, <3>2, <3>3, <3>4, SendingRetains
  <2>6. ASSUME NEW e \in Ends, CloseErrored(e) PROVE RetainInv'
    <3> DEFINE x == AfterClose(ch[e])
    <3>1. /\ x \in Channel /\ x.state = "Ended"
          /\ x.sequence = ch[e].sequence /\ x.out = ch[e].out
          /\ x.nextExpected = ch[e].nextExpected
      BY <2>1, <2>6, AfterCloseType
         DEF AfterClose, SendsEnd, CloseErrored, Channel
    <3>2. ch' = [ch EXCEPT ![e] = x] /\ Send(e, {}) /\ born' = born
      BY <2>6 DEF CloseErrored, Send, TypeOK
    <3> HIDE DEF x
    <3> QED BY <3>1, <3>2, QuietRetains
  <2>7. ASSUME NEW e \in Ends, CloseChannels(e) PROVE RetainInv'
    <3> DEFINE x == AfterCloseChannels(ch[e])
    <3>1. /\ x \in Channel /\ x.state = "Ended"
          /\ x.sequence = ch[e].sequence /\ x.out = ch[e].out
          /\ x.nextExpected = ch[e].nextExpected
      BY <2>1 DEF AfterCloseChannels, Channel, States
    <3>2. ch' = [ch EXCEPT ![e] = x] /\ Send(e, {}) /\ born' = born
      BY <2>7 DEF CloseChannels, Send, TypeOK
    <3> HIDE DEF x
    <3> QED BY <3>1, <3>2, QuietRetains
  <2>8. ASSUME NEW e \in Ends, AckPing(e) PROVE RetainInv'
    <3> DEFINE c == ch[e]
               x == AfterPing(c)
               ms == IF PingSends(c) THEN Transmitted(c, Stamped(c, NoBody))
                     ELSE {}
    <3>1. c \in Channel /\ (c.state = "Absent" => c = NoChannel)
      BY <2>1 DEF OrderInv, Unborn
    <3>2. c.state # "Absent"
      BY <2>8, <3>1 DEF AckPing, NoChannel
    <3>3. /\ x \in Channel /\ x.state = c.state
          /\ x.sequence = c.sequence /\ x.out = c.out
          /\ x.nextExpected = c.nextExpected
          /\ x.lastProcessed = c.lastProcessed
      BY <3>1, AfterPingType, AfterPingFields
    <3>4. \A p \in ms : p.ack \in {NoNum, c.lastProcessed}
      BY DEF Transmitted, Stamped
    <3>5. ch' = [ch EXCEPT ![e] = x] /\ Send(e, ms) /\ born' = born
      BY <2>8 DEF AckPing
    <3> HIDE DEF x, ms
    <3> QED BY <3>2, <3>3, <3>4, <3>5, QuietRetains
  <2>9. ASSUME NEW e \in Ends, NEW m \in net[e], Handle(e, m) PROVE RetainInv'
    BY <2>9, HandlingRetains
  <2>10. ASSUME NEW e \in Ends, NEW m \in net[e], Accept(e, m) PROVE RetainInv'
    BY <2>10, AcceptingRetains
  <2>11. ASSUME NEW e \in Ends, NEW m \in net[e], Refuse(e, m) PROVE RetainInv'
    <3> DEFINE x == ch[e]
               ms == {ErrorReply}
    <3>1. x \in Channel /\ ch' = [ch EXCEPT ![e] = x]
      BY <2>1, <2>11 DEF Refuse, TypeOK
    <3>2. \A p \in ms : p.ack = NoNum
      BY DEF ErrorReply
    <3>3. Send(e, ms) /\ born' = born
      BY <2>11 DEF Refuse
    <3> HIDE DEF ms
    <3> QED BY <3>1, <3>2, <3>3, QuietRetains
  <2>12. CASE UNCHANGED vars
    BY <2>12
       DEF vars, RetainInv, AcksHeld, AckHeld, Owes, Unprocessed, OneSession
  <2> QED BY <2>3, <2>4, <2>5, <2>6, <2>7, <2>8, <2>9, <2>10, <2>11, <2>12
      DEF Next, Receive
<1>3. Spec => []TypeOK /\ []EndsSettled /\ []OrderInv
  BY TypeCorrect, SettledInvariant, OrderInvariant
<1> QED BY <1>1, <1>2, <1>3, PTL DEF Spec

\* No ack on the line, however old, names a packet its sender has not
\* processed.
THEOREM AckCorrect == Spec => []AckSound
<1>1. RetainInv => AckSound
  <2> SUFFICES ASSUME RetainInv, OneSession, NEW e \in Ends, NEW m \in net[e],
                      m.ack > 0
               PROVE  m.ack < ch[Peer(e)].nextExpected
    BY DEF AckSound
  <2>1. AcksHeld(Peer(e)) /\ Peer(Peer(e)) = e
    BY PeerProperty DEF RetainInv
  <2> QED BY <2>1 DEF AcksHeld, AckHeld
<1> QED BY <1>1, RetainInvariant, PTL

\* What its peer may still ask for, an end still has (but for the responder's
\* packet 0).
THEOREM RetainCorrect == Spec => []Retained
<1>1. RetainInv => Retained
  BY DEF RetainInv, Owes, Retained
<1> QED BY <1>1, RetainInvariant, PTL

------------------------------------------------------------------------------
(* The refinement: while the responder has had one object, each step is a    *)
(* step of the two streams or changes nothing they see.                      *)

Lives == [e \in Ends |-> Life(e)]

LifeOf(c) == IF c.state = "Absent" THEN "none"
             ELSE IF c.state = "Open" THEN "live" ELSE "over"

\* What a step that leaves e with the channel x makes of the lives.
LEMMA LivesStep ==
  ASSUME NEW e \in Ends, NEW x, TypeOK, ch' = [ch EXCEPT ![e] = x]
  PROVE  Lives' = [Lives EXCEPT ![e] = LifeOf(x)]
BY DEF Lives, Life, LifeOf, TypeOK

\* A step that leaves the lives and the histories alone is a stutter.
LEMMA StreamStutter ==
  ASSUME NEW e \in Ends, NEW x, TypeOK, ch' = [ch EXCEPT ![e] = x],
         LifeOf(x) = Life(e), sent' = sent, delivered' = delivered
  PROVE  UNCHANGED Stream!vars
<1>1. Lives' = Lives
  BY LivesStep DEF Lives
<1> QED BY <1>1 DEF Stream!vars, Lives

\* The end is finished, with or without its own end packet.
LEMMA StreamFinish ==
  ASSUME NEW e \in Ends, NEW x, TypeOK, ch' = [ch EXCEPT ![e] = x],
         ch[e].state = "Open", x.state \in {"Ended", "Errored"},
         sent' \in {sent, [sent EXCEPT ![e] = Append(@, End)]},
         delivered' = delivered
  PROVE  Stream!Finish(e)
<1>1. Lives[e] = "live" /\ Lives' = [Lives EXCEPT ![e] = "over"]
  BY LivesStep DEF Lives, Life, LifeOf
<1> QED BY <1>1 DEF Stream!Finish, Lives

\* The end is handed the stream of its peer up to the k-th content.
LEMMA StreamHandOver ==
  ASSUME NEW e \in Ends, NEW x, NEW k \in Nat, TypeOK, TypeOK',
         ch' = [ch EXCEPT ![e] = x], ch[e].state = "Open",
         LifeOf(x) = IF sent[Peer(e)][k] = End THEN "over" ELSE "live",
         sent' = sent, \A f \in Ends \ {e} : delivered'[f] = delivered[f],
         Len(delivered[e]) < k, Len(delivered'[e]) = k,
         IsPrefixOf(delivered'[e], sent[Peer(e)])
  PROVE  Stream!HandOver(e, k) /\ k \in 1..Len(sent[Stream!Peer(e)])
<1> DEFINE t == sent[Peer(e)]
<1>1. /\ Lives[e] = "live"
      /\ Lives' = [Lives EXCEPT ![e] = IF t[k] = End THEN "over" ELSE @]
  <2>1. Lives[e] = "live"
    BY DEF Lives, Life
  <2>2. Lives' = [Lives EXCEPT ![e] = LifeOf(x)]
    BY LivesStep
  <2>3. LifeOf(x) = IF t[k] = End THEN "over" ELSE Lives[e]
    BY <2>1
  <2> QED BY <2>1, <2>2, <2>3
<1>2. t \in Seq(Content) /\ delivered'[e] \in Seq(Content)
  BY PeerProperty DEF TypeOK
<1>3. k \in (Len(delivered[e]) + 1)..Len(t) /\ k \in 1..Len(t)
  BY <1>2 DEF IsPrefixOf, TypeOK
<1>4. delivered'[e] = SubSeq(t, 1, k)
  <2> DEFINE d == delivered'[e]
             u == SubSeq(t, 1, k)
  <2>1. u \in Seq(Content) /\ Len(u) = k /\ \A i \in 1..k : u[i] = t[i]
    <3> HIDE DEF t
    <3> QED BY <1>2, <1>3, SubSeqProperties
  <2>2. \A i \in 1..k : d[i] = t[i]
    BY DEF IsPrefixOf
  <2>3. d \in Seq(Content) /\ Len(d) = k
    BY <1>2
  <2> HIDE DEF d, u, t
  <2>4. d = u
    BY <2>1, <2>2, <2>3, SeqEqual
  <2> QED BY <2>4 DEF d, u
<1>5. delivered' = [delivered EXCEPT ![e] = SubSeq(t, 1, k)]
  BY <1>4 DEF TypeOK
<1>6. Stream!Peer(e) = Peer(e)
  BY DEF Stream!Peer, Peer
<1> QED BY <1>1, <1>3, <1>5, <1>6 DEF Stream!HandOver, Lives

\* A packet for a channel in the table: it fails the channel, or has its run
\* handed over, or does nothing the applications see.
LEMMA HandlingStreams ==
  ASSUME NEW e \in Ends, NEW m \in net[e], TypeOK, TypeOK', OrderInv, OrderInv',
         EndsSettled, OneSession, Handle(e, m)
  PROVE  [Stream!Next]_(Stream!vars)
<1> DEFINE c == ch[e]
           buf == Buffered(c, m)
           n == c.nextExpected
           t == sent[Peer(e)]
<1> USE PeerProperty
<1>1. /\ c \in Channel /\ m \in Packet /\ c.registered /\ Settled(c)
      /\ c.state = "Open"
  BY DEF Handle, TypeOK, EndsSettled, EndSettled, Settled
<1>2. PICK k \in RunLimits(buf, n) :
        /\ RunEnds(buf, n, k)
        /\ ch' = [ch EXCEPT ![e] = AfterHandle(c, m, k)]
        /\ delivered' = [delivered EXCEPT ![e] = @ \o Run(buf, n, k)]
  BY DEF Handle
<1>3. k \in Nat /\ n \in Nat /\ n <= k
  BY <1>1, <1>2, RunEndsProperty DEF Channel
<1>4. sent' = sent /\ born' = born
  BY DEF Handle
<1> DEFINE x == AfterHandle(c, m, k)
<1>5. /\ x.state = IF RunCloses(buf, n, k) THEN "Ended"
                   ELSE Dispatched(c, m).state
      /\ Dispatched(c, m).state =
           IF m.body = Err THEN "Errored" ELSE "Open"
  <2>1. Dispatched(c, m).state = IF m.body = Err THEN "Errored" ELSE "Open"
    BY <1>1 DEF Dispatched, Channel
  <2> QED BY <1>1, <1>3, <2>1, AfterHandleFields
<1>6. ch' = [ch EXCEPT ![e] = x]
  BY <1>2
<1>7. CASE n = k
  <2>1. ~RunCloses(buf, n, k)
    BY <1>3, <1>7 DEF RunCloses
  <2>2. delivered' = delivered
    <3>1. Run(buf, n, k) = <<>>
      BY <1>3, <1>7 DEF Run
    <3>2. delivered[e] \o <<>> = delivered[e]
      BY ConcatEmptySeq DEF TypeOK
    <3> QED BY <1>2, <3>1, <3>2 DEF TypeOK
  <2> HIDE DEF x, buf
  <2>3. CASE m.body = Err
    <3>1. x.state = "Errored"
      BY <1>5, <2>1, <2>3
    <3>2. Stream!Finish(e)
      BY <1>1, <1>4, <1>6, <2>2, <3>1, StreamFinish
    <3> QED BY <3>2 DEF Stream!Next, Stream!Ends, Ends
  <2>4. CASE m.body # Err
    <3>1. x.state = "Open" /\ LifeOf(x) = Life(e)
      BY <1>1, <1>5, <2>1, <2>4 DEF LifeOf, Life
    <3>2. UNCHANGED Stream!vars
      BY <1>4, <1>6, <2>2, <3>1, StreamStutter
    <3> QED BY <3>2
  <2> QED BY <2>3, <2>4
<1>8. CASE n # k
  <2>1. n < k /\ n \in Seqs(buf) /\ FrontIs(buf, n)
    BY <1>2, <1>3, <1>8 DEF RunEnds
  <2>2. m.body # Err
    <3>1. ASSUME m.body = Err PROVE FALSE
      <4>1. m.seq = NoNum
        BY <1>1, <3>1, PayloadIsContent DEF Packet, Content, Err, End
      <4>2. buf = c.in
        BY <4>1 DEF Buffered
      <4> QED BY <1>1, <2>1, <4>2 DEF Settled
    <3> QED BY <3>1
  <2>3. /\ StreamInv(Peer(e)) /\ StreamInv(Peer(e))'
        /\ Peer(Peer(e)) = e
    BY <1>4 DEF OrderInv, OneSession
  <2>4. /\ Len(delivered[e]) = n
        /\ ch'[e].nextExpected = k /\ Len(delivered'[e]) = k
        /\ IsPrefixOf(delivered'[e], t)
    <3>1. ch'[e].nextExpected = k
      <4>1. x.nextExpected = k
        BY <1>1, <1>3, AfterHandleFields
      <4> HIDE DEF x
      <4> QED BY <1>6, <4>1 DEF TypeOK
    <3> QED BY <1>4, <2>3, <3>1 DEF StreamInv
  <2>5. RunCloses(buf, n, k) <=> t[k] = End
    <3>1. k - 1 \in Seqs(buf)
      BY <1>2, <1>3, <2>1 DEF RunEnds
    <3>2. \A p \in c.in : Genuine(Peer(e), p)
      BY <2>3 DEF StreamInv
    <3>3. m.seq # NoNum => Genuine(Peer(e), m)
      BY <2>3 DEF StreamInv
    <3>4. \A p \in buf : Genuine(Peer(e), p)
      BY <3>2, <3>3, BufferedGenuine
    <3>5. PacketAt(buf, k - 1).body = t[(k - 1) + 1]
      <4> HIDE DEF buf, t
      <4>1. PacketAt(buf, k - 1) \in buf /\ PacketAt(buf, k - 1).seq = k - 1
        BY <3>1, PacketAtProperty
      <4> QED BY <3>4, <4>1 DEF Genuine, t
    <3> QED BY <1>3, <2>1, <3>5 DEF RunCloses
  <2>6. LifeOf(x) = IF t[k] = End THEN "over" ELSE "live"
    <3> HIDE DEF x, t
    <3> QED BY <1>5, <2>2, <2>5 DEF LifeOf
  <2>7. \A f \in Ends \ {e} : delivered'[f] = delivered[f]
    BY <1>2 DEF TypeOK
  <2> HIDE DEF x, buf
  <2>8. Stream!HandOver(e, k) /\ k \in 1..Len(sent[Stream!Peer(e)])
    BY <1>1, <1>3, <1>4, <1>6, <2>1, <2>4, <2>6, <2>7, StreamHandOver
  <2> QED BY <2>8 DEF Stream!Next, Stream!Ends, Ends
<1> QED BY <1>7, <1>8

\* The packet that opens the channel: the responder joins with its content.
LEMMA AcceptingStreams ==
  ASSUME NEW e \in Ends, NEW m \in net[e], TypeOK, OrderInv, OneSession',
         Accept(e, m)
  PROVE  Stream!Join
<1> DEFINE p == [seq |-> m.seq, body |-> m.body]
           buf == Buffered(Newborn, m)
           t == sent[Opener]
<1>1. /\ e = Responder /\ Opener # Responder /\ Opener \in Ends
      /\ m \in Packet /\ m.seq = 0 /\ m.seq # NoNum
  BY TwoEnds DEF TypeOK, Accept, Typed, Ends, NoNum
<1>2. PICK k \in RunLimits(buf, 0) :
        /\ RunEnds(buf, 0, k)
        /\ ch' = [ch EXCEPT ![e] = Accepted(m, k)]
        /\ delivered' = [delivered EXCEPT ![e] = Run(buf, 0, k)]
  BY DEF Accept
<1>3. k = 1 /\ Accepted(m, k).state = "Open"
  BY <1>1, <1>2, AcceptedSettles, AcceptedFields
<1>4. /\ born = 0 /\ ch[e].state = "Absent" /\ sent[e] = <<>>
      /\ StreamInv(Opener)
  BY <1>1 DEF OneSession, TypeOK, Accept, OrderInv, Unborn
<1>5. m.body = t[1] /\ Len(t) > 0 /\ t \in Seq(Content)
  BY <1>1, <1>4 DEF StreamInv, Genuine, Peer, TypeOK
<1>6. Run(buf, 0, k) = <<t[1]>>
  <2>1. buf = {p}
    BY <1>1 DEF Buffered, Push, Seqs, Newborn, NewChannel, NoChannel, Empty
  <2>2. 0 \in Seqs(buf)
    BY <1>1, <2>1 DEF Seqs
  <2>3. PacketAt(buf, 0) = p
    <3> HIDE DEF p, buf
    <3> QED BY <2>1, <2>2, PacketAtProperty
  <2>4. Run(buf, 0, k) = [i \in 1..1 |-> PacketAt(buf, 0 + i - 1).body]
    BY <1>3 DEF Run
  <2>5. \A i \in 1..1 : PacketAt(buf, 0 + i - 1).body = t[1]
    <3>1. PacketAt(buf, 0).body = t[1]
      BY <1>5, <2>3
    <3> HIDE DEF buf, t
    <3> QED BY <3>1
  <2> HIDE DEF buf, t
  <2> QED BY <2>4, <2>5
<1> DEFINE x == Accepted(m, k)
<1>7. ch' = [ch EXCEPT ![e] = x] /\ LifeOf(x) = "live"
  BY <1>2, <1>3 DEF LifeOf
<1>8. Lives[e] = "none" /\ Lives' = [Lives EXCEPT ![e] = "live"]
  <2>1. Lives[e] = "none"
    BY <1>4 DEF Lives, Life
  <2> HIDE DEF x
  <2> QED BY <1>7, <2>1, LivesStep
<1>9. sent' = sent
  BY <1>4 DEF Accept, TypeOK
<1>10. delivered' = [delivered EXCEPT ![e] = <<Head(t)>>] /\ t # <<>>
  <2> HIDE DEF t, buf
  <2>1. t # <<>> /\ Head(t) = t[1]
    BY <1>5
  <2> QED BY <1>2, <1>6, <2>1
<1> QED BY <1>1, <1>8, <1>9, <1>10 DEF Stream!Join, Lives

\* Every step, while the responder has had one object.
LEMMA StreamStep ==
  ASSUME TypeOK, TypeOK', OrderInv, OrderInv', EndsSettled, OneSession',
         [Next]_vars
  PROVE  [Stream!Next]_(Stream!vars)
<1>1. \A e \in Ends : ch[e] \in Channel /\ EndSettled(e)
  BY DEF TypeOK, EndsSettled
<1>2. Ends = Stream!Ends
  BY DEF Ends, Stream!Ends
<1>3. CASE OpenChannel
  <2> DEFINE c == NewChannel("Open")
             b == NextContent(Opener)
             x == AfterSend(c, b)
  <2>1. Opener \in Ends
    BY DEF Ends
  <2>2. b \in Content
    BY <1>3, <2>1, NextContentType DEF OpenChannel, Content
  <2>3. c \in Channel /\ c.state = "Open"
    BY NewChannelType DEF NewChannel, NoChannel, States
  <2>4. SendContent(Opener, c, b)
    BY <1>3 DEF OpenChannel
  <2>5. LifeOf(x) = "live"
    <3> HIDE DEF b, c
    <3> QED BY <2>2, <2>3, AfterSendFields DEF LifeOf
  <2>6. Lives[Opener] = "none" /\ sent[Opener] = <<>>
    BY <1>3, <2>1 DEF Lives, Life, OpenChannel, OrderInv, Unborn
  <2>7. ch' = [ch EXCEPT ![Opener] = x]
    BY <2>4 DEF SendContent
  <2> HIDE DEF x
  <2>8. Lives' = [Lives EXCEPT ![Opener] = "live"]
    BY <2>1, <2>5, <2>7, LivesStep
  <2> HIDE DEF b, c
  <2>9. sent' = [sent EXCEPT ![Opener] = <<b>>] /\ delivered' = delivered
    BY <2>1, <2>4, <2>6 DEF SendContent, TypeOK
  <2>10. Stream!Begin(b)
    BY <2>6, <2>8, <2>9 DEF Stream!Begin, Lives
  <2> QED BY <2>2, <2>10 DEF Stream!Next
<1>4. ASSUME NEW e \in Ends, AppSend(e) PROVE [Stream!Next]_(Stream!vars)
  <2> DEFINE b == NextContent(e)
             x == AfterSend(ch[e], b)
  <2>1. b \in Content /\ b # End /\ ch[e].state = "Open"
    BY <1>4, NextContentType, PayloadIsContent DEF AppSend, Content
  <2>2. /\ ch' = [ch EXCEPT ![e] = x] /\ delivered' = delivered
        /\ sent' = [sent EXCEPT ![e] = Append(@, b)]
    BY <1>4 DEF AppSend, SendContent
  <2>3. LifeOf(x) = "live" /\ Lives[e] = "live"
    <3> HIDE DEF b
    <3> QED BY <1>1, <2>1, AfterSendFields DEF LifeOf, Lives, Life
  <2> HIDE DEF x
  <2>4. Lives' = Lives
    <3>1. Lives' = [Lives EXCEPT ![e] = LifeOf(x)]
      BY <2>2, LivesStep
    <3> QED BY <2>3, <3>1 DEF Lives
  <2> HIDE DEF b
  <2>5. Stream!Submit(e, b)
    BY <2>1, <2>2, <2>3, <2>4 DEF Stream!Submit, Lives
  <2> QED BY <1>2, <2>1, <2>5 DEF Stream!Next
<1>5. ASSUME NEW e \in Ends, Close(e) PROVE [Stream!Next]_(Stream!vars)
  <2> DEFINE x == AfterClose(ch[e])
  <2>1. ch[e].state = "Open" /\ x.state = "Ended"
    BY <1>1, <1>5, AfterCloseFields DEF Close
  <2>2. /\ ch' = [ch EXCEPT ![e] = x] /\ delivered' = delivered
        /\ sent' = [sent EXCEPT ![e] = Append(@, End)]
    BY <1>5 DEF Close
  <2> HIDE DEF x
  <2>3. Stream!Finish(e)
    BY <2>1, <2>2, StreamFinish
  <2> QED BY <1>2, <2>3 DEF Stream!Next
<1>6. ASSUME NEW e \in Ends, CloseErrored(e) PROVE [Stream!Next]_(Stream!vars)
  <2> DEFINE x == AfterClose(ch[e])
  <2>1. x.state = "Ended" /\ ch[e].state = "Errored"
    BY <1>1, <1>6 DEF AfterClose, SendsEnd, CloseErrored, Channel
  <2>2. LifeOf(x) = Life(e)
    BY <2>1 DEF LifeOf, Life
  <2>3. ch' = [ch EXCEPT ![e] = x] /\ sent' = sent /\ delivered' = delivered
    BY <1>6 DEF CloseErrored
  <2> HIDE DEF x
  <2> QED BY <2>2, <2>3, StreamStutter
<1>7. ASSUME NEW e \in Ends, CloseChannels(e) PROVE [Stream!Next]_(Stream!vars)
  <2> DEFINE x == AfterCloseChannels(ch[e])
  <2>1. ch[e].state = "Open" /\ x.state = "Ended"
    BY <1>1, <1>7
       DEF CloseChannels, AfterCloseChannels, EndSettled, Settled, Channel
  <2>2. ch' = [ch EXCEPT ![e] = x] /\ sent' = sent /\ delivered' = delivered
    BY <1>7 DEF CloseChannels
  <2> HIDE DEF x
  <2>3. Stream!Finish(e)
    BY <2>1, <2>2, StreamFinish
  <2> QED BY <1>2, <2>3 DEF Stream!Next
<1>8. ASSUME NEW e \in Ends, AckPing(e) PROVE [Stream!Next]_(Stream!vars)
  <2> DEFINE x == AfterPing(ch[e])
  <2>1. LifeOf(x) = Life(e)
    BY <1>1, AfterPingFields DEF LifeOf, Life
  <2>2. ch' = [ch EXCEPT ![e] = x] /\ sent' = sent /\ delivered' = delivered
    BY <1>8 DEF AckPing
  <2> HIDE DEF x
  <2> QED BY <2>1, <2>2, StreamStutter
<1>9. ASSUME NEW e \in Ends, NEW m \in net[e], Handle(e, m)
      PROVE  [Stream!Next]_(Stream!vars)
  <2>1. OneSession
    BY <1>9 DEF Handle, OneSession
  <2> QED BY <1>9, <2>1, HandlingStreams
<1>10. ASSUME NEW e \in Ends, NEW m \in net[e], Accept(e, m)
       PROVE  [Stream!Next]_(Stream!vars)
  <2>1. Stream!Join
    BY <1>10, AcceptingStreams
  <2> QED BY <2>1 DEF Stream!Next
<1>11. ASSUME NEW e \in Ends, NEW m \in net[e], Refuse(e, m)
       PROVE  UNCHANGED Stream!vars
  BY <1>11 DEF Refuse, Stream!vars, Life
<1>12. CASE UNCHANGED vars
  <2>1. UNCHANGED Stream!vars
    BY <1>12 DEF vars, Stream!vars, Life
  <2> QED BY <2>1
<1> QED BY <1>3, <1>4, <1>5, <1>6, <1>7, <1>8, <1>9, <1>10, <1>11, <1>12
    DEF Next, Receive

\* While the responder has had one object for the channel, what the two
\* applications see is a behaviour of ReliableStream: the channel implements
\* the promise, over a network that loses, repeats, delays and reorders.
THEOREM StreamCorrect == Spec => StreamSpec
<1>1. Init => Stream!Init
  BY DEF Init, Stream!Init, Stream!Ends, Ends, Life, NoChannel
<1>2. TypeOK /\ TypeOK' /\ OrderInv /\ OrderInv' /\ EndsSettled /\ [Next]_vars
      => [OneSession' => [Stream!Next]_(Stream!vars)]_vars
  BY StreamStep
<1>3. Spec => []TypeOK /\ []OrderInv /\ []EndsSettled
  BY TypeCorrect, OrderInvariant, SettledInvariant
<1> QED BY <1>1, <1>2, <1>3, PTL DEF Spec, StreamSpec

==============================================================================
