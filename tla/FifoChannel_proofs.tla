-------------------------- MODULE FifoChannel_proofs --------------------------
(***************************************************************************)
(* A theorem about FifoChannel: as long as the network keeps the order of  *)
(* packets and loses none, no end of a channel fails, however much the two *)
(* applications send and whenever they close.                              *)
(***************************************************************************)
EXTENDS FifoChannel, ReliableChannel_proofs, FiniteSetTheorems, TLAPS

------------------------------------------------------------------------------
(* What is put on a queue.                                                   *)

LEMMA PeerProperty ==
  \A e \in Ends : Peer(e) \in Ends /\ Peer(e) # e /\ Peer(Peer(e)) = e
                  /\ Ends = {e, Peer(e)}
BY TwoEnds DEF Peer, Ends

LEMMA OrderedNone == Ordered({}) = <<>>
<1>1. Cardinality({}) = 0
  BY FS_EmptySet
<1>2. <<>> \in [1..0 -> {}] /\ IsInjective(<<>>) /\ DOMAIN <<>> = {}
  BY DEF IsInjective
<1> DEFINE InOrder(s) ==
      /\ IsInjective(s)
      /\ \A i, j \in DOMAIN s :
           i < j => s[i].seq # NoNum /\ (s[j].seq = NoNum \/ s[i].seq < s[j].seq)
<1>3. InOrder(<<>>)
  BY <1>2
<1>4. Ordered({}) = CHOOSE s \in [1..0 -> {}] : InOrder(s)
  BY <1>1 DEF Ordered
<1> HIDE DEF InOrder
<1>5. Ordered({}) \in [1..0 -> {}]
  BY <1>2, <1>3, <1>4
<1> QED BY <1>5

LEMMA OrderedOne ==
  ASSUME NEW m
  PROVE  Ordered({m}) = <<m>>
<1>1. Cardinality({m}) = 1
  BY FS_Singleton
<1>2. <<m>> \in [1..1 -> {m}] /\ IsInjective(<<m>>) /\ DOMAIN <<m>> = 1..1
  BY DEF IsInjective
<1> DEFINE InOrder(s) ==
      /\ IsInjective(s)
      /\ \A i, j \in DOMAIN s :
           i < j => s[i].seq # NoNum /\ (s[j].seq = NoNum \/ s[i].seq < s[j].seq)
<1>3. InOrder(<<m>>)
  BY <1>2
<1>4. Ordered({m}) = CHOOSE s \in [1..1 -> {m}] : InOrder(s)
  BY <1>1 DEF Ordered
<1> HIDE DEF InOrder
<1>5. Ordered({m}) \in [1..1 -> {m}]
  BY <1>2, <1>3, <1>4
<1> DEFINE s == Ordered({m})
<1>6. s \in [1..1 -> {m}]
  BY <1>5
<1> HIDE DEF s
<1>7. s[1] = m /\ s = <<s[1]>>
  BY <1>6
<1> QED BY <1>7 DEF s

LEMMA PostNone ==
  ASSUME NEW q \in [Ends -> Seq(Packet)], NEW e \in Ends
  PROVE  Post(q, e, {}) = q
<1>1. q[Peer(e)] \in Seq(Packet)
  BY PeerProperty
<1>2. q[Peer(e)] \o <<>> = q[Peer(e)]
  BY <1>1
<1> QED BY <1>2, OrderedNone DEF Post

LEMMA PostOne ==
  ASSUME NEW q \in [Ends -> Seq(Packet)], NEW e \in Ends, NEW m \in Packet
  PROVE  Post(q, e, {m}) = [q EXCEPT ![Peer(e)] = Append(q[Peer(e)], m)]
<1>1. q[Peer(e)] \in Seq(Packet)
  BY PeerProperty
<1>2. q[Peer(e)] \o <<m>> = Append(q[Peer(e)], m)
  BY <1>1
<1> QED BY <1>2, OrderedOne DEF Post

LEMMA PacketKinds ==
  ASSUME NEW m \in Packet
  PROVE  /\ m.seq \in Nat \union {NoNum}
         /\ m.seq = NoNum <=> m.body \in {NoBody, Err}
         /\ m.body = End => m.seq \in Nat
         /\ NoNum \notin Nat
<1>1. NoNum \notin Nat
  BY DEF NoNum
<1>2. End \notin {NoBody, Err} /\ Content \intersect {NoBody, Err} = {}
  BY PayloadIsContent DEF Content, NoBody, Err, End
<1>3. CASE m \in [seq : Nat, ack : Num, miss : SUBSET Nat, body : Content]
  BY <1>1, <1>2, <1>3
<1>4. CASE m \in [seq : {NoNum}, ack : Num, miss : SUBSET Nat, body : {NoBody, Err}]
  BY <1>1, <1>2, <1>4
<1> QED BY <1>3, <1>4 DEF Packet

------------------------------------------------------------------------------
(* The inductive invariant.                                                  *)

\* An end has nothing to wait for: what arrives it can process.
Calm(d) ==
  /\ d \in Channel
  /\ d.in = {} /\ d.missing = {} /\ d.lastProcessed <= d.nextExpected
  /\ d.state \in {"Absent", "Open", "Ended"}
  /\ d.registered <=> d.state = "Open"

\* What is on its way is, in its order, what the receiver d expects and the
\* sender c has sent since.
InTurn(q, d, c) ==
  /\ d.nextExpected <= c.sequence
  /\ \A i \in 1..Len(q) : q[i].seq # NoNum =>
       d.nextExpected <= q[i].seq /\ q[i].seq < c.sequence
  /\ \A i, j \in 1..Len(q) :
       i < j /\ q[i].seq # NoNum /\ q[j].seq # NoNum => q[i].seq < q[j].seq
  /\ d.state # "Ended" => \A n \in d.nextExpected..(c.sequence - 1) :
                            \E i \in 1..Len(q) : q[i].seq = n

\* An end that ended has told the other one so, or was told by it; a refusal
\* follows an end.
EndFirst(q, d, c) ==
  /\ \A i \in 1..Len(q) : q[i].body = End => c.state = "Ended"
  /\ c.state = "Ended" /\ d.state # "Ended" => \E j \in 1..Len(q) : q[j].body = End
  /\ \A i \in 1..Len(q) : q[i].body = Err /\ d.state # "Ended" =>
       \E j \in 1..(i - 1) : q[j].body = End

Flow(q, d, c) ==
  /\ q \in Seq(Packet)
  /\ \A i \in 1..Len(q) : q[i].miss = {}
  /\ InTurn(q, d, c)
  /\ EndFirst(q, d, c)

\* The first packet to the responder opens the channel.
Birth ==
  /\ ch[Opener].state = "Absent" =>
       /\ ch[Opener] = NoChannel /\ ch[Responder] = NoChannel
       /\ queue[Responder] = <<>>
  /\ ch[Opener].state # "Absent" => ch[Opener].sequence > 0
  /\ ch[Responder].state # "Absent" => ch[Responder].nextExpected > 0
  /\ ch[Responder].state = "Absent" =>
       /\ ch[Responder] = NoChannel /\ queue[Opener] = <<>>
       /\ ch[Opener].nextExpected = 0
       /\ \A i \in 1..Len(queue[Responder]) : queue[Responder][i].seq # NoNum
  /\ \A i \in 1..Len(queue[Responder]) :
       queue[Responder][i].body = End => queue[Responder][i].seq > 0

FlowInv ==
  /\ ch \in [Ends -> Channel] /\ queue \in [Ends -> Seq(Packet)]
  /\ \A e \in Ends : Calm(ch[e])
  /\ \A e \in Ends : Flow(queue[e], ch[e], ch[Peer(e)])
  /\ Birth

------------------------------------------------------------------------------
(* How a packet that is sent, and one that is taken, keep a flow.            *)

LEMMA FlowSend ==
  ASSUME NEW q, NEW d \in Channel, NEW c \in Channel, Flow(q, d, c),
         NEW m \in Packet, NEW a \in Channel, m.miss = {},
         IF m.seq = NoNum THEN a.sequence = c.sequence
                          ELSE m.seq = c.sequence /\ a.sequence = c.sequence + 1,
         m.body = Err => c.state = "Ended",
         m.body = End => a.state = "Ended",
         c.state = "Ended" => a.state = "Ended",
         a.state = "Ended" => c.state = "Ended" \/ m.body = End
  PROVE  Flow(Append(q, m), d, a)
<1> DEFINE r == Append(q, m)
           l == Len(q)
<1>1. q \in Seq(Packet) /\ l \in Nat
  BY DEF Flow
<1>2. /\ r \in Seq(Packet) /\ Len(r) = l + 1 /\ r[l + 1] = m
      /\ \A i \in 1..l : r[i] = q[i] /\ q[i] \in Packet
  BY <1>1
<1>3. \A i \in 1..(l + 1) : i = l + 1 \/ i \in 1..l
  BY <1>1
<1>4. 1..l \subseteq 1..(l + 1) /\ l + 1 \in 1..(l + 1)
  BY <1>1
<1>5. /\ d.nextExpected \in Nat /\ c.sequence \in Nat /\ a.sequence \in Nat
      /\ m.seq = NoNum \/ m.seq \in Nat
      /\ \A i \in 1..l : q[i].seq = NoNum \/ q[i].seq \in Nat
  BY <1>2, PacketKinds DEF Channel
<1>6. InTurn(q, d, c) /\ EndFirst(q, d, c) /\ \A i \in 1..l : q[i].miss = {}
  BY DEF Flow
<1> HIDE DEF r, l
<1>7. InTurn(r, d, a)
  <2>1. d.nextExpected <= a.sequence
    BY <1>5, <1>6 DEF InTurn
  <2>2. \A i \in 1..(l + 1) : r[i].seq # NoNum =>
          d.nextExpected <= r[i].seq /\ r[i].seq < a.sequence
    <3>1. \A i \in 1..l : q[i].seq # NoNum =>
            d.nextExpected <= q[i].seq /\ q[i].seq < a.sequence
      BY <1>5, <1>6 DEF InTurn, l
    <3>2. m.seq # NoNum => d.nextExpected <= m.seq /\ m.seq < a.sequence
      BY <1>5, <1>6 DEF InTurn
    <3> QED BY <1>2, <1>3, <3>1, <3>2
  <2>3. \A i, j \in 1..(l + 1) :
          i < j /\ r[i].seq # NoNum /\ r[j].seq # NoNum => r[i].seq < r[j].seq
    <3>1. \A i, j \in 1..l :
            i < j /\ q[i].seq # NoNum /\ q[j].seq # NoNum => q[i].seq < q[j].seq
      BY <1>6 DEF InTurn, l
    <3>2. \A i \in 1..l : q[i].seq # NoNum => q[i].seq < c.sequence
      BY <1>6 DEF InTurn, l
    <3>3. \A i, j \in 1..(l + 1) : i < j => i \in 1..l
      BY <1>1
    <3>4. SUFFICES ASSUME NEW i \in 1..(l + 1), NEW j \in 1..(l + 1), i < j,
                          r[i].seq # NoNum, r[j].seq # NoNum
                   PROVE  r[i].seq < r[j].seq
      OBVIOUS
    <3>5. CASE j = l + 1
      BY <1>2, <1>5, <3>2, <3>3, <3>4, <3>5
    <3>6. CASE j \in 1..l
      BY <1>2, <3>1, <3>3, <3>4, <3>6
    <3> QED BY <1>3, <3>5, <3>6
  <2>4. ASSUME d.state # "Ended", NEW n \in d.nextExpected..(a.sequence - 1)
        PROVE  \E i \in 1..(l + 1) : r[i].seq = n
    <3>1. CASE n \in d.nextExpected..(c.sequence - 1)
      <4>1. PICK i \in 1..l : q[i].seq = n
        BY <1>6, <2>4, <3>1 DEF InTurn, l
      <4> QED BY <1>2, <1>4, <4>1
    <3>2. CASE n = m.seq /\ m.seq # NoNum
      BY <1>2, <1>4, <3>2
    <3> QED BY <1>5, <2>4, <3>1, <3>2
  <2> QED BY <1>2, <2>1, <2>2, <2>3, <2>4 DEF InTurn
<1>8. EndFirst(r, d, a)
  <2>1. \A i \in 1..l : q[i].body = End => c.state = "Ended"
    BY <1>6 DEF EndFirst, l
  <2>2. c.state = "Ended" /\ d.state # "Ended" => \E j \in 1..l : q[j].body = End
    BY <1>6 DEF EndFirst, l
  <2>3. \A i \in 1..l : q[i].body = Err /\ d.state # "Ended" =>
          \E j \in 1..(i - 1) : q[j].body = End
    BY <1>6 DEF EndFirst, l
  <2>4. \A i \in 1..(l + 1) : r[i].body = End => a.state = "Ended"
    BY <1>2, <1>3, <2>1
  <2>5. a.state = "Ended" /\ d.state # "Ended" =>
          \E j \in 1..(l + 1) : r[j].body = End
    BY <1>2, <1>4, <2>2
  <2>6. ASSUME NEW i \in 1..(l + 1), r[i].body = Err, d.state # "Ended"
        PROVE  \E j \in 1..(i - 1) : r[j].body = End
    <3>1. CASE i = l + 1
      <4>1. PICK j \in 1..l : q[j].body = End
        BY <1>2, <2>2, <2>6, <3>1
      <4>2. j \in 1..(i - 1)
        BY <1>1, <3>1
      <4> QED BY <1>2, <4>1, <4>2
    <3>2. CASE i \in 1..l
      <4>1. PICK j \in 1..(i - 1) : q[j].body = End
        BY <1>2, <2>3, <2>6, <3>2
      <4>2. j \in 1..l
        BY <1>1, <3>2
      <4> QED BY <1>2, <4>1, <4>2
    <3> QED BY <1>3, <3>1, <3>2
  <2> QED BY <1>2, <2>4, <2>5, <2>6 DEF EndFirst
<1>9. \A i \in 1..(l + 1) : r[i].miss = {}
  BY <1>2, <1>3, <1>6
<1>10. Flow(r, d, a)
  BY <1>2, <1>7, <1>8, <1>9 DEF Flow
<1> QED BY <1>10 DEF r

\* The sender changes and sends nothing.
LEMMA FlowSender ==
  ASSUME NEW q, NEW d, NEW c, Flow(q, d, c), NEW a,
         a.sequence = c.sequence,
         c.state = "Ended" => a.state = "Ended",
         a.state = "Ended" => c.state = "Ended" \/ d.state = "Ended"
  PROVE  Flow(q, d, a)
<1>1. InTurn(q, d, a)
  BY DEF Flow, InTurn
<1>2. EndFirst(q, d, a)
  BY DEF Flow, EndFirst
<1> QED BY <1>1, <1>2 DEF Flow

\* What arrives at an end that has not ended is what it expects, and no err.
LEMMA HeadIsNext ==
  ASSUME NEW q, NEW d \in Channel, NEW c \in Channel, Flow(q, d, c),
         q # <<>>, d.state # "Ended"
  PROVE  /\ Head(q) \in Packet /\ Head(q).miss = {}
         /\ Head(q).seq \in {NoNum, d.nextExpected}
         /\ Head(q).body # Err
<1>1. /\ q \in Seq(Packet) /\ Len(q) \in Nat /\ Len(q) > 0
      /\ Head(q) = q[1] /\ 1 \in 1..Len(q)
      /\ \A i \in 1..Len(q) : q[i] \in Packet
  BY DEF Flow
<1>2. q[1].miss = {} /\ q[1] \in Packet
  BY <1>1 DEF Flow
<1>3. q[1].body # Err
  BY <1>1 DEF Flow, EndFirst
<1>4. ASSUME q[1].seq # NoNum PROVE q[1].seq = d.nextExpected
  <2>1. /\ d.nextExpected <= q[1].seq /\ q[1].seq < c.sequence
        /\ d.nextExpected \in Nat /\ q[1].seq \in Nat /\ c.sequence \in Nat
    BY <1>1, <1>4, PacketKinds DEF Flow, InTurn, Channel
  <2>2. d.nextExpected \in d.nextExpected..(c.sequence - 1)
    BY <2>1
  <2>3. PICK i \in 1..Len(q) : q[i].seq = d.nextExpected
    BY <2>2 DEF Flow, InTurn
  <2>4. d.nextExpected # NoNum
    BY <2>1 DEF NoNum
  <2>5. ~(1 < i)
    <3>1. SUFFICES ASSUME 1 < i PROVE FALSE
      OBVIOUS
    <3>2. q[1].seq < q[i].seq
      BY <1>1, <1>4, <2>3, <2>4, <3>1 DEF Flow, InTurn
    <3> QED BY <2>1, <2>3, <3>2
  <2>6. i = 1
    BY <1>1, <2>5
  <2> QED BY <2>3, <2>6
<1> QED BY <1>1, <1>2, <1>3, <1>4

\* The receiver takes the first packet, and ends with an end.
LEMMA FlowTake ==
  ASSUME NEW q, NEW d \in Channel, NEW c \in Channel, Flow(q, d, c), q # <<>>,
         NEW b \in Channel,
         d.state = "Ended" => b.state = "Ended" /\ b.nextExpected = d.nextExpected,
         d.state # "Ended" =>
           /\ b.nextExpected = IF Head(q).seq = NoNum THEN d.nextExpected
                               ELSE Head(q).seq + 1
           /\ Head(q).body = End => b.state = "Ended"
  PROVE  Flow(Tail(q), b, c)
<1> DEFINE r == Tail(q)
           l == Len(q) - 1
           m == q[1]
<1>1. /\ q \in Seq(Packet) /\ Len(q) \in Nat /\ Len(q) > 0 /\ l \in Nat
      /\ Head(q) = m /\ 1 \in 1..Len(q)
      /\ \A i \in 1..Len(q) : q[i] \in Packet
  BY DEF Flow
<1>2. /\ r \in Seq(Packet) /\ Len(r) = l
      /\ \A i \in 1..l : r[i] = q[i + 1] /\ i + 1 \in 1..Len(q)
  BY <1>1
<1>3. \A i \in 1..Len(q) : i = 1 \/ (i - 1 \in 1..l /\ (i - 1) + 1 = i)
  BY <1>1
<1>4. /\ InTurn(q, d, c) /\ EndFirst(q, d, c)
      /\ \A i \in 1..Len(q) : q[i].miss = {}
  BY DEF Flow
<1>5. /\ d.nextExpected \in Nat /\ b.nextExpected \in Nat /\ c.sequence \in Nat
      /\ \A i \in 1..Len(q) : q[i].seq = NoNum \/ q[i].seq \in Nat
      /\ NoNum \notin Nat
  BY <1>1, PacketKinds DEF Channel
<1>6. d.state # "Ended" => m.seq \in {NoNum, d.nextExpected}
  BY <1>1, HeadIsNext
<1> HIDE DEF r, l, m
<1>7. b.nextExpected <= c.sequence /\ d.nextExpected <= b.nextExpected
  BY <1>1, <1>4, <1>5, <1>6 DEF InTurn, m
<1>8. InTurn(r, b, c)
  <2>1. ASSUME NEW i \in 1..l, r[i].seq # NoNum
        PROVE  b.nextExpected <= r[i].seq /\ r[i].seq < c.sequence
    <3>1. /\ r[i] = q[i + 1] /\ i + 1 \in 1..Len(q) /\ r[i].seq \in Nat
          /\ 1 < i + 1
      BY <1>1, <1>2, <1>5, <2>1
    <3>2. d.nextExpected <= r[i].seq /\ r[i].seq < c.sequence
      BY <1>4, <2>1, <3>1 DEF InTurn
    <3>3. CASE d.state = "Ended" \/ m.seq = NoNum
      BY <1>1, <3>2, <3>3
    <3>4. CASE d.state # "Ended" /\ m.seq # NoNum
      <4>1. m.seq < r[i].seq
        BY <1>1, <1>4, <2>1, <3>1, <3>4 DEF InTurn, m
      <4>2. b.nextExpected = m.seq + 1 /\ m.seq \in Nat
        BY <1>1, <1>5, <1>6, <3>4
      <4> QED BY <3>1, <3>2, <4>1, <4>2
    <3> QED BY <3>3, <3>4
  <2>2. ASSUME NEW i \in 1..l, NEW j \in 1..l, i < j,
               r[i].seq # NoNum, r[j].seq # NoNum
        PROVE  r[i].seq < r[j].seq
    <3>1. /\ r[i] = q[i + 1] /\ i + 1 \in 1..Len(q)
          /\ r[j] = q[j + 1] /\ j + 1 \in 1..Len(q) /\ i + 1 < j + 1
      BY <1>1, <1>2, <2>2
    <3> QED BY <1>4, <2>2, <3>1 DEF InTurn
  <2>3. ASSUME b.state # "Ended", NEW n \in b.nextExpected..(c.sequence - 1)
        PROVE  \E i \in 1..l : r[i].seq = n
    <3>1. d.state # "Ended"
      BY <2>3
    <3>2. n \in d.nextExpected..(c.sequence - 1) /\ n \in Nat /\ b.nextExpected <= n
      BY <1>5, <1>7
    <3>3. PICK i \in 1..Len(q) : q[i].seq = n
      BY <1>4, <3>1, <3>2 DEF InTurn
    <3>4. i # 1
      BY <1>1, <1>5, <1>6, <3>1, <3>2, <3>3 DEF m
    <3> QED BY <1>2, <1>3, <3>3, <3>4
  <2> QED BY <1>2, <1>7, <2>1, <2>2, <2>3 DEF InTurn
<1>9. EndFirst(r, b, c)
  <2>1. \A i \in 1..l : r[i].body = End => c.state = "Ended"
    BY <1>2, <1>4 DEF EndFirst
  <2>2. ASSUME c.state = "Ended", b.state # "Ended"
        PROVE  \E j \in 1..l : r[j].body = End
    <3>1. PICK j \in 1..Len(q) : q[j].body = End
      BY <1>4, <2>2 DEF EndFirst
    <3>2. j # 1
      BY <1>1, <2>2, <3>1 DEF m
    <3> QED BY <1>2, <1>3, <3>1, <3>2
  <2>3. ASSUME NEW i \in 1..l, r[i].body = Err, b.state # "Ended"
        PROVE  \E j \in 1..(i - 1) : r[j].body = End
    <3>1. r[i] = q[i + 1] /\ i + 1 \in 1..Len(q)
      BY <1>2
    <3>2. PICK j \in 1..((i + 1) - 1) : q[j].body = End
      BY <1>4, <2>3, <3>1 DEF EndFirst
    <3>3. j # 1
      BY <1>1, <2>3, <3>2 DEF m
    <3>4. j - 1 \in 1..(i - 1) /\ j - 1 \in 1..l /\ (j - 1) + 1 = j
      BY <1>1, <3>2, <3>3
    <3> QED BY <1>2, <3>2, <3>4
  <2> QED BY <1>2, <2>1, <2>2, <2>3 DEF EndFirst
<1>10. \A i \in 1..l : r[i].miss = {}
  BY <1>2, <1>4
<1>11. Flow(r, b, c)
  BY <1>2, <1>8, <1>9, <1>10 DEF Flow
<1> QED BY <1>11 DEF r

------------------------------------------------------------------------------
(* What an end does with a packet in its turn.                               *)

\* The run is this packet, and it leaves nothing behind.
LEMMA RunOfOne ==
  ASSUME NEW d \in Channel, NEW m \in Packet, d.in = {},
         m.seq \in Nat, d.lastProcessed <= m.seq,
         NEW k \in RunLimits(Buffered(d, m), m.seq),
         RunEnds(Buffered(d, m), m.seq, k)
  PROVE  LET buf == Buffered(d, m)
         IN /\ k = m.seq + 1 /\ k \in Nat
            /\ buf # {} /\ PopBelow(buf, k) = {}
            /\ m.body = End => RunCloses(buf, m.seq, k)
            /\ m.body # End => ~RunCloses(buf, m.seq, k)
<1> DEFINE x == [seq |-> m.seq, body |-> m.body]
           buf == Buffered(d, m)
<1>1. m.seq # NoNum /\ m.seq >= d.lastProcessed /\ d.lastProcessed \in Nat
  BY DEF NoNum, Channel
<1>2. buf = {x}
  BY <1>1 DEF Buffered, Push, Seqs
<1>3. Seqs(buf) = {m.seq} /\ FrontIs(buf, m.seq)
  BY <1>2 DEF Seqs, FrontIs
<1>4. k \in {m.seq, m.seq + 1}
  BY <1>3 DEF RunLimits
<1>5. k = m.seq + 1
  BY <1>3, <1>4 DEF RunEnds
<1>6. PacketAt(buf, m.seq) = x
  BY <1>2, <1>3, PacketAtProperty
<1>7. k - 1 = m.seq /\ m.seq < k
  BY <1>5
<1>8. PopBelow(buf, k) = {}
  BY <1>2, <1>5 DEF PopBelow
<1>9. /\ m.body = End => RunCloses(buf, m.seq, k)
      /\ m.body # End => ~RunCloses(buf, m.seq, k)
  BY <1>6, <1>7 DEF RunCloses
<1>10. k \in Nat /\ buf # {}
  BY <1>2, <1>5
<1> HIDE DEF buf
<1> QED BY <1>5, <1>8, <1>9, <1>10 DEF buf

\* A packet without a seq leaves the empty buffer empty.
LEMMA RunOfNone ==
  ASSUME NEW d \in Channel, NEW m \in Packet, d.in = {}, m.seq = NoNum,
         NEW k \in RunLimits(Buffered(d, m), d.nextExpected)
  PROVE  /\ k = d.nextExpected /\ Buffered(d, m) = {}
         /\ ~RunCloses(Buffered(d, m), d.nextExpected, k)
<1>1. Buffered(d, m) = {} /\ d.nextExpected \in Nat
  BY DEF Buffered, Channel
<1>2. k = d.nextExpected
  BY <1>1 DEF RunLimits, Seqs
<1> QED BY <1>1, <1>2 DEF RunCloses

LEMMA MissingOfNone == \A k : MissingSeqFrom({}, k) = {}
BY DEF MissingSeqFrom

LEMMA HandleInTurn ==
  ASSUME NEW d, Calm(d), d.state = "Open", NEW m \in Packet, m.miss = {},
         m.seq \in {NoNum, d.nextExpected}, m.body # Err,
         NEW k \in RunLimits(Buffered(d, m), d.nextExpected),
         RunEnds(Buffered(d, m), d.nextExpected, k)
  PROVE  LET a == AfterHandle(d, m, k)
         IN /\ Calm(a)
            /\ a.sequence = d.sequence
            /\ a.nextExpected = IF m.seq = NoNum THEN d.nextExpected ELSE m.seq + 1
            /\ a.state = IF m.body = End THEN "Ended" ELSE "Open"
            /\ HandleSends(d, m, k) = {}
<1> DEFINE a == AfterHandle(d, m, k)
           h == Handled(d, m, k)
           buf == Buffered(d, m)
           n == d.nextExpected
           closes == RunCloses(buf, n, k)
<1>1. /\ d \in Channel /\ d.in = {} /\ d.missing = {} /\ d.registered
      /\ d.lastProcessed <= n /\ n \in Nat /\ d.lastProcessed \in Nat
  BY DEF Calm, Channel
<1>2. /\ k \in Nat
      /\ m.body = End => closes
      /\ m.body # End => ~closes
      /\ k = IF m.seq = NoNum THEN n ELSE m.seq + 1
      /\ n < k => PopBelow(buf, k) = {} /\ buf # {}
      /\ ~(n < k) => buf = {}
  <2>1. CASE m.seq = NoNum
    <3>1. k = n /\ buf = {} /\ ~closes
      BY <1>1, <2>1, RunOfNone
    <3>2. m.body # End
      BY <2>1, PacketKinds
    <3> QED BY <1>1, <2>1, <3>1, <3>2
  <2>2. CASE m.seq # NoNum
    <3>1. m.seq = n
      BY <2>2
    <3>2. /\ k = n + 1 /\ buf # {} /\ PopBelow(buf, k) = {}
          /\ m.body = End => closes
          /\ m.body # End => ~closes
      BY <1>1, <3>1, RunOfOne
    <3> QED BY <1>1, <2>2, <3>1, <3>2
  <2> QED BY <2>1, <2>2
<1>3. Dispatched(d, m).state = "Open"
  BY <1>1 DEF Dispatched, Channel
<1>0. d \in Channel /\ m \in Packet /\ k \in Nat
  BY <1>1, <1>2
<1>4. /\ a \in Channel
      /\ a.in = IF n < k THEN PopBelow(buf, k) ELSE buf
      /\ a.sequence = d.sequence
      /\ a.nextExpected = k
      /\ a.lastProcessed = IF n < k THEN k - 1 ELSE d.lastProcessed
      /\ a.state = IF closes THEN "Ended" ELSE Dispatched(d, m).state
      /\ a.registered <=> /\ d.registered /\ m.body # Err
                          /\ ~closes
      /\ a.missing = IF buf = Empty THEN d.missing ELSE MissingSeqFrom(a.in, k)
  BY ONLY <1>0, AfterHandleFields
<1>5. /\ h.in = IF n < k THEN PopBelow(buf, k) ELSE buf
      /\ h.missing = IF buf = Empty THEN d.missing ELSE MissingSeqFrom(h.in, k)
  BY ONLY <1>0, HandledFields
<1> HIDE DEF a, h, buf, closes
<1>6. a.in = {} /\ a.missing = {} /\ h.missing = {}
  BY <1>1, <1>2, <1>4, <1>5, MissingOfNone DEF Empty
<1>7. Calm(a)
  <2>1. a.lastProcessed <= a.nextExpected
    BY <1>1, <1>2, <1>4
  <2>2. a.state = IF closes THEN "Ended" ELSE "Open"
    BY <1>3, <1>4
  <2>3. a.registered <=> ~closes
    BY <1>1, <1>4
  <2>4. a.registered <=> a.state = "Open"
    BY <2>2, <2>3
  <2> QED BY <1>4, <1>6, <2>1, <2>2, <2>4 DEF Calm
<1>8. HandleSends(d, m, k) = {}
  <2>1. Resent(Dispatched(d, m), m) = {}
    BY DEF Resent, PacketsForMiss
  <2>2. ~Requests(h)
    BY <1>6 DEF Requests
  <2> QED BY <2>1, <2>2 DEF HandleSends, h
<1>9. a.state = IF m.body = End THEN "Ended" ELSE "Open"
  BY <1>2, <1>3, <1>4
<1> QED BY <1>2, <1>4, <1>7, <1>8, <1>9 DEF a

LEMMA AcceptInTurn ==
  ASSUME NEW m \in Packet, m.seq = 0, m.body # End,
         NEW k \in RunLimits(Buffered(Newborn, m), 0),
         RunEnds(Buffered(Newborn, m), 0, k)
  PROVE  LET a == Accepted(m, k)
         IN /\ Calm(a)
            /\ a.sequence = 0 /\ a.nextExpected = 1 /\ a.state = "Open"
<1> DEFINE a == Accepted(m, k)
           buf == Buffered(Newborn, m)
<1>1. Newborn \in Channel /\ Newborn.in = {} /\ Newborn.lastProcessed = 0
  BY NewChannelType DEF Newborn, NewChannel, NoChannel, Empty
<1>2. /\ k = 1 /\ buf # {} /\ PopBelow(buf, k) = {}
      /\ ~RunCloses(buf, 0, k)
  <2>1. m.seq \in Nat /\ Newborn.lastProcessed <= m.seq
    BY <1>1
  <2> HIDE DEF buf
  <2>2. /\ k = m.seq + 1 /\ buf # {} /\ PopBelow(buf, k) = {}
        /\ ~RunCloses(buf, m.seq, k)
    BY <1>1, <2>1, RunOfOne DEF buf
  <2> QED BY <2>2
<1>3. /\ a \in Channel
      /\ a.in = IF 0 < k THEN PopBelow(buf, k) ELSE buf
      /\ a.sequence = 0 /\ a.nextExpected = k
      /\ a.lastProcessed = IF 0 < k THEN k - 1 ELSE 0
      /\ a.state = "Open"
      /\ a.registered <=> ~RunCloses(buf, 0, k)
      /\ a.missing = IF buf = Empty THEN {} ELSE MissingSeqFrom(a.in, k)
  BY <1>2, AcceptedFields
<1> HIDE DEF a, buf
<1>4. a.in = {} /\ a.missing = {}
  BY <1>2, <1>3, MissingOfNone DEF Empty
<1>5. a.lastProcessed <= a.nextExpected /\ a.nextExpected = 1 /\ a.registered
  BY <1>2, <1>3
<1> QED BY <1>3, <1>4, <1>5 DEF Calm, a

\* The receiver changes without taking a packet.
LEMMA FlowReceiver ==
  ASSUME NEW q, NEW d, NEW c, Flow(q, d, c), NEW b,
         b.nextExpected = d.nextExpected,
         d.state = "Ended" => b.state = "Ended"
  PROVE  Flow(q, b, c)
<1>1. InTurn(q, b, c)
  BY DEF Flow, InTurn
<1>2. EndFirst(q, b, c)
  BY DEF Flow, EndFirst
<1> QED BY <1>1, <1>2 DEF Flow

------------------------------------------------------------------------------
(* The steps.                                                                *)

\* A step of the end e, whatever it does to its queue and the other one.
LEMMA FlowStep ==
  ASSUME FlowInv, NEW e \in Ends, NEW a, ch' = [ch EXCEPT ![e] = a],
         queue' \in [Ends -> Seq(Packet)],
         Calm(a),
         Flow(queue'[e], a, ch[Peer(e)]),
         Flow(queue'[Peer(e)], ch[Peer(e)], a),
         Birth'
  PROVE  FlowInv'
<1> DEFINE p == Peer(e)
<1>1. p \in Ends /\ p # e /\ Peer(p) = e /\ \A x \in Ends : x \in {e, p}
  BY PeerProperty
<1>2. ch'[e] = a /\ ch'[p] = ch[p]
  BY <1>1 DEF FlowInv
<1>3. a \in Channel /\ Calm(ch[p])
  BY <1>1 DEF Calm, FlowInv
<1>4. ch' \in [Ends -> Channel]
  BY <1>3 DEF FlowInv
<1>5. ASSUME NEW x \in Ends
      PROVE  Calm(ch'[x]) /\ Flow(queue'[x], ch'[x], ch'[Peer(x)])
  <2>1. CASE x = e
    BY <1>2, <2>1
  <2>2. CASE x = p
    BY <1>1, <1>2, <1>3, <2>2
  <2> QED BY <1>1, <2>1, <2>2
<1>6. \A x \in Ends : Peer(x)' = Peer(x)
  BY DEF Peer
<1> QED BY <1>4, <1>5, <1>6 DEF FlowInv

\* An open end sends a packet: one with its next number, or, when it has
\* processed something, a bare one.
LEMMA SendKeeps ==
  ASSUME FlowInv, NEW e \in Ends, ch[e].state = "Open",
         NEW m \in Packet, m.miss = {}, m.body # Err,
         NEW a, Calm(a), a.nextExpected = ch[e].nextExpected,
         IF m.seq = NoNum
           THEN a.sequence = ch[e].sequence /\ ch[e].nextExpected > 0
           ELSE m.seq = ch[e].sequence /\ a.sequence = ch[e].sequence + 1,
         a.state = IF m.body = End THEN "Ended" ELSE "Open",
         ch' = [ch EXCEPT ![e] = a],
         queue' = [queue EXCEPT ![Peer(e)] = Append(queue[Peer(e)], m)]
  PROVE  FlowInv'
<1> DEFINE p == Peer(e)
           q == queue[p]
           c == ch[e]
<1>1. p \in Ends /\ p # e /\ Peer(p) = e /\ Ends = {Opener, Responder}
      /\ Opener # Responder
  BY PeerProperty, TwoEnds DEF Ends
<1>2. /\ c \in Channel /\ ch[p] \in Channel /\ a \in Channel
      /\ queue \in [Ends -> Seq(Packet)] /\ q \in Seq(Packet)
      /\ Flow(queue[e], c, ch[p]) /\ Flow(q, ch[p], c)
  BY <1>1 DEF FlowInv, Calm
<1>3. /\ queue'[e] = queue[e] /\ queue'[p] = Append(q, m)
      /\ ch'[e] = a /\ ch'[p] = ch[p]
  BY <1>1, <1>2 DEF FlowInv
<1>4. Append(q, m) \in Seq(Packet)
  BY <1>2
<1>5. queue' \in [Ends -> Seq(Packet)]
  <2> HIDE DEF q
  <2> QED BY <1>1, <1>2, <1>4 DEF q
<1>6. Flow(queue'[e], a, ch[p])
  BY <1>2, <1>3, FlowReceiver
<1>7. Flow(queue'[p], ch[p], a)
  <2>0. /\ m.body = Err => c.state = "Ended"
        /\ m.body = End => a.state = "Ended"
        /\ c.state = "Ended" => a.state = "Ended"
        /\ a.state = "Ended" => c.state = "Ended" \/ m.body = End
        /\ IF m.seq = NoNum THEN a.sequence = c.sequence
                            ELSE m.seq = c.sequence /\ a.sequence = c.sequence + 1
    OBVIOUS
  <2> HIDE DEF c, q
  <2>1. Flow(Append(q, m), ch[p], a)
    BY <1>2, <2>0, FlowSend
  <2> QED BY <1>3, <2>1
<1>8. Birth'
  <2>0. Birth /\ a.state # "Absent"
    BY DEF FlowInv
  <2>1. CASE e = Opener
    <3>1. p = Responder
      BY <2>1 DEF Peer
    <3>2. /\ ch'[Opener].state # "Absent"
          /\ ch'[Opener].sequence > 0
          /\ ch'[Responder] = ch[Responder]
          /\ ch[Opener].sequence > 0
      BY <1>2, <1>3, <2>0, <2>1, <3>1, SMTT(40) DEF Birth, Channel
    <3>3. ASSUME ch'[Responder].state = "Absent"
          PROVE  /\ ch'[Responder] = NoChannel /\ queue'[Opener] = <<>>
                 /\ ch'[Opener].nextExpected = 0
                 /\ \A i \in 1..Len(queue'[Responder]) :
                      queue'[Responder][i].seq # NoNum
      <4>1. /\ ch[Responder] = NoChannel /\ queue[Opener] = <<>>
            /\ ch[Opener].nextExpected = 0
            /\ \A i \in 1..Len(q) : q[i].seq # NoNum
        BY <2>0, <3>1, <3>2, <3>3 DEF Birth
      <4>2. m.seq # NoNum
        BY <2>1, <4>1
      <4>3. \A i \in 1..Len(Append(q, m)) : Append(q, m)[i].seq # NoNum
        <5> HIDE DEF q
        <5> QED BY <1>2, <4>1, <4>2
      <4> QED BY <1>3, <2>1, <3>1, <3>2, <4>1, <4>3
    <3>4. \A i \in 1..Len(queue'[Responder]) :
            queue'[Responder][i].body = End => queue'[Responder][i].seq > 0
      <4>1. \A i \in 1..Len(q) : q[i].body = End => q[i].seq > 0
        BY <2>0, <3>1 DEF Birth
      <4>2. m.body = End => m.seq > 0
        BY <2>1, <3>2, PacketKinds
      <4>3. \A i \in 1..Len(Append(q, m)) :
              Append(q, m)[i].body = End => Append(q, m)[i].seq > 0
        <5> HIDE DEF q
        <5> QED BY <1>2, <4>1, <4>2
      <4> QED BY <1>3, <3>1, <4>3
    <3>5. ch'[Responder].state # "Absent" => ch'[Responder].nextExpected > 0
      BY <2>0, <3>2 DEF Birth
    <3> QED BY <3>2, <3>3, <3>4, <3>5 DEF Birth
  <2>2. CASE e = Responder
    <3>1. p = Opener
      BY <1>1, <2>2 DEF Peer
    <3>2. /\ ch'[Responder].state # "Absent"
          /\ ch'[Responder].nextExpected > 0
          /\ ch'[Opener] = ch[Opener] /\ queue'[Responder] = queue[Responder]
      BY <1>3, <2>0, <2>2, <3>1 DEF Birth
    <3>3. ch[Opener].state # "Absent"
      BY <2>0, <2>2 DEF Birth, NoChannel
    <3> QED BY <2>0, <3>2, <3>3 DEF Birth
  <2> QED BY <1>1, <2>1, <2>2
<1> HIDE DEF c, q
<1> QED BY <1>5, <1>6, <1>7, <1>8, FlowStep

LEMMA OpenKeeps ==
  ASSUME FlowInv, OpenChannel
  PROVE  FlowInv'
<1> DEFINE c == NewChannel("Open")
<1>1. /\ c \in Channel /\ c.state = "Open" /\ c.sequence = 0 /\ c.missing = {}
      /\ c.in = {} /\ c.registered = TRUE /\ c.nextExpected = 0
      /\ c.lastProcessed = 0
  BY NewChannelType DEF NewChannel, NoChannel, States, Empty
<1> HIDE DEF c
<1>2. PICK b \in Payload : SendContent(Opener, c, b)
  BY DEF OpenChannel, c
<1> DEFINE m == Stamped(c, b)
           a == AfterSend(c, b)
<1>3. b \in Content /\ b # NoBody /\ b # Err /\ b # End
  BY PayloadIsContent DEF Content
<1>4. m \in Packet /\ m.seq = 0 /\ m.miss = {} /\ m.body = b
  BY <1>1, <1>3, StampedType DEF Stamped
<1>5. /\ a \in Channel /\ a.state = "Open" /\ a.registered = TRUE
      /\ a.in = {} /\ a.missing = {} /\ a.nextExpected = 0
      /\ a.lastProcessed = 0 /\ a.sequence = 1
  BY <1>1, <1>3, AfterSendType, AfterSendFields
<1> HIDE DEF m, a
<1>6. Calm(a)
  BY <1>5 DEF Calm
<1>7. /\ Opener \in Ends /\ Responder \in Ends /\ Peer(Opener) = Responder
      /\ Opener # Responder /\ Ends = {Opener, Responder}
  BY TwoEnds DEF Ends, Peer
<1>8. /\ ch[Opener] = NoChannel /\ ch[Responder] = NoChannel
      /\ queue[Responder] = <<>> /\ queue[Opener] = <<>>
  BY DEF OpenChannel, FlowInv, Birth, NoChannel
<1>9. NoChannel \in Channel /\ NoChannel.state = "Absent"
      /\ NoChannel.nextExpected = 0 /\ NoChannel.sequence = 0
  BY NewChannelType DEF NoChannel
<1>10. /\ ch' = [ch EXCEPT ![Opener] = a]
       /\ queue' = [queue EXCEPT ![Responder] = <<m>>]
  <2>1. /\ ch' = [ch EXCEPT ![Opener] = a]
        /\ queue' = Post(queue, Opener, Transmitted(c, m))
    BY <1>2 DEF SendContent, a, m
  <2>2. Transmitted(c, m) = {m}
    BY <1>1 DEF Transmitted
  <2>3. Post(queue, Opener, {m}) =
          [queue EXCEPT ![Peer(Opener)] = Append(queue[Peer(Opener)], m)]
    <3>1. queue \in [Ends -> Seq(Packet)] /\ Opener \in Ends /\ m \in Packet
      BY <1>4, <1>7 DEF FlowInv
    <3> QED BY ONLY <3>1, PostOne, ZenonT(40)
  <2>4. Append(<<>>, m) = <<m>>
    OBVIOUS
  <2> QED BY <1>7, <1>8, <2>1, <2>2, <2>3, <2>4
<1>11. /\ ch'[Opener] = a /\ ch'[Responder] = NoChannel
       /\ queue'[Opener] = <<>> /\ queue'[Responder] = <<m>>
       /\ queue' \in [Ends -> Seq(Packet)]
  <2>1. <<m>> \in Seq(Packet)
    BY <1>4
  <2> QED BY <1>7, <1>8, <1>10, <2>1 DEF FlowInv
<1>12. Flow(<<>>, NoChannel, NoChannel)
  BY <1>7, <1>8 DEF FlowInv
<1>13. Flow(<<>>, a, NoChannel)
  BY <1>5, <1>9, <1>12, FlowReceiver
<1>14. Flow(<<m>>, NoChannel, a)
  <2>1. Flow(Append(<<>>, m), NoChannel, a)
    <3>1. /\ m.seq # NoNum /\ m.seq = NoChannel.sequence
          /\ a.sequence = NoChannel.sequence + 1
          /\ m.body # Err /\ m.body # End
          /\ NoChannel.state # "Ended" /\ a.state # "Ended"
      BY <1>3, <1>4, <1>5, <1>9 DEF NoNum
    <3> QED BY <1>4, <1>5, <1>9, <1>12, <3>1, FlowSend
  <2>2. Append(<<>>, m) = <<m>>
    OBVIOUS
  <2> QED BY <2>1, <2>2
<1>15. Birth'
  <2>1. \A i \in 1..Len(<<m>>) : <<m>>[i] = m
    OBVIOUS
  <2> QED BY <1>3, <1>4, <1>5, <1>9, <1>11, <2>1 DEF Birth, NoNum
<1> QED BY <1>6, <1>7, <1>8, <1>10, <1>11, <1>13, <1>14, <1>15, FlowStep

LEMMA AppSendKeeps ==
  ASSUME FlowInv, NEW e \in Ends, AppSend(e)
  PROVE  FlowInv'
<1> DEFINE c == ch[e]
<1>1. c \in Channel /\ Calm(c) /\ c.state = "Open"
  BY DEF FlowInv, AppSend
<1> HIDE DEF c
<1>2. PICK b \in Payload : SendContent(e, c, b)
  BY DEF AppSend, c
<1> DEFINE m == Stamped(c, b)
           a == AfterSend(c, b)
<1>3. b \in Content /\ b # NoBody /\ b # Err /\ b # End
  BY PayloadIsContent DEF Content
<1>4. /\ m \in Packet /\ m.seq = c.sequence /\ m.miss = {} /\ m.body = b
      /\ m.seq # NoNum
  BY <1>1, <1>3, StampedType DEF Stamped, Calm, Channel, NoNum
<1>5. /\ Calm(a) /\ a.state = "Open" /\ a.nextExpected = c.nextExpected
      /\ a.sequence = c.sequence + 1
  BY <1>1, <1>3, AfterSendType, AfterSendFields DEF Calm
<1>6. /\ ch' = [ch EXCEPT ![e] = a]
      /\ queue' = [queue EXCEPT ![Peer(e)] = Append(queue[Peer(e)], m)]
  <2>1. Transmitted(c, m) = {m}
    BY <1>1 DEF Transmitted
  <2>2. Post(queue, e, {m}) =
          [queue EXCEPT ![Peer(e)] = Append(queue[Peer(e)], m)]
    <3> HIDE DEF m
    <3> QED BY <1>4, PostOne, ZenonT(40) DEF FlowInv
  <2> QED BY <1>2, <2>1, <2>2 DEF SendContent
<1> HIDE DEF m, a
<1> QED BY <1>1, <1>3, <1>4, <1>5, <1>6, SendKeeps DEF c

LEMMA CloseKeeps ==
  ASSUME FlowInv, NEW e \in Ends, Close(e)
  PROVE  FlowInv'
<1> DEFINE c == ch[e]
           m == Stamped(c, End)
           a == AfterClose(c)
<1>1. c \in Channel /\ Calm(c) /\ c.state = "Open"
  BY DEF FlowInv, Close
<1>2. End \in Content /\ End # NoBody /\ End # Err
  BY DEF Content, End, NoBody, Err
<1> HIDE DEF c
<1>3. /\ m \in Packet /\ m.seq = c.sequence /\ m.miss = {} /\ m.body = End
      /\ m.seq # NoNum
  BY <1>1, <1>2, StampedType, SMTT(40) DEF Stamped, Calm, Channel, NoNum
<1>4. /\ Calm(a) /\ a.state = "Ended" /\ a.nextExpected = c.nextExpected
      /\ a.sequence = c.sequence + 1
  <2>1. AfterSend(c, End).sequence = c.sequence + 1
    BY <1>1, <1>2, AfterSendFields
  <2> QED BY <1>1, <2>1, AfterCloseType, AfterCloseFields DEF Calm
<1>5. /\ ch' = [ch EXCEPT ![e] = a]
      /\ queue' = [queue EXCEPT ![Peer(e)] = Append(queue[Peer(e)], m)]
  <2>1. Transmitted(c, m) = {m}
    BY <1>1 DEF Transmitted
  <2>2. Post(queue, e, {m}) =
          [queue EXCEPT ![Peer(e)] = Append(queue[Peer(e)], m)]
    <3> HIDE DEF m
    <3> QED BY <1>3, PostOne, ZenonT(40) DEF FlowInv
  <2> QED BY <2>1, <2>2 DEF Close, c
<1> HIDE DEF m, a
<1> QED BY <1>1, <1>2, <1>3, <1>4, <1>5, SendKeeps DEF c

\* The timer sends only at an end that has processed something, so never at an
\* opener the responder has yet to hear of.
LEMMA PingKeeps ==
  ASSUME FlowInv, NEW e \in Ends, AckPing(e)
  PROVE  FlowInv'
<1> DEFINE c == ch[e]
           p == Peer(e)
           a == AfterPing(c)
<1>1. /\ c \in Channel /\ Calm(c)
      /\ ch' = [ch EXCEPT ![e] = a]
      /\ queue' = Post(queue, e, IF PingSends(c)
                                  THEN Transmitted(c, Stamped(c, NoBody)) ELSE {})
  BY DEF FlowInv, AckPing
<1>2. /\ a \in Channel /\ a.state = c.state /\ a.in = c.in
      /\ a.nextExpected = c.nextExpected /\ a.sequence = c.sequence
      /\ a.lastProcessed = c.lastProcessed
      /\ a.registered = c.registered /\ a.missing = c.missing
  BY <1>1, AfterPingType, AfterPingFields
<1>3. c.state # "Absent"
  BY DEF AckPing, FlowInv, Birth, NoChannel, Ends
<1> HIDE DEF a
<1>4. Calm(a)
  BY <1>1, <1>2 DEF Calm
<1>5. CASE PingSends(c)
  <2> DEFINE m == Stamped(c, NoBody)
  <2>1. c.state = "Open" /\ c.nextExpected > 0
    BY <1>1, <1>3, <1>5 DEF PingSends, MaySend, Calm, Channel
  <2>2. /\ m \in Packet /\ m.seq = NoNum /\ m.miss = {} /\ m.body = NoBody
        /\ NoBody # Err /\ NoBody # End
    BY <1>1, StampedType DEF Stamped, Calm, NoBody, Err, End
  <2>3. queue' = [queue EXCEPT ![p] = Append(queue[p], m)]
    <3>1. Transmitted(c, m) = {m}
      BY <2>1 DEF Transmitted
    <3>2. Post(queue, e, {m}) = [queue EXCEPT ![p] = Append(queue[p], m)]
      <4> HIDE DEF m
      <4> QED BY <2>2, PostOne DEF FlowInv
    <3> QED BY <1>1, <1>5, <3>1, <3>2
  <2> HIDE DEF m
  <2> QED BY <1>1, <1>2, <1>4, <2>1, <2>2, <2>3, SendKeeps
<1>6. CASE ~PingSends(c)
  <2>1. queue' = queue
    BY <1>1, <1>6, PostNone DEF FlowInv
  <2>2. p \in Ends /\ p # e /\ Peer(p) = e /\ Ends = {e, p}
    BY PeerProperty
  <2>3. Flow(queue[e], c, ch[p]) /\ Flow(queue[p], ch[p], c)
    BY <2>2 DEF FlowInv
  <2>4. Flow(queue[e], a, ch[p])
    BY <1>2, <2>3, FlowReceiver
  <2>5. Flow(queue[p], ch[p], a)
    BY <1>2, <2>3, FlowSender
  <2>6. Birth'
    <3>1. ch'[e] = a /\ \A x \in Ends \ {e} : ch'[x] = ch[x]
      BY <1>1 DEF FlowInv
    <3>2. Opener \in Ends /\ Responder \in Ends
      BY DEF Ends
    <3>3. \A x \in Ends : /\ ch'[x].state = ch[x].state
                          /\ ch'[x].nextExpected = ch[x].nextExpected
                          /\ ch'[x].sequence = ch[x].sequence
                          /\ ch[x].state = "Absent" => ch'[x] = ch[x]
      BY <1>2, <1>3, <3>1
    <3> QED BY <2>1, <3>2, <3>3, ZenonT(40) DEF FlowInv, Birth, NoChannel
  <2> QED BY <1>1, <1>4, <2>1, <2>4, <2>5, <2>6, FlowStep DEF FlowInv
<1> QED BY <1>5, <1>6

\* The oldest packet on its way to e leaves the queue.
LEMMA TakeKeeps ==
  ASSUME FlowInv, NEW e \in Ends, queue[e] # <<>>
  PROVE  LET q == [queue EXCEPT ![e] = Tail(queue[e])]
         IN /\ q \in [Ends -> Seq(Packet)]
            /\ q[e] = Tail(queue[e]) /\ q[Peer(e)] = queue[Peer(e)]
            /\ Head(queue[e]) \in Packet
            /\ Head(queue[e]).body = End => ch[Peer(e)].state = "Ended"
            /\ Responder = e /\ Head(queue[e]).body = End =>
                 Head(queue[e]).seq > 0
            /\ \A i \in 1..Len(q[Responder]) :
                 q[Responder][i].body = End => q[Responder][i].seq > 0
<1> DEFINE q == [queue EXCEPT ![e] = Tail(queue[e])]
           s == queue[e]
<1>1. Peer(e) \in Ends /\ Peer(e) # e /\ Responder \in Ends
  BY PeerProperty DEF Ends
<1>2. s \in Seq(Packet) /\ s # <<>> /\ queue \in [Ends -> Seq(Packet)]
  BY DEF FlowInv
<1>3. /\ Tail(s) \in Seq(Packet) /\ Head(s) \in Packet
      /\ Head(s) = s[1] /\ 1 \in 1..Len(s)
      /\ \A i \in 1..Len(Tail(s)) : Tail(s)[i] = s[i + 1] /\ i + 1 \in 1..Len(s)
  <2> HIDE DEF s
  <2> QED BY <1>2
<1>4. q \in [Ends -> Seq(Packet)] /\ q[e] = Tail(s) /\ q[Peer(e)] = queue[Peer(e)]
  BY <1>1, <1>2, <1>3
<1>5. s[1].body = End => ch[Peer(e)].state = "Ended"
  BY <1>3 DEF FlowInv, Flow, EndFirst
<1>6. \A i \in 1..Len(queue[Responder]) :
        queue[Responder][i].body = End => queue[Responder][i].seq > 0
  BY DEF FlowInv, Birth
<1>7. \A i \in 1..Len(q[Responder]) :
        q[Responder][i].body = End => q[Responder][i].seq > 0
  <2>1. CASE e = Responder
    BY <1>3, <1>4, <1>6, <2>1
  <2>2. CASE e # Responder
    BY <1>1, <1>2, <1>6, <2>2
  <2> QED BY <2>1, <2>2
<1> HIDE DEF q
<1> QED BY <1>3, <1>4, <1>5, <1>6, <1>7 DEF q

LEMMA HandleKeeps ==
  ASSUME FlowInv, NEW e \in Ends, queue[e] # <<>>,
         Handle(e, Head(queue[e]), [queue EXCEPT ![e] = Tail(queue[e])])
  PROVE  FlowInv'
<1> DEFINE d == ch[e]
           p == Peer(e)
           m == Head(queue[e])
           q == [queue EXCEPT ![e] = Tail(queue[e])]
<1>1. p \in Ends /\ p # e /\ Peer(p) = e /\ e \in {Opener, Responder}
      /\ Opener # Responder /\ Peer(Opener) = Responder
  BY PeerProperty, TwoEnds DEF Ends, Peer
<1>2. /\ d \in Channel /\ ch[p] \in Channel /\ Calm(d) /\ d.state = "Open"
      /\ Flow(queue[e], d, ch[p]) /\ Flow(queue[p], ch[p], d)
  BY <1>1 DEF FlowInv, Calm, Handle
<1>3. /\ q \in [Ends -> Seq(Packet)]
      /\ q[e] = Tail(queue[e]) /\ q[p] = queue[p]
      /\ m \in Packet
      /\ m.body = End => ch[p].state = "Ended"
      /\ \A i \in 1..Len(q[Responder]) :
           q[Responder][i].body = End => q[Responder][i].seq > 0
  BY TakeKeeps
<1>4. m.miss = {} /\ m.seq \in {NoNum, d.nextExpected} /\ m.body # Err
  BY <1>2, HeadIsNext
<1>5. PICK k \in RunLimits(Buffered(d, m), d.nextExpected) :
        /\ RunEnds(Buffered(d, m), d.nextExpected, k)
        /\ ch' = [ch EXCEPT ![e] = AfterHandle(d, m, k)]
        /\ queue' = Post(q, e, HandleSends(d, m, k))
  BY DEF Handle
<1> DEFINE a == AfterHandle(d, m, k)
<1> HIDE DEF d, m, q
<1>6. /\ Calm(a) /\ a.sequence = d.sequence
      /\ a.nextExpected = IF m.seq = NoNum THEN d.nextExpected ELSE m.seq + 1
      /\ a.state = IF m.body = End THEN "Ended" ELSE "Open"
      /\ HandleSends(d, m, k) = {}
  BY <1>2, <1>3, <1>4, <1>5, HandleInTurn
<1> HIDE DEF a
<1>7. ch' = [ch EXCEPT ![e] = a] /\ queue' = q
  BY <1>3, <1>5, <1>6, PostNone DEF a
<1>8. a \in Channel
  BY <1>6 DEF Calm
<1>9. Flow(queue'[e], a, ch[p])
  <2>1. Flow(Tail(queue[e]), a, ch[p])
    BY <1>2, <1>6, <1>8, FlowTake DEF m
  <2> QED BY <1>3, <1>7, <2>1
<1>10. Flow(queue'[p], ch[p], a)
  <2>1. Flow(queue[p], ch[p], a)
    BY <1>2, <1>3, <1>6, FlowSender
  <2> QED BY <1>3, <1>7, <2>1
<1>11. Birth'
  <2>1. ch'[e] = a /\ ch'[p] = ch[p] /\ a.state # "Absent"
    BY <1>1, <1>6, <1>7 DEF FlowInv
  <2>2. d.nextExpected \in Nat /\ d.sequence \in Nat
        /\ a.nextExpected \in Nat /\ (d.nextExpected > 0 => a.nextExpected > 0)
    BY <1>2, <1>4, <1>6, <1>8 DEF Channel
  <2>3. ch[Responder].state # "Absent"
    BY <1>1, <1>2 DEF FlowInv, Birth, d
  <2>4. CASE e = Opener
    <3>1. p = Responder
      BY <1>1, <2>4
    <3> QED BY <1>2, <1>3, <1>6, <1>7, <2>1, <2>3, <2>4, <3>1 DEF FlowInv, Birth, d
  <2>5. CASE e = Responder
    <3>1. p = Opener
      BY <1>1, <2>5 DEF Peer
    <3>2. ch[Opener].state # "Absent"
      BY <2>3 DEF FlowInv, Birth, NoChannel
    <3> QED BY <1>2, <1>3, <1>6, <1>7, <2>1, <2>2, <2>3, <2>5, <3>1, <3>2
            DEF FlowInv, Birth, d
  <2> QED BY <1>1, <2>4, <2>5
<1>12. queue' \in [Ends -> Seq(Packet)]
  BY <1>3, <1>7
<1> QED BY <1>6, <1>7, <1>9, <1>10, <1>11, <1>12, FlowStep

LEMMA AcceptKeeps ==
  ASSUME FlowInv, NEW e \in Ends, queue[e] # <<>>,
         Accept(e, Head(queue[e]), [queue EXCEPT ![e] = Tail(queue[e])])
  PROVE  FlowInv'
<1> DEFINE d == ch[e]
           m == Head(queue[e])
           q == [queue EXCEPT ![e] = Tail(queue[e])]
<1>1. /\ e = Responder /\ Peer(e) = Opener /\ Opener \in Ends /\ Opener # Responder
      /\ Peer(Opener) = Responder
  BY TwoEnds DEF Accept, Peer, Ends
<1>2. /\ d \in Channel /\ ch[Opener] \in Channel /\ Calm(d)
      /\ Flow(queue[e], d, ch[Opener]) /\ Flow(queue[Opener], ch[Opener], d)
  BY <1>1 DEF FlowInv, Calm
<1>3. /\ q \in [Ends -> Seq(Packet)]
      /\ q[e] = Tail(queue[e]) /\ q[Opener] = queue[Opener]
      /\ m \in Packet
      /\ m.body = End => m.seq > 0
      /\ \A i \in 1..Len(q[Responder]) :
           q[Responder][i].body = End => q[Responder][i].seq > 0
  BY <1>1, TakeKeeps
<1>4. m.seq = 0 /\ m.body # End /\ m.seq # NoNum
  BY <1>3 DEF Accept, NoNum
<1>5. d = NoChannel
  <2>1. m.seq < d.nextExpected \/ ~(d.nextExpected > 0)
    BY <1>2, <1>4 DEF Channel
  <2>2. d.nextExpected <= m.seq
    <3>1. queue[e] \in Seq(Packet) /\ m = queue[e][1] /\ 1 \in 1..Len(queue[e])
      BY DEF FlowInv
    <3> QED BY <1>2, <1>4, <3>1 DEF Flow, InTurn
  <2>3. d.nextExpected \in Nat
    BY <1>2 DEF Channel
  <2>4. ~(d.nextExpected > 0)
    BY <1>4, <2>1, <2>2, <2>3
  <2>5. d.state = "Absent"
    BY <1>1, <2>4 DEF FlowInv, Birth
  <2> QED BY <1>1, <2>5 DEF FlowInv, Birth
<1>6. PICK k \in RunLimits(Buffered(Newborn, m), 0) :
        /\ RunEnds(Buffered(Newborn, m), 0, k)
        /\ ch' = [ch EXCEPT ![e] = Accepted(m, k)]
  BY DEF Accept
<1> DEFINE a == Accepted(m, k)
<1> HIDE DEF d, m, q
<1>7. Calm(a) /\ a.sequence = 0 /\ a.nextExpected = 1 /\ a.state = "Open"
  BY <1>3, <1>4, <1>6, AcceptInTurn
<1>8. ch' = [ch EXCEPT ![e] = a] /\ queue' = q
  BY <1>6 DEF Accept, a, m, q
<1> HIDE DEF a
<1>9. a \in Channel /\ d.sequence = 0 /\ d.state = "Absent"
  BY <1>5, <1>7 DEF Calm, NoChannel
<1>10. Flow(queue'[e], a, ch[Opener])
  <2>1. Head(queue[e]).seq # NoNum /\ Head(queue[e]).body # End
        /\ a.nextExpected = Head(queue[e]).seq + 1 /\ d.state # "Ended"
    BY <1>4, <1>7, <1>9 DEF m
  <2>2. Flow(Tail(queue[e]), a, ch[Opener])
    BY <1>2, <1>9, <2>1, FlowTake
  <2> QED BY <1>3, <1>8, <2>2
<1>11. Flow(queue'[Opener], ch[Opener], a)
  <2>1. Flow(queue[Opener], ch[Opener], a)
    BY <1>2, <1>7, <1>9, FlowSender
  <2> QED BY <1>3, <1>8, <2>1
<1>12. Birth'
  <2>1. ch'[Responder] = a /\ ch'[Opener] = ch[Opener]
    BY <1>1, <1>8 DEF FlowInv
  <2>2. ch[Opener].state # "Absent"
    BY <1>1 DEF FlowInv, Birth
  <2> QED BY <1>3, <1>7, <1>8, <2>1, <2>2 DEF FlowInv, Birth
<1>13. queue' \in [Ends -> Seq(Packet)]
  BY <1>3, <1>8
<1> QED BY <1>1, <1>7, <1>8, <1>10, <1>11, <1>12, <1>13, FlowStep

\* A packet an end refuses has come too late: the end is over, and so is, once
\* it has read its queue up to the refusal, the other one.
LEMMA RefuseKeeps ==
  ASSUME FlowInv, NEW e \in Ends, queue[e] # <<>>,
         Refuse(e, Head(queue[e]), [queue EXCEPT ![e] = Tail(queue[e])])
  PROVE  FlowInv'
<1> DEFINE d == ch[e]
           p == Peer(e)
           m == Head(queue[e])
           q == [queue EXCEPT ![e] = Tail(queue[e])]
<1>1. p \in Ends /\ p # e /\ Peer(p) = e /\ e \in {Opener, Responder}
      /\ Opener # Responder /\ Peer(Opener) = Responder
  BY PeerProperty, TwoEnds DEF Ends, Peer
<1>2. /\ d \in Channel /\ ch[p] \in Channel /\ Calm(d) /\ ~d.registered
      /\ Flow(queue[e], d, ch[p]) /\ Flow(queue[p], ch[p], d)
      /\ queue[p] \in Seq(Packet)
  BY <1>1 DEF FlowInv, Calm, Refuse
<1>3. /\ q \in [Ends -> Seq(Packet)]
      /\ q[e] = Tail(queue[e]) /\ q[p] = queue[p]
      /\ m \in Packet
      /\ \A i \in 1..Len(q[Responder]) :
           q[Responder][i].body = End => q[Responder][i].seq > 0
  BY TakeKeeps
<1>4. ch[Responder].state # "Absent"
  <2>1. SUFFICES ASSUME ch[Responder].state = "Absent" PROVE FALSE
    OBVIOUS
  <2>2. ch[Responder] = NoChannel /\ queue[Opener] = <<>>
        /\ \A i \in 1..Len(queue[Responder]) : queue[Responder][i].seq # NoNum
    BY <2>1 DEF FlowInv, Birth
  <2>3. e = Responder
    BY <1>1, <2>2
  <2>4. m.seq \in {NoNum, d.nextExpected}
    BY <1>2, <2>1, <2>3, HeadIsNext
  <2>5. m.seq # NoNum
    <3>1. queue[e] \in Seq(Packet)
      BY DEF FlowInv
    <3>2. m = queue[e][1] /\ 1 \in 1..Len(queue[e])
      BY <3>1
    <3> QED BY <2>2, <2>3, <3>2
  <2>6. d.nextExpected = 0
    BY <2>2, <2>3 DEF NoChannel
  <2> QED BY <2>3, <2>4, <2>5, <2>6 DEF Refuse
<1>5. ch[Opener].state # "Absent"
  BY <1>4 DEF FlowInv, Birth, NoChannel
<1>6. d.state = "Ended"
  BY <1>1, <1>2, <1>4, <1>5 DEF Calm
<1>7. ch' = ch /\ queue' = IF Spurious(m) THEN q ELSE Post(q, e, {ErrorReply})
  BY DEF Refuse
<1> HIDE DEF m, q
<1>8. Flow(Tail(queue[e]), d, ch[p])
  BY <1>2, <1>6, FlowTake
<1>9. /\ ErrorReply \in Packet /\ ErrorReply.miss = {} /\ ErrorReply.seq = NoNum
      /\ ErrorReply.body = Err /\ Err # End
  BY DEF ErrorReply, Packet, Num, Err, End
<1> DEFINE r == Append(queue[p], ErrorReply)
<1>10. queue' = q \/ queue' = [q EXCEPT ![p] = r]
  <2>1. Post(q, e, {ErrorReply}) = [q EXCEPT ![p] = Append(q[p], ErrorReply)]
    BY <1>3, <1>9, PostOne
  <2> QED BY <1>3, <1>7, <2>1
<1>11. r \in Seq(Packet)
  BY <1>2, <1>9
<1>12. Flow(r, ch[p], d)
  BY <1>2, <1>6, <1>9, FlowSend
<1> HIDE DEF r
<1>13. /\ queue' \in [Ends -> Seq(Packet)]
       /\ queue'[e] = q[e] /\ queue'[p] \in {queue[p], r}
  BY <1>1, <1>3, <1>10, <1>11
<1>14. Flow(queue'[e], d, ch[p]) /\ Flow(queue'[p], ch[p], d)
  BY <1>2, <1>3, <1>8, <1>12, <1>13
<1>15. Birth'
  <2>1. \A i \in 1..Len(queue'[Responder]) :
          queue'[Responder][i].body = End => queue'[Responder][i].seq > 0
    <3>1. CASE e = Responder \/ queue' = q
      BY <1>3, <1>13, <3>1
    <3>2. CASE e = Opener /\ queue' # q
      <4>1. p = Responder /\ queue'[Responder] = r /\ q[Responder] = queue[Responder]
        BY <1>1, <1>3, <1>10, <3>2
      <4>2. \A i \in 1..Len(r) : \/ i \in 1..Len(queue[p]) /\ r[i] = queue[p][i]
                                \/ r[i] = ErrorReply
        BY <1>2, <1>9 DEF r
      <4> QED BY <1>3, <1>9, <4>1, <4>2
    <3> QED BY <1>1, <3>1, <3>2
  <2> QED BY <1>4, <1>5, <1>7, <2>1 DEF FlowInv, Birth
<1>16. ch' = [ch EXCEPT ![e] = d]
  BY <1>7 DEF FlowInv
<1> HIDE DEF d
<1> QED BY <1>2, <1>13, <1>14, <1>15, <1>16, FlowStep

------------------------------------------------------------------------------
(* The theorem.                                                              *)

LossInv == losses \in Nat /\ (losses = 0 => FlowInv)

LEMMA FlowInit == Init => FlowInv
<1>1. ASSUME Init PROVE FlowInv
  <2>1. /\ NoChannel \in Channel /\ NoChannel.state = "Absent"
        /\ NoChannel.in = {} /\ NoChannel.missing = {}
        /\ NoChannel.nextExpected = 0 /\ NoChannel.lastProcessed = 0
        /\ NoChannel.sequence = 0 /\ NoChannel.registered = FALSE
    BY NewChannelType DEF NoChannel, Empty
  <2>2. Calm(NoChannel)
    BY <2>1 DEF Calm
  <2>3. Flow(<<>>, NoChannel, NoChannel)
    BY <2>1 DEF Flow, InTurn, EndFirst
  <2>4. /\ ch \in [Ends -> Channel] /\ queue \in [Ends -> Seq(Packet)]
        /\ \A e \in Ends : ch[e] = NoChannel /\ queue[e] = <<>>
        /\ Opener \in Ends /\ Responder \in Ends
    BY <1>1, <2>1 DEF Init, Ends
  <2>5. Birth
    BY <2>1, <2>4 DEF Birth
  <2> QED BY <2>2, <2>3, <2>4, <2>5, PeerProperty DEF FlowInv
<1> QED BY <1>1

LEMMA LossStep ==
  ASSUME LossInv, [Next]_vars
  PROVE  LossInv'
<1>1. ASSUME FlowInv, UNCHANGED losses, Next
      PROVE  FlowInv'
  <2>1. CASE OpenChannel
    BY <1>1, <2>1, OpenKeeps
  <2>2. ASSUME NEW e \in Ends, AppSend(e) PROVE FlowInv'
    BY <1>1, <2>2, AppSendKeeps
  <2>3. ASSUME NEW e \in Ends, Close(e) PROVE FlowInv'
    BY <1>1, <2>3, CloseKeeps
  <2>4. ASSUME NEW e \in Ends, CloseErrored(e) PROVE FlowInv'
    BY <1>1, <2>4 DEF CloseErrored, FlowInv, Calm
  <2>5. ASSUME NEW e \in Ends, Deliver(e) PROVE FlowInv'
    BY <1>1, <2>5, HandleKeeps, AcceptKeeps, RefuseKeeps DEF Deliver
  <2>6. ASSUME NEW e \in Ends, AckPing(e) PROVE FlowInv'
    BY <1>1, <2>6, PingKeeps
  <2>7. ASSUME NEW e \in Ends, Lose(e) PROVE FlowInv'
    BY <1>1, <2>7 DEF Lose, LossInv
  <2> QED BY <1>1, <2>1, <2>2, <2>3, <2>4, <2>5, <2>6, <2>7 DEF Next
<1>2. ASSUME FlowInv, UNCHANGED vars PROVE FlowInv'
  BY <1>2 DEF FlowInv, Birth, vars, Peer
<1>3. CASE UNCHANGED vars
  BY <1>2, <1>3 DEF LossInv, vars
<1>4. CASE Next /\ UNCHANGED losses
  BY <1>1, <1>4 DEF LossInv
<1>5. CASE Next /\ losses' # losses
  <2>1. \E e \in Ends : Lose(e)
    BY <1>5 DEF Next, OpenChannel, AppSend, Close, CloseErrored, Deliver, AckPing,
                SendContent
  <2>2. losses' = losses + 1
    BY <2>1 DEF Lose
  <2> QED BY <2>2 DEF LossInv
<1> QED BY <1>3, <1>4, <1>5

\* When packets arrive in order and none is lost, no end ever fails: a refusal
\* cannot overtake the packets and the end it follows.
THEOREM NoErrorCorrect == Spec => []NoFalseError
<1>1. Init => LossInv
  BY FlowInit DEF LossInv, Init
<1>2. LossInv /\ [Next]_vars => LossInv'
  BY LossStep
<1>3. LossInv => NoFalseError
  BY DEF LossInv, NoFalseError, FlowInv, Calm
<1> QED BY <1>1, <1>2, <1>3, PTL DEF Spec

==============================================================================
