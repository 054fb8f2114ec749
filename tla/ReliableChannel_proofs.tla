------------------------ MODULE ReliableChannel_proofs ------------------------
(***************************************************************************)
(* What the operators of SeqBuffer and ReliableChannel return, for every   *)
(* channel and packet.  LossyChannel_proofs and FifoChannel_proofs rest on *)
(* these lemmas.                                                           *)
(***************************************************************************)
EXTENDS ReliableChannel, TLAPS

\* PacketAt finds the packet whose seq it is given.
LEMMA PacketAtProperty ==
  ASSUME NEW buf, NEW n \in Seqs(buf)
  PROVE  PacketAt(buf, n) \in buf /\ PacketAt(buf, n).seq = n
<1>1. PICK p \in buf : p.seq = n
  BY DEF Seqs
<1> QED BY <1>1 DEF PacketAt

\* push adds at most the packet pushed, and holds its seq afterwards.
LEMMA PushProperty ==
  ASSUME NEW buf, NEW p
  PROVE  /\ Push(buf, p) \subseteq buf \union {p}
         /\ buf \subseteq Push(buf, p)
         /\ Seqs(Push(buf, p)) = Seqs(buf) \union {p.seq}
BY DEF Push, Seqs

LEMMA MissingIsNat ==
  ASSUME NEW buf \in SUBSET Arrived, NEW n \in Nat
  PROVE  MissingSeqFrom(buf, n) \in SUBSET Nat
BY DEF MissingSeqFrom, Arrived

\* A packet that sendPacket completes is a packet.
LEMMA StampedType ==
  ASSUME NEW c \in Channel, NEW b \in Content \union {NoBody}
  PROVE  /\ Stamped(c, b) \in Packet
         /\ b # NoBody => Keep(Stamped(c, b)) \in Kept
BY PayloadIsContent DEF Stamped, Channel, Packet, Keep, Kept, Num, NoNum, Content, NoBody, End

LEMMA AfterSendType ==
  ASSUME NEW c \in Channel, NEW b \in Content \union {NoBody}
  PROVE  AfterSend(c, b) \in Channel
<1> DEFINE sequence == IF b = NoBody THEN c.sequence ELSE c.sequence + 1
           lastAck == IF c.lastProcessed >= c.lastAck THEN c.lastProcessed
                      ELSE c.lastAck
           out == IF b = NoBody THEN c.out ELSE Push(c.out, Keep(Stamped(c, b)))
<1>1. sequence \in Nat /\ lastAck \in Nat
  BY DEF Channel
<1>2. out \in SUBSET Kept
  BY StampedType, PushProperty DEF Channel
<1>3. AfterSend(c, b) = [c EXCEPT !.sequence = sequence, !.lastAck = lastAck,
                                  !.out = out]
  BY DEF AfterSend
<1> HIDE DEF sequence, lastAck, out
<1> QED BY <1>1, <1>2, <1>3 DEF Channel

LEMMA AfterCloseType ==
  ASSUME NEW c \in Channel
  PROVE  AfterClose(c) \in Channel
<1>1. AfterSend(c, End) \in Channel
  BY AfterSendType DEF Content
<1> QED BY <1>1 DEF AfterClose, Channel, States

LEMMA AfterPingType ==
  ASSUME NEW c \in Channel
  PROVE  AfterPing(c) \in Channel
<1>1. AfterSend(c, NoBody) \in Channel
  BY AfterSendType
<1> QED BY <1>1 DEF AfterPing, Channel

LEMMA NewChannelType ==
  /\ NoChannel \in Channel
  /\ \A s \in States : NewChannel(s) \in Channel
  /\ Newborn \in Channel
BY DEF NoChannel, Channel, NewChannel, Newborn, States, Empty

\* The in buffer after a packet is put on it, and where a run of it may end.
LEMMA BufferedType ==
  ASSUME NEW c \in Channel, NEW m \in Packet
  PROVE  /\ Buffered(c, m) \in SUBSET Arrived
         /\ RunLimits(Buffered(c, m), c.nextExpected) \subseteq Nat
<1>1. Buffered(c, m) \in SUBSET Arrived
  <2>1. m.seq # NoNum => [seq |-> m.seq, body |-> m.body] \in Arrived
    BY DEF Packet, Arrived
  <2> QED BY <2>1, PushProperty DEF Buffered, Channel
<1> QED BY <1>1 DEF RunLimits, Seqs, Arrived, Channel

LEMMA AfterRunType ==
  ASSUME NEW c \in Channel, NEW buf \in SUBSET Arrived, NEW k \in Nat
  PROVE  AfterRun(c, buf, k) \in Channel
<1> DEFINE left == IF c.nextExpected < k THEN PopBelow(buf, k) ELSE buf
<1>1. left \in SUBSET Arrived
  BY DEF PopBelow
<1>2. MissingSeqFrom(left, k) \in SUBSET Nat
  BY <1>1, MissingIsNat
<1>3. c.nextExpected < k => k - 1 \in Nat
  BY DEF Channel
<1> HIDE DEF left
<1>4. AfterRun(c, buf, k) =
        [c EXCEPT !.in = left,
               !.lastProcessed = IF c.nextExpected < k THEN k - 1 ELSE @,
               !.nextExpected = k,
               !.missing = IF buf = Empty THEN @ ELSE MissingSeqFrom(left, k),
               !.state = IF RunCloses(buf, c.nextExpected, k) THEN "Ended" ELSE @,
               !.registered = @ /\ ~RunCloses(buf, c.nextExpected, k)]
  BY DEF AfterRun, left
<1> QED BY <1>1, <1>2, <1>3, <1>4, ZenonT(40) DEF Channel, States

\* What handlePacket leaves of the channel, field by field, before the
\* request it may send.
LEMMA HandledFields ==
  ASSUME NEW c \in Channel, NEW m \in Packet, NEW k \in Nat
  PROVE  LET buf == Buffered(c, m)
             n == c.nextExpected
             h == Handled(c, m, k)
         IN /\ h \in Channel
            /\ h.in = IF n < k THEN PopBelow(buf, k) ELSE buf
            /\ h.out = Acknowledged(c.out, m)
            /\ h.sequence = c.sequence
            /\ h.nextExpected = k
            /\ h.lastProcessed = IF n < k THEN k - 1 ELSE c.lastProcessed
            /\ h.lastAck = c.lastAck
            /\ h.state = IF RunCloses(buf, n, k) THEN "Ended"
                         ELSE Dispatched(c, m).state
            /\ h.registered <=> /\ c.registered /\ m.body # Err
                                /\ ~RunCloses(buf, n, k)
            /\ h.missing = IF buf = Empty THEN c.missing
                           ELSE MissingSeqFrom(h.in, k)
<1> DEFINE d == Dispatched(c, m)
           a == [d EXCEPT !.out = Acknowledged(@, m), !.ping = TRUE]
           buf == Buffered(c, m)
<1>1. /\ d \in Channel
      /\ d = [c EXCEPT !.state = d.state, !.registered = d.registered]
      /\ d.registered <=> c.registered /\ m.body # Err
  BY DEF Dispatched, Channel, States
<1>2. Acknowledged(c.out, m) \in SUBSET Kept
  BY DEF Acknowledged, ClearThrough, Channel
<1>3. /\ a \in Channel
      /\ a.state = d.state /\ a.out = Acknowledged(c.out, m)
      /\ a.in = c.in /\ a.sequence = c.sequence
      /\ a.nextExpected = c.nextExpected
      /\ a.lastProcessed = c.lastProcessed /\ a.lastAck = c.lastAck
      /\ a.registered = d.registered /\ a.missing = c.missing
  <2> HIDE DEF d
  <2> QED BY <1>1, <1>2 DEF Channel
<1>4. buf \in SUBSET Arrived
  BY BufferedType
<1> HIDE DEF a, buf
<1>5. AfterRun(a, buf, k) \in Channel
  BY <1>3, <1>4, AfterRunType
<1>6. /\ AfterRun(a, buf, k).in =
           IF a.nextExpected < k THEN PopBelow(buf, k) ELSE buf
      /\ AfterRun(a, buf, k).out = a.out
      /\ AfterRun(a, buf, k).sequence = a.sequence
      /\ AfterRun(a, buf, k).nextExpected = k
      /\ AfterRun(a, buf, k).lastProcessed =
           IF a.nextExpected < k THEN k - 1 ELSE a.lastProcessed
      /\ AfterRun(a, buf, k).lastAck = a.lastAck
  BY <1>3 DEF AfterRun, Channel
<1>8. /\ AfterRun(a, buf, k).state =
           IF RunCloses(buf, a.nextExpected, k) THEN "Ended" ELSE a.state
      /\ AfterRun(a, buf, k).registered <=>
           a.registered /\ ~RunCloses(buf, a.nextExpected, k)
      /\ AfterRun(a, buf, k).missing =
           IF buf = Empty THEN a.missing
           ELSE MissingSeqFrom(AfterRun(a, buf, k).in, k)
  BY <1>3 DEF AfterRun, Channel
<1>7. Handled(c, m, k) = AfterRun(a, buf, k)
  BY DEF Handled, a, buf
<1> HIDE DEF d
<1> QED BY <1>1, <1>3, <1>5, <1>6, <1>7, <1>8 DEF buf, d

\* What a send leaves of the channel, field by field.
LEMMA AfterSendFields ==
  ASSUME NEW c \in Channel, NEW b \in Content \union {NoBody}
  PROVE  LET s == AfterSend(c, b)
         IN /\ s.state = c.state /\ s.registered = c.registered
            /\ s.in = c.in /\ s.missing = c.missing
            /\ s.nextExpected = c.nextExpected
            /\ s.lastProcessed = c.lastProcessed
            /\ s.lastAck \in {c.lastAck, c.lastProcessed}
            /\ s.sequence = IF b = NoBody THEN c.sequence ELSE c.sequence + 1
            /\ s.out = IF b = NoBody THEN c.out
                       ELSE Push(c.out, Keep(Stamped(c, b)))
BY DEF AfterSend, Channel

\* What close and the timer leave of it.
LEMMA AfterCloseFields ==
  ASSUME NEW c \in Channel, c.state = "Open"
  PROVE  LET a == AfterClose(c)
             s == AfterSend(c, End)
         IN /\ a.state = "Ended" /\ a.registered = FALSE
            /\ a.in = c.in /\ a.nextExpected = c.nextExpected
            /\ a.lastProcessed = c.lastProcessed /\ a.lastAck = s.lastAck
            /\ a.sequence = s.sequence /\ a.out = s.out
            /\ a.missing = c.missing
<1>1. SendsEnd(c)
  BY DEF SendsEnd
<1>2. AfterSend(c, End) \in Channel
  BY AfterSendType DEF Content
<1>3. /\ AfterSend(c, End).in = c.in
      /\ AfterSend(c, End).nextExpected = c.nextExpected
      /\ AfterSend(c, End).lastProcessed = c.lastProcessed
      /\ AfterSend(c, End).state = c.state
      /\ AfterSend(c, End).missing = c.missing
  BY AfterSendFields DEF Content
<1> QED BY <1>1, <1>2, <1>3 DEF AfterClose, Channel

LEMMA AfterPingFields ==
  ASSUME NEW c \in Channel
  PROVE  LET a == AfterPing(c)
         IN /\ a.state = c.state /\ a.in = c.in /\ a.out = c.out
            /\ a.nextExpected = c.nextExpected /\ a.sequence = c.sequence
            /\ a.lastProcessed = c.lastProcessed
            /\ a.lastAck \in {c.lastAck, c.lastProcessed}
            /\ a.registered = c.registered /\ a.missing = c.missing
<1> DEFINE s == IF PingSends(c) THEN AfterSend(c, NoBody) ELSE c
<1>1. /\ s \in Channel
      /\ s.state = c.state /\ s.in = c.in /\ s.out = c.out
      /\ s.nextExpected = c.nextExpected /\ s.sequence = c.sequence
      /\ s.lastProcessed = c.lastProcessed
      /\ s.lastAck \in {c.lastAck, c.lastProcessed}
      /\ s.registered = c.registered /\ s.missing = c.missing
  BY AfterSendType, AfterSendFields
<1>2. AfterPing(c) = [s EXCEPT !.ping = FALSE]
  BY DEF AfterPing
<1> HIDE DEF s
<1> QED BY <1>1, <1>2 DEF Channel

\* What an arriving packet leaves of the channel, its request included.
LEMMA AfterHandleFields ==
  ASSUME NEW c \in Channel, NEW m \in Packet, NEW k \in Nat
  PROVE  LET buf == Buffered(c, m)
             n == c.nextExpected
             a == AfterHandle(c, m, k)
         IN /\ a \in Channel
            /\ a.in = IF n < k THEN PopBelow(buf, k) ELSE buf
            /\ a.out = Acknowledged(c.out, m)
            /\ a.sequence = c.sequence
            /\ a.nextExpected = k
            /\ a.lastProcessed = IF n < k THEN k - 1 ELSE c.lastProcessed
            /\ a.lastAck \in {c.lastAck, a.lastProcessed}
            /\ a.state = IF RunCloses(buf, n, k) THEN "Ended"
                         ELSE Dispatched(c, m).state
            /\ a.registered <=> /\ c.registered /\ m.body # Err
                                /\ ~RunCloses(buf, n, k)
            /\ a.missing = IF buf = Empty THEN c.missing
                           ELSE MissingSeqFrom(a.in, k)
            /\ a.state \in {c.state, "Open", "Ended", "Errored"}
<1> DEFINE h == Handled(c, m, k)
<1>1. h \in Channel
  BY HandledFields
<1>2. AfterHandle(c, m, k) \in {h, AfterSend(h, NoBody)}
  BY DEF AfterHandle
<1>3. /\ AfterSend(h, NoBody) \in Channel
      /\ AfterSend(h, NoBody).in = h.in /\ AfterSend(h, NoBody).out = h.out
      /\ AfterSend(h, NoBody).sequence = h.sequence
      /\ AfterSend(h, NoBody).nextExpected = h.nextExpected
      /\ AfterSend(h, NoBody).lastProcessed = h.lastProcessed
      /\ AfterSend(h, NoBody).lastAck \in {h.lastAck, h.lastProcessed}
      /\ AfterSend(h, NoBody).state = h.state
      /\ AfterSend(h, NoBody).registered = h.registered
      /\ AfterSend(h, NoBody).missing = h.missing
  BY <1>1, AfterSendType, AfterSendFields
<1> HIDE DEF h
<1>4. AfterHandle(c, m, k) \in Channel
  BY <1>1, <1>2, <1>3
<1>5. /\ h.in = IF c.nextExpected < k THEN PopBelow(Buffered(c, m), k)
                ELSE Buffered(c, m)
      /\ h.out = Acknowledged(c.out, m)
      /\ h.sequence = c.sequence
      /\ h.nextExpected = k
      /\ h.lastProcessed = IF c.nextExpected < k THEN k - 1
                           ELSE c.lastProcessed
      /\ h.lastAck = c.lastAck
  BY HandledFields DEF h
<1>6. /\ h.state = IF RunCloses(Buffered(c, m), c.nextExpected, k) THEN "Ended"
                   ELSE Dispatched(c, m).state
      /\ h.registered <=>
           /\ c.registered /\ m.body # Err
           /\ ~RunCloses(Buffered(c, m), c.nextExpected, k)
      /\ h.missing = IF Buffered(c, m) = Empty THEN c.missing
                     ELSE MissingSeqFrom(h.in, k)
  BY HandledFields DEF h
<1>7. Dispatched(c, m).state \in {c.state, "Open", "Errored"}
  BY DEF Dispatched, Channel
<1> QED BY <1>2, <1>3, <1>4, <1>5, <1>6, <1>7

\* What it puts on the line: old packets from its out buffer, and a request
\* without content whose ack is the last packet processed by then.
LEMMA HandleSendsShape ==
  ASSUME NEW c \in Channel, NEW m \in Packet, NEW k \in Nat,
         NEW p \in HandleSends(c, m, k)
  PROVE  /\ p \in Packet
         /\ \/ \E q \in c.out : p.seq = q.seq /\ p.ack = q.ack /\ p.body = q.body
            \/ /\ p.seq = NoNum
               /\ p.ack \in {NoNum, IF c.nextExpected < k THEN k - 1
                                     ELSE c.lastProcessed}
<1> DEFINE h == Handled(c, m, k)
<1>1. CASE p \in Resent(Dispatched(c, m), m)
  <2>1. Dispatched(c, m).out = c.out /\ c.out \in SUBSET Kept
    BY DEF Dispatched, Channel
  <2>2. PICK q \in c.out :
           p = [seq |-> q.seq, ack |-> q.ack, miss |-> {}, body |-> q.body]
    BY <1>1, <2>1 DEF Resent, PacketsForMiss
  <2> QED BY <2>1, <2>2 DEF Kept, Packet
<1>2. CASE p \in Transmitted(h, Stamped(h, NoBody))
  <2>1. h \in Channel
    BY HandledFields
  <2>2. h.lastProcessed = IF c.nextExpected < k THEN k - 1 ELSE c.lastProcessed
    BY HandledFields
  <2> HIDE DEF h
  <2>3. p = Stamped(h, NoBody)
    BY <1>2 DEF Transmitted
  <2>4. Stamped(h, NoBody) \in Packet
    BY <2>1, StampedType
  <2>5. p.seq = NoNum /\ p.ack \in {NoNum, h.lastProcessed}
    BY <2>3 DEF Stamped
  <2> QED BY <2>2, <2>3, <2>4, <2>5
<1> QED BY <1>1, <1>2 DEF HandleSends

\* What the new channel of the responder is, field by field.
LEMMA AcceptedFields ==
  ASSUME NEW m \in Packet, NEW k \in Nat
  PROVE  LET buf == Buffered(Newborn, m)
             a == Accepted(m, k)
         IN /\ a \in Channel
            /\ a.in = IF 0 < k THEN PopBelow(buf, k) ELSE buf
            /\ a.out = {} /\ a.sequence = 0 /\ a.lastAck = 0
            /\ a.nextExpected = k
            /\ a.lastProcessed = IF 0 < k THEN k - 1 ELSE 0
            /\ a.state = "Open"
            /\ a.registered <=> ~RunCloses(buf, 0, k)
            /\ a.missing = IF buf = Empty THEN {} ELSE MissingSeqFrom(a.in, k)
<1> DEFINE buf == Buffered(Newborn, m)
           r == AfterRun(Newborn, buf, k)
<1>1. /\ Newborn \in Channel
      /\ Newborn.in = {} /\ Newborn.out = {} /\ Newborn.sequence = 0
      /\ Newborn.lastAck = 0 /\ Newborn.nextExpected = 0
      /\ Newborn.lastProcessed = 0
      /\ Newborn.registered = TRUE /\ Newborn.missing = {}
  BY NewChannelType DEF Newborn, NewChannel, NoChannel, Empty
<1>2. buf \in SUBSET Arrived
  BY <1>1, BufferedType
<1> HIDE DEF buf
<1>3. r \in Channel
  BY <1>1, <1>2, AfterRunType
<1>4. /\ r.in = IF 0 < k THEN PopBelow(buf, k) ELSE buf
      /\ r.out = {} /\ r.sequence = 0 /\ r.lastAck = 0
      /\ r.nextExpected = k
      /\ r.lastProcessed = IF 0 < k THEN k - 1 ELSE 0
      /\ r.registered <=> ~RunCloses(buf, 0, k)
      /\ r.missing = IF buf = Empty THEN {} ELSE MissingSeqFrom(r.in, k)
  BY <1>1 DEF AfterRun, Channel
<1>5. Accepted(m, k) = [r EXCEPT !.state = "Open"]
  BY DEF Accepted, buf
<1> HIDE DEF r
<1> QED BY <1>3, <1>4, <1>5 DEF Channel, States, buf

------------------------------------------------------------------------------
(* A channel between two handlers.                                         *)

\* The expected numbers below the highest one buffered that are not buffered.
Gaps(buf, n) ==
  {i \in UNION {n..(j - 1) : j \in Seqs(buf)} : i \notin Seqs(buf)}

\* What every handler leaves of a channel: it has processed all it does not
\* expect, its buffer holds at most one packet already processed, the list of
\* missing numbers is that of its buffer, and, while it is in the table, the
\* loop has nothing left to hand over.
Settled(c) ==
  /\ c.lastProcessed = IF c.nextExpected = 0 THEN 0 ELSE c.nextExpected - 1
  /\ \A i \in Seqs(c.in) : c.lastProcessed <= i
  /\ c.missing = Gaps(c.in, c.nextExpected)
  /\ c.registered => c.state \in {"Opening", "Open"}
  /\ c.registered => ~FrontIs(c.in, c.nextExpected)

\* missingSeqFrom: lists the gaps when at most one number below n is buffered.
LEMMA MissingIsGaps ==
  ASSUME NEW buf \in SUBSET Arrived, NEW n \in Nat,
         \A i \in Seqs(buf) : n - 1 <= i
  PROVE  MissingSeqFrom(buf, n) = Gaps(buf, n)
<1>1. \A p \in buf : p.seq \in Nat /\ p.seq \in Seqs(buf) /\ n - 1 <= p.seq
  BY DEF Arrived, Seqs
<1>2. ASSUME NEW i \in MissingSeqFrom(buf, n) PROVE i \in Gaps(buf, n)
  <2>1. /\ i \notin Seqs(buf)
        /\ i >= n \/ \E p \in buf : p.seq < i
        /\ \E p \in buf : i \in 0..(p.seq - 1)
    BY DEF MissingSeqFrom
  <2>2. PICK p \in buf : i \in 0..(p.seq - 1)
    BY <2>1
  <2>3. i \in n..(p.seq - 1)
    BY <1>1, <2>1, <2>2
  <2> QED BY <1>1, <2>1, <2>3 DEF Gaps
<1>3. ASSUME NEW i \in Gaps(buf, n) PROVE i \in MissingSeqFrom(buf, n)
  <2>1. i \notin Seqs(buf) /\ \E j \in Seqs(buf) : i \in n..(j - 1)
    BY DEF Gaps
  <2>2. PICK p \in buf : i \in n..(p.seq - 1)
    BY <2>1 DEF Seqs
  <2>3. i \in 0..(p.seq - 1) /\ i >= n
    BY <1>1, <2>2
  <2> QED BY <2>1, <2>3 DEF MissingSeqFrom
<1> QED BY <1>2, <1>3

\* What the buffer holds once m is on it is not below the last one processed.
LEMMA BufferedBounds ==
  ASSUME NEW c \in Channel, NEW m \in Packet, Settled(c)
  PROVE  \A i \in Seqs(Buffered(c, m)) : c.lastProcessed <= i
<1> DEFINE p == [seq |-> m.seq, body |-> m.body]
<1>1. Seqs(Push(c.in, p)) = Seqs(c.in) \union {m.seq}
  BY PushProperty
<1>2. m.seq # NoNum => m.seq \in Nat
  BY DEF Packet
<1> QED BY <1>1, <1>2 DEF Buffered, Settled, Channel

\* The loop over a buffer that holds nothing below n - 1 leaves a buffer of
\* which the same holds for k, with its gaps listed.
LEMMA RunSettles ==
  ASSUME NEW buf \in SUBSET Arrived, NEW n \in Nat, NEW k \in Nat,
         RunEnds(buf, n, k), NEW last \in Nat,
         last = IF n = 0 THEN 0 ELSE n - 1,
         \A i \in Seqs(buf) : last <= i,
         NEW left, left = IF n < k THEN PopBelow(buf, k) ELSE buf
  PROVE  /\ left \in SUBSET Arrived
         /\ \A i \in Seqs(left) : k - 1 <= i
         /\ MissingSeqFrom(left, k) = Gaps(left, k)
         /\ RunCloses(buf, n, k) \/ ~FrontIs(left, k)
<1>1. left \in SUBSET Arrived
  BY DEF PopBelow
<1>2. \A p \in left : p.seq \in Nat /\ k - 1 <= p.seq
  BY <1>1 DEF PopBelow, RunEnds, Seqs, Arrived
<1>3. \A i \in Seqs(left) : k - 1 <= i
  BY <1>2 DEF Seqs
<1>4. RunCloses(buf, n, k) \/ ~FrontIs(left, k)
  <2>1. Seqs(left) \subseteq Seqs(buf)
    BY DEF PopBelow, Seqs
  <2> QED BY <2>1 DEF RunEnds, RunCloses, FrontIs
<1> QED BY <1>1, <1>3, <1>4, MissingIsGaps

\* Each handler leaves a settled channel settled.
LEMMA HandleSettles ==
  ASSUME NEW c \in Channel, NEW m \in Packet, Settled(c),
         NEW k \in RunLimits(Buffered(c, m), c.nextExpected),
         RunEnds(Buffered(c, m), c.nextExpected, k)
  PROVE  Settled(AfterHandle(c, m, k))
<1> DEFINE buf == Buffered(c, m)
           n == c.nextExpected
           a == AfterHandle(c, m, k)
<1>1. buf \in SUBSET Arrived /\ k \in Nat /\ n \in Nat /\ n <= k
  BY BufferedType DEF Channel, RunEnds
<1>2. /\ c.lastProcessed = IF n = 0 THEN 0 ELSE n - 1
      /\ c.lastProcessed \in Nat
      /\ \A i \in Seqs(buf) : c.lastProcessed <= i
  BY BufferedBounds DEF Settled, Channel
<1>3. /\ a.in = IF n < k THEN PopBelow(buf, k) ELSE buf
      /\ a.nextExpected = k
      /\ a.lastProcessed = IF n < k THEN k - 1 ELSE c.lastProcessed
      /\ a.state = IF RunCloses(buf, n, k) THEN "Ended"
                   ELSE Dispatched(c, m).state
      /\ a.registered => /\ c.registered /\ m.body # Err
                         /\ ~RunCloses(buf, n, k)
      /\ a.missing = IF buf = Empty THEN c.missing ELSE MissingSeqFrom(a.in, k)
  BY <1>1, AfterHandleFields
<1>4. RunEnds(buf, n, k)
  OBVIOUS
<1>5. buf = Empty => c.in = Empty /\ n = k
  <2>1. c.in \subseteq buf
    BY PushProperty DEF Buffered
  <2>2. buf = Empty => n = k
    BY <1>1 DEF RunEnds, Seqs, Empty
  <2> QED BY <2>1, <2>2 DEF Empty
<1>6. a.registered => a.state \in {"Opening", "Open"}
  BY <1>3 DEF Settled, Dispatched, Channel
<1>7. c.missing = Gaps(c.in, n)
  BY DEF Settled
<1> HIDE DEF buf, n, a
<1> DEFINE left == a.in
<1>8. /\ \A i \in Seqs(left) : k - 1 <= i
      /\ MissingSeqFrom(left, k) = Gaps(left, k)
      /\ RunCloses(buf, n, k) \/ ~FrontIs(left, k)
  <2>1. left = IF n < k THEN PopBelow(buf, k) ELSE buf
    BY <1>3
  <2> HIDE DEF left
  <2> QED BY ONLY <1>1, <1>2, <1>4, <2>1, RunSettles
<1>9. a.missing = Gaps(left, k)
  <2>1. CASE buf = Empty
    <3>1. ~(n < k) /\ n = k /\ a.in = c.in
      BY <2>1, <1>1, <1>3, <1>5
    <3> QED BY <2>1, <3>1, <1>3, <1>7
  <2>2. CASE buf # Empty
    BY <2>2, <1>3, <1>8
  <2> QED BY <2>1, <2>2
<1>10. a.lastProcessed = IF k = 0 THEN 0 ELSE k - 1
  BY <1>1, <1>2, <1>3
<1>11. \A i \in Seqs(left) : a.lastProcessed <= i
  <2>1. CASE n < k
    BY <2>1, <1>1, <1>3, <1>8
  <2>2. CASE ~(n < k)
    BY <2>2, <1>2, <1>3
  <2> QED BY <2>1, <2>2
<1> QED BY <1>3, <1>6, <1>8, <1>9, <1>10, <1>11 DEF Settled, a

LEMMA AcceptedSettles ==
  ASSUME NEW m \in Packet, m.seq = 0,
         NEW k \in RunLimits(Buffered(Newborn, m), 0),
         RunEnds(Buffered(Newborn, m), 0, k)
  PROVE  /\ k = 1
         /\ Settled(Accepted(m, k))
<1> DEFINE p == [seq |-> m.seq, body |-> m.body]
           buf == Buffered(Newborn, m)
           a == Accepted(m, k)
<1>1. /\ Newborn \in Channel /\ Newborn.in = {} /\ Newborn.nextExpected = 0
      /\ Newborn.lastProcessed = 0
  BY NewChannelType DEF Newborn, NewChannel, NoChannel, Empty
<1>2. buf = {p} /\ p.seq = 0 /\ Seqs(buf) = {0}
  BY <1>1 DEF Buffered, Push, Seqs, NoNum
<1>3. buf \in SUBSET Arrived /\ k \in Nat
  BY <1>1, BufferedType
<1>4. RunEnds(buf, 0, k)
  OBVIOUS
<1> HIDE DEF p, buf
<1>5. k = 1
  <2>1. k \in {0, 1}
    BY <1>2 DEF RunLimits, buf
  <2>2. FrontIs(buf, 0)
    BY <1>2 DEF FrontIs
  <2> QED BY <1>2, <1>4, <2>1, <2>2 DEF RunEnds
<1>6. /\ a.in = PopBelow(buf, k) /\ a.nextExpected = k
      /\ a.lastProcessed = k - 1 /\ a.state = "Open"
      /\ a.registered => ~RunCloses(buf, 0, k)
      /\ buf # Empty => a.missing = MissingSeqFrom(a.in, k)
  BY <1>3, <1>5, AcceptedFields DEF buf
<1> HIDE DEF a
<1> DEFINE left == a.in
           none == 0
<1>7. /\ \A i \in Seqs(left) : k - 1 <= i
      /\ MissingSeqFrom(left, k) = Gaps(left, k)
      /\ RunCloses(buf, 0, k) \/ ~FrontIs(left, k)
  <2>1. left = IF none < k THEN PopBelow(buf, k) ELSE buf
    BY <1>5, <1>6
  <2>2. RunEnds(buf, none, k) /\ none \in Nat
    BY <1>4
  <2>3. \A i \in Seqs(buf) : none <= i
    BY <1>2
  <2> HIDE DEF left
  <2>4. /\ \A i \in Seqs(left) : k - 1 <= i
        /\ MissingSeqFrom(left, k) = Gaps(left, k)
        /\ RunCloses(buf, none, k) \/ ~FrontIs(left, k)
    <3>1. none = IF none = 0 THEN 0 ELSE none - 1
      OBVIOUS
    <3> HIDE DEF none
    <3> QED BY ONLY <1>3, <2>1, <2>2, <2>3, <3>1, RunSettles
  <2> QED BY <2>4
<1>8. buf # Empty
  BY <1>2 DEF Empty
<1> QED BY <1>5, <1>6, <1>7, <1>8 DEF Settled, a

LEMMA SendSettles ==
  ASSUME NEW c \in Channel, NEW b \in Content \union {NoBody}, Settled(c)
  PROVE  Settled(AfterSend(c, b))
BY AfterSendFields DEF Settled

LEMMA CloseSettles ==
  ASSUME NEW c \in Channel, Settled(c), c.state \in {"Open", "Errored"}
  PROVE  Settled(AfterClose(c))
<1>1. CASE c.state = "Open"
  BY <1>1, AfterCloseFields DEF Settled
<1>2. CASE c.state = "Errored"
  <2>1. /\ AfterClose(c).in = c.in /\ AfterClose(c).missing = c.missing
        /\ AfterClose(c).nextExpected = c.nextExpected
        /\ AfterClose(c).lastProcessed = c.lastProcessed
        /\ AfterClose(c).registered = FALSE
    BY <1>2 DEF AfterClose, SendsEnd, Channel
  <2> QED BY <2>1 DEF Settled
<1> QED BY <1>1, <1>2

LEMMA CloseChannelsSettles ==
  ASSUME NEW c \in Channel, Settled(c)
  PROVE  Settled(AfterCloseChannels(c))
<1>1. /\ AfterCloseChannels(c).in = c.in
      /\ AfterCloseChannels(c).missing = c.missing
      /\ AfterCloseChannels(c).nextExpected = c.nextExpected
      /\ AfterCloseChannels(c).lastProcessed = c.lastProcessed
      /\ AfterCloseChannels(c).registered = FALSE
  BY DEF AfterCloseChannels, Channel
<1> QED BY <1>1 DEF Settled

LEMMA PingSettles ==
  ASSUME NEW c \in Channel, Settled(c)
  PROVE  Settled(AfterPing(c))
BY AfterPingFields DEF Settled

LEMMA NewSettles ==
  /\ Settled(NoChannel)
  /\ Settled(NewChannel("Open"))
BY DEF Settled, NoChannel, NewChannel, Empty, Seqs, Gaps, FrontIs

==============================================================================
