------------------------------ MODULE SeqBuffer ------------------------------
(***************************************************************************)
(* The operations of THPacketBuffer on the set of packets it holds.  A     *)
(* packet is a record with at least a field seq; a buffer never holds two  *)
(* packets with one seq.  The linked list that implements these operations *)
(* is in PacketBuffer; the channels use the operations below.              *)
(***************************************************************************)
EXTENDS Integers

Seqs(buf) == {p.seq : p \in buf}

Empty == {}

\* push: a packet whose seq is already buffered is dropped.
Push(buf, p) == IF p.seq \in Seqs(buf) THEN buf ELSE buf \union {p}

\* frontSeq = n, for a buffer whose length is not 0.
FrontIs(buf, n) == n \in Seqs(buf) /\ \A i \in Seqs(buf) : n <= i

\* The buffered packet with seq n.
PacketAt(buf, n) == CHOOSE p \in buf : p.seq = n

\* pop, repeated: the packets in front of n leave the buffer.
PopBelow(buf, n) == {p \in buf : p.seq >= n}

\* Mutant: clears one packet too many.
ClearBehind(buf, ack) == {p \in buf : p.seq > ack + 1}

ClearThrough(buf, ack) == {p \in buf : p.seq > ack}

\* The sequence numbers from n to the front, and those between two buffered
\* packets.  The first loop of the code starts at n, the second at the front:
\* a number below n is listed only if it lies behind the front.
MissingSeqFrom(buf, n) ==
  {i \in UNION {0..(p.seq - 1) : p \in buf} :
     /\ i \notin Seqs(buf)
     /\ i >= n \/ \E p \in buf : p.seq < i}

\* Mutant: selects the packets in front of those asked for.
PacketsBeforeMiss(buf, miss) == {p \in buf : p.seq + 1 \in miss}

PacketsForMiss(buf, miss) == {p \in buf : p.seq \in miss}

==============================================================================
