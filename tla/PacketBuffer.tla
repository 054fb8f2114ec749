----------------------------- MODULE PacketBuffer -----------------------------
(***************************************************************************)
(* THPacketBuffer: a singly linked list of THPacketNode, sorted by seq,    *)
(* with a pointer to its first and to its last node.  The heap holds the   *)
(* nodes; reference counting frees a node as soon as the list no longer    *)
(* reaches it, so a push may take any node the list does not reach.        *)
(***************************************************************************)
EXTENDS SeqBuffer, FiniteSets

CONSTANTS Node,    \* addresses of list nodes
          Null,    \* nil
          Packet   \* the packets that are pushed: records with a field seq

ASSUME NodesAreFinite == IsFiniteSet(Node) /\ Null \notin Node
ASSUME PacketsHaveSeq == \A p \in Packet : p.seq \in Nat

VARIABLES firstNode, tailNode,
          heap,    \* heap[n]: [packet, next]
          popped   \* what the last pop returned

vars == <<firstNode, tailNode, heap, popped>>

NodeSeq(n) == heap[n].packet.seq
NextOf(n) == IF n = Null THEN Null ELSE heap[n].next

\* The k-th node the code meets when it follows next from the first node.
Walk[k \in 0..Cardinality(Node)] ==
  IF k = 0 THEN firstNode ELSE NextOf(Walk[k - 1])

\* A node no pointer leads to any more.
Freed == [packet |-> Null, next |-> Null]

Reachable == {Walk[k] : k \in DOMAIN Walk} \ {Null}
Contents == {heap[n].packet : n \in Reachable}

Init ==
  /\ firstNode = Null /\ tailNode = Null
  /\ heap = [n \in Node |-> Freed]
  /\ popped = Null

\* The loop of push leaves at the first node that has the same seq, or behind
\* which a node with seq s belongs.
LeavesAt(n, s) ==
  \/ NodeSeq(n) = s
  \/ /\ NodeSeq(n) < s
     /\ NextOf(n) = Null \/ NodeSeq(NextOf(n)) > s

Stops(s) ==
  {n \in Reachable : \E k \in DOMAIN Walk :
     /\ Walk[k] = n
     /\ LeavesAt(n, s)
     /\ \A j \in 0..(k - 1) : ~LeavesAt(Walk[j], s)}

\* Mutant: a packet with the same seq replaces the one held.
InsertReplacing(new, p, at) ==
  IF NodeSeq(at) = p.seq
    THEN heap' = [heap EXCEPT ![at].packet = p] /\ UNCHANGED tailNode
    ELSE /\ heap' = [heap EXCEPT ![at].next = new,
                                 ![new] = [packet |-> p, next |-> NextOf(at)]]
         /\ tailNode' = IF NextOf(at) = Null THEN new ELSE tailNode

\* push into a list that is not empty and whose first seq is not above s.
Insert(new, p, at) ==
  IF NodeSeq(at) = p.seq
    THEN UNCHANGED <<heap, tailNode>>
    ELSE /\ heap' = [heap EXCEPT ![at].next = new,
                                 ![new] = [packet |-> p, next |-> NextOf(at)]]
         /\ tailNode' = IF NextOf(at) = Null THEN new ELSE tailNode

\* The end of push, after its loop: the tail pointer stays where it was.
AttachAtTail(new, p) ==
  /\ heap' = [heap EXCEPT ![tailNode].next = new,
                          ![new] = [packet |-> p, next |-> Null]]
  /\ UNCHANGED tailNode

PushPacket(new, p) ==
  /\ new \in Node \ Reachable
  /\ UNCHANGED popped
  /\ IF firstNode = Null
       THEN /\ heap' = [heap EXCEPT ![new] = [packet |-> p, next |-> Null]]
            /\ firstNode' = new /\ tailNode' = new
     ELSE IF NodeSeq(firstNode) > p.seq
       THEN /\ heap' = [heap EXCEPT ![new] = [packet |-> p, next |-> firstNode]]
            /\ firstNode' = new
            /\ UNCHANGED tailNode
     ELSE /\ UNCHANGED firstNode
          /\ IF Stops(p.seq) # {}
               THEN \E at \in Stops(p.seq) : Insert(new, p, at)
               ELSE AttachAtTail(new, p)

\* Mutant: returns the node.
PopNode ==
  /\ popped' = firstNode
  /\ firstNode' = NextOf(firstNode)
  /\ tailNode' = IF firstNode' = Null THEN Null ELSE tailNode
  /\ heap' = [n \in Node |-> IF n = firstNode THEN Freed ELSE heap[n]]

Pop ==
  /\ popped' = IF firstNode = Null THEN Null ELSE heap[firstNode].packet
  /\ firstNode' = NextOf(firstNode)
  /\ tailNode' = IF firstNode' = Null THEN Null ELSE tailNode
  /\ heap' = [n \in Node |-> IF n = firstNode THEN Freed ELSE heap[n]]

\* clearThrough: nodes leave the front of the list while their seq is at most
\* ack; a node that leaves is cut off from the list.
Cleared(ack) ==
  {n \in Reachable : \E k \in DOMAIN Walk :
     /\ Walk[k] = n
     /\ \A j \in 0..k : NodeSeq(Walk[j]) <= ack}

ClearList(ack) ==
  /\ firstNode' = IF \A n \in Reachable : n \in Cleared(ack) THEN Null
                  ELSE Walk[Cardinality(Cleared(ack))]
  /\ heap' = [n \in Node |-> IF n \in Cleared(ack) THEN Freed ELSE heap[n]]
  /\ tailNode' = IF firstNode' = Null THEN Null ELSE tailNode
  /\ UNCHANGED popped

Next ==
  \/ \E new \in Node, p \in Packet : PushPacket(new, p)
  \/ Pop
  \/ \E p \in Packet : ClearList(p.seq)

Spec == Init /\ [][Next]_vars

------------------------------------------------------------------------------
(* The queries.                                                            *)

Length == IF firstNode = Null THEN 0
          ELSE IF firstNode = tailNode THEN 1
          ELSE Cardinality({k \in DOMAIN Walk : Walk[k] # Null})

FrontSeq == IF firstNode = Null THEN 0 ELSE NodeSeq(firstNode)

\* Mutant: counts the front as missing.
ListMissingToFront(n) ==
  n..FrontSeq \union
  UNION {(NodeSeq(x) + 1)..(NodeSeq(NextOf(x)) - 1) :
           x \in {y \in Reachable : NextOf(y) # Null}}

ListMissingFrom(n) ==
  n..(FrontSeq - 1) \union
  UNION {(NodeSeq(x) + 1)..(NodeSeq(NextOf(x)) - 1) :
           x \in {y \in Reachable : NextOf(y) # Null}}

ListPacketsForMiss(miss) ==
  {heap[n].packet : n \in {y \in Reachable : NodeSeq(y) \in miss}}

------------------------------------------------------------------------------
(* Properties.                                                             *)

\* Every pointer leads to a node or to nil, and a node the list reaches holds
\* a packet.
TypeOK ==
  /\ firstNode \in Node \union {Null} /\ tailNode \in Node \union {Null}
  /\ heap \in [Node -> [packet : Packet \union {Null}, next : Node \union {Null}]]
  /\ \A n \in Reachable : heap[n].packet \in Packet
  /\ popped \in Packet \union {Null}

\* The queries that walk the list agree with what they say of the set of
\* packets held: length with its shortcut, the numbers a miss request lists,
\* and the packets a miss request selects.
QueriesAgree ==
  /\ Length = Cardinality(Contents)
  /\ \A n \in 0..4 : ListMissingFrom(n) = MissingSeqFrom(Contents, n)
  /\ \A miss \in SUBSET Seqs(Packet) :
        ListPacketsForMiss(miss) = PacketsForMiss(Contents, miss)

\* The list is a sorted buffer: pushes in any order, duplicates dropped, pop
\* returns the lowest sequence number.
Sorted == INSTANCE SortedBuffer WITH contents <- Contents, None <- Null
SortedSpec == Sorted!Spec

==============================================================================
