----------------------------- MODULE SortedBuffer -----------------------------
(***************************************************************************)
(* What a packet buffer promises: a set of packets with distinct sequence  *)
(* numbers from which the lowest one is taken, whatever order they came    *)
(* in, and in which the first packet pushed with a number wins.            *)
(***************************************************************************)
EXTENDS SeqBuffer

CONSTANTS Packet, \* records with a field seq
          None    \* what pop returns when there is nothing

VARIABLES contents, \* the packets held
          popped    \* what the last pop returned

vars == <<contents, popped>>

Init == contents = {} /\ popped = None

PushOne(p) == contents' = Push(contents, p) /\ UNCHANGED popped

PopFront ==
  \/ /\ contents = {}
     /\ popped' = None
     /\ UNCHANGED contents
  \/ \E p \in contents :
        /\ FrontIs(contents, p.seq)
        /\ popped' = p
        /\ contents' = contents \ {p}

ClearTo(ack) == contents' = ClearThrough(contents, ack) /\ UNCHANGED popped

Next == \/ \E p \in Packet : PushOne(p) \/ ClearTo(p.seq)
        \/ PopFront

Spec == Init /\ [][Next]_vars

==============================================================================
