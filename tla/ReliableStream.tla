---------------------------- MODULE ReliableStream ----------------------------
(***************************************************************************)
(* What a reliable channel promises the two applications: two streams, one *)
(* each way.  Each end is handed a growing prefix of what the other end    *)
(* sent, and an end that is over neither sends nor is handed anything.     *)
(* Nothing is said of what makes an end go over: an application may close  *)
(* it, an error or the other end's end may finish it.                      *)
(***************************************************************************)
EXTENDS Integers, Sequences

CONSTANTS Opener, Responder,
          Content,    \* what may be sent
          Last        \* the content that finishes the receiving end

VARIABLES life,       \* life[e]: "none", "live" or "over"
          sent,
          delivered

vars == <<life, sent, delivered>>

Ends == {Opener, Responder}
Peer(e) == IF e = Opener THEN Responder ELSE Opener

Init == /\ life = [e \in Ends |-> "none"]
        /\ sent = [e \in Ends |-> <<>>]
        /\ delivered = [e \in Ends |-> <<>>]

\* The opener creates the channel by sending its first content.
Begin(c) ==
  /\ life[Opener] = "none"
  /\ life' = [life EXCEPT ![Opener] = "live"]
  /\ sent' = [sent EXCEPT ![Opener] = <<c>>]
  /\ UNCHANGED delivered

\* The responder's end begins with the first content of the opener.
Join ==
  /\ life[Responder] = "none"
  /\ sent[Opener] # <<>>
  /\ life' = [life EXCEPT ![Responder] = "live"]
  /\ delivered' = [delivered EXCEPT ![Responder] = <<Head(sent[Opener])>>]
  /\ UNCHANGED sent

Submit(e, c) ==
  /\ life[e] = "live"
  /\ c # Last
  /\ sent' = [sent EXCEPT ![e] = Append(@, c)]
  /\ UNCHANGED <<life, delivered>>

\* Content up to the k-th is handed over; the last content ends the stream.
HandOver(e, k) ==
  /\ life[e] = "live"
  /\ k \in (Len(delivered[e]) + 1)..Len(sent[Peer(e)])
  /\ delivered' = [delivered EXCEPT ![e] = SubSeq(sent[Peer(e)], 1, k)]
  /\ life' = [life EXCEPT ![e] = IF sent[Peer(e)][k] = Last THEN "over" ELSE @]
  /\ UNCHANGED sent

Finish(e) ==
  /\ life[e] = "live"
  /\ life' = [life EXCEPT ![e] = "over"]
  /\ sent' \in {sent, [sent EXCEPT ![e] = Append(@, Last)]}
  /\ UNCHANGED delivered

Next ==
  \/ \E c \in Content : Begin(c)
  \/ Join
  \/ \E e \in Ends :
       \/ \E c \in Content : Submit(e, c)
       \/ \E k \in 1..Len(sent[Peer(e)]) : HandOver(e, k)
       \/ Finish(e)

Spec == Init /\ [][Next]_vars

==============================================================================
