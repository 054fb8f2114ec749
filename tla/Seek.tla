-------------------------------- MODULE Seek ----------------------------------
(***************************************************************************)
(* Looking for a switch among those one knows: THIdentity distanceFrom,    *)
(* THMeshBuckets closeInBucket, nearby and seek, PendingSeekJob, and the   *)
(* seek branch of THLine.  A switch asks up to three of the switches it    *)
(* has links with for the target; each names those of its own links that   *)
(* it takes for the closest, and these are asked in turn.                  *)
(*                                                                         *)
(* Links do not change during a seek, a bucket holds the identities that   *)
(* there are links with, in the order they were met, and no identity is    *)
(* bridged.  A hashname is a sequence of hex digits.                       *)
(***************************************************************************)
EXTENDS Bitwise, SequencesExt

CONSTANTS Me, Target,  \* the switch that seeks, and the one it seeks
          Met,         \* all other switches, in the order they are met
          Few,         \* entries of an answer (5 in the code)
          MaxNear,     \* bound: candidates of a seek
          MaxWithout,  \* bound: links of Me, keys and paths that are missing
          MaxLost      \* bound: queries and answers lost

Others == Range(Met)
Names == {Me, Target} \union Others

ASSUME NamesOfOneLength ==
  \A a, b \in Names : Len(a) = Len(b) /\ \A i \in 1..Len(a) : a[i] \in 0..15
ASSUME MeAndTarget == Me # Target /\ {Me, Target} \cap Others = {}

VARIABLES links,   \* the pairs of switches that have a link
          keys,    \* the switches that know the target's keys
          paths,   \* the switches Me has an active path to
          nearby,  \* the candidates of the seek
          ran,     \* runningSearches
          asking,  \* asking[x]: queries to x without an answer
          begun,   \* the seek has begun
          found,   \* times the completion was called
          lost     \* queries and answers lost

vars == <<links, keys, paths, nearby, ran, asking, begun, found, lost>>
mesh == <<links, keys, paths>>

------------------------------------------------------------------------------
(* Distance                                                                *)

\* Zero bits in front of a digit.
Nlz(x) == IF x = 0 THEN 4 ELSE IF x > 7 THEN 0 ELSE IF x > 3 THEN 1
          ELSE IF x > 1 THEN 2 ELSE 3

\* Mutant: the bits of the digit that differs are counted from its end.
DistanceFromLowBits(a, b) ==
  LET differ == {i \in 1..Len(a) : a[i] # b[i]}
      i == Min(differ)
  IN IF differ = {} THEN 0
     ELSE 4 * Len(a) - 1 - (4 * (i - 1) + 3 - Nlz(a[i] ^^ b[i]))

\* The place of the highest bit in which two hashnames differ, from the end.
DistanceFrom(a, b) ==
  LET differ == {i \in 1..Len(a) : a[i] # b[i]}
      i == Min(differ)
  IN IF differ = {} THEN 0
     ELSE 4 * Len(a) - 1 - (4 * (i - 1) + Nlz(a[i] ^^ b[i]))

\* All distances, worked out once.
Distances == [p \in Names \X Names |-> DistanceFrom(p[1], p[2])]
Distance(a, b) == Distances[<<a, b>>]

------------------------------------------------------------------------------
(* Buckets                                                                 *)

\* Mutant: the bucket next to it.
BucketBelow(s, k) ==
  {x \in Names : {s, x} \in links /\ Distance(s, x) = k - 1}

Bucket(s, k) == {x \in Names : {s, x} \in links /\ Distance(s, x) = k}

AsMet(S) == SelectSeq(Met \o <<Me, Target>>, LAMBDA x : x \in S)

\* The comparator calls the nearer of two the greater one, and is silent
\* otherwise: a stable sort puts the farthest first.
FarthestFirst(xs, t) ==
  SortSeq(xs, LAMBDA a, b : Distance(t, a) > Distance(t, b))

First(xs, n) == SubSeq(xs, 1, IF Len(xs) < n THEN Len(xs) ELSE n)

CloseInBucket(s, t) ==
  First(FarthestFirst(AsMet(Bucket(s, Distance(s, t))), t), Few)

\* The bucket of the target, then those below from the top, then those above.
Nearby(s, t) ==
  LET k == Distance(s, t)
      linked == {x \in Names : {s, x} \in links}
      below == SortSeq(AsMet({x \in linked : Distance(s, x) < k}),
                       LAMBDA a, b : Distance(s, a) > Distance(s, b))
      above == SortSeq(AsMet({x \in linked : Distance(s, x) > k}),
                       LAMBDA a, b : Distance(s, a) < Distance(s, b))
  IN First(CloseInBucket(s, t) \o below \o above, Few)

------------------------------------------------------------------------------
(* The seek                                                                *)

Job == [nearby |-> nearby, ran |-> ran, asking |-> asking]

Becomes(j) == nearby' = j.nearby /\ ran' = j.ran /\ asking' = j.asking

\* Bound: beyond three the searches are not told apart.
Counted(n) == IF n > 3 THEN n ELSE n + 1

\* Mutant: the searches that run are not counted.
RunSeekUncounted(j) ==
  IF j.nearby = <<>> THEN j
  ELSE [nearby |-> Tail(j.nearby), ran |-> j.ran,
        asking |-> IF Head(j.nearby) \in paths
                   THEN [j.asking EXCEPT ![Head(j.nearby)] = @ + 1] ELSE j.asking]

\* The first candidate is asked; one without an active path is dropped.
RunSeek(j) ==
  IF j.nearby = <<>> THEN j
  ELSE [nearby |-> Tail(j.nearby), ran |-> Counted(j.ran),
        asking |-> IF Head(j.nearby) \in paths
                   THEN [j.asking EXCEPT ![Head(j.nearby)] = @ + 1] ELSE j.asking]

RunTimes(j, n) ==
  LET after[i \in 0..n] == IF i = 0 THEN j ELSE RunSeek(after[i - 1])
  IN after[n]

Candidates == SelectSeq(Nearby(Me, Target), LAMBDA x : x # Target)

\* The candidates are taken out of the list while it is enumerated: each call
\* may find the list at its end.
Begin ==
  /\ ~begun /\ begun' = TRUE
  /\ LET start == [Job EXCEPT !.nearby = First(Candidates, 3)]
     IN \E n \in 0..Len(start.nearby) :
          /\ start.nearby # <<>> => n > 0
          /\ Becomes(RunTimes(start, n))
  /\ UNCHANGED <<mesh, found, lost>>

\* What x answers: it can say how to reach another only to those whose keys it
\* knows.
Sees(x) ==
  IF x \in keys THEN CloseInBucket(x, Target) ELSE <<>>

\* count - 1 is huge when the count is 0.
Runs(i, count) == i < 3 /\ (count = 0 \/ i < count - 1)

RunMore(j) ==
  LET before[i \in j.ran..3] ==
        IF i = j.ran THEN j
        ELSE LET k == before[i - 1]
             IN IF Runs(i - 1, Len(k.nearby)) THEN RunSeek(k) ELSE k
  IN IF j.ran < 3 THEN before[3] ELSE j

\* Mutant: only the loop runs the seek again.
GoOnLoopOnly(j, sees) ==
  RunMore([j EXCEPT !.nearby =
             FarthestFirst(j.nearby \o SelectSeq(sees, LAMBDA y : y # Me), Target)])

\* An answer without the target: those it names are candidates, the farthest
\* is asked next.
GoOn(j, sees) ==
  LET known == FarthestFirst(j.nearby \o SelectSeq(sees, LAMBDA y : y # Me), Target)
      k == [j EXCEPT !.nearby = known]
  IN IF known = <<>> THEN k ELSE RunMore(RunSeek(k))

UpToTarget(sees) ==
  SelectSeq(SubSeq(sees, 1, SelectInSeq(sees, LAMBDA y : y = Target) - 1),
            LAMBDA y : y # Me)

\* Mutant: the channel of a query stays after the answer.
AnsweredKept(x) == Job

Answered(x) == [Job EXCEPT !.asking[x] = @ - 1]

\* With the target in the answer the completion is called, and the seek goes on
\* with the answers to come.  Bounds: MaxNear, and two calls.
Answer(x) ==
  /\ asking[x] > 0
  /\ Len(nearby) < MaxNear /\ found < 2
  /\ LET sees == Sees(x)
         named == Contains(sees, Target)
     IN /\ found' = IF named THEN found + 1 ELSE found
        /\ Becomes(IF named THEN [Answered(x) EXCEPT !.nearby = @ \o UpToTarget(sees)]
                   ELSE GoOn(Answered(x), sees))
  /\ UNCHANGED <<mesh, begun, lost>>

\* Nothing tells of a query or an answer that is lost.
Lose(x) ==
  /\ asking[x] > 0
  /\ lost < MaxLost /\ lost' = lost + 1
  /\ asking' = [asking EXCEPT ![x] = @ - 1]
  /\ UNCHANGED <<mesh, nearby, ran, begun, found>>

Pairs == {{a, b} : a, b \in Names} \ {{a} : a \in Names}

Init ==
  /\ links \in SUBSET (Pairs \ {{Me, Target}})
  /\ keys \in SUBSET Others
  /\ {x \in Others : {x, Target} \in links} \subseteq keys
  /\ paths \in SUBSET Others
  /\ Cardinality({x \in Others : {Me, x} \notin links})
       + Cardinality(Others \ keys) + Cardinality(Others \ paths) <= MaxWithout
  /\ nearby = <<>> /\ ran = 0 /\ found = 0 /\ lost = 0 /\ begun = FALSE
  /\ asking = [x \in Names |-> 0]

Next ==
  \/ Begin
  \/ \E x \in Names : Answer(x)
  \/ \E x \in Names : Lose(x)

Spec == Init /\ [][Next]_vars

------------------------------------------------------------------------------
(* Properties                                                              *)

\* The state has the shape the code gives it: a query is answered once, so no
\* switch has more than three open queries of one seek (PendingSeekJob).
TypeOK ==
  /\ links \in SUBSET Pairs
  /\ keys \in SUBSET Names /\ paths \in SUBSET Names
  /\ nearby \in Seq(Names)
  /\ ran \in 0..4
  /\ asking \in [Names -> 0..3]
  /\ begun \in BOOLEAN
  /\ found \in 0..2 /\ lost \in 0..MaxLost

\* However answers, losses and the enumeration that begins the seek fall, no
\* more than three queries are open at a time, though runningSearches only
\* grows (PendingSeekJob runSeek and handlePacket).
AtMostThree == SumFunction(asking) <= 3

Number(a) ==
  LET n[i \in 0..Len(a)] == IF i = 0 THEN 0 ELSE 16 * n[i - 1] + a[i] IN n[Len(a)]

\* The distance of two linked switches is the place of the highest bit in which
\* their names, taken as numbers, differ (THIdentity distanceFrom and nlz).
DistanceRight ==
  \A a, b \in Names : {a, b} \in links =>
    LET d == Distance(a, b)
    IN /\ Number(a) \div 2^d # Number(b) \div 2^d
       /\ Number(a) \div 2^(d + 1) = Number(b) \div 2^(d + 1)

\* Those the seek can come to: its first candidates, and whom they name.
Reached ==
  LET step[i \in 0..Len(Met)] ==
        IF i = 0 THEN Range(First(Candidates, 3))
        ELSE step[i - 1] \union UNION {Range(Sees(x)) : x \in step[i - 1]}
  IN step[Len(Met)] \ {Me, Target}

\* A seek that ends without the target, with nothing lost and paths to all, has
\* no candidate left, and nobody it could come to has a link with the target:
\* neither runSeek nor the loop over the free searches leaves anybody out
\* (PendingSeekJob handlePacket, THMeshBuckets seek and closeInBucket).
Conclusive ==
  /\ begun /\ found = 0 /\ lost = 0 /\ Others \subseteq paths
  /\ \A x \in Names : asking[x] = 0
  => /\ nearby = <<>>
     /\ \A x \in Reached : {x, Target} \notin links

\* A switch that has a link with the target names it when it is asked: "First
\* get the closest" (THMeshBuckets nearby), and none is closer than the target.
KnownIsNamed ==
  \A x \in Others : {x, Target} \in links => Contains(Sees(x), Target)

==============================================================================
