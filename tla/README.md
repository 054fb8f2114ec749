# telehash-objc: specification and proofs

TLA+ models of the Objective-C implementation of Telehash in `src/common`, the
TLC configurations that check them on small instances, and theorems about them
whose proofs TLAPS checks. The models are written from the source; the notes
beside each definition say which code it stands for, and `PROJECT.json` ("map")
gives the lines.

## 1. The system

A program holds one `THSwitch`. It talks UDP to other switches, opens one
encrypted *line* to each peer it is in contact with, and runs many *channels*
over a line. All callbacks (packets from a transport's socket, `dispatch_after`
timers, `NSTimer`s, calls of the application) run on the main queue, one at a
time and to their end. So there are no data races between handlers; what is
hard is the order in which handlers of two switches meet, and what the network
does to the packets between them: it loses, repeats, delays and reorders them,
and the program has no retransmission timer anywhere.

| component | state | operations | talks to |
|---|---|---|---|
| `THPacketBuffer` | singly linked list, `firstNode`, `tailNode` | push (sorted, drops duplicates), pop, clearThrough, length, frontSeq, missingSeqFrom, packetsForMiss, forEach | used twice by a reliable channel |
| `THReliableChannel`, `THChannel` | `sequence`, `lastAck`, `lastProcessed`, `nextExpectedSequence`, `missingPackets`, in and out buffer, state, place in the identity's table | sendPacket, handlePacket, delegateHandlePackets, resendMissingPackets, checkAckPing, close, flushOut | its line through the identity; its delegate |
| `THUnreliableChannel` | state, type | sendPacket, handlePacket, close | the same |
| `THLine` | `inLineId`, `outLineId`, `createdAt`, `_nextChannelId`, cached open, activity times | sendOpen, handleOpen, openLine, handlePacket (seek, link, peer, connect, path, channels), sendPacket, negotiatePath, handlePath | cipher set, identity, switch |
| `THCipherSet2a`, `THCipherSet3a` | the line's ECDH key and session keys | generateOpen, processOpen, finalizeLineKeys, encrypt, decrypt | line, identity |
| `THIdentity` | `currentLine`, `channels`, paths, `activePath`, `relay`, `vias`, cipher parts | closeChannels, reset, sendPacket, addPath, checkPriorityPath, distanceFrom | everything |
| `THSwitch`, `THPendingJob` | `openLines`, `pendingJobs`, transports | openChannel, openLine (with a 2 s timer), processOpen, closeLine, findPendingSeek, handlePacket | everything |
| `THMeshBuckets` | 256 buckets of identities | pingLines (every 25 s), linkToIdentity, addIdentity, closeInBucket, nearby, seek | switch, link channels |
| `THRelay`, `THPeerRelay` | the via's channel, the two ends | attachVia, sendPacket, handlePacket | two lines |
| `THPath`, `THTransport` | address, priority, sockets | sendPacket, send | the network |
| `THPacket` | json, body | encode, packetData | all |
| `src/crypto`, `src/cryptopp`, `src/libsodium`, `GCDAsyncUdpSocket`, `CLCLog` | vendored, or wrappers of vendored code | | |

What makes each component right:

* **Packet buffer**: it is a set of packets with distinct seqs, taken lowest
  first, and its two pointers and queries agree with that set.
* **Reliable channel**: each delegate sees a growing prefix of what the other
  end sent; a packet is kept until the peer has processed it; acks and requests
  speak of what has happened and is needed; an ended channel stays ended; gaps
  are repaired and the conversation comes to an end.
* **Line and switch**: both ends of a line agree which two lines are paired, and
  an older line does not undo that; channels do not outlive the line they were
  opened on; a line that is opened is linked to; a channel that waits for a line
  is opened or given up.
* **Identity**: the best working path is active; a reset leaves nothing behind.
* **Mesh**: a link is kept while packets come on it and given up in bounded time
  when none do, and both switches come to agree whether they have one; seeks
  answer with the closest identities, keep to three queries at a time, and leave
  nobody out.
* **Relay**: each packet goes out at the other end and never comes back; channels
  that both sides of a line open do not take each other's place; of several vias
  the two ends settle on one.
* **Packet codec**: what was encoded can be parsed, wherever it was passed on.

The hazards this code is exposed to are listed in `PROJECT.json` ("hazards"),
each at its line with the properties that watch it.

## 2. Modules

| module | models | in |
|---|---|---|
| `SeqBuffer` | the operations of a packet buffer on a set of packets | `THPacketBuffer.m` |
| `SortedBuffer` | abstract: what a packet buffer promises | |
| `PacketBuffer` | the linked list with its heap of nodes | `THPacketBuffer.m` |
| `ReliableChannel` | one end: an operator per handler, from a channel and a packet to the channel afterwards and the packets sent | `THReliableChannel.m`, `THChannel.m`, the channel branch of `THLine.m` |
| `LossyChannel` | two ends over UDP: any packet ever sent may arrive at any time, any number of times or never | the same, `THSwitch.m` openChannel |
| `FifoChannel` | the same two ends over an ordered network that loses a bounded number of packets | the same |
| `ReliableStream` | abstract: two streams, one each way | |
| `LineHandshake` | two switches opening lines to each other, with waiting channels, timers, resets, introductions and restarts | `THSwitch.m`, `THLine.m`, `THCipherSet2a.m`, `THIdentity.m`, `THMeshBuckets.m` |
| `PacketCodec` | the length header of a packet | `THPacket.m` |
| `Relay` | two ends that reach each other through vias: introduction, relayed handshake and packets, resets and new lines | `THRelay.m`, `THPeerRelay.m`, `THUnreliableChannel.m`, the peer and connect branches of `THLine.m`, the vias of `THSwitch.m` openLine |
| `Links` | the link of two switches over time: handshake, opening, pings, idleness, resets, crashes | `THMeshBuckets.m`, the link branch of `THLine.m`, `THSwitch.m`, `THIdentity.m` |
| `Seek` | one seek over a mesh of links: distances, buckets, answers, the job | `THMeshBuckets.m`, `THIdentity.m`, the seek branch of `THLine.m` |
| `PathChoice` | the paths of an identity: offers, answers, priorities and the active path | the path branch of `THLine.m`, `THIdentity.m`, `THPath.m` |
| `ReliableChannel_proofs` | lemmas: what the handlers of a channel return, field by field, and that each leaves the channel settled | |
| `LossyChannel_proofs`, `FifoChannel_proofs`, `PacketBuffer_proofs`, `LineHandshake_proofs`, `Links_proofs`, `Relay_proofs`, `PathChoice_proofs` | theorems about the module of that name | |
| `MCPacketBuffer`, `MCLossyChannel`, `MCFifoChannel`, `MCSeek` | constants for TLC | |

`ReliableChannel` is composed twice, in `LossyChannel` and in `FifoChannel`;
`PacketBuffer` implements `SortedBuffer`, whose operations (`SeqBuffer`) are the
ones the channels use; `LossyChannel` implements `ReliableStream`. `Relay` uses
`PacketCodec` for what a via makes of a packet. `PathChoice` starts where a
handshake ends, on a line that is open. `Relay` and `Links` each have
the part of the handshake of `LineHandshake` that their subject needs: in
`Relay` every open travels over a relay, in `Links` time passes.

In every module a definition whose comment begins with *Mutant* is a wrong
version of the definition that follows it, with the kind of slip that could be
made in that code. It is not used by the specification; it exists so that each
property can be shown to notice a wrong program.

### How state and actions correspond to the code

* **One handler, one step.** An action is a whole main-queue callback: for
  `handlePacket:` of a reliable channel that is the line's dispatch, the
  superclass, the ack, the resends, the loop over the in buffer, the request and
  the start of the ping timer.
* **Channel.** The record `Channel` has the instance variables of
  `THReliableChannel`. `registered` says that the object is in its identity's
  `channels`. `ping` says that a `checkAckPing` timer runs; several timers of one
  channel collapse into one, since a second that finds nothing to do changes
  nothing.
* **The in buffer's loop** is stated by its result (`RunEnds`, `AfterRun`): the
  run of consecutive packets from the number expected that it hands over, ending
  behind an end.
* **Packets** carry seq, ack, the list of missing numbers and a content. A type
  is in the packet that opens a channel and nowhere else, so it is not a field
  (`Typed`). The kept copy of a packet has no list: the code removes it before a
  resend.
* **Line.** A line is a number, in the order its switch made them. It stands for
  the line id, the ECDH key and the cached open, which are made together and never
  change. `at[e]` has the second in which each line's open was generated: the
  second of the line before it, or the next. `out` is the peer's line
  (`outLineId`, `createdAt`); it is 0 until an open has been handled. An open is
  dumped when its second is before that of the current line, or when it is that
  line's own (`Dumped`), and channels are closed when it is after (`Keyed`).
* **Pending jobs.** A switch has at most one line job per identity (the code
  looks for one first), any number of timers of older jobs, and in the model one
  waiting channel.

* **Relay.** An end's `relay` is the `THRelay` of the other end's identity: the
  via (`relayIdentity`) and the channel in use (`peerChannel`, id 0 for one that
  is gone). `table` holds the end's channels to the vias; `current` says that a
  channel's delegate is the relay in use, and not one it replaced. A via's `hub`
  is its set of `THPeerRelay` objects; each of the two channels is in the table
  (listed), has lost its place there to another (loose), or ended.
* **Links.** Time goes in units of 5 s: 25 s between rounds of pings are five
  units, 50 s of silence ten, the 10 s within which a ping is not answered two.
  A link has the times since its last packet in and out and since it was made.
  A tick waits until every packet on its way has arrived or been lost and every
  timer of 2 s has fired. `Skip` is a round of pings in which the identity in
  front of the peer was taken out of the bucket while it was enumerated.
* **Paths.** A path leads to one of two addresses of the peer, within its network
  or outside of it, and is named by that address (`Routes`). `peer[e]` has the
  `availablePaths`, `isLocal`, `activePath` and priorities that `e` keeps; a
  message names the path it travels on, and an answer thereby the address it
  tells. Whether the two switches are behind one router and which paths work is
  chosen at the start and stays. `Marked` are the addresses that `isLocal` of a
  path takes for private ones.
* **Seek.** The mesh (who has links with whom, who knows the target's keys, to
  whom the seeker has a path) is chosen once; an answer is worked out when it
  arrives. A hashname is a sequence of hex digits, as short as the run likes.

### Abstractions and assumptions

* Cryptography is ideal: a packet is what its sender made, and nobody else can
  make one. `THCipherSet3a` has the same control as `THCipherSet2a`, of which the
  lines are given.
* `Relay`: the ends have open lines to the vias, and paths to each other that are
  not local (so that `attachVia:` sends paths). The ends have the higher
  hashnames, so their channel ids are odd and the vias' even. A packet with
  nothing but a channel id, for a channel that is not there, is ignored
  (`THLine.m:307`), so an end that is passed on has no effect at all.
  `didChangeStateTo:` of a delegate is never called: `THUnreliableChannel`
  has its own `setState:`, without the call.
* `Links`: one peer in the buckets. `linkTotal` is never changed, so the cap on
  links never bites. A line that waits for an answer is opened by the peer's open
  and not through a via.
* `PathChoice`: one address of each kind, all of type ipv4. Each answer is a packet
  of its own although `handlePath:` sends one `THPacket` again and again: it is
  encrypted before it changes (`THLine.m:365`). The 1 that `THPathHandler` adds
  to a priority is gone at once, since `checkPriorityPath:` starts from 0
  (`THIdentity.m:293`). A relay stays, and works.
* `Seek`: links do not change during a seek. `pendingSeeks` is never allocated,
  so two seeks for one target share nothing. The comparator of `closeInBucket`
  puts the nearer of two identities behind when it comes first, and takes the
  two for equal when it comes second; what a sort makes of that is up to
  Foundation; the model takes a stable sort,
  which puts the farthest first. `[seekJob runSeek]` removes from the array that
  `seek:` enumerates: any number of rounds, but at least one, may run.
* Opens are told older from newer by whole seconds (`THCipherSet2a.m:239`). In
  `LineHandshake` a switch may make several lines within one second, and clocks
  are not turned back; `Relay` and `Links` take the lines of a switch to be of
  different seconds.
* The identity of a peer is one object. (`loadSeeds:` makes one outside the
  identity cache; what follows from that is not modelled.)
* An opening packet carries content and no `end`; delegates do not call back
  from within a handler.
* `flushOut` has no effect: it is called for channels that are not open, and
  their packets are not sent.
* `THLine close` has no caller and is not an action.

## 3. Runs

| run | module, cfg | states | what it shows |
|---|---|---|---|
| `packet_buffer` | `MCPacketBuffer` | 252 (up to symmetry) | the list's queries; it implements `SortedBuffer` |
| `lossy_channel` | `MCLossyChannel`, `MCLossyChannel.cfg` | 320,391 | order, retention, acks, requests, finality, also when a late opening packet makes a second object; the ends implement `ReliableStream` |
| `fifo_channel` | `MCFifoChannel` | 6,793 | no false errors, everything processed, ends reach the peer, acks drain, gaps close, silence follows |
| `line_handshake` | `LineHandshake`, `MCLineHandshake.cfg` | 63,168 | table of open lines, channels of a line, agreement and that it lasts, links of new lines; handshakes complete, waiting channels are served |
| `relay` | `Relay`, `MCRelay.cfg` | 409,594 | nothing is echoed, ids stay apart, the ends settle on one relay and come to a line |
| `links` | `Links`, `MCLinks.cfg` | 1,129,845 | silence is bounded, live links are kept, both switches come to agree |
| `path_choice` | `PathChoice`, `MCPathChoice.cfg` | 306,778 | the active path has answered and none is ranked above it; a switch that can be reached directly is |
| `seek` | `MCSeek`, `MCSeek.cfg` | 401,510 | three queries at most, right distances, nobody left out |

What the runs show that the code's text does not:

* `line_handshake`: two lines that a switch makes within one second cannot be told
  apart by their opens. The open of the older one, when it comes last, is taken for
  a new line, although the comment at `THCipherSet2a.m:144` has it that an older
  one is dumped; the channels of the newer line stay in the table, with the ids
  the older line gives out again. So all that is stated of agreement and of
  channels (`QuietAgreement`, `AgreementLasts`, `ChannelsOfLine`) holds by the
  second, and fails when lines are compared instead.
* `line_handshake`: a channel that is opened while the line is made but not complete
  takes an id from 2 on, and the completed line of the switch with the lower
  hashname starts at 2 again: of two early channels, 2 and 4, the second loses its
  place in the table to the next channel. No property forbids this, since the
  code does it; `BegunLinked` leaves out the case in which the link a new line
  needs is the channel that loses its place.
* `relay`: `QuietPaired` holds although two vias may both introduce the ends, since
  each end takes the first channel on which the other's packet came. With two
  vias that know the target and a new line to one of them, a late packet can
  move the asker to a relay the target has left; with one via a second fault can
  lose the peer packet of an end with a new line to it. The property leaves these
  cases out, and says so. `RelayCompletes` is about one via that knows the target. With
  several the asker stays with the first it heard (`THRelay.m:111`), also when
  the target's later introduction has closed that relay on its side.
* `links`: links that cross are refused by both switches, each then opens another,
  and this ends (`Converges`). A round of pings that falls between the end of a
  handshake and the arrival of the link resets the fresh line; the peer's half
  goes with its own next rounds. `EstablishedKept` needs that no packet is lost:
  50 s are two rounds of pings and the test is `>=`, so when the rounds of the two
  switches coincide one lost ping ends a link. For the same reason it speaks of
  one missed round at most; with two, one of either switch, a link between
  switches that are both well reaches 50 s of silence (set `MaxFaults` to 2 and
  leave out the bound on `skips'` to see it; with the bound the property holds
  there too, over 12 million states).
* `seek`: an answer names only switches of the bucket the target falls in, and
  they are closer to the target than the one that answers, so a seek cannot go
  on for ever. `runningSearches` is never counted down, so after three
  queries the loop of the job is dead and each answer asks one more.

* `path_choice`: `ActiveJustified` says less than one would wish, because the code
  does: every path packet of the peer sets all priorities to 0 (`THLine.m:465`),
  so an answer that comes late on an outer path then outranks the inner path
  that is active, although local paths are preferred (`THIdentity.m:295`).

Four places where the code does not do what its own text says, each a run that TLC
must find violated, and a finding:

| run | what the source says | what happens |
|---|---|---|
| `seq_passed_off` | `THReliableChannel.m:67`, a new seq object is passed off | a repeated copy of the packet processed last is buffered again (`>=`), stays in front, and blocks the packet expected behind it |
| `waiting_stuck` | `THSwitch.m:216,220`, unable to finalize, remove pending channel jobs | the timer asks for `inLineId`, which a line has once its own open was generated; a switch that restarts in a handshake is not answered, and its channel waits for ever |
| `relay_garbled` | `telehashTests.m:82`, "Packet was parsed" | a via sends on the json length it received (`THPeerRelay.m:32`); when the id on the way out is shorter the header runs into the body, and the receiver drops the packet |
| `seek_closest` | `THMeshBuckets.m:204`, "First get the closest" | the comparator puts the farthest first (`THMeshBuckets.m:189`), and an answer, cut off at five, leaves out the nearest, which may be the target itself |

More divergences met while modelling, which the models have as the code has them
and no run is spent on:

* an end that has processed nothing sends ack 0, and its peer drops packet 0
  (`THReliableChannel.m:124`; :60 has it that an ack is a position);
* a stream of one packet is never acknowledged: 0 < 0 fails
  (`THReliableChannel.m:89`; :77 "pinging every second");
* a second channel opened during the handshake is opened on a line without keys
  (`THSwitch.m:163`, "already open lines");
* the comment at `THMeshBuckets.m:71` has a link looked at after 5 s, the code
  after 25;
* a seek's completion is never called with NO, so a caller is not told of a seek
  that found nothing; a candidate without a path uses up a query
  (`THMeshBuckets.m:366`);
* a peer is found to be local only when one of its paths is first added
  (`THIdentity.m:253`): a switch that learns its own outer address later never
  offers its inner one to a peer behind the same router;
* `PRIVATE_10_FIRST` is 0xa0, which is 160 (`THPath.m:24`), and a value masked with
  0xfff never equals `PRIVATE_172_FIRST` (`THPath.m:21`): of the private ranges
  named there only 192.168 and 127 are found. An outer address in 160/8 is
  taken for private and not offered, so that over a relay no direct path is
  found; an inner one in 10/8 is offered to all and not preferred. (Set `Marked`
  in `MCPathChoice.cfg` to `{"outer"}`, drop `Marked` from `DirectFound`, or set
  it to `{}` to see either.)
* `gatherAvailableInterfacesApprovedBy:` never gets past an interface that is not
  reachable (`THTransport.m:163`, `continue` before `ifa_next`);
* a switch that does not know the target's keys answers a seek with nothing,
  whatever is in its buckets (`seekStringForIdentity:`).

### Bounds, and why they are enough

* `packet_buffer`: five nodes and six packets with four numbers: every shape of a
  list of up to four nodes, with a node to spare, duplicates at the front, in the
  middle and at the end.
* `lossy_channel`: two contents and an end one way, one and an end the other. That
  gives a gap below the end, a gap of one and of two, requests that cross with
  content, resends of content and of ends, and both ends closing at once.
  `MaxBorn` 2: the responder makes one object more, at any time. What is said of
  two streams speaks of the time before (`OneSession`).
* `fifo_channel`: the opener sends three contents and an end, so that a lost
  second content is uncovered by the third while the channel is open; the
  responder one content and an end; one packet is lost, at any point. The
  properties that hold only without a loss say so (`losses = 0`).
* `line_handshake`: one fault of any kind (restart, reset, introduction) of either
  switch, so that lines of different age meet; two timers at once, so that an old
  one fires beside a newer job; one channel opened by the application beside the
  link and the one that waited; lines of one second and of several. The safety
  properties were also checked with two channels and two faults (3,766,072
  states), and all properties with two channels and one fault (175,584). The
  liveness properties speak of behaviours without a fault. `QuietAgreement` is
  stated for at most one fault, and fails with two: a delayed open of a line
  given up arrives at a switch that was reset and so forgot the newer one; its
  reply is taken for an answer by the peer, which does not answer back. Both
  switches then have an open line the other does not know. (Remove `faults < 2`
  and set `MaxFaults` to 2 to see it.)
* `relay`: two vias, each or none or both with a line to the target; one fault of
  any kind, at any time; one packet of each end on the line. One fault is enough
  for a channel that is gone while its relay is used, for a second introduction
  and for a copy of any packet. `relay_garbled` starts the asker's ids at 1 and
  at 9, so that they get a second digit.
* `links`: five phases between the rounds of the two switches are all there are;
  one fault of any kind; switches are told of one another twice in all, so that
  opens cross. Silence is counted as far as the bound of `SilenceBounded`, so
  that it can be exceeded.
* `path_choice`: three negotiations of the two switches, so that each path packet
  meets answers to the other side's and one switch asks again; one packet lost or
  late. Lines begin with no path or an outer one. `Marked` is the inner address,
  as the ranges are meant.
* `seek`: six switches with hashnames of two digits: two share the target's first
  digit, so that an answer can name another candidate of the same bucket, one is
  nearer the seeker. All sets of links among them; at most one of the seeker's
  links, of the keys and of the paths is missing, one query or answer is lost.
  `MaxNear` 4 bounds the list of candidates: no more answers are taken once it is
  as long. An answer names five, as in the code; `seek_closest` cuts it to two,
  which is to a bucket of three what five is to one of six.

### Fairness

`FifoChannel`: weak fairness of the arrival of the oldest packet and of a
running ping timer: the main queue runs every callback that is due, and the
ordered network of that module delivers. `LineHandshake`: weak fairness of each
timer and of the arrival of each open. `Relay`: some packet arrives while any is
on its way. `Links`: whatever is due happens (a packet, a timer, a round of
pings, a tick of the clock). `PathChoice`: some packet arrives while one that
can is on its way. In all of them only faults and the application are free.
Nothing obliges an application to send, open or close. `LossyChannel`,
`PacketBuffer` and `Seek` assume no fairness: their properties are safety
properties.

The liveness properties are about a kind network on purpose. Over one that loses
packets the code promises no progress: a lost last packet, a lost resend or a
lost open is never sent again unless something else happens.

## 4. Proofs

TLAPS proves, for every value of the constants:

* `LossyChannel_proofs!TypeCorrect`: every reachable state is typed.
* `LossyChannel_proofs!OrderCorrect`: `Spec => []InOrder`. A delegate is handed a
  prefix of what the other end sent, in order and without repetition, whatever
  the network does.
* `LossyChannel_proofs!MissingCorrect`, `EndedCorrect`, `AckCorrect`,
  `RetainCorrect`: the other safety properties of the run `lossy_channel`, for any
  scripts and any number of objects.
* `LossyChannel_proofs!StreamCorrect`: `Spec => StreamSpec`. Two ends over UDP
  implement the two streams of `ReliableStream`.
* `FifoChannel_proofs!NoErrorCorrect`: `Spec => []NoFalseError`. Over an ordered
  network that has lost nothing no end fails, for any scripts.
* `PacketBuffer_proofs!TypeCorrect`, `QueriesCorrect`, `SortedCorrect`: everything
  the run `packet_buffer` checks, for any number of nodes and packets; the last is
  `Spec => SortedSpec`, the linked list implements the sorted set.
* `LineHandshake_proofs!OpenLinesCorrect`, `ChannelsCorrect`, `AgreementLastsCorrect`,
  `BegunLinkedCorrect`, `AgreementCorrect`, `LineTypeCorrect`: the safety properties
  of the run `line_handshake`, for any number of faults, jobs and channels, and
  lines of any seconds (`QuietAgreement` itself speaks of at most one fault).
* `Links_proofs!LinkTypeCorrect`, `SilenceCorrect`: types, and `Spec =>
  []SilenceBounded`, for any number of faults.
* `Links_proofs!KeptCorrect`: `Spec => EstablishedKept`. While no packet is lost no
  step takes away a link both switches have, for any number of openings and any
  bound on faults; one missed round is allowed for, as in the property.
* `Relay_proofs!RelayTypeCorrect`, `NoEchoCorrect`, `IdsApartCorrect`: the safety
  properties of the run `relay` other than `QuietPaired`, for any set of vias,
  any ids to start from and any number of faults.
* `Relay_proofs!MutualPaired`: as long as no end begins anew and no introduction
  comes twice, ends with a line to each other are paired by one peer relay, for
  any number of vias and whatever is lost, delayed or repeated, at rest or not.
  `QuietPairedCorrect`, `Spec => [](faults = 0 => QuietPaired)`, is the part of
  `QuietPaired` that follows.
* `PathChoice_proofs!PathTypeCorrect`, `ActiveCorrect`: the safety properties of the
  run `path_choice`, for any number of negotiations and faults and whichever
  addresses are taken for private.
* `ReliableChannel_proofs!AfterHandleFields`, `HandleSendsShape`: what the handler
  of an arriving packet does, field by field.

**Order.** `InOrder` is not inductive: nothing in it says that the packets in
flight are the right ones. `OrderInv` adds, for each stream, that its sender's
`sequence` is the length of what was sent, that every packet of the stream in the
out buffer, on the network or in the in buffer is *genuine* (its body is the one
its seq was given to), and that the receiver's `nextExpected` is the length of
what it was handed over. A content is handed over only as number `nextExpected`,
so it is the next one. For the responder's stream this holds while the responder
has had one object; the opener's holds always. `OrderInv` rests on type
correctness only. TLC checked it too before it was proved.

**Settled ends.** `MissingIsCurrent` is not inductive. The list of gaps is
computed at the end of a handler; that it is still right after the next one needs
that the in buffer holds nothing below the last number processed, that this number
lags the number expected by one (and is 0 before the first), and that the loop has
left nothing it could hand over. `EndsSettled` says that of each end, with the
fact that a channel that ended or failed is out of the table, on which
`EndedStaysEnded` rests. It needs no more than type correctness and nothing of
the network: `ReliableChannel_proofs` shows of each handler that it leaves a
settled channel settled (`HandleSettles` and its like), for every packet.

**Acks and retention.** `Retained` needs `AckSound`, since an ack is what removes a
packet, and `AckSound` needs more than what is on the network: an ack in the out
buffer goes out again with a resend. `RetainInv` therefore speaks of the acks in
both places (`AcksHeld`), and says of the responder also that its ack 0 is true,
because it has packet 0 before it sends anything. `Owes` is `Retained` for each
end. Of the opener's acks it holds always; the rest while the responder has had
one object.

**Streams.** The refinement maps `life` to the state and leaves `sent` and
`delivered` as they are. An arriving packet is `HandOver` of the contents up to
the last the loop took, `Join` when it opens the responder's end, or a stutter;
a close of any kind is `Finish`. That what a handler hands over is the next part of
the peer's stream is `InOrder`; that one handler hands over several contents, and
ends behind an end and nowhere else, comes from `RunEnds`.

**Ordered network.** `NoFalseError` says that nobody is refused; why is a matter of
the packets on their way. `FlowInv` says that while nothing was lost the packets
on a queue carry, in order, exactly the numbers between what the receiver expects
and what the sender has used (`InTurn`), that an end precedes every refusal and
reaches whoever is not over (`EndFirst`), that no buffer holds a gap (`Calm`), and
that the packet that opens the channel is the first of all (`Birth`). When a
packet has been lost nothing is claimed (`LossInv`).

**The linked list.** `BufferInv`: from `firstNode` on each node's seq is above the
one before, the nodes reached are exactly those in use, and `tailNode` is the last
of them. The walk along `next` is a recursive function; that it reaches every node
exactly once is proved by the least counterexample in a set of numbers
(`NatSetInduction`, from the library's `WFMin`) and by counting nodes (`WalkEnds`).
Insertion in front, behind a node and removal keep a list a list; `push` never
gets to its branch behind the tail (`PushStops`), because the branch before it
takes a packet that is not below the tail's. `LengthIs` and `ListMissingIs` say
what the two loops over the list count, for a list of any length.

**Lines.** `LineInv` says of each identity that its entry in `openLines` and its
current line go together and that a line that is not complete has its job
(`Good`), that its channels were opened in the second of the peer's line it has
(`Sound`), that the seconds of a switch's lines rise (`Rising`), and that a current
line is the last its switch made. What a step does is said of its own end and of
the peer: it leaves the peer's identity alone and adds at most one line
(`Moves`), and it is a fault (`Fails`) or never takes the identity back to a line
of an earlier second (`Holds`). `AgreementLasts` follows because the peer's
current line is its last, so that no open is of a later second, and `BegunLinked`
because the job that `Good` keeps makes the open an answer. For `QuietAgreement`
`AgreeInv` adds that one fault leaves one of the two switches *steady*: it has had
one line at most and has it still, and it knows the line the peer has now, or one
no earlier, unless that line's open is on its way to it. The peer can know no
other line of a steady switch, so once nothing is on its way the two agree.

**Links.** `SilenceBounded` is not inductive: a silence of 70 s may grow unless the
round of pings that ends it is near. `Timely` adds that silence and the time to
the next round together stay below a bound that only a missed round raises, that
a link too young to be looked at has been silent no longer than it is old, and
that an identity with a link is in a bucket, so that rounds do see it.

**Kept links.** `EstablishedKept` is about one step, but whether a step can take the
link away depends on how the link came about. Without a fault three things can
end a link of both: silence of 50 s, an open of another line, and a refusal.
`Shake` says how far a handshake can be: which lines a switch may
have and which ids its link (`Shaped`), what may be on its way (`Posted`), that of
two lines nobody answered one open is still to come (`Crossing`), and what the
line of an older link, a handshake that one side completed and a link of a line
the other gave up can have left (`OldOpens`, `Halfway`, `Foreign`). When both have the
link and only pings are on their way, this leaves no open and no refusal. `Fed`
is about silence: of two switches that share a link, the rounds of one that
missed none reach the peer, and are answered or forestalled by a ping of the
peer (`Rounds`); with no round missed that is so of both, with one of either. It
has to follow each period tick by tick, since the ping of a round may be on its
way while the peer's own falls due. Both are claimed while `faults = 0`, since
one lost packet can end the link.

**Relay.** `NoEcho` and `IdsApart` rest on one invariant: ids that ends draw are
odd and those of vias even, no id in a table is above what the side that drew it
has counted to, what an end sends is its own and what it gets the other's, and
each peer relay joins a channel of one end with one of the other. That its two
channels are never mistaken for each other follows from the parity.

**One relay.** That ends with a line to each other are paired says nothing of how
they came to it. `Route` says that the asker has one channel to each via it asked
and, from the first packet it hears, keeps to the channel of that packet
(`AskerRoute`, `Settled`); that the target has the channel of its last introduction
only, and the asker's line only if it came over the via the asker keeps to
(`TargetRoute`); that a via's peer relay joins the one channel the asker has with it
to the one it introduced (`HubRoute`); and that a via with a peer packet still to
come has none, and one with a connect packet to come is not yet the target's
(`PacketRoute`). A loss or a repeated data packet keeps all this; a repeated
introduction, a reset or a new line to a via does not, and makes new channels.
TLC checked `Route`, with three vias, before it was proved.

**Paths.** `ActiveJustified` is not inductive: when the active path itself answers
again it gets a new priority, which must not fall below that of another path.
`PathInv` adds that no priority exceeds the path's rank, which only grows since a
peer that is local stays so, and that answers come along paths and not over the
relay.

Assumptions used: the two ends differ and are no vias, ids start odd, scripts are sequences of payload, payload
is none of the markers, bounds are natural numbers. TLC evaluates each of them.

Only model-checked: what `QuietPaired` says of one fault, everything about seeks,
and all liveness. After a reset, a new line to a via or a repeated introduction
the ends hold channels of several peer relays at a time, and that one via alone
knows the target is what keeps them together at rest; `Route` does not hold then,
and an invariant would have to list what each such fault can have left. With two
faults the statement is false even for one via: an end that has a new line to
it asks it again, and the peer packet may be lost. The distances of seeks use
bitwise operators, which the prover does not have, and its candidates are sorted
by a recursive operator. Liveness under fairness is out of the prover's reach and
stays with TLC, as does what a recursive operator computes; of recursive functions
only the walk of the linked list is used in a proof.

## 5. Not modelled, and the plan

Not modelled for good: the ciphers and their wrappers, the vendored libraries,
the sockets, JSON, logging, key generation and storage.

Not modelled so far: bridges, and with them lines whose relay is replaced by a path
through the via; the see lists of link packets, which open lines to further
switches; the array of pending jobs with more than one waiting channel, which is
changed while it is enumerated, with an outcome Foundation does not define;
`findPendingSeek`, for which there never is a job; a delegate that sends or
closes from within `handlePacket:`, which can be modelled and comes next.

Theorems that remain: `QuietPaired` after one fault, for one via that knows the
target, and the seeks' `AtMostThree` and `Conclusive`, for which the distance would
have to be a parameter of the model.
