---------------------------- MODULE WindowProofs ----------------------------
(***************************************************************************)
(* Proofs about SlidingWindow, for every number of frames, every size of   *)
(* window and of buffer, and whatever the link corrupts or drops.          *)
(***************************************************************************)
EXTENDS SlidingWindow, SequenceLemmas

\* Types.
TypeInv ==
    /\ in1 \in Seq(Frame \cup {Hello}) /\ in2 \in Seq(Reply) /\ out1 \in Seq(Reply)
    /\ inside \in Seq(Link!Packet) /\ out2 \in Seq(Link!Packet)
    /\ window_size \in Windows /\ i \in Nat /\ in_queue \in Int
    /\ acks \in Nat /\ nacks \in Nat
    /\ phase \in {"start", "window", "slide", "freed", "drain", "done"}
    /\ r_phase \in {"start", "receive", "reply", "done"}
    /\ r_i \in Nat /\ r \in Reply
    /\ garbled \in Nat /\ lost \in Nat

\* Who is known to the link, and what can be on its way before that.
Known ==
    /\ phase = "start" => ~up1 /\ in1 = <<>>
    /\ phase # "start" => up2
    /\ ~up1 => /\ inside = <<>> /\ out2 = <<>> /\ out1 = <<>> /\ r_phase # "reply" /\ r_i = 0
               /\ phase # "start" => in1 # <<>>
               /\ up2 => in2 = <<>>
    /\ r_phase = "start" => ~up2 /\ in2 = <<>>
    /\ ~up2 /\ r_phase # "start" => Len(in2) = 1

\* The counters of the sender, in each of its loops.
Replies == acks + nacks
Slides == IF COUNT > window_size THEN COUNT - window_size ELSE 0
Loops ==
    /\ phase = "start" => in_queue = 0 /\ Replies = 0
    /\ phase = "window" => i < window_size /\ in_queue = i /\ Replies = 0
    /\ phase = "slide" => i < COUNT - window_size /\ in_queue = window_size /\ Replies = i
    /\ phase = "freed" =>
        i < COUNT - window_size /\ in_queue = window_size - 1 /\ Replies = i + 1
    /\ phase = "drain" =>
        i < window_size /\ in_queue = window_size - i /\ Replies = Slides + i
    /\ phase = "done" => in_queue = 0 /\ Replies = Slides + window_size

\* Replies answer frames: hello is for the link.
Kinds ==
    /\ \A k \in 1 .. Len(out1) : out1[k].kind # "hello"
    /\ up2 => \A k \in 1 .. Len(in2) : in2[k].kind # "hello"
    /\ r_phase = "reply" => r.kind # "hello"

\* What the receiver has answered is read by the sender or on its way to it.
Answered ==
    /\ r_i = Replies + Len(out1) + Len(in2) - Holds(r_phase # "start" /\ ~up2)
    /\ r_i <= COUNT
    /\ r_phase \in {"receive", "reply"} => r_i < COUNT

QueueInv == TypeInv /\ Known /\ Loops /\ Kinds /\ Answered /\ InQueueTruthful

-----------------------------------------------------------------------------
(* Where the loops of the sender go on.                                      *)

LEMMA AtDrainFacts ==
    ASSUME NEW k \in Nat, window_size \in Nat, GoTo(AtDrain(k))
    PROVE  /\ i' = k
           /\ k < window_size => phase' = "drain"
           /\ k >= window_size => phase' = "done"
BY DEF GoTo, AtDrain

LEMMA AtSlideFacts ==
    ASSUME NEW k \in Nat, window_size \in Nat, GoTo(AtSlide(k))
    PROVE  \/ k < COUNT - window_size /\ phase' = "slide" /\ i' = k
           \/ k >= COUNT - window_size /\ 0 < window_size /\ phase' = "drain" /\ i' = 0
           \/ k >= COUNT - window_size /\ window_size = 0 /\ phase' = "done" /\ i' = 0
<1>1. CASE k < COUNT - window_size
  BY <1>1 DEF GoTo, AtSlide
<1>2. CASE ~(k < COUNT - window_size)
  <2>1. GoTo(AtDrain(0))
    BY <1>2 DEF AtSlide
  <2>2. k >= COUNT - window_size
    BY <1>2, WindowAssumption
  <2> QED
    BY <2>1, <2>2, AtDrainFacts
<1> QED
  BY <1>1, <1>2

LEMMA AtWindowFacts ==
    ASSUME NEW k \in Nat, window_size \in Nat, GoTo(AtWindow(k))
    PROVE  \/ k < window_size /\ phase' = "window" /\ i' = k
           \/ k >= window_size /\ GoTo(AtSlide(0))
BY DEF GoTo, AtWindow

\* The facts about types that every step below needs.
LEMMA Typed ==
    ASSUME TypeInv
    PROVE  /\ Len(in1) \in Nat /\ Len(in2) \in Nat /\ Len(out1) \in Nat
           /\ Len(inside) \in Nat /\ Len(out2) \in Nat
           /\ window_size \in Nat /\ COUNT \in Nat
           /\ Len(in1) = 0 <=> in1 = <<>>
           /\ Len(in2) = 0 <=> in2 = <<>>
           /\ Len(out1) = 0 <=> out1 = <<>>
           /\ Len(inside) = 0 <=> inside = <<>>
           /\ Len(out2) = 0 <=> out2 = <<>>
BY WindowAssumption, EmptySeq DEF TypeInv

-----------------------------------------------------------------------------
(* The steps of the sender.                                                  *)

LEMMA StartSenderKeeps == ASSUME QueueInv, StartSender PROVE QueueInv'
<1>0. TypeInv /\ Known /\ Loops /\ Kinds /\ Answered /\ InQueueTruthful
  BY DEF QueueInv
<1>1. /\ phase = "start" /\ up2
      /\ in1' = Append(in1, Hello) /\ GoTo(AtWindow(0))
      /\ UNCHANGED <<up1, up2, in2, inside, out1, out2, window_size, in_queue, acks, nacks,
                     r_phase, r_i, r, garbled, lost>>
  BY DEF StartSender, Link!Send1, receiver, mishaps
<1>2. /\ phase' \in {"window", "slide", "drain", "done"} /\ i' = 0
      /\ phase' = "window" => 0 < window_size
      /\ phase' = "slide" => 0 < COUNT - window_size /\ window_size = 0
      /\ phase' # "drain"
      /\ phase' = "done" => window_size = 0 /\ Slides = 0
  BY <1>0, <1>1, Typed, AtWindowFacts, AtSlideFacts DEF Slides
<1>3. in1' \in Seq(Frame \cup {Hello}) /\ Len(in1') = 1 /\ in1' # <<>>
  BY <1>0, <1>1, Typed DEF TypeInv, Known
<1>4. TypeInv'
  BY <1>0, <1>1, <1>2, <1>3 DEF TypeInv
<1>5. Known'
  BY <1>0, <1>1, <1>2, <1>3 DEF Known
<1>6. Loops'
  BY <1>0, <1>1, <1>2, Typed DEF Loops, Replies, Slides
<1>7. Kinds' /\ Answered'
  BY <1>0, <1>1 DEF Kinds, Answered, Replies, Holds
<1>8. InQueueTruthful'
  BY <1>0, <1>1, <1>2, <1>3, Typed DEF InQueueTruthful, Outstanding, Holds, Known
<1> QED
  BY <1>4, <1>5, <1>6, <1>7, <1>8 DEF QueueInv

\* What is sent, and counted, once the link knows the sender.
LEMMA SendKeeps ==
    ASSUME QueueInv, NEW n \in Nat, Link!Send1(n), in_queue' = in_queue + 1,
           phase \in {"window", "freed"}, Loops', i' \in Nat,
           phase' \in {"window", "slide", "drain", "done"},
           UNCHANGED <<window_size, acks, nacks, r_phase, r_i, r, garbled, lost>>
    PROVE  QueueInv'
<1>0. TypeInv /\ Known /\ Loops /\ Kinds /\ Answered /\ InQueueTruthful
  BY DEF QueueInv
<1>1. in1' = Append(in1, n) /\ UNCHANGED <<up1, up2, in2, inside, out1, out2>>
  BY DEF Link!Send1
<1>3. in1' \in Seq(Frame \cup {Hello}) /\ Len(in1') = Len(in1) + 1 /\ in1' # <<>>
  BY <1>0, <1>1 DEF TypeInv, Frame
<1>4. TypeInv'
  BY <1>0, <1>1, <1>3 DEF TypeInv
<1>5. Known'
  BY <1>0, <1>1, <1>3 DEF Known
<1>7. Kinds' /\ Answered'
  BY <1>0, <1>1 DEF Kinds, Answered, Replies, Holds
<1>8. InQueueTruthful'
  BY <1>0, <1>1, <1>3, Typed, SMTT(30) DEF InQueueTruthful, Outstanding, Holds, TypeInv
<1> QED
  BY <1>4, <1>5, <1>7, <1>8 DEF QueueInv

LEMMA SendWindowKeeps == ASSUME QueueInv, SendWindow PROVE QueueInv'
<1>0. TypeInv /\ Loops
  BY DEF QueueInv
<1>1. /\ phase = "window" /\ Link!Send1(i) /\ in_queue' = in_queue + 1
      /\ GoTo(AtWindow(i + 1)) /\ i + 1 \in Nat
      /\ UNCHANGED <<window_size, acks, nacks, r_phase, r_i, r, garbled, lost>>
  BY <1>0 DEF SendWindow, receiver, mishaps, TypeInv
<1>2. i < window_size /\ in_queue = i /\ Replies = 0
  BY <1>0, <1>1 DEF Loops
<1>3. \/ i + 1 < window_size /\ phase' = "window" /\ i' = i + 1
      \/ i + 1 = window_size /\ 0 < COUNT - window_size /\ phase' = "slide" /\ i' = 0
      \/ i + 1 = window_size /\ 0 >= COUNT - window_size /\ phase' = "drain" /\ i' = 0
  BY <1>0, <1>1, <1>2, Typed, AtWindowFacts, AtSlideFacts DEF TypeInv
<1>4. Loops' /\ i' \in Nat /\ phase' \in {"window", "slide", "drain", "done"}
  BY <1>0, <1>1, <1>2, <1>3, Typed DEF Loops, Replies, Slides, TypeInv
<1> QED
  BY <1>0, <1>1, <1>4, SendKeeps DEF TypeInv

LEMMA SlideSendKeeps == ASSUME QueueInv, SlideSend PROVE QueueInv'
<1>0. TypeInv /\ Loops
  BY DEF QueueInv
<1>1. /\ phase = "freed" /\ Link!Send1(i + window_size) /\ in_queue' = in_queue + 1
      /\ GoTo(AtSlide(i + 1)) /\ i + 1 \in Nat
      /\ UNCHANGED <<window_size, acks, nacks, r_phase, r_i, r, garbled, lost>>
  BY <1>0 DEF SlideSend, receiver, mishaps, TypeInv
<1>2. i < COUNT - window_size /\ in_queue = window_size - 1 /\ Replies = i + 1
  BY <1>0, <1>1 DEF Loops
<1>3. i \in Nat /\ window_size \in Nat /\ COUNT \in Nat
  BY <1>0, Typed DEF TypeInv
<1>4. \/ i + 1 < COUNT - window_size /\ phase' = "slide" /\ i' = i + 1
      \/ i + 1 >= COUNT - window_size /\ 0 < window_size /\ phase' = "drain" /\ i' = 0
      \/ i + 1 >= COUNT - window_size /\ 0 = window_size /\ phase' = "done" /\ i' = 0
  BY <1>1, <1>3, AtSlideFacts
<1>5. i' \in Nat /\ phase' \in {"window", "slide", "drain", "done"}
  BY <1>3, <1>4
<1>6. Replies' = Replies /\ Slides' = Slides /\ Slides = COUNT - window_size
  BY <1>1, <1>2, <1>3 DEF Replies, Slides
<1>7. Loops'
  BY <1>1, <1>2, <1>3, <1>4, <1>6 DEF Loops
<1> QED
  BY <1>0, <1>1, <1>3, <1>5, <1>7, SendKeeps DEF TypeInv

\* One reply is read, which is an answer to a frame.
LEMMA ResponseKeeps ==
    ASSUME QueueInv, HandleResponse, phase \in {"slide", "drain"}, Replies' = Replies + 1 => Loops',
           i' \in Nat, phase' \in {"freed", "drain", "done"}
    PROVE  QueueInv'
<1>0. TypeInv /\ Known /\ Loops /\ Kinds /\ Answered /\ InQueueTruthful
  BY DEF QueueInv
<1>1. /\ out1 # <<>> /\ out1' = Tail(out1) /\ in_queue' = in_queue - 1
      /\ acks' = acks + (IF Head(out1).kind = "ACK" THEN 1 ELSE 0)
      /\ nacks' = nacks + (IF Head(out1).kind = "NACK" THEN 1 ELSE 0)
      /\ UNCHANGED <<up1, up2, in1, in2, inside, out2, window_size, r_phase, r_i, r,
                     garbled, lost>>
  BY DEF HandleResponse, receiver, mishaps
<1>2. /\ Head(out1) = out1[1] /\ out1' \in Seq(Reply) /\ Len(out1) \in Nat \ {0}
      /\ Len(out1') = Len(out1) - 1 /\ Head(out1) \in Reply
      /\ \A k \in 1 .. Len(out1) - 1 : out1'[k] = out1[k + 1]
  BY <1>0, <1>1, TailElements DEF TypeInv
<1>3. Head(out1).kind \in {"ACK", "NACK"}
  <2>1. Head(out1).kind \in {"ACK", "NACK", "hello"}
    BY <1>2 DEF Reply
  <2>2. Head(out1).kind # "hello"
    BY <1>0, <1>2 DEF Kinds
  <2> QED
    BY <2>1, <2>2
<1>4. Replies' = Replies + 1 /\ acks' \in Nat /\ nacks' \in Nat
  BY <1>0, <1>1, <1>3 DEF Replies, TypeInv
<1>5. TypeInv'
  BY <1>0, <1>1, <1>2, <1>4 DEF TypeInv
<1>6. Known'
  BY <1>0, <1>1 DEF Known
<1>7. Kinds'
  BY <1>0, <1>1, <1>2 DEF Kinds
<1>8. Answered'
  <2> DEFINE h == Holds(r_phase # "start" /\ ~up2)
  <2>1. h' = h /\ h \in Nat
    BY <1>1 DEF Holds
  <2>2. Replies \in Nat /\ Len(in2) \in Nat /\ r_i = Replies + Len(out1) + Len(in2) - h
    BY <1>0, Typed DEF Answered, Replies, TypeInv
  <2> HIDE DEF h
  <2>3. r_i' = Replies' + Len(out1') + Len(in2') - h'
    BY <1>1, <1>2, <1>4, <2>1, <2>2
  <2> QED
    BY <1>0, <1>1, <2>3 DEF Answered, h
<1>9. InQueueTruthful'
  BY <1>0, <1>1, <1>2, Typed DEF InQueueTruthful, Outstanding, Holds, TypeInv
<1> QED
  BY <1>4, <1>5, <1>6, <1>7, <1>8, <1>9 DEF QueueInv

LEMMA SlideReceiveKeeps == ASSUME QueueInv, SlideReceive PROVE QueueInv'
<1>0. TypeInv /\ Loops
  BY DEF QueueInv
<1>1. /\ phase = "slide" /\ phase' = "freed" /\ i' = i /\ HandleResponse
      /\ in_queue' = in_queue - 1 /\ window_size' = window_size
  BY DEF SlideReceive, HandleResponse
<1>2. Replies' = Replies + 1 => Loops'
  BY <1>0, <1>1, Typed DEF Loops, TypeInv
<1> QED
  BY <1>0, <1>1, <1>2, ResponseKeeps DEF TypeInv

LEMMA DrainReceiveKeeps == ASSUME QueueInv, DrainReceive PROVE QueueInv'
<1>0. TypeInv /\ Loops
  BY DEF QueueInv
<1>1. /\ phase = "drain" /\ GoTo(AtDrain(i + 1)) /\ HandleResponse /\ i + 1 \in Nat
      /\ in_queue' = in_queue - 1 /\ window_size' = window_size
  BY <1>0 DEF DrainReceive, HandleResponse, TypeInv
<1>2. i < window_size /\ in_queue = window_size - i /\ Replies = Slides + i
  BY <1>0, <1>1 DEF Loops
<1>3. \/ i + 1 < window_size /\ phase' = "drain" /\ i' = i + 1
      \/ i + 1 = window_size /\ phase' = "done" /\ i' = i + 1
  BY <1>0, <1>1, <1>2, Typed, AtDrainFacts, SMTT(30) DEF TypeInv
<1>4. Slides' = Slides /\ Slides \in Nat
  BY <1>0, <1>1, Typed DEF Slides
<1>5. i \in Nat /\ window_size \in Nat /\ Replies \in Nat
  BY <1>0, Typed DEF TypeInv, Replies
<1>6. Replies' = Replies + 1 => Loops'
  BY <1>1, <1>2, <1>3, <1>4, <1>5 DEF Loops
<1> QED
  BY <1>0, <1>1, <1>3, <1>6, ResponseKeeps DEF TypeInv

-----------------------------------------------------------------------------
(* The steps of the receiver.                                                *)

\* A step that leaves the sender alone leaves its loops alone.
LEMMA LoopsKept ==
    ASSUME Loops, UNCHANGED <<window_size, phase, i, in_queue, acks, nacks>>
    PROVE  Loops' /\ Replies' = Replies
BY DEF Loops, Replies, Slides

LEMMA StartReceiverKeeps == ASSUME QueueInv, StartReceiver PROVE QueueInv'
<1>0. TypeInv /\ Known /\ Loops /\ Kinds /\ Answered /\ InQueueTruthful
  BY DEF QueueInv
<1>1. /\ r_phase = "start" /\ in2' = Append(in2, HelloReply)
      /\ r_phase' = IF COUNT > 0 THEN "receive" ELSE "done"
      /\ UNCHANGED <<up1, up2, in1, inside, out1, out2, window_size, phase, i, in_queue,
                     acks, nacks, r_i, r, garbled, lost>>
  BY DEF StartReceiver, Link!Send2, sender, mishaps
<1>2. /\ ~up2 /\ in2 = <<>> /\ phase = "start" /\ ~up1
      /\ in1 = <<>> /\ inside = <<>> /\ out1 = <<>> /\ out2 = <<>> /\ r_i = 0
  BY <1>0, <1>1 DEF Known
<1>3. in2' \in Seq(Reply) /\ Len(in2') = 1
  BY <1>0, <1>1, <1>2 DEF TypeInv, Reply, HelloReply
<1>4. TypeInv'
  BY <1>0, <1>1, <1>3 DEF TypeInv
<1>5. Known'
  BY <1>0, <1>1, <1>2, <1>3 DEF Known
<1>6. Loops' /\ Replies' = Replies
  BY <1>0, <1>1, LoopsKept
<1>7. Kinds'
  BY <1>0, <1>1, <1>2 DEF Kinds
<1>8. Answered'
  BY <1>0, <1>1, <1>2, <1>3, <1>6, Typed DEF Answered, Holds, Loops
<1>9. InQueueTruthful'
  BY <1>0, <1>1, <1>2, <1>3, Typed DEF InQueueTruthful, Outstanding, Holds
<1> QED
  BY <1>4, <1>5, <1>6, <1>7, <1>8, <1>9 DEF QueueInv

\* The checksum says ACK for the frames that the link left alone, and no others.
LEMMA ChecksumTells ==
    ASSUME NEW packet, packet.ok \in BOOLEAN, NEW payload \in Arrived(packet)
    PROVE  payload[MSGSIZE] = checksum(payload) <=> packet.ok
<1>1. MSGSIZE \in Nat /\ MSGSIZE > 2 /\ MSGSIZE \in 1 .. MSGSIZE
  BY WindowAssumption
<1> DEFINE t == [k \in 1 .. MSGSIZE |-> 0]
<1>2. checksum(t) = 0
  <2>1. {k \in 1 .. MSGSIZE - 1 : t[k] = 1} = {}
    BY <1>1
  <2>2. checksum(t) = 0 % 2
    BY <2>1, FS_EmptySet, Zenon DEF checksum
  <2> QED
    BY <2>2
<1>3. Sent = t
  BY <1>1, <1>2 DEF Sent
<1>4. CASE packet.ok
  <2>1. payload = t
    BY <1>3, <1>4 DEF Arrived
  <2> QED
    BY <1>1, <1>2, <1>4, <2>1
<1>5. CASE ~packet.ok
  <2>1. PICK k \in 1 .. MSGSIZE : payload = [t EXCEPT ![k] = 1 - t[k]]
    BY <1>3, <1>5 DEF Arrived, Flipped
  <2>2. /\ payload[k] = 1 /\ \A j \in 1 .. MSGSIZE : j # k => payload[j] = 0
    BY <2>1
  <2>3. CASE k = MSGSIZE
    <3>1. {j \in 1 .. MSGSIZE - 1 : payload[j] = 1} = {}
      BY <1>1, <2>2, <2>3
    <3>2. checksum(payload) = 0
      BY <3>1, FS_EmptySet DEF checksum
    <3> QED
      BY <1>5, <2>2, <2>3, <3>2
  <2>4. CASE k # MSGSIZE
    <3>1. {j \in 1 .. MSGSIZE - 1 : payload[j] = 1} = {k}
      BY <1>1, <2>2, <2>4
    <3>2. Cardinality({k}) = 1
      BY FS_Singleton
    <3>3. checksum(payload) = 1 % 2
      BY <3>1, <3>2 DEF checksum
    <3> QED
      BY <1>1, <1>5, <2>2, <2>4, <3>3
  <2> QED
    BY <2>3, <2>4
<1> QED
  BY <1>4, <1>5

LEMMA ReceiveFrameKeeps == ASSUME QueueInv, ReceiveFrame PROVE QueueInv'
<1>0. TypeInv /\ Known /\ Loops /\ Kinds /\ Answered /\ InQueueTruthful
  BY DEF QueueInv
<1>1. /\ r_phase = "receive" /\ r_phase' = "reply" /\ out2 # <<>> /\ out2' = Tail(out2)
      /\ \E kind \in {"ACK", "NACK"} : r' = [kind |-> kind, of |-> Head(out2).val]
      /\ UNCHANGED <<up1, up2, in1, in2, inside, out1, window_size, phase, i, in_queue,
                     acks, nacks, r_i, garbled, lost>>
  BY DEF ReceiveFrame, sender, mishaps
<1>2. /\ Head(out2) \in Link!Packet /\ out2' \in Seq(Link!Packet) /\ Len(out2) \in Nat \ {0}
      /\ Len(out2') = Len(out2) - 1
  BY <1>0, <1>1, TailElements DEF TypeInv
<1>3. r' \in Reply /\ r'.kind # "hello"
  BY <1>1, <1>2 DEF Reply, Link!Packet
<1>4. TypeInv'
  BY <1>0, <1>1, <1>2, <1>3 DEF TypeInv
<1>5. Known'
  BY <1>0, <1>1 DEF Known
<1>6. Loops' /\ Replies' = Replies
  BY <1>0, <1>1, LoopsKept
<1>7. Kinds'
  BY <1>0, <1>1, <1>3 DEF Kinds
<1>8. Answered'
  BY <1>0, <1>1, <1>6 DEF Answered, Holds
<1>9. InQueueTruthful'
  BY <1>0, <1>1, <1>2, Typed DEF InQueueTruthful, Outstanding, Holds, TypeInv
<1> QED
  BY <1>4, <1>5, <1>6, <1>7, <1>8, <1>9 DEF QueueInv

LEMMA SendReplyKeeps == ASSUME QueueInv, SendReply PROVE QueueInv'
<1>0. TypeInv /\ Known /\ Loops /\ Kinds /\ Answered /\ InQueueTruthful
  BY DEF QueueInv
<1>1. /\ r_phase = "reply" /\ in2' = Append(in2, r) /\ r_i' = r_i + 1
      /\ r_phase' = IF r_i' < COUNT THEN "receive" ELSE "done"
      /\ UNCHANGED <<up1, up2, in1, inside, out1, out2, window_size, phase, i, in_queue,
                     acks, nacks, r, garbled, lost>>
  BY DEF SendReply, Link!Send2, sender, mishaps
<1>2. up1 /\ up2 /\ r.kind # "hello" /\ r_i < COUNT /\ r_i + 1 \in Nat
  BY <1>0, <1>1 DEF Known, Kinds, Answered, TypeInv
<1>3. /\ in2' \in Seq(Reply) /\ Len(in2) \in Nat /\ Len(in2') = Len(in2) + 1
      /\ \A k \in 1 .. Len(in2) : in2'[k] = in2[k]
      /\ in2'[Len(in2) + 1] = r
  BY <1>0, <1>1, AppendElements DEF TypeInv
<1>4. TypeInv'
  BY <1>0, <1>1, <1>2, <1>3 DEF TypeInv
<1>5. Known'
  BY <1>0, <1>1, <1>2 DEF Known
<1>6. Loops' /\ Replies' = Replies
  BY <1>0, <1>1, LoopsKept
<1>7. Kinds'
  BY <1>0, <1>1, <1>2, <1>3 DEF Kinds
<1>8. Answered'
  <2>1. Replies \in Nat /\ COUNT \in Nat
    BY <1>0, Typed DEF Replies, TypeInv
  <2>2. r_i = Replies + Len(out1) + Len(in2)
    BY <1>0, <1>2, Typed, <2>1 DEF Answered, Holds
  <2>3. r_i' = Replies' + Len(out1') + Len(in2') /\ r_i' <= COUNT
    BY <1>0, <1>1, <1>2, <1>3, <1>6, <2>1, <2>2, Typed DEF TypeInv
  <2> QED
    BY <1>1, <1>2, <1>4, <1>6, <2>1, <2>3, Typed DEF Answered, Holds, TypeInv
<1>9. InQueueTruthful'
  BY <1>0, <1>1, <1>2, <1>3, Typed DEF InQueueTruthful, Outstanding, Holds, TypeInv
<1> QED
  BY <1>4, <1>5, <1>6, <1>7, <1>8, <1>9 DEF QueueInv

-----------------------------------------------------------------------------
(* The steps of the link.                                                    *)

\* What is subtracted and added for where the two programs are.
Greeting1 == Holds(phase # "start" /\ ~up1)
Greeting2 == Holds(r_phase # "start" /\ ~up2)
Replying == Holds(r_phase = "reply")

LEMMA PlacesKept ==
    ASSUME UNCHANGED <<phase, r_phase, up1, up2>>
    PROVE  /\ UNCHANGED <<Greeting1, Greeting2, Replying>>
           /\ Greeting1 \in Nat /\ Greeting2 \in Nat /\ Replying \in Nat
BY DEF Greeting1, Greeting2, Replying, Holds

\* What is added to one term of the sum is taken from another.
LEMMA SumMoved ==
    ASSUME Len(in1) \in Int, Len(inside) \in Int, Len(out2) \in Int, Len(in2) \in Int,
           Len(out1) \in Int, lost \in Int,
           Len(in1') \in Int, Len(inside') \in Int, Len(out2') \in Int, Len(in2') \in Int,
           Len(out1') \in Int, lost' \in Int,
           Greeting1 \in Int, Greeting2 \in Int, Replying \in Int,
           Len(in1') + Len(inside') + Len(out2') + Len(in2') + Len(out1') + lost'
           = Len(in1) + Len(inside) + Len(out2) + Len(in2) + Len(out1) + lost
    PROVE  (Len(in1') - Greeting1) + Len(inside') + Len(out2') + Replying
           + (Len(in2') - Greeting2) + Len(out1') + lost'
           = (Len(in1) - Greeting1) + Len(inside) + Len(out2) + Replying
             + (Len(in2) - Greeting2) + Len(out1) + lost
OBVIOUS

\* A datagram that moves from one queue to the next, or is counted as lost.
LEMMA MovesTruthful ==
    ASSUME TypeInv, TypeInv', InQueueTruthful, UNCHANGED <<phase, r_phase, up1, up2, in_queue>>,
           Len(in1') + Len(inside') + Len(out2') + Len(in2') + Len(out1') + lost'
           = Len(in1) + Len(inside) + Len(out2) + Len(in2) + Len(out1) + lost
    PROVE  InQueueTruthful'
<1>1. /\ Len(in1) \in Int /\ Len(inside) \in Int /\ Len(out2) \in Int
      /\ Len(in2) \in Int /\ Len(out1) \in Int /\ lost \in Int
  BY Typed DEF TypeInv
<1>2. /\ Len(in1') \in Int /\ Len(inside') \in Int /\ Len(out2') \in Int
      /\ Len(in2') \in Int /\ Len(out1') \in Int /\ lost' \in Int
  <2>1. Len(in1') \in Int
    BY DEF TypeInv
  <2>2. Len(inside') \in Int
    BY DEF TypeInv
  <2>3. Len(out2') \in Int
    BY DEF TypeInv
  <2>4. Len(in2') \in Int
    BY DEF TypeInv
  <2>5. Len(out1') \in Int
    BY DEF TypeInv
  <2>6. lost' \in Int
    BY DEF TypeInv
  <2> QED
    BY <2>1, <2>2, <2>3, <2>4, <2>5, <2>6
<1>3. /\ Greeting1' = Greeting1 /\ Greeting2' = Greeting2 /\ Replying' = Replying
      /\ Greeting1 \in Int /\ Greeting2 \in Int /\ Replying \in Int
  BY PlacesKept
<1>4. (Len(in1') - Greeting1) + Len(inside') + Len(out2') + Replying
      + (Len(in2') - Greeting2) + Len(out1') + lost'
      = (Len(in1) - Greeting1) + Len(inside) + Len(out2) + Replying
        + (Len(in2) - Greeting2) + Len(out1) + lost
  BY <1>1, <1>2, <1>3, SumMoved, Zenon
<1>5. in_queue = (Len(in1) - Greeting1) + Len(inside) + Len(out2) + Replying
                 + (Len(in2) - Greeting2) + Len(out1) + lost
  BY Zenon DEF InQueueTruthful, Outstanding, Greeting1, Greeting2, Replying
<1>6. in_queue' = (Len(in1') - Greeting1') + Len(inside') + Len(out2') + Replying'
                  + (Len(in2') - Greeting2') + Len(out1') + lost'
  BY <1>3, <1>4, <1>5, Zenon
<1> QED
  BY <1>6, Zenon DEF InQueueTruthful, Outstanding, Greeting1, Greeting2, Replying

LEMMA Hello1Keeps ==
    ASSUME QueueInv, Link!Hello1, UNCHANGED <<sender, receiver, mishaps>>
    PROVE  QueueInv'
<1>0. TypeInv /\ Known /\ Loops /\ Kinds /\ Answered /\ InQueueTruthful
  BY DEF QueueInv
<1>1. /\ ~up1 /\ up1' /\ in1 # <<>> /\ in1' = Tail(in1)
      /\ UNCHANGED <<up2, in2, inside, out1, out2, window_size, phase, i, in_queue,
                     acks, nacks, r_phase, r_i, r, garbled, lost>>
  BY DEF Link!Hello1, sender, receiver, mishaps
<1>2. /\ in1' \in Seq(Frame \cup {Hello}) /\ Len(in1) \in Nat \ {0}
      /\ Len(in1') = Len(in1) - 1
  BY <1>0, <1>1, TailElements DEF TypeInv
<1>3. phase # "start" /\ up2
  BY <1>0, <1>1 DEF Known
<1>4. TypeInv'
  BY <1>0, <1>1, <1>2 DEF TypeInv
<1>5. Known'
  BY <1>0, <1>1, <1>3 DEF Known
<1>6. Loops' /\ Kinds' /\ Answered'
  BY <1>0, <1>1, LoopsKept DEF Kinds, Answered, Holds
<1>7. InQueueTruthful'
  BY <1>0, <1>1, <1>2, <1>3, Typed DEF InQueueTruthful, Outstanding, Holds, TypeInv
<1> QED
  BY <1>4, <1>5, <1>6, <1>7 DEF QueueInv

LEMMA Hello2Keeps ==
    ASSUME QueueInv, Link!Hello2, UNCHANGED <<sender, receiver, mishaps>>
    PROVE  QueueInv'
<1>0. TypeInv /\ Known /\ Loops /\ Kinds /\ Answered /\ InQueueTruthful
  BY DEF QueueInv
<1>1. /\ ~up2 /\ up2' /\ in2 # <<>> /\ in2' = Tail(in2)
      /\ UNCHANGED <<up1, in1, inside, out1, out2, window_size, phase, i, in_queue,
                     acks, nacks, r_phase, r_i, r, garbled, lost>>
  BY DEF Link!Hello2, sender, receiver, mishaps
<1>2. /\ in2' \in Seq(Reply) /\ Len(in2) = 1 /\ Len(in2') = 0 /\ r_phase # "start"
  BY <1>0, <1>1, TailElements DEF TypeInv, Known
<1>3. phase = "start" /\ ~up1 /\ in2' = <<>> /\ out1 = <<>>
  BY <1>0, <1>1, <1>2 DEF Known
<1>4. TypeInv'
  BY <1>0, <1>1, <1>2 DEF TypeInv
<1>5. Known'
  BY <1>0, <1>1, <1>2, <1>3 DEF Known
<1>6. Loops' /\ Replies' = Replies
  BY <1>0, <1>1, LoopsKept
<1>7. Kinds'
  BY <1>0, <1>1, <1>2 DEF Kinds
<1>8. Answered'
  BY <1>0, <1>1, <1>2, <1>6, Typed DEF Answered, Holds, TypeInv, Loops
<1>9. InQueueTruthful'
  <2>1. /\ Len(in1) = 0 /\ Len(inside) = 0 /\ Len(out2) = 0 /\ Len(out1) = 0
        /\ r_phase # "reply"
    BY <1>0, <1>3, Typed DEF Known
  <2>2. Outstanding = (0 - 0) + 0 + 0 + 0 + (1 - 1) + 0
    BY <1>1, <1>2, <1>3, <2>1 DEF Outstanding, Holds
  <2>3. Outstanding' = (0 - 0) + 0 + 0 + 0 + (0 - 0) + 0
    BY <1>1, <1>2, <1>3, <2>1 DEF Outstanding, Holds
  <2> QED
    BY <1>0, <1>1, <2>2, <2>3 DEF InQueueTruthful
<1> QED
  BY <1>4, <1>5, <1>6, <1>7, <1>8, <1>9 DEF QueueInv

LEMMA LoseKeeps ==
    ASSUME QueueInv, Link!Lose, lost' = lost + 1, UNCHANGED <<sender, receiver, garbled>>
    PROVE  QueueInv'
<1>0. TypeInv /\ Known /\ Loops /\ Kinds /\ Answered /\ InQueueTruthful
  BY DEF QueueInv
<1>1. /\ up1 /\ in1 # <<>> /\ in1' = Tail(in1) /\ lost' = lost + 1
      /\ UNCHANGED <<up1, up2, in2, inside, out1, out2, window_size, phase, i, in_queue,
                     acks, nacks, r_phase, r_i, r, garbled>>
  BY DEF Link!Lose, sender, receiver
<1>2. /\ in1' \in Seq(Frame \cup {Hello}) /\ Len(in1) \in Nat \ {0}
      /\ Len(in1') = Len(in1) - 1
  BY <1>0, <1>1, TailElements DEF TypeInv
<1>3. phase # "start"
  BY <1>0, <1>1 DEF Known
<1>4. TypeInv'
  BY <1>0, <1>1, <1>2 DEF TypeInv
<1>5. Known'
  BY <1>0, <1>1, <1>3 DEF Known
<1>6. Loops' /\ Kinds' /\ Answered'
  BY <1>0, <1>1, LoopsKept DEF Kinds, Answered, Holds
<1>7. InQueueTruthful'
  BY <1>0, <1>1, <1>2, <1>4, Typed, MovesTruthful DEF TypeInv
<1> QED
  BY <1>4, <1>5, <1>6, <1>7 DEF QueueInv

LEMMA EnterKeeps ==
    ASSUME QueueInv, NEW ok \in BOOLEAN, Link!Enter(ok), garbled' \in Nat,
           UNCHANGED <<sender, receiver, lost>>
    PROVE  QueueInv'
<1>0. TypeInv /\ Known /\ Loops /\ Kinds /\ Answered /\ InQueueTruthful
  BY DEF QueueInv
<1> DEFINE packet == [val |-> Head(in1), ok |-> ok]
<1>1. /\ up1 /\ in1 # <<>> /\ in1' = Tail(in1) /\ inside' = Append(inside, packet)
      /\ UNCHANGED <<up1, up2, in2, out1, out2, window_size, phase, i, in_queue,
                     acks, nacks, r_phase, r_i, r, lost>>
  BY DEF Link!Enter, sender, receiver
<1>2. /\ in1' \in Seq(Frame \cup {Hello}) /\ Len(in1) \in Nat \ {0}
      /\ Len(in1') = Len(in1) - 1 /\ Head(in1) \in Frame \cup {Hello}
  BY <1>0, <1>1, TailElements DEF TypeInv
<1>3. packet \in Link!Packet
  BY <1>2 DEF Link!Packet
<1> HIDE DEF packet
<1>4. inside' \in Seq(Link!Packet) /\ Len(inside') = Len(inside) + 1 /\ inside' # <<>>
  <2>1. inside \in Seq(Link!Packet)
    BY <1>0 DEF TypeInv
  <2>2. inside' \in Seq(Link!Packet) /\ Len(inside') = Len(inside) + 1 /\ Len(inside) \in Nat
    BY <1>1, <1>3, <2>1, AppendElements
  <2> QED
    BY <2>2
<1>5. phase # "start"
  BY <1>0, <1>1 DEF Known
<1>6. TypeInv'
  BY <1>0, <1>1, <1>2, <1>4 DEF TypeInv
<1>7. Known'
  BY <1>0, <1>1, <1>5 DEF Known
<1>8. Loops' /\ Kinds' /\ Answered'
  BY <1>0, <1>1, LoopsKept DEF Kinds, Answered, Holds
<1>9. InQueueTruthful'
  BY <1>0, <1>1, <1>2, <1>4, <1>6, Typed, MovesTruthful DEF TypeInv
<1> QED
  BY <1>6, <1>7, <1>8, <1>9 DEF QueueInv

\* Nothing is inside before both ends are known.
LEMMA LeaveKeeps ==
    ASSUME QueueInv, Link!Leave, UNCHANGED <<sender, receiver, mishaps>>
    PROVE  QueueInv'
<1>0. TypeInv /\ Known /\ Loops /\ Kinds /\ Answered /\ InQueueTruthful
  BY DEF QueueInv
<1>1. /\ inside # <<>> /\ inside' = Tail(inside)
      /\ out2' = IF up2 THEN Append(out2, Head(inside)) ELSE out2
      /\ UNCHANGED <<up1, up2, in1, in2, out1, window_size, phase, i, in_queue,
                     acks, nacks, r_phase, r_i, r, garbled, lost>>
  BY DEF Link!Leave, sender, receiver, mishaps
<1>2. up1 /\ up2 /\ phase # "start"
  BY <1>0, <1>1 DEF Known
<1>3. /\ inside' \in Seq(Link!Packet) /\ Len(inside) \in Nat \ {0}
      /\ Len(inside') = Len(inside) - 1 /\ Head(inside) \in Link!Packet
  BY <1>0, <1>1, TailElements DEF TypeInv
<1>4. out2' \in Seq(Link!Packet) /\ Len(out2') = Len(out2) + 1
  BY <1>0, <1>1, <1>2, <1>3 DEF TypeInv
<1>6. TypeInv'
  BY <1>0, <1>1, <1>3, <1>4 DEF TypeInv
<1>7. Known'
  BY <1>0, <1>1, <1>2 DEF Known
<1>8. Loops' /\ Kinds' /\ Answered'
  BY <1>0, <1>1, LoopsKept DEF Kinds, Answered, Holds
<1>9. InQueueTruthful'
  <2>1. Len(inside') = Len(inside) - 1 /\ Len(out2') = Len(out2) + 1
    BY <1>3, <1>4
  <2>2. /\ Len(in1') = Len(in1) /\ Len(in2') = Len(in2) /\ Len(out1') = Len(out1)
        /\ lost' = lost
    BY <1>1
  <2>3. /\ Len(in1) \in Int /\ Len(inside) \in Int /\ Len(out2) \in Int
        /\ Len(in2) \in Int /\ Len(out1) \in Int /\ lost \in Int
    BY <1>0, Typed DEF TypeInv
  <2>4. Len(in1') + Len(inside') + Len(out2') + Len(in2') + Len(out1') + lost'
        = Len(in1) + Len(inside) + Len(out2) + Len(in2) + Len(out1) + lost
    BY <2>1, <2>2, <2>3
  <2> QED
    BY <1>0, <1>1, <1>6, <2>4, MovesTruthful
<1> QED
  BY <1>6, <1>7, <1>8, <1>9 DEF QueueInv

\* A reply goes back only after the frame it answers has passed, so that the sender
\* is known.
LEMMA ReturnKeeps ==
    ASSUME QueueInv, Link!Return, UNCHANGED <<sender, receiver, mishaps>>
    PROVE  QueueInv'
<1>0. TypeInv /\ Known /\ Loops /\ Kinds /\ Answered /\ InQueueTruthful
  BY DEF QueueInv
<1>1. /\ up2 /\ in2 # <<>> /\ in2' = Tail(in2)
      /\ out1' = IF up1 THEN Append(out1, Head(in2)) ELSE out1
      /\ UNCHANGED <<up1, up2, in1, inside, out2, window_size, phase, i, in_queue,
                     acks, nacks, r_phase, r_i, r, garbled, lost>>
  BY DEF Link!Return, sender, receiver, mishaps
<1>2. up1 /\ phase # "start" /\ r_phase # "start"
  BY <1>0, <1>1 DEF Known
<1>3. /\ in2' \in Seq(Reply) /\ Len(in2) \in Nat \ {0} /\ Len(in2') = Len(in2) - 1
      /\ Head(in2) \in Reply /\ Head(in2) = in2[1]
      /\ \A k \in 1 .. Len(in2) - 1 : in2'[k] = in2[k + 1]
  BY <1>0, <1>1, TailElements DEF TypeInv
<1>4. /\ out1' \in Seq(Reply) /\ Len(out1) \in Nat /\ Len(out1') = Len(out1) + 1
      /\ \A k \in 1 .. Len(out1) : out1'[k] = out1[k]
      /\ out1'[Len(out1) + 1] = in2[1]
  BY <1>0, <1>1, <1>2, <1>3, AppendElements DEF TypeInv
<1>5. TypeInv'
  BY <1>0, <1>1, <1>3, <1>4 DEF TypeInv
<1>6. Known'
  BY <1>0, <1>1, <1>2 DEF Known
<1>7. Loops' /\ Replies' = Replies
  BY <1>0, <1>1, LoopsKept
<1>8. Kinds'
  <2>1. \A k \in 1 .. Len(in2) : in2[k].kind # "hello"
    BY <1>0, <1>1 DEF Kinds
  <2>2. \A k \in 1 .. Len(out1') : out1'[k].kind # "hello"
    BY <1>0, <1>3, <1>4, <2>1 DEF Kinds
  <2>3. \A k \in 1 .. Len(in2') : in2'[k].kind # "hello"
    BY <1>3, <2>1
  <2> QED
    BY <1>0, <1>1, <2>2, <2>3 DEF Kinds
<1>9. Answered'
  <2>1. Replies \in Nat
    BY <1>0 DEF Replies, TypeInv
  <2>2. r_i = Replies + Len(out1) + Len(in2)
    BY <1>0, <1>1, <2>1, Typed DEF Answered, Holds
  <2>3. r_i' = Replies' + Len(out1') + Len(in2')
    BY <1>1, <1>3, <1>4, <1>7, <2>1, <2>2
  <2> QED
    BY <1>0, <1>1, <1>3, <1>4, <1>7, <2>1, <2>3 DEF Answered, Holds
<1>10. InQueueTruthful'
  <2>1. Len(in2') = Len(in2) - 1 /\ Len(out1') = Len(out1) + 1
    BY <1>3, <1>4
  <2>2. /\ Len(in1') = Len(in1) /\ Len(inside') = Len(inside) /\ Len(out2') = Len(out2)
        /\ lost' = lost
    BY <1>1
  <2>3. /\ Len(in1) \in Int /\ Len(inside) \in Int /\ Len(out2) \in Int
        /\ Len(in2) \in Int /\ Len(out1) \in Int /\ lost \in Int
    BY <1>0, Typed DEF TypeInv
  <2>4. Len(in1') + Len(inside') + Len(out2') + Len(in2') + Len(out1') + lost'
        = Len(in1) + Len(inside) + Len(out2) + Len(in2) + Len(out1) + lost
    BY <2>1, <2>2, <2>3
  <2> QED
    BY <1>0, <1>1, <1>5, <2>4, MovesTruthful
<1> QED
  BY <1>5, <1>6, <1>7, <1>8, <1>9, <1>10 DEF QueueInv

\* A step that changes nothing but broken.
LEMMA SameKeeps ==
    ASSUME QueueInv, UNCHANGED <<up1, up2, in1, in2, inside, out1, out2>>,
           UNCHANGED <<sender, receiver, mishaps>>
    PROVE  QueueInv'
<1>1. UNCHANGED <<up1, up2, in1, in2, inside, out1, out2, window_size, phase, i, in_queue,
                  acks, nacks, r_phase, r_i, r, garbled, lost>>
  BY DEF sender, receiver, mishaps
<1> QED
  BY <1>1 DEF QueueInv, TypeInv, Known, Loops, Replies, Slides, Kinds, Answered,
              InQueueTruthful, Outstanding, Holds

-----------------------------------------------------------------------------
(* Every behaviour.                                                          *)

LEMMA NextQueue == ASSUME QueueInv, [Next]_vars PROVE QueueInv'
<1>1. CASE Sender
  BY <1>1, StartSenderKeeps, SendWindowKeeps, SlideReceiveKeeps, SlideSendKeeps,
     DrainReceiveKeeps DEF Sender
<1>2. CASE Receiver
  BY <1>2, StartReceiverKeeps, ReceiveFrameKeeps, SendReplyKeeps DEF Receiver
<1>3. CASE LinkForwards
  <2>1. UNCHANGED <<sender, receiver>>
    BY <1>3 DEF LinkForwards, Others
  <2>2. CASE Link!Hello1 /\ UNCHANGED mishaps
    BY <2>1, <2>2, Hello1Keeps
  <2>3. CASE Link!Lose /\ lost' = lost + 1 /\ UNCHANGED garbled
    BY <2>1, <2>3, LoseKeeps
  <2>4. ASSUME NEW ok \in BOOLEAN, Link!Enter(ok),
               garbled' = garbled + (IF ok THEN 0 ELSE 1) /\ UNCHANGED lost
        PROVE  QueueInv'
    <3>1. garbled' \in Nat
      BY <2>4 DEF QueueInv, TypeInv
    <3> QED
      BY <2>1, <2>4, <3>1, EnterKeeps
  <2> QED
    BY <1>3, <2>2, <2>3, <2>4 DEF LinkForwards
<1>4. CASE LinkDelivers
  BY <1>4, LeaveKeeps DEF LinkDelivers, Others
<1>5. CASE LinkReturns
  BY <1>5, Hello2Keeps, ReturnKeeps DEF LinkReturns, Others
<1>6. CASE LinkBreaks
  BY <1>6, SameKeeps DEF LinkBreaks, Others, Link!Break
<1>7. CASE UNCHANGED vars
  BY <1>7, SameKeeps DEF vars, link
<1> QED
  BY <1>1, <1>2, <1>3, <1>4, <1>5, <1>6, <1>7 DEF Next

LEMMA InitQueue == Init => QueueInv
<1> SUFFICES ASSUME Init PROVE QueueInv
  OBVIOUS
<1>1. /\ up1 = FALSE /\ up2 = FALSE /\ in1 = <<>> /\ in2 = <<>> /\ inside = <<>>
      /\ out1 = <<>> /\ out2 = <<>>
      /\ window_size \in Windows /\ phase = "start" /\ i = 0 /\ in_queue = 0 /\ acks = 0
      /\ nacks = 0 /\ r_phase = "start" /\ r_i = 0 /\ r = HelloReply
      /\ garbled = 0 /\ lost = 0
  BY DEF Init, Link!Init
<1>2. TypeInv
  BY <1>1 DEF TypeInv, HelloReply, Reply
<1>3. Known
  BY <1>1 DEF Known
<1>4. Loops /\ Replies = 0
  BY <1>1 DEF Loops, Replies
<1>5. Kinds
  BY <1>1 DEF Kinds
<1>6. Answered /\ InQueueTruthful
  BY <1>1, <1>4, WindowAssumption DEF Answered, InQueueTruthful, Outstanding, Holds
<1> QED
  BY <1>2, <1>3, <1>4, <1>5, <1>6 DEF QueueInv

LEMMA QueueInvariant == Spec => []QueueInv
BY InitQueue, NextQueue, PTL DEF Spec

\* The sender's count of frames without a reply is true: each of them, or its reply,
\* is at one place on the way, or was dropped by the link.
THEOREM CountTruthful == Spec => []InQueueTruthful
<1>1. QueueInv => InQueueTruthful
  BY DEF QueueInv
<1> QED
  BY <1>1, QueueInvariant, PTL

\* Whatever size of buffer a window does not exceed does not overflow.
THEOREM WindowFits == Spec => NothingLost
<1>1. QueueInv /\ [Next]_vars => [window_size <= BUFFER_SIZE => ~Link!Lose]_vars
  <2> SUFFICES ASSUME QueueInv, window_size <= BUFFER_SIZE, Link!Lose
               PROVE  FALSE
    OBVIOUS
  <2>0. TypeInv /\ Known /\ Loops /\ InQueueTruthful
    BY DEF QueueInv
  <2>1. up1 /\ in1 # <<>> /\ Len(inside) >= BUFFER_SIZE /\ phase # "start"
    BY <2>0 DEF Link!Lose, Known
  <2>2. in_queue <= window_size
    BY <2>0, <2>1, Typed DEF Loops, TypeInv
  <2>3. Len(in1) > 0 /\ Len(in2) >= Holds(r_phase # "start" /\ ~up2)
    BY <2>0, <2>1, Typed DEF Known, Holds
  <2>4. in_queue > Len(inside)
    BY <2>0, <2>1, <2>3, Typed DEF InQueueTruthful, Outstanding, Holds, TypeInv
  <2> QED
    BY <2>0, <2>1, <2>2, <2>4, Typed, WindowAssumption DEF TypeInv
<1> QED
  BY <1>1, QueueInvariant, PTL DEF Spec, NothingLost
-----------------------------------------------------------------------------
(* The order of the frames and of the replies.  As long as the link drops    *)
(* nothing, the frames on the way are numbered one after the other from the  *)
(* one the receiver reads next, and the replies from the one the sender      *)
(* reads next.                                                               *)

OfFrom(s, n) == \A k \in 1 .. Len(s) : s[k].of = n + k - 1
ValFrom(s, n) == \A k \in 1 .. Len(s) : s[k].val = n + k - 1
InFrom(s, n, g) == \A k \in 1 .. Len(s) : k > g => s[k] = n + k - 1 - g

\* The number of the first frame that is not read, and of the first not in the link.
Unread == r_i + Replying
Untaken == Unread + Len(out2) + Len(inside)

Numbers ==
    /\ OfFrom(out1, Replies)
    /\ up2 => OfFrom(in2, Replies + Len(out1))
    /\ r_phase = "reply" => r.of = r_i
    /\ ValFrom(out2, Unread)
    /\ ValFrom(inside, Unread + Len(out2))
    /\ InFrom(in1, Untaken, Greeting1)

NumberInv == lost = 0 => Numbers

LEMMA OfTail ==
    ASSUME NEW s \in Seq(Reply), s # <<>>, NEW n \in Int, OfFrom(s, n)
    PROVE  Head(s).of = n /\ OfFrom(Tail(s), n + 1)
<1>1. /\ Head(s) = s[1] /\ Len(s) \in Nat \ {0} /\ Len(Tail(s)) = Len(s) - 1
      /\ \A k \in 1 .. Len(s) - 1 : Tail(s)[k] = s[k + 1]
  BY TailElements
<1>2. \A k \in 1 .. Len(s) : s[k].of = n + k - 1
  BY DEF OfFrom
<1>3. s[1].of = n
  BY <1>1, <1>2
<1>4. ASSUME NEW k \in 1 .. Len(s) - 1
      PROVE  Tail(s)[k].of = (n + 1) + k - 1
  <2>1. k + 1 \in 1 .. Len(s) /\ Tail(s)[k] = s[k + 1]
    BY <1>1
  <2>2. s[k + 1].of = n + (k + 1) - 1
    BY <1>2, <2>1
  <2> QED
    BY <2>1, <2>2
<1> QED
  BY <1>1, <1>3, <1>4 DEF OfFrom

LEMMA OfAppend ==
    ASSUME NEW s \in Seq(Reply), NEW n \in Int, OfFrom(s, n),
           NEW x \in Reply, x.of = n + Len(s)
    PROVE  OfFrom(Append(s, x), n)
<1>1. /\ Len(s) \in Nat /\ Len(Append(s, x)) = Len(s) + 1
      /\ \A k \in 1 .. Len(s) : Append(s, x)[k] = s[k]
      /\ Append(s, x)[Len(s) + 1] = x
  BY AppendElements
<1>2. ASSUME NEW k \in 1 .. Len(s) + 1
      PROVE  Append(s, x)[k].of = n + k - 1
  <2>1. CASE k = Len(s) + 1
    BY <1>1, <2>1
  <2>2. CASE k # Len(s) + 1
    BY <1>1, <2>2 DEF OfFrom
  <2> QED
    BY <2>1, <2>2
<1> QED
  BY <1>1, <1>2 DEF OfFrom

LEMMA ValTail ==
    ASSUME NEW s \in Seq(Link!Packet), s # <<>>, NEW n \in Int, ValFrom(s, n)
    PROVE  Head(s).val = n /\ ValFrom(Tail(s), n + 1)
<1>1. /\ Head(s) = s[1] /\ Len(s) \in Nat \ {0} /\ Len(Tail(s)) = Len(s) - 1
      /\ \A k \in 1 .. Len(s) - 1 : Tail(s)[k] = s[k + 1]
  BY TailElements
<1>2. \A k \in 1 .. Len(s) : s[k].val = n + k - 1
  BY DEF ValFrom
<1>3. s[1].val = n
  BY <1>1, <1>2
<1>4. ASSUME NEW k \in 1 .. Len(s) - 1
      PROVE  Tail(s)[k].val = (n + 1) + k - 1
  <2>1. k + 1 \in 1 .. Len(s) /\ Tail(s)[k] = s[k + 1]
    BY <1>1
  <2>2. s[k + 1].val = n + (k + 1) - 1
    BY <1>2, <2>1
  <2> QED
    BY <2>1, <2>2
<1> QED
  BY <1>1, <1>3, <1>4 DEF ValFrom

LEMMA ValAppend ==
    ASSUME NEW s \in Seq(Link!Packet), NEW n \in Int, ValFrom(s, n),
           NEW x \in Link!Packet, x.val = n + Len(s)
    PROVE  ValFrom(Append(s, x), n)
<1>1. /\ Len(s) \in Nat /\ Len(Append(s, x)) = Len(s) + 1
      /\ \A k \in 1 .. Len(s) : Append(s, x)[k] = s[k]
      /\ Append(s, x)[Len(s) + 1] = x
  BY AppendElements
<1>2. ASSUME NEW k \in 1 .. Len(s) + 1
      PROVE  Append(s, x)[k].val = n + k - 1
  <2>1. CASE k = Len(s) + 1
    BY <1>1, <2>1
  <2>2. CASE k # Len(s) + 1
    BY <1>1, <2>2 DEF ValFrom
  <2> QED
    BY <2>1, <2>2
<1> QED
  BY <1>1, <1>2 DEF ValFrom

LEMMA InTail ==
    ASSUME NEW s \in Seq(Frame \cup {Hello}), s # <<>>, NEW n \in Int
    PROVE  /\ InFrom(s, n, 1) => InFrom(Tail(s), n, 0)
           /\ InFrom(s, n, 0) => Head(s) = n /\ InFrom(Tail(s), n + 1, 0)
<1>1. /\ Head(s) = s[1] /\ Len(s) \in Nat \ {0} /\ Len(Tail(s)) = Len(s) - 1
      /\ \A k \in 1 .. Len(s) - 1 : Tail(s)[k] = s[k + 1]
  BY TailElements
<1>2. ASSUME InFrom(s, n, 1) PROVE InFrom(Tail(s), n, 0)
  <2>1. ASSUME NEW k \in 1 .. Len(s) - 1
        PROVE  Tail(s)[k] = n + k - 1 - 0
    <3>1. k + 1 \in 1 .. Len(s) /\ k + 1 > 1 /\ Tail(s)[k] = s[k + 1]
      BY <1>1
    <3>2. s[k + 1] = n + (k + 1) - 1 - 1
      BY <1>2, <3>1 DEF InFrom
    <3> QED
      BY <3>1, <3>2
  <2> QED
    BY <1>1, <2>1 DEF InFrom
<1>3. ASSUME InFrom(s, n, 0) PROVE Head(s) = n /\ InFrom(Tail(s), n + 1, 0)
  <2>1. ASSUME NEW k \in 1 .. Len(s) PROVE s[k] = n + k - 1
    BY <1>1, <1>3 DEF InFrom
  <2>2. ASSUME NEW k \in 1 .. Len(s) - 1
        PROVE  Tail(s)[k] = (n + 1) + k - 1 - 0
    <3>1. k + 1 \in 1 .. Len(s) /\ Tail(s)[k] = s[k + 1]
      BY <1>1
    <3>2. s[k + 1] = n + (k + 1) - 1
      BY <2>1, <3>1
    <3> QED
      BY <3>1, <3>2
  <2>3. Head(s) = n
    BY <1>1, <2>1
  <2> QED
    BY <1>1, <2>2, <2>3 DEF InFrom
<1> QED
  BY <1>2, <1>3

LEMMA InAppend ==
    ASSUME NEW s \in Seq(Frame \cup {Hello}), NEW n \in Int, NEW g \in {0, 1}, InFrom(s, n, g),
           NEW x \in Frame \cup {Hello}, x = n + Len(s) - g
    PROVE  InFrom(Append(s, x), n, g)
<1>1. /\ Len(s) \in Nat /\ Len(Append(s, x)) = Len(s) + 1
      /\ \A k \in 1 .. Len(s) : Append(s, x)[k] = s[k]
      /\ Append(s, x)[Len(s) + 1] = x
  BY AppendElements
<1>2. ASSUME NEW k \in 1 .. Len(s) + 1, k > g
      PROVE  Append(s, x)[k] = n + k - 1 - g
  <2>1. CASE k = Len(s) + 1
    BY <1>1, <2>1
  <2>2. CASE k # Len(s) + 1
    BY <1>1, <1>2, <2>2 DEF InFrom
  <2> QED
    BY <2>1, <2>2
<1> QED
  BY <1>1, <1>2 DEF InFrom

\* What the steps below need to know of the types.
LEMMA NumberTypes ==
    ASSUME QueueInv
    PROVE  /\ Replies \in Int /\ r_i \in Int /\ in_queue \in Int
           /\ Greeting1 \in {0, 1} /\ Greeting2 \in {0, 1} /\ Replying \in {0, 1}
           /\ Unread \in Int /\ Untaken \in Int
           /\ Len(in1) \in Int /\ Len(in2) \in Int /\ Len(inside) \in Int
           /\ Len(out1) \in Int /\ Len(out2) \in Int
<1>1. TypeInv
  BY DEF QueueInv
<1>2. /\ Len(in1) \in Int /\ Len(in2) \in Int /\ Len(inside) \in Int
      /\ Len(out1) \in Int /\ Len(out2) \in Int
  BY <1>1, Typed
<1>3. r_i \in Int /\ acks \in Int /\ nacks \in Int /\ in_queue \in Int
  BY <1>1 DEF TypeInv
<1>4. Greeting1 \in {0, 1} /\ Greeting2 \in {0, 1} /\ Replying \in {0, 1}
  BY DEF Greeting1, Greeting2, Replying, Holds
<1>5. Replies \in Int
  BY <1>3 DEF Replies
<1>6. Unread \in Int
  BY <1>3, <1>4 DEF Unread
<1>7. Untaken \in Int
  BY <1>2, <1>6 DEF Untaken
<1> QED
  BY <1>2, <1>3, <1>4, <1>5, <1>6, <1>7

\* The number of the frame that is sent next.
LEMMA NextNumber ==
    ASSUME QueueInv, lost = 0, phase # "start"
    PROVE  Replies + in_queue = Untaken + Len(in1) - Greeting1
<1>1. in_queue = (Len(in1) - Greeting1) + Len(inside) + Len(out2) + Replying
                 + (Len(in2) - Greeting2) + Len(out1) + 0
  BY Zenon DEF QueueInv, InQueueTruthful, Outstanding, Greeting1, Greeting2, Replying
<1>2. r_i = Replies + Len(out1) + Len(in2) - Greeting2
  BY Zenon DEF QueueInv, Answered, Greeting2
<1>3. Greeting2 \in Int /\ Greeting1 \in Int /\ Replying \in Int
  BY NumberTypes
<1>4. Replies + in_queue
      = (Len(in1) - Greeting1) + Len(inside) + Len(out2) + Replying
        + (Replies + Len(out1) + Len(in2) - Greeting2)
  BY <1>1, <1>3, NumberTypes
<1>5. Replies + in_queue
      = (Len(in1) - Greeting1) + Len(inside) + Len(out2) + Replying + r_i
  BY <1>2, <1>4, Zenon
<1> QED
  BY <1>3, <1>5, NumberTypes, SMTT(30) DEF Untaken, Unread

LEMMA StartSenderNumbers == ASSUME QueueInv, Numbers, StartSender PROVE Numbers'
<1>1. /\ phase = "start" /\ in1' = Append(in1, Hello) /\ phase' # "start"
      /\ UNCHANGED <<up1, up2, in2, inside, out1, out2, acks, nacks, r_phase, r_i, r>>
  BY DEF StartSender, Link!Send1, receiver, GoTo, AtWindow, AtSlide, AtDrain
<1>2. ~up1 /\ in1 = <<>>
  BY <1>1 DEF QueueInv, Known
<1>3. Len(in1') = 1 /\ Greeting1' = 1
  BY <1>1, <1>2 DEF Greeting1, Holds
<1>4. InFrom(in1', Untaken', Greeting1')
  BY <1>3 DEF InFrom
<1> QED
  BY <1>1, <1>4 DEF Numbers, Replies, Unread, Replying

LEMMA SendNumbers ==
    ASSUME QueueInv, Numbers, lost = 0, phase # "start", phase' # "start",
           NEW n \in Nat, Link!Send1(n), n = Replies + in_queue,
           UNCHANGED <<acks, nacks, r_phase, r_i, r>>
    PROVE  Numbers'
<1>1. in1' = Append(in1, n) /\ UNCHANGED <<up1, up2, in2, inside, out1, out2>>
  BY DEF Link!Send1
<1>2. Greeting1' = Greeting1 /\ Replying' = Replying /\ Replies' = Replies
      /\ Unread' = Unread /\ Untaken' = Untaken
  BY <1>1 DEF Greeting1, Replying, Replies, Unread, Untaken
<1>3. in1 \in Seq(Frame \cup {Hello}) /\ n \in Frame \cup {Hello}
  BY DEF QueueInv, TypeInv, Frame
<1>4. InFrom(in1, Untaken, Greeting1) /\ n = Untaken + Len(in1) - Greeting1
  BY NextNumber DEF Numbers
<1>5. InFrom(in1', Untaken, Greeting1)
  BY <1>1, <1>3, <1>4, NumberTypes, InAppend
<1> QED
  BY <1>1, <1>2, <1>5 DEF Numbers

LEMMA ResponseNumbers ==
    ASSUME QueueInv, Numbers, HandleResponse, phase # "start", phase' # "start"
    PROVE  Numbers' /\ Head(out1).of = Replies
<1>1. /\ out1 # <<>> /\ out1' = Tail(out1)
      /\ acks' = acks + (IF Head(out1).kind = "ACK" THEN 1 ELSE 0)
      /\ nacks' = nacks + (IF Head(out1).kind = "NACK" THEN 1 ELSE 0)
      /\ UNCHANGED <<up1, up2, in1, in2, inside, out2, r_phase, r_i, r>>
  BY DEF HandleResponse, receiver
<1>2. /\ out1 \in Seq(Reply) /\ Head(out1) = out1[1] /\ Head(out1) \in Reply
      /\ Len(out1) \in Nat \ {0} /\ Len(out1') = Len(out1) - 1
  BY <1>1, TailElements DEF QueueInv, TypeInv
<1>3. Replies' = Replies + 1
  <2>1. Head(out1).kind # "hello"
    BY <1>2 DEF QueueInv, Kinds
  <2>2. Head(out1).kind \in {"ACK", "NACK", "hello"}
    BY <1>2 DEF Reply
  <2>3. acks \in Int /\ nacks \in Int
    BY DEF QueueInv, TypeInv
  <2> QED
    BY <1>1, <2>1, <2>2, <2>3 DEF Replies
<1>4. Head(out1).of = Replies /\ OfFrom(out1', Replies')
  BY <1>1, <1>2, <1>3, NumberTypes, OfTail DEF Numbers
<1>5. Replies' + Len(out1') = Replies + Len(out1)
  BY <1>2, <1>3, NumberTypes
<1>6. up2' => OfFrom(in2', Replies' + Len(out1'))
  BY <1>1, <1>5 DEF Numbers
<1>7. Greeting1' = Greeting1 /\ Unread' = Unread /\ Untaken' = Untaken
  BY <1>1 DEF Greeting1, Unread, Untaken, Replying
<1> QED
  BY <1>1, <1>4, <1>6, <1>7 DEF Numbers

LEMMA StartReceiverNumbers == ASSUME QueueInv, Numbers, StartReceiver PROVE Numbers'
<1>1. /\ r_phase = "start" /\ r_phase' \notin {"start", "reply"} /\ in2' = Append(in2, HelloReply)
      /\ UNCHANGED <<up1, up2, in1, inside, out1, out2, phase, acks, nacks, r_i, r>>
  BY DEF StartReceiver, Link!Send2, sender
<1>2. ~up2
  BY <1>1 DEF QueueInv, Known
<1>3. Greeting1' = Greeting1 /\ Replying' = 0 /\ Replying = 0 /\ Replies' = Replies
  BY <1>1 DEF Greeting1, Replying, Replies, Holds
<1>4. Unread' = Unread /\ Untaken' = Untaken
  BY <1>1, <1>3 DEF Unread, Untaken
<1> QED
  BY <1>1, <1>2, <1>3, <1>4 DEF Numbers

LEMMA ReceiveFrameNumbers == ASSUME QueueInv, Numbers, ReceiveFrame PROVE Numbers'
<1>1. /\ r_phase = "receive" /\ r_phase' = "reply" /\ out2 # <<>> /\ out2' = Tail(out2)
      /\ r'.of = Head(out2).val
      /\ UNCHANGED <<up1, up2, in1, in2, inside, out1, phase, acks, nacks, r_i>>
  BY DEF ReceiveFrame, sender
<1>2. Len(out2) \in Nat \ {0} /\ Len(out2') = Len(out2) - 1 /\ out2 \in Seq(Link!Packet)
  BY <1>1, TailElements DEF QueueInv, TypeInv
<1>3. Greeting1' = Greeting1 /\ Replying' = 1 /\ Replying = 0 /\ Replies' = Replies
  BY <1>1 DEF Greeting1, Replying, Replies, Holds
<1>4. Unread = r_i /\ Unread' = Unread + 1
  BY <1>1, <1>3, NumberTypes DEF Unread
<1>5. Unread' + Len(out2') = Unread + Len(out2)
  BY <1>2, <1>4, NumberTypes
<1>6. Untaken' = Untaken
  BY <1>1, <1>5 DEF Untaken
<1>7. Head(out2).val = Unread /\ ValFrom(out2', Unread')
  BY <1>1, <1>2, <1>4, NumberTypes, ValTail DEF Numbers
<1> QED
  BY <1>1, <1>3, <1>4, <1>5, <1>6, <1>7 DEF Numbers

LEMMA SendReplyNumbers == ASSUME QueueInv, Numbers, SendReply PROVE Numbers'
<1>1. /\ r_phase = "reply" /\ r_phase' # "reply" /\ in2' = Append(in2, r) /\ r_i' = r_i + 1
      /\ UNCHANGED <<up1, up2, in1, inside, out1, out2, phase, acks, nacks, r>>
  BY DEF SendReply, Link!Send2, sender
<1>2. up2
  BY <1>1 DEF QueueInv, Known
<1>3. Greeting1' = Greeting1 /\ Replying' = 0 /\ Replying = 1 /\ Replies' = Replies /\ Greeting2 = 0
  BY <1>1, <1>2 DEF Greeting1, Greeting2, Replying, Replies, Holds
<1>4. Unread' = Unread /\ Untaken' = Untaken
  <2>1. Unread' = Unread
    BY <1>1, <1>3, NumberTypes DEF Unread
  <2> QED
    BY <1>1, <2>1 DEF Untaken
<1>5. r_i = Replies + Len(out1) + Len(in2) - Greeting2
  BY Zenon DEF QueueInv, Answered, Greeting2
<1>6. r.of = (Replies + Len(out1)) + Len(in2) /\ Replies + Len(out1) \in Int
  BY <1>1, <1>3, <1>5, NumberTypes DEF Numbers
<1>7. in2 \in Seq(Reply) /\ r \in Reply
  BY DEF QueueInv, TypeInv
<1>8. OfFrom(in2', Replies + Len(out1))
  BY <1>1, <1>2, <1>6, <1>7, OfAppend DEF Numbers
<1> QED
  BY <1>1, <1>3, <1>4, <1>8 DEF Numbers

LEMMA Hello1Numbers ==
    ASSUME QueueInv, Numbers, Link!Hello1, UNCHANGED <<sender, receiver>>
    PROVE  Numbers'
<1>1. /\ ~up1 /\ up1' /\ in1 # <<>> /\ in1' = Tail(in1)
      /\ UNCHANGED <<up2, in2, inside, out1, out2, phase, acks, nacks, r_phase, r_i, r>>
  BY DEF Link!Hello1, sender, receiver
<1>2. phase # "start" /\ in1 \in Seq(Frame \cup {Hello})
  BY <1>1 DEF QueueInv, Known, TypeInv
<1>3. Greeting1 = 1 /\ Greeting1' = 0 /\ Replying' = Replying /\ Replies' = Replies
  BY <1>1, <1>2 DEF Greeting1, Replying, Replies, Holds
<1>4. Unread' = Unread /\ Untaken' = Untaken
  BY <1>1, <1>3 DEF Unread, Untaken
<1>5. InFrom(in1', Untaken, 0)
  BY <1>1, <1>2, <1>3, NumberTypes, InTail DEF Numbers
<1> QED
  BY <1>1, <1>3, <1>4, <1>5 DEF Numbers

LEMMA Hello2Numbers ==
    ASSUME QueueInv, Numbers, Link!Hello2, UNCHANGED <<sender, receiver>>
    PROVE  Numbers'
<1>1. /\ ~up2 /\ in2 # <<>> /\ in2' = Tail(in2)
      /\ UNCHANGED <<up1, in1, inside, out1, out2, phase, acks, nacks, r_phase, r_i, r>>
  BY DEF Link!Hello2, sender, receiver
<1>2. Len(in2) = 1 /\ Len(in2') = 0
  BY <1>1, TailElements DEF QueueInv, Known, TypeInv
<1>3. OfFrom(in2', (Replies + Len(out1))')
  BY <1>2 DEF OfFrom
<1>4. Greeting1' = Greeting1 /\ Replying' = Replying /\ Replies' = Replies
  BY <1>1 DEF Greeting1, Replying, Replies
<1>5. Unread' = Unread /\ Untaken' = Untaken
  BY <1>1, <1>4 DEF Unread, Untaken
<1> QED
  BY <1>1, <1>3, <1>4, <1>5 DEF Numbers

LEMMA EnterNumbers ==
    ASSUME QueueInv, Numbers, NEW ok \in BOOLEAN, Link!Enter(ok), UNCHANGED <<sender, receiver>>
    PROVE  Numbers'
<1> DEFINE packet == [val |-> Head(in1), ok |-> ok]
<1>1. /\ up1 /\ in1 # <<>> /\ in1' = Tail(in1) /\ inside' = Append(inside, packet)
      /\ UNCHANGED <<up1, up2, in2, out1, out2, phase, acks, nacks, r_phase, r_i, r>>
  BY DEF Link!Enter, sender, receiver
<1>2. in1 \in Seq(Frame \cup {Hello}) /\ inside \in Seq(Link!Packet)
  BY DEF QueueInv, TypeInv
<1>3. Greeting1 = 0 /\ Greeting1' = 0 /\ Replying' = Replying /\ Replies' = Replies
  BY <1>1 DEF Greeting1, Replying, Replies, Holds
<1>4. Head(in1) = Untaken /\ InFrom(in1', Untaken + 1, 0)
  BY <1>1, <1>2, <1>3, NumberTypes, InTail DEF Numbers
<1>5. packet \in Link!Packet /\ packet.val = Untaken
  BY <1>1, <1>2, <1>4, TailElements DEF Link!Packet
<1> HIDE DEF packet
<1>6. Unread' = Unread
  BY <1>1, <1>3 DEF Unread
<1>7. Len(inside') = Len(inside) + 1
  BY <1>1, <1>2, <1>5, AppendElements
<1>8. Untaken' = Untaken + 1
  BY <1>1, <1>6, <1>7, NumberTypes DEF Untaken
<1>9. ValFrom(inside', Unread + Len(out2))
  <2>1. ValFrom(inside, Unread + Len(out2)) /\ Unread + Len(out2) \in Int
    BY NumberTypes DEF Numbers
  <2>2. packet.val = (Unread + Len(out2)) + Len(inside)
    BY <1>5 DEF Untaken
  <2> QED
    BY <1>1, <1>2, <1>5, <2>1, <2>2, ValAppend
<1> QED
  BY <1>1, <1>3, <1>4, <1>6, <1>8, <1>9 DEF Numbers

LEMMA LeaveNumbers ==
    ASSUME QueueInv, Numbers, Link!Leave, UNCHANGED <<sender, receiver>>
    PROVE  Numbers'
<1>1. /\ inside # <<>> /\ inside' = Tail(inside)
      /\ out2' = IF up2 THEN Append(out2, Head(inside)) ELSE out2
      /\ UNCHANGED <<up1, up2, in1, in2, out1, phase, acks, nacks, r_phase, r_i, r>>
  BY DEF Link!Leave, sender, receiver
<1>2. up2 /\ inside \in Seq(Link!Packet) /\ out2 \in Seq(Link!Packet)
  BY <1>1 DEF QueueInv, Known, TypeInv
<1>3. Greeting1' = Greeting1 /\ Replying' = Replying /\ Replies' = Replies /\ Unread' = Unread
  BY <1>1 DEF Greeting1, Replying, Replies, Unread
<1>4. Head(inside) \in Link!Packet /\ Len(inside') = Len(inside) - 1
  BY <1>1, <1>2, TailElements
<1>5. Len(out2') = Len(out2) + 1
  BY <1>1, <1>2, <1>4, AppendElements
<1>6. /\ ValFrom(inside, Unread + Len(out2)) /\ ValFrom(out2, Unread)
      /\ Unread + Len(out2) \in Int /\ Unread \in Int
  BY NumberTypes DEF Numbers
<1>7. Head(inside).val = Unread + Len(out2) /\ ValFrom(inside', (Unread + Len(out2)) + 1)
  BY <1>1, <1>2, <1>6, ValTail
<1>8. Unread' + Len(out2') = (Unread + Len(out2)) + 1
  BY <1>3, <1>5, NumberTypes
<1>9. ValFrom(out2', Unread)
  BY <1>1, <1>2, <1>4, <1>6, <1>7, ValAppend
<1>10. Untaken' = Untaken
  <2>1. Untaken' = (Unread' + Len(out2')) + Len(inside')
    BY DEF Untaken
  <2>2. Untaken' = ((Unread + Len(out2)) + 1) + (Len(inside) - 1)
    BY <1>4, <1>8, <2>1
  <2> QED
    BY <2>2, NumberTypes DEF Untaken
<1> QED
  BY <1>1, <1>3, <1>7, <1>8, <1>9, <1>10 DEF Numbers

LEMMA ReturnNumbers ==
    ASSUME QueueInv, Numbers, Link!Return, UNCHANGED <<sender, receiver>>
    PROVE  Numbers'
<1>1. /\ up2 /\ in2 # <<>> /\ in2' = Tail(in2)
      /\ out1' = IF up1 THEN Append(out1, Head(in2)) ELSE out1
      /\ UNCHANGED <<up1, up2, in1, inside, out2, phase, acks, nacks, r_phase, r_i, r>>
  BY DEF Link!Return, sender, receiver
<1>2. up1 /\ in2 \in Seq(Reply) /\ out1 \in Seq(Reply)
  BY <1>1 DEF QueueInv, Known, TypeInv
<1>3. /\ Greeting1' = Greeting1 /\ Replying' = Replying /\ Replies' = Replies
      /\ Unread' = Unread /\ Untaken' = Untaken
  BY <1>1 DEF Greeting1, Replying, Replies, Unread, Untaken
<1>4. Head(in2) \in Reply /\ Len(in2') = Len(in2) - 1
  BY <1>1, <1>2, TailElements
<1>5. Len(out1') = Len(out1) + 1
  BY <1>1, <1>2, <1>4, AppendElements
<1>6. /\ OfFrom(in2, Replies + Len(out1)) /\ OfFrom(out1, Replies)
      /\ Replies + Len(out1) \in Int /\ Replies \in Int
  BY <1>1, NumberTypes DEF Numbers
<1>7. Head(in2).of = Replies + Len(out1) /\ OfFrom(in2', (Replies + Len(out1)) + 1)
  BY <1>1, <1>2, <1>6, OfTail
<1>8. Replies' + Len(out1') = (Replies + Len(out1)) + 1
  BY <1>3, <1>5, NumberTypes
<1>9. OfFrom(out1', Replies)
  BY <1>1, <1>2, <1>4, <1>6, <1>7, OfAppend
<1> QED
  BY <1>1, <1>3, <1>7, <1>8, <1>9 DEF Numbers

LEMMA SameNumbers ==
    ASSUME Numbers, UNCHANGED <<up1, up2, in1, in2, inside, out1, out2>>,
           UNCHANGED <<sender, receiver>>
    PROVE  Numbers'
BY DEF sender, receiver, Numbers, Unread, Untaken, Replying, Replies, Greeting1

\* What the sender sends from its loops is the next frame.
LEMMA SenderNumbers == ASSUME QueueInv, Numbers, lost = 0, Sender PROVE Numbers'
<1>0. TypeInv /\ Loops
  BY DEF QueueInv
<1>1. CASE StartSender
  BY <1>1, StartSenderNumbers
<1>2. CASE SendWindow
  <2>1. /\ phase = "window" /\ Link!Send1(i) /\ i \in Nat /\ phase' # "start"
        /\ UNCHANGED <<acks, nacks, r_phase, r_i, r>>
    BY <1>0, <1>2 DEF SendWindow, receiver, TypeInv, GoTo, AtWindow, AtSlide, AtDrain
  <2>2. i = Replies + in_queue
    BY <1>0, <2>1 DEF Loops
  <2> QED
    BY <2>1, <2>2, SendNumbers
<1>3. CASE SlideReceive
  BY <1>3, ResponseNumbers DEF SlideReceive
<1>4. CASE SlideSend
  <2>1. /\ phase = "freed" /\ Link!Send1(i + window_size) /\ i + window_size \in Nat
        /\ phase' # "start" /\ UNCHANGED <<acks, nacks, r_phase, r_i, r>>
    BY <1>0, <1>4, Typed DEF SlideSend, receiver, TypeInv, GoTo, AtSlide, AtDrain
  <2>2. i + window_size = Replies + in_queue
    BY <1>0, <2>1, Typed DEF Loops, TypeInv
  <2> QED
    BY <2>1, <2>2, SendNumbers
<1>5. CASE DrainReceive
  <2>1. phase = "drain" /\ phase' # "start" /\ HandleResponse
    BY <1>5 DEF DrainReceive, GoTo, AtDrain
  <2> QED
    BY <2>1, ResponseNumbers
<1> QED
  BY <1>1, <1>2, <1>3, <1>4, <1>5 DEF Sender

LEMMA NextNumbers == ASSUME QueueInv, NumberInv, [Next]_vars PROVE NumberInv'
<1> SUFFICES ASSUME lost' = 0 PROVE Numbers'
  BY DEF NumberInv
<1>1. lost = 0
  <2>1. lost \in Nat
    BY DEF QueueInv, TypeInv
  <2>2. lost' = lost \/ lost' = lost + 1
    BY DEF Next, Sender, StartSender, SendWindow, SlideReceive, SlideSend, DrainReceive,
           HandleResponse, Receiver, StartReceiver, ReceiveFrame, SendReply, LinkForwards,
           LinkDelivers, LinkReturns, LinkBreaks, mishaps, vars
  <2> QED
    BY <2>1, <2>2
<1>2. Numbers
  BY <1>1 DEF NumberInv
<1>3. CASE Sender
  BY <1>1, <1>2, <1>3, SenderNumbers
<1>4. CASE Receiver
  BY <1>2, <1>4, StartReceiverNumbers, ReceiveFrameNumbers, SendReplyNumbers DEF Receiver
<1>5. CASE LinkForwards
  <2>1. UNCHANGED <<sender, receiver>>
    BY <1>5 DEF LinkForwards, Others
  <2>2. ~(lost' = lost + 1)
    BY <1>1
  <2> QED
    BY <1>2, <1>5, <2>1, <2>2, Hello1Numbers, EnterNumbers DEF LinkForwards
<1>6. CASE LinkDelivers
  BY <1>2, <1>6, LeaveNumbers DEF LinkDelivers, Others
<1>7. CASE LinkReturns
  BY <1>2, <1>7, Hello2Numbers, ReturnNumbers DEF LinkReturns, Others
<1>8. CASE LinkBreaks
  BY <1>2, <1>8, SameNumbers DEF LinkBreaks, Others, Link!Break
<1>9. CASE UNCHANGED vars
  BY <1>2, <1>9, SameNumbers DEF vars, link
<1> QED
  BY <1>3, <1>4, <1>5, <1>6, <1>7, <1>8, <1>9 DEF Next

LEMMA InitNumbers == Init => NumberInv
<1> SUFFICES ASSUME Init PROVE Numbers
  BY DEF NumberInv
<1>1. /\ in1 = <<>> /\ in2 = <<>> /\ inside = <<>> /\ out1 = <<>> /\ out2 = <<>>
      /\ r_phase = "start"
  BY DEF Init, Link!Init
<1> QED
  BY <1>1 DEF Numbers, OfFrom, ValFrom, InFrom

\* As long as nothing was lost the sender is told the frame that a reply is about.
THEOREM OrderKept == Spec => RepliesNumbered
<1> DEFINE Told == /\ lost = 0 /\ window_size <= COUNT
                   /\ out1' # out1 /\ Len(out1') < Len(out1)
                   => Head(out1).of = FrameNumber
<1>1. QueueInv /\ NumberInv /\ [Next]_vars => [Told]_vars
  <2> SUFFICES ASSUME QueueInv, NumberInv, Next, lost = 0, window_size <= COUNT,
                      out1' # out1, Len(out1') < Len(out1)
               PROVE  Head(out1).of = FrameNumber
    OBVIOUS
  <2>0. TypeInv /\ Loops /\ Numbers
    BY DEF QueueInv, NumberInv
  <2>1. SlideReceive \/ DrainReceive
    <3>1. ~Link!Return
      <4> SUFFICES ASSUME Link!Return PROVE FALSE
        OBVIOUS
      <4>1. out1 \in Seq(Reply) /\ in2 \in Seq(Reply) /\ in2 # <<>>
        BY <2>0 DEF TypeInv, Link!Return
      <4>2. out1' = Append(out1, Head(in2)) /\ Head(in2) \in Reply
        BY <4>1, TailElements DEF Link!Return
      <4>3. Len(out1') = Len(out1) + 1 /\ Len(out1) \in Nat
        BY <4>1, <4>2, AppendElements
      <4> QED
        BY <4>3
    <3> QED
      BY <3>1 DEF Next, Sender, StartSender, SendWindow, SlideSend, Link!Send1, Receiver,
                  StartReceiver, ReceiveFrame, SendReply, Link!Send2, LinkForwards,
                  Link!Hello1, Link!Lose, Link!Enter, LinkDelivers, Link!Leave,
                  LinkReturns, Link!Hello2, LinkBreaks, Link!Break
  <2>2. Head(out1).of = Replies
    <3>1. CASE SlideReceive
      BY <2>0, <3>1, ResponseNumbers DEF SlideReceive
    <3>2. CASE DrainReceive
      <4>1. phase = "drain" /\ phase' # "start" /\ HandleResponse
        BY <3>2 DEF DrainReceive, GoTo, AtDrain
      <4> QED
        BY <2>0, <4>1, ResponseNumbers
    <3> QED
      BY <2>1, <3>1, <3>2
  <2>3. Replies = FrameNumber
    <3>1. i \in Int /\ window_size \in Int /\ COUNT \in Int
      BY <2>0, Typed DEF TypeInv
    <3>2. CASE phase = "slide"
      BY <2>0, <3>2 DEF Loops, FrameNumber
    <3>3. CASE phase = "drain"
      <4>1. Replies = Slides + i /\ Slides = COUNT - window_size
        BY <2>0, <3>1, <3>3 DEF Loops, Slides
      <4> QED
        BY <3>1, <3>3, <4>1 DEF FrameNumber
    <3> QED
      BY <2>1, <3>2, <3>3 DEF SlideReceive, DrainReceive
  <2> QED
    BY <2>2, <2>3
<1> QED
  BY <1>1, QueueInvariant, InitNumbers, NextNumbers, PTL DEF Spec, RepliesNumbered
-----------------------------------------------------------------------------
(* The reckoning.  For every frame that the link corrupted there is a NACK,  *)
(* or there will be one: the frame is on its way, or the NACK is.            *)

Refusals == {q \in Reply : q.kind = "NACK"}
Spoiled == {p \in Link!Packet : ~p.ok}
Refusing == Holds(r_phase = "reply" /\ r.kind = "NACK")

\* The places are added up from the sender, where a corrupted frame and its NACK end.
Blamed ==
    garbled = ((((nacks + NumberOf(out1, Refusals)) + NumberOf(in2, Refusals))
                + Refusing) + NumberOf(out2, Spoiled)) + NumberOf(inside, Spoiled)

\* What the receiver sends before the link knows it refuses nothing.
Greets == ~up2 => NumberOf(in2, Refusals) = 0

LEMMA BlameTypes ==
    ASSUME TypeInv
    PROVE  /\ NumberOf(out1, Refusals) \in Nat /\ NumberOf(in2, Refusals) \in Nat
           /\ NumberOf(out2, Spoiled) \in Nat /\ NumberOf(inside, Spoiled) \in Nat
           /\ Refusing \in Nat /\ nacks \in Nat /\ garbled \in Nat
<1>1. NumberOf(out1, Refusals) \in Nat /\ NumberOf(in2, Refusals) \in Nat
  BY NumberIsNat DEF TypeInv
<1>2. NumberOf(out2, Spoiled) \in Nat /\ NumberOf(inside, Spoiled) \in Nat
  BY NumberIsNat DEF TypeInv
<1>3. Refusing \in Nat
  BY DEF Refusing, Holds
<1>4. nacks \in Nat /\ garbled \in Nat
  BY DEF TypeInv
<1> QED
  BY <1>1, <1>2, <1>3, <1>4

LEMMA SendBlamed ==
    ASSUME Blamed, UNCHANGED <<in2, inside, out1, out2, nacks, r_phase, r, garbled>>
    PROVE  Blamed'
BY DEF Blamed, Refusing

LEMMA ResponseBlamed == ASSUME QueueInv, Blamed, HandleResponse PROVE Blamed'
<1>0. TypeInv
  BY DEF QueueInv
<1>1. /\ out1 # <<>> /\ out1' = Tail(out1)
      /\ nacks' = nacks + (IF Head(out1).kind = "NACK" THEN 1 ELSE 0)
      /\ UNCHANGED <<in2, inside, out2, r_phase, r, garbled>>
  BY DEF HandleResponse, receiver, mishaps
<1>2. out1 \in Seq(Reply) /\ Head(out1) \in Reply
  BY <1>0, <1>1, TailElements DEF TypeInv
<1> DEFINE x == IF Head(out1).kind = "NACK" THEN 1 ELSE 0
<1>3. NumberOf(out1, Refusals) = NumberOf(out1', Refusals) + x
  BY <1>1, <1>2, NumberOfTail DEF Refusals
<1>4. NumberOf(out1', Refusals) \in Nat /\ x \in Nat
  BY <1>1, <1>2, TailElements, NumberIsNat
<1>5. nacks' = nacks + x
  BY <1>1
<1> HIDE DEF x
<1>6. nacks' + NumberOf(out1', Refusals) = nacks + NumberOf(out1, Refusals)
  BY <1>0, <1>3, <1>4, <1>5, BlameTypes
<1>7. /\ NumberOf(in2', Refusals) = NumberOf(in2, Refusals) /\ Refusing' = Refusing
      /\ NumberOf(out2', Spoiled) = NumberOf(out2, Spoiled)
      /\ NumberOf(inside', Spoiled) = NumberOf(inside, Spoiled) /\ garbled' = garbled
  BY <1>1 DEF Refusing
<1> QED
  BY <1>6, <1>7, Zenon DEF Blamed

LEMMA StartReceiverBlamed == ASSUME QueueInv, Blamed, StartReceiver PROVE Blamed'
<1>0. TypeInv
  BY DEF QueueInv
<1>1. /\ r_phase = "start" /\ r_phase' # "reply" /\ in2' = Append(in2, HelloReply)
      /\ UNCHANGED <<inside, out1, out2, nacks, r, garbled>>
  BY DEF StartReceiver, Link!Send2, sender, mishaps
<1>2. in2 \in Seq(Reply) /\ HelloReply \in Reply /\ HelloReply \notin Refusals
  BY <1>0 DEF TypeInv, HelloReply, Reply, Refusals
<1>3. NumberOf(in2', Refusals) = NumberOf(in2, Refusals) + 0
  BY <1>1, <1>2, NumberOfAppend
<1>4. NumberOf(in2', Refusals) = NumberOf(in2, Refusals)
  BY <1>0, <1>3, BlameTypes
<1>5. Refusing' = 0 /\ Refusing = 0
  BY <1>1 DEF Refusing, Holds
<1> QED
  BY <1>1, <1>4, <1>5 DEF Blamed

LEMMA ReceiveFrameBlamed == ASSUME QueueInv, Blamed, ReceiveFrame PROVE Blamed'
<1>0. TypeInv
  BY DEF QueueInv
<1>1. /\ r_phase = "receive" /\ r_phase' = "reply" /\ out2 # <<>> /\ out2' = Tail(out2)
      /\ UNCHANGED <<in2, inside, out1, nacks, garbled>>
  BY DEF ReceiveFrame, sender, mishaps
<1>2. out2 \in Seq(Link!Packet) /\ Head(out2) \in Link!Packet
  BY <1>0, <1>1, TailElements DEF TypeInv
<1> DEFINE x == IF ~Head(out2).ok THEN 1 ELSE 0
<1>3. r'.kind = (IF Head(out2).ok THEN "ACK" ELSE "NACK")
  <2>1. Head(out2).ok \in BOOLEAN
    BY <1>2 DEF Link!Packet
  <2>2. PICK payload \in Arrived(Head(out2)) :
            r' = [kind |-> IF payload[MSGSIZE] = checksum(payload) THEN "ACK" ELSE "NACK",
                  of |-> Head(out2).val]
    BY DEF ReceiveFrame
  <2>3. payload[MSGSIZE] = checksum(payload) <=> Head(out2).ok
    BY <2>1, ChecksumTells
  <2> QED
    BY <2>2, <2>3
<1>4. Refusing = 0 /\ Refusing' = x
  BY <1>1, <1>3 DEF Refusing, Holds
<1>5. NumberOf(out2, Spoiled) = NumberOf(out2', Spoiled) + x
  <2>1. NumberOf(out2, Spoiled)
        = NumberOf(Tail(out2), Spoiled) + (IF Head(out2) \in Spoiled THEN 1 ELSE 0)
    BY <1>1, <1>2, NumberOfTail
  <2>2. Head(out2) \in Spoiled <=> ~Head(out2).ok
    BY <1>2 DEF Spoiled
  <2> QED
    BY <1>1, <2>1, <2>2
<1>6. NumberOf(out2', Spoiled) \in Nat /\ x \in Nat
  BY <1>1, <1>2, TailElements, NumberIsNat
<1> HIDE DEF x
<1> DEFINE before == (nacks + NumberOf(out1, Refusals)) + NumberOf(in2, Refusals)
<1>7. before \in Int
  BY <1>0, BlameTypes
<1>8. garbled' = garbled /\ garbled = ((before + Refusing) + NumberOf(out2, Spoiled))
                                      + NumberOf(inside, Spoiled)
  BY <1>1, Zenon DEF Blamed
<1>9. before' = before /\ NumberOf(inside', Spoiled) = NumberOf(inside, Spoiled)
  BY <1>1
<1> HIDE DEF before
<1>10. (before + x) + NumberOf(out2', Spoiled) = (before + 0) + NumberOf(out2, Spoiled)
  BY <1>5, <1>6, <1>7
<1>11. garbled' = ((before' + Refusing') + NumberOf(out2', Spoiled)) + NumberOf(inside', Spoiled)
  BY <1>4, <1>8, <1>9, <1>10, Zenon
<1> QED
  BY <1>11, Zenon DEF Blamed, before

LEMMA SendReplyBlamed == ASSUME QueueInv, Blamed, SendReply PROVE Blamed'
<1>0. TypeInv
  BY DEF QueueInv
<1>1. /\ r_phase = "reply" /\ r_phase' # "reply" /\ in2' = Append(in2, r)
      /\ UNCHANGED <<inside, out1, out2, nacks, r, garbled>>
  BY DEF SendReply, Link!Send2, sender, mishaps
<1>2. in2 \in Seq(Reply) /\ r \in Reply
  BY <1>0 DEF TypeInv
<1>3. NumberOf(in2', Refusals) = NumberOf(in2, Refusals) + Refusing /\ Refusing' = 0
  BY <1>1, <1>2, NumberOfAppend DEF Refusals, Refusing, Holds
<1> DEFINE before == nacks + NumberOf(out1, Refusals)
<1>4. before \in Int
  BY <1>0, BlameTypes
<1>5. garbled' = garbled /\ garbled = (((before + NumberOf(in2, Refusals)) + Refusing)
                                       + NumberOf(out2, Spoiled)) + NumberOf(inside, Spoiled)
  BY <1>1, Zenon DEF Blamed
<1>6. before' = before /\ NumberOf(inside', Spoiled) = NumberOf(inside, Spoiled)
      /\ NumberOf(out2', Spoiled) = NumberOf(out2, Spoiled)
  BY <1>1
<1> HIDE DEF before
<1>7. (before + NumberOf(in2', Refusals)) + 0 = (before + NumberOf(in2, Refusals)) + Refusing
  BY <1>0, <1>3, <1>4, BlameTypes
<1>8. garbled' = (((before' + NumberOf(in2', Refusals)) + Refusing')
                  + NumberOf(out2', Spoiled)) + NumberOf(inside', Spoiled)
  BY <1>3, <1>5, <1>6, <1>7, Zenon
<1> QED
  BY <1>8, Zenon DEF Blamed, before

LEMMA Hello2Blamed ==
    ASSUME QueueInv, Blamed, Greets, Link!Hello2, UNCHANGED <<sender, receiver, mishaps>>
    PROVE  Blamed'
<1>1. /\ ~up2 /\ in2 # <<>> /\ in2' = Tail(in2)
      /\ UNCHANGED <<inside, out1, out2, nacks, r_phase, r, garbled>>
  BY DEF Link!Hello2, sender, receiver, mishaps
<1>2. Len(in2') = 0 /\ in2' \in Seq(Reply)
  BY <1>1, TailElements DEF QueueInv, Known, TypeInv
<1>3. NumberOf(in2', Refusals) = NumberOf(in2, Refusals)
  BY <1>1, <1>2, NumberOfEmpty DEF Greets
<1> QED
  BY <1>1, <1>3 DEF Blamed, Refusing

LEMMA EnterBlamed ==
    ASSUME QueueInv, Blamed, NEW ok \in BOOLEAN, Link!Enter(ok),
           garbled' = garbled + (IF ok THEN 0 ELSE 1), UNCHANGED <<sender, receiver>>
    PROVE  Blamed'
<1>0. TypeInv
  BY DEF QueueInv
<1> DEFINE packet == [val |-> Head(in1), ok |-> ok]
           x == IF ok THEN 0 ELSE 1
<1>1. /\ in1 # <<>> /\ inside' = Append(inside, packet)
      /\ UNCHANGED <<in2, out1, out2, nacks, r_phase, r>>
  BY DEF Link!Enter, sender, receiver
<1>2. inside \in Seq(Link!Packet) /\ Head(in1) \in Frame \cup {Hello}
  BY <1>0, <1>1, TailElements DEF TypeInv
<1>3. packet \in Link!Packet /\ (packet \in Spoiled <=> ~ok)
  BY <1>2 DEF Link!Packet, Spoiled
<1> HIDE DEF packet
<1>4. NumberOf(inside', Spoiled)
      = NumberOf(inside, Spoiled) + (IF packet \in Spoiled THEN 1 ELSE 0)
  BY <1>1, <1>2, <1>3, NumberOfAppend
<1>5. NumberOf(inside', Spoiled) = NumberOf(inside, Spoiled) + x /\ x \in Nat
  BY <1>3, <1>4
<1>6. garbled' = garbled + x
  OBVIOUS
<1> HIDE DEF x
<1> DEFINE before == (((nacks + NumberOf(out1, Refusals)) + NumberOf(in2, Refusals))
                      + Refusing) + NumberOf(out2, Spoiled)
<1>7. before \in Int
  BY <1>0, BlameTypes
<1>8. garbled = before + NumberOf(inside, Spoiled)
  BY Zenon DEF Blamed
<1>9. before' = before
  BY <1>1 DEF Refusing
<1> HIDE DEF before
<1>10. (before + NumberOf(inside, Spoiled)) + x = before + NumberOf(inside', Spoiled)
  BY <1>0, <1>5, <1>7, BlameTypes
<1>11. garbled' = before' + NumberOf(inside', Spoiled)
  BY <1>6, <1>8, <1>9, <1>10, Zenon
<1> QED
  BY <1>11, Zenon DEF Blamed, before

LEMMA LeaveBlamed ==
    ASSUME QueueInv, Blamed, Link!Leave, UNCHANGED <<sender, receiver, mishaps>>
    PROVE  Blamed'
<1>0. TypeInv
  BY DEF QueueInv
<1>1. /\ inside # <<>> /\ inside' = Tail(inside)
      /\ out2' = IF up2 THEN Append(out2, Head(inside)) ELSE out2
      /\ UNCHANGED <<in2, out1, nacks, r_phase, r, garbled>>
  BY DEF Link!Leave, sender, receiver, mishaps
<1>2. up2
  BY <1>1 DEF QueueInv, Known
<1>3. inside \in Seq(Link!Packet) /\ out2 \in Seq(Link!Packet) /\ Head(inside) \in Link!Packet
  BY <1>0, <1>1, TailElements DEF TypeInv
<1> DEFINE x == IF Head(inside) \in Spoiled THEN 1 ELSE 0
<1>4. NumberOf(inside, Spoiled) = NumberOf(inside', Spoiled) + x
  BY <1>1, <1>3, NumberOfTail
<1>5. NumberOf(out2', Spoiled) = NumberOf(out2, Spoiled) + x
  BY <1>1, <1>2, <1>3, NumberOfAppend
<1>6. NumberOf(inside', Spoiled) \in Nat /\ x \in Nat
  BY <1>1, <1>3, TailElements, NumberIsNat
<1> HIDE DEF x
<1> DEFINE before == ((nacks + NumberOf(out1, Refusals)) + NumberOf(in2, Refusals)) + Refusing
<1>7. before \in Int
  BY <1>0, BlameTypes
<1>8. garbled' = garbled /\ garbled = (before + NumberOf(out2, Spoiled)) + NumberOf(inside, Spoiled)
  BY <1>1, Zenon DEF Blamed
<1>9. before' = before
  BY <1>1 DEF Refusing
<1> HIDE DEF before
<1>10. (before + NumberOf(out2', Spoiled)) + NumberOf(inside', Spoiled)
       = (before + NumberOf(out2, Spoiled)) + NumberOf(inside, Spoiled)
  BY <1>0, <1>4, <1>5, <1>6, <1>7, BlameTypes
<1>11. garbled' = (before' + NumberOf(out2', Spoiled)) + NumberOf(inside', Spoiled)
  BY <1>8, <1>9, <1>10, Zenon
<1> QED
  BY <1>11, Zenon DEF Blamed, before

LEMMA ReturnBlamed ==
    ASSUME QueueInv, Blamed, Link!Return, UNCHANGED <<sender, receiver, mishaps>>
    PROVE  Blamed'
<1>0. TypeInv
  BY DEF QueueInv
<1>1. /\ up2 /\ in2 # <<>> /\ in2' = Tail(in2)
      /\ out1' = IF up1 THEN Append(out1, Head(in2)) ELSE out1
      /\ UNCHANGED <<inside, out2, nacks, r_phase, r, garbled>>
  BY DEF Link!Return, sender, receiver, mishaps
<1>2. up1
  BY <1>1 DEF QueueInv, Known
<1>3. in2 \in Seq(Reply) /\ out1 \in Seq(Reply) /\ Head(in2) \in Reply
  BY <1>0, <1>1, TailElements DEF TypeInv
<1> DEFINE x == IF Head(in2) \in Refusals THEN 1 ELSE 0
<1>4. NumberOf(in2, Refusals) = NumberOf(in2', Refusals) + x
  BY <1>1, <1>3, NumberOfTail
<1>5. NumberOf(out1', Refusals) = NumberOf(out1, Refusals) + x
  BY <1>1, <1>2, <1>3, NumberOfAppend
<1>6. NumberOf(in2', Refusals) \in Nat /\ x \in Nat
  BY <1>1, <1>3, TailElements, NumberIsNat
<1> HIDE DEF x
<1>7. (nacks + NumberOf(out1', Refusals)) + NumberOf(in2', Refusals)
      = (nacks + NumberOf(out1, Refusals)) + NumberOf(in2, Refusals)
  BY <1>0, <1>4, <1>5, <1>6, BlameTypes
<1>8. nacks' = nacks /\ Refusing' = Refusing /\ garbled' = garbled
      /\ out2' = out2 /\ inside' = inside
  BY <1>1 DEF Refusing
<1> QED
  BY <1>7, <1>8, Zenon DEF Blamed

LEMMA NextGreets == ASSUME QueueInv, Greets, [Next]_vars PROVE Greets'
<1> SUFFICES ASSUME ~up2' PROVE NumberOf(in2', Refusals) = 0
  BY DEF Greets
<1>0. TypeInv /\ Known
  BY DEF QueueInv
<1>1. CASE in2' = in2 /\ up2' = up2
  BY <1>1 DEF Greets
<1>2. CASE StartReceiver
  <2>1. in2 = <<>> /\ in2' = Append(in2, HelloReply)
    BY <1>0, <1>2 DEF StartReceiver, Link!Send2, Known
  <2>2. in2 \in Seq(Reply) /\ HelloReply \in Reply /\ HelloReply \notin Refusals
    BY <1>0 DEF TypeInv, HelloReply, Reply, Refusals
  <2>3. NumberOf(in2, Refusals) = 0
    BY <2>1, <2>2, NumberOfEmpty
  <2>4. NumberOf(in2', Refusals) = NumberOf(in2, Refusals) + 0
    BY <2>1, <2>2, NumberOfAppend
  <2> QED
    BY <2>3, <2>4
<1>3. CASE SendReply
  BY <1>0, <1>3 DEF SendReply, Link!Send2, Known
<1>4. CASE LinkReturns
  BY <1>4 DEF LinkReturns, Link!Hello2, Link!Return
<1>5. (in2' = in2 /\ up2' = up2) \/ StartReceiver \/ SendReply \/ LinkReturns
  BY DEF Next, Sender, StartSender, SendWindow, SlideReceive, SlideSend, DrainReceive,
         HandleResponse, Link!Send1, Receiver, ReceiveFrame, LinkForwards, Link!Hello1,
         Link!Lose, Link!Enter, LinkDelivers, Link!Leave, LinkBreaks, Link!Break,
         vars, link
<1> QED
  BY <1>1, <1>2, <1>3, <1>4, <1>5

LEMMA NextBlamed == ASSUME QueueInv, Blamed, Greets, [Next]_vars PROVE Blamed'
<1>1. CASE Sender
  <2>1. CASE SlideReceive \/ DrainReceive
    BY <2>1, ResponseBlamed DEF SlideReceive, DrainReceive
  <2>2. CASE StartSender \/ SendWindow \/ SlideSend
    <3>1. UNCHANGED <<in2, inside, out1, out2, nacks, r_phase, r, garbled>>
      BY <2>2 DEF StartSender, SendWindow, SlideSend, Link!Send1, receiver, mishaps
    <3> QED
      BY <3>1, SendBlamed
  <2> QED
    BY <1>1, <2>1, <2>2 DEF Sender
<1>2. CASE Receiver
  BY <1>2, StartReceiverBlamed, ReceiveFrameBlamed, SendReplyBlamed DEF Receiver
<1>3. CASE LinkForwards
  <2>1. UNCHANGED <<sender, receiver>>
    BY <1>3 DEF LinkForwards, Others
  <2>2. CASE Link!Hello1 /\ UNCHANGED mishaps
    BY <2>1, <2>2, SendBlamed DEF Link!Hello1, sender, receiver, mishaps
  <2>3. CASE Link!Lose /\ UNCHANGED garbled
    BY <2>1, <2>3, SendBlamed DEF Link!Lose, sender, receiver
  <2>4. ASSUME NEW ok \in BOOLEAN, Link!Enter(ok), garbled' = garbled + (IF ok THEN 0 ELSE 1)
        PROVE  Blamed'
    BY <2>1, <2>4, EnterBlamed
  <2> QED
    BY <1>3, <2>2, <2>3, <2>4 DEF LinkForwards
<1>4. CASE LinkDelivers
  BY <1>4, LeaveBlamed DEF LinkDelivers, Others
<1>5. CASE LinkReturns
  BY <1>5, Hello2Blamed, ReturnBlamed DEF LinkReturns, Others
<1>6. CASE LinkBreaks
  BY <1>6, SendBlamed DEF LinkBreaks, Others, Link!Break, sender, receiver, mishaps
<1>7. CASE UNCHANGED vars
  BY <1>7, SendBlamed DEF vars, link, sender, receiver, mishaps
<1> QED
  BY <1>1, <1>2, <1>3, <1>4, <1>5, <1>6, <1>7 DEF Next

LEMMA InitBlamed == Init => Blamed /\ Greets
<1> SUFFICES ASSUME Init PROVE Blamed /\ Greets
  OBVIOUS
<1>1. /\ in2 = <<>> /\ inside = <<>> /\ out1 = <<>> /\ out2 = <<>>
      /\ r_phase = "start" /\ nacks = 0 /\ garbled = 0
  BY DEF Init, Link!Init
<1>2. TypeInv
  BY InitQueue DEF QueueInv
<1>3. NumberOf(in2, Refusals) = 0 /\ NumberOf(out1, Refusals) = 0
  BY <1>1, <1>2, NumberOfEmpty DEF TypeInv
<1>4. NumberOf(out2, Spoiled) = 0 /\ NumberOf(inside, Spoiled) = 0
  BY <1>1, <1>2, NumberOfEmpty DEF TypeInv
<1>5. Refusing = 0
  BY <1>1 DEF Refusing, Holds
<1> QED
  BY <1>1, <1>3, <1>4, <1>5 DEF Blamed, Greets

\* When the sender is done it has read an answer to every frame, and as many NACKs as
\* the link has corrupted frames.
THEOREM ReckoningTrue == Spec => []Reckoning
<1>1. QueueInv /\ Blamed => Reckoning
  <2> SUFFICES ASSUME QueueInv, Blamed, phase = "done"
               PROVE  acks + nacks = COUNT /\ nacks = garbled
    BY DEF Reckoning
  <2>0. TypeInv /\ Known /\ Loops /\ Answered
    BY DEF QueueInv
  <2>1. up2 /\ in_queue = 0 /\ Replies = Slides + window_size
    BY <2>0 DEF Known, Loops
  <2>2. Greeting2 = 0
    BY <2>1 DEF Greeting2, Holds
  <2>3. r_i = Replies + Len(out1) + Len(in2) - 0
    BY <2>0, <2>2, Zenon DEF Answered, Greeting2
  <2>4. Replies = COUNT /\ Len(out1) = 0 /\ Len(in2) = 0 /\ r_i = COUNT
    <3>1. Replies >= COUNT
      BY <2>0, <2>1, Typed DEF Slides
    <3>2. r_i <= COUNT /\ COUNT \in Nat
      BY <2>0, Typed DEF Answered
    <3> QED
      BY <2>0, <2>3, <3>1, <3>2, NumberTypes, Typed
  <2>5. r_phase # "reply"
    BY <2>0, <2>4, Typed DEF Answered
  <2>6. Len(in1) >= Greeting1
    BY <2>0, <2>1, Typed DEF Known, Greeting1, Holds
  <2>7. in_queue = (Len(in1) - Greeting1) + Len(inside) + Len(out2) + Replying
                   + (Len(in2) - Greeting2) + Len(out1) + lost
    BY Zenon DEF QueueInv, InQueueTruthful, Outstanding, Greeting1, Greeting2, Replying
  <2>8. Len(inside) = 0 /\ Len(out2) = 0
    <3>1. Len(in1) - Greeting1 \in Nat /\ lost \in Nat /\ Replying \in Nat
      BY <2>0, <2>6, NumberTypes, Typed DEF TypeInv
    <3> DEFINE rest == Len(in1) - Greeting1
    <3>2. rest \in Nat
      BY <3>1
    <3>3. 0 = rest + Len(inside) + Len(out2) + Replying + (0 - 0) + 0 + lost
      BY <2>1, <2>2, <2>4, <2>7, Zenon
    <3> HIDE DEF rest
    <3> QED
      BY <2>0, <3>1, <3>2, <3>3, Typed
  <2>9. NumberOf(in2, Refusals) = 0 /\ NumberOf(out1, Refusals) = 0
    BY <2>0, <2>4, NumberOfEmpty DEF TypeInv
  <2>10. NumberOf(out2, Spoiled) = 0 /\ NumberOf(inside, Spoiled) = 0
    BY <2>0, <2>8, NumberOfEmpty DEF TypeInv
  <2>11. Refusing = 0
    BY <2>5 DEF Refusing, Holds
  <2>12. garbled = nacks + 0 + 0 + 0 + 0 + 0
    BY <2>9, <2>10, <2>11, Zenon DEF Blamed
  <2> QED
    BY <2>0, <2>4, <2>12, BlameTypes DEF Replies
<1> QED
  BY <1>1, QueueInvariant, InitBlamed, NextBlamed, NextGreets, PTL DEF Spec
=============================================================================
