--------------------------- MODULE SlidingWindow ----------------------------
(***************************************************************************)
(* The sender and the receiver of lab-03 (send.c, recv.c) at the two ends  *)
(* of the link (Channel).  The sender keeps window_size frames             *)
(* unanswered: it sends that many, then one for every reply, and at last   *)
(* waits for the replies that are left.  The receiver answers each of      *)
(* COUNT frames with ACK or NACK, as the checksum tells.  Frames are not   *)
(* sent again.                                                             *)
(*                                                                         *)
(* A frame is named by the order in which it is sent, which is not in the  *)
(* datagram; a reply carries the name of the frame it answers.  Of every   *)
(* byte of a payload one bit is kept, the one that the link flips.         *)
(***************************************************************************)
EXTENDS Integers, Sequences, FiniteSets

CONSTANTS
    COUNT,
    Windows,             \* the sizes of the window that are tried
    MSGSIZE,             \* bytes of a payload, the checksum included
    BUFFER_SIZE          \* of the link

ASSUME WindowAssumption ==
    /\ COUNT \in Nat /\ Windows \subseteq Nat
    /\ MSGSIZE \in Nat /\ MSGSIZE > 2
    /\ BUFFER_SIZE \in Nat \ {0}

VARIABLES
    broken, up1, up2, in1, in2, inside, out1, out2,   \* the link
    window_size,         \* the bandwidth-delay product in frames, rounded down
    phase, i,            \* which loop the sender is in, and its counter
    in_queue, acks, nacks,
    r_phase, r_i, r,     \* where the receiver is, its counter, its next reply
    garbled, lost        \* how many frames the link has corrupted, and dropped

link == <<broken, up1, up2, in1, in2, inside, out1, out2>>
sender == <<window_size, phase, i, in_queue, acks, nacks>>
receiver == <<r_phase, r_i, r>>
mishaps == <<garbled, lost>>
vars == <<link, sender, receiver, mishaps>>

Frame == Nat
Hello == -1
Reply == [kind : {"ACK", "NACK", "hello"}, of : Frame \cup {Hello}]
HelloReply == [kind |-> "hello", of |-> Hello]

Link == INSTANCE Channel WITH
    Values1 <- Frame \cup {Hello}, Values2 <- Reply,
    Capacity <- BUFFER_SIZE, Lossy <- FALSE, Corrupting <- TRUE

Init ==
    /\ Link!Init
    /\ window_size \in Windows
    /\ phase = "start" /\ i = 0 /\ in_queue = 0 /\ acks = 0 /\ nacks = 0
    /\ r_phase = "start" /\ r_i = 0 /\ r = HelloReply
    /\ garbled = 0 /\ lost = 0

-----------------------------------------------------------------------------
(* The checksum.                                                             *)

Payload == [1 .. MSGSIZE -> 0 .. 1]

\* Mutant of checksum: the last byte of the data is left out.
checksumShort(msg) == Cardinality({k \in 1 .. MSGSIZE - 2 : msg[k] = 1}) % 2

\* The exclusive or of the data.
checksum(msg) == Cardinality({k \in 1 .. MSGSIZE - 1 : msg[k] = 1}) % 2

\* Every frame is empty but for its checksum.
Sent == LET t == [k \in 1 .. MSGSIZE |-> 0] IN [t EXCEPT ![MSGSIZE] = checksum(t)]

\* What the link may make of a payload.
Flipped(t) == {[t EXCEPT ![k] = 1 - t[k]] : k \in 1 .. MSGSIZE}

Arrived(packet) == IF packet.ok THEN {Sent} ELSE Flipped(Sent)

-----------------------------------------------------------------------------
(* The sender.                                                               *)

\* Where the loops of the sender go on when the counter of one reaches k.
AtDrain(k) == IF k < window_size THEN <<"drain", k>> ELSE <<"done", k>>

\* Mutant of AtSlide: off by one.
AtSlideShort(k) == IF k < COUNT - window_size - 1 THEN <<"slide", k>> ELSE AtDrain(0)

AtSlide(k) == IF k < COUNT - window_size THEN <<"slide", k>> ELSE AtDrain(0)

\* Mutant of AtWindow: off by one.
AtWindowLong(k) == IF k <= window_size THEN <<"window", k>> ELSE AtSlide(0)

AtWindow(k) == IF k < window_size THEN <<"window", k>> ELSE AtSlide(0)

GoTo(place) == phase' = place[1] /\ i' = place[2]

\* run_experiment.sh starts the sender a second after the receiver, which the
\* link is taken to know by then.
StartSender ==
    /\ phase = "start" /\ up2
    /\ Link!Send1(Hello)
    /\ GoTo(AtWindow(0))
    /\ UNCHANGED <<window_size, in_queue, acks, nacks, receiver, mishaps>>

\* Mutant of SendWindow: the frame is not counted.
SendWindowUncounted ==
    /\ phase = "window"
    /\ Link!Send1(i)
    /\ GoTo(AtWindow(i + 1))
    /\ UNCHANGED <<window_size, in_queue, acks, nacks, receiver, mishaps>>

SendWindow ==
    /\ phase = "window"
    /\ Link!Send1(i)
    /\ in_queue' = in_queue + 1
    /\ GoTo(AtWindow(i + 1))
    /\ UNCHANGED <<window_size, acks, nacks, receiver, mishaps>>

HandleResponse ==
    /\ out1 # <<>>
    /\ out1' = Tail(out1)
    /\ in_queue' = in_queue - 1
    /\ acks' = acks + (IF Head(out1).kind = "ACK" THEN 1 ELSE 0)
    /\ nacks' = nacks + (IF Head(out1).kind = "NACK" THEN 1 ELSE 0)
    /\ UNCHANGED <<broken, up1, up2, in1, in2, inside, out2, window_size,
                   receiver, mishaps>>

SlideReceive ==
    /\ phase = "slide"
    /\ HandleResponse
    /\ phase' = "freed" /\ UNCHANGED i

SlideSend ==
    /\ phase = "freed"
    /\ Link!Send1(i + window_size)
    /\ in_queue' = in_queue + 1
    /\ GoTo(AtSlide(i + 1))
    /\ UNCHANGED <<window_size, acks, nacks, receiver, mishaps>>

DrainReceive ==
    /\ phase = "drain"
    /\ HandleResponse
    /\ GoTo(AtDrain(i + 1))

Sender == StartSender \/ SendWindow \/ SlideReceive \/ SlideSend \/ DrainReceive

\* Mutant of FrameNumber: the drained replies are counted from the wrong end.
FrameNumberBackwards ==
    IF phase = "slide" THEN i ELSE COUNT - (i + 1)

\* The frame that handle_response is told a reply belongs to.
FrameNumber == IF phase = "slide" THEN i ELSE COUNT - (window_size - i)

-----------------------------------------------------------------------------
(* The receiver.                                                             *)

StartReceiver ==
    /\ r_phase = "start"
    /\ Link!Send2(HelloReply)
    /\ r_phase' = IF COUNT > 0 THEN "receive" ELSE "done"
    /\ UNCHANGED <<sender, r_i, r, mishaps>>

ReceiveFrame ==
    /\ r_phase = "receive" /\ out2 # <<>>
    /\ out2' = Tail(out2)
    /\ \E payload \in Arrived(Head(out2)) :
            r' = [kind |-> IF payload[MSGSIZE] = checksum(payload) THEN "ACK" ELSE "NACK",
                  of |-> Head(out2).val]
    /\ r_phase' = "reply"
    /\ UNCHANGED <<broken, up1, up2, in1, in2, inside, out1, sender, r_i, mishaps>>

SendReply ==
    /\ r_phase = "reply"
    /\ Link!Send2(r)
    /\ r_i' = r_i + 1
    /\ r_phase' = IF r_i' < COUNT THEN "receive" ELSE "done"
    /\ UNCHANGED <<sender, r, mishaps>>

Receiver == StartReceiver \/ ReceiveFrame \/ SendReply

-----------------------------------------------------------------------------
(* The link, all of Channel, corrupted and dropped frames being counted.     *)

Others == UNCHANGED <<sender, receiver>>

LinkForwards ==
    /\ \/ Link!Hello1 /\ UNCHANGED mishaps
       \/ Link!Lose /\ lost' = lost + 1 /\ UNCHANGED garbled
       \/ \E ok \in BOOLEAN :
            /\ Link!Enter(ok)
            /\ garbled' = garbled + (IF ok THEN 0 ELSE 1) /\ UNCHANGED lost
    /\ Others

LinkDelivers == Link!Leave /\ Others /\ UNCHANGED mishaps

LinkReturns == (Link!Hello2 \/ Link!Return) /\ Others /\ UNCHANGED mishaps

LinkBreaks == Link!Break /\ Others /\ UNCHANGED mishaps

Next ==
    Sender \/ Receiver \/ LinkForwards \/ LinkDelivers \/ LinkReturns \/ LinkBreaks

Spec == Init /\ [][Next]_vars

\* The two programs and the threads of the link run when they can.
FairSpec ==
    /\ Spec
    /\ WF_vars(Sender) /\ WF_vars(Receiver)
    /\ WF_vars(LinkForwards) /\ WF_vars(LinkDelivers) /\ WF_vars(LinkReturns)

-----------------------------------------------------------------------------
(* Properties.                                                               *)

\* The variables keep their types, and the counters of the sender stay within
\* the window and the number of frames.
TypeOK ==
    /\ broken \in BOOLEAN /\ up1 \in BOOLEAN /\ up2 \in BOOLEAN
    /\ in1 \in Seq(Frame \cup {Hello}) /\ inside \in Seq(Link!Packet)
    /\ out2 \in Seq(Link!Packet) /\ in2 \in Seq(Reply) /\ out1 \in Seq(Reply)
    /\ phase \in {"start", "window", "slide", "freed", "drain", "done"}
    /\ i \in 0 .. COUNT + window_size
    /\ in_queue \in 0 .. window_size
    /\ acks \in 0 .. COUNT /\ nacks \in 0 .. COUNT
    /\ r_phase \in {"start", "receive", "reply", "done"}
    /\ r_i \in 0 .. COUNT /\ r \in Reply
    /\ garbled \in 0 .. COUNT /\ lost \in 0 .. COUNT

Holds(condition) == IF condition THEN 1 ELSE 0

\* Where the frames and the replies are that the sender counts.
Outstanding ==
    (Len(in1) - Holds(phase # "start" /\ ~up1)) + Len(inside) + Len(out2)
    + Holds(r_phase = "reply")
    + (Len(in2) - Holds(r_phase # "start" /\ ~up2)) + Len(out1)

\* in_queue is the number of frames the sender has sent and has no reply for,
\* each of which, or its reply, is at one place between the two programs, or
\* was dropped by the link.
InQueueTruthful == in_queue = Outstanding + lost

\* The link drops no frame: a window that is not larger than its buffer keeps the
\* buffer from overflowing.
NothingLost == [][window_size <= BUFFER_SIZE => ~Link!Lose]_vars

\* As long as nothing was lost, handle_response is told the frame that the reply is
\* about: replies come in the order of the frames, and none is missing.
RepliesNumbered ==
    [][/\ lost = 0 /\ window_size <= COUNT
       /\ out1' # out1 /\ Len(out1') < Len(out1)
       => Head(out1).of = FrameNumber]_vars

\* When the sender says that its job is done, every frame has been answered, and
\* it has seen a NACK for every frame the link corrupted and for no other.
Reckoning == phase = "done" => acks + nacks = COUNT /\ nacks = garbled

\* With a window that fits both programs end, unless the link breaks: neither waits
\* for the other for ever.  With no window, or one above COUNT, the sender waits for
\* a reply that nobody sends.
Finishes ==
    /\ window_size > 0 /\ window_size <= COUNT /\ window_size <= BUFFER_SIZE =>
            <>(broken \/ (phase = "done" /\ r_phase = "done"))
    /\ COUNT > 0 /\ window_size \notin 1 .. COUNT => [](phase # "done")
=============================================================================
