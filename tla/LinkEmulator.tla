---------------------------- MODULE LinkEmulator ----------------------------
(***************************************************************************)
(* The link emulator of lab-03 (link.c, queue.c; lab-02 has the same       *)
(* program): three threads between two UDP sockets.  The forwarding thread *)
(* takes datagrams from socket 1 into the buffer, the scheduler thread     *)
(* moves them from the buffer into flight and, when they are due, out of   *)
(* socket 2; the main thread sends what arrives on socket 2 back out of    *)
(* socket 1.  buffer_lock protects the buffer only; a critical section is  *)
(* one step, and so are the local assignments around it.                   *)
(***************************************************************************)
EXTENDS Integers, Sequences

CONSTANTS
    BUFFER_SIZE,
    serialization_delay, delay,  \* in ticks of the clock
    Loss, Corrupt,   \* whether the loss and corrupt percentages are above 0
    MaxSent1,        \* bound: datagrams the peer of socket 1 sends
    MaxSent2,        \* bound: datagrams the peer of socket 2 sends
    FreeTime         \* bound: how far the clock runs when nobody waits for it

ASSUME LinkAssumption ==
    /\ BUFFER_SIZE \in Nat \ {0}
    /\ serialization_delay \in Nat /\ delay \in Nat
    /\ serialization_delay + delay > 0
    /\ Loss \in BOOLEAN /\ Corrupt \in BOOLEAN
    /\ MaxSent1 \in Nat /\ MaxSent2 \in Nat /\ FreeTime \in Nat

VARIABLES
    aborted,             \* an assertion has ended the process
    clock,
    link_up1, link_up2,
    in1, in2,            \* datagrams waiting in the two sockets
    out1, out2,          \* datagrams sent to the two peers, oldest first
    sent1, sent2,        \* how many datagrams the peers have sent
    buffer,
    in_flight, idle_time, crt_time, stuff,   \* locals of the scheduler
    sched,               \* where the scheduler is
    wake,                \* when its usleep() ends
    signalled,           \* buffer_cond was signalled since it waits
    fw, m                \* where the forwarding thread is, and its message

sockets == <<in1, in2, out1, out2>>
links == <<link_up1, link_up2>>
peers == <<sent1, sent2>>
scheduler == <<in_flight, idle_time, crt_time, stuff, sched, wake>>
forwarder == <<fw, m>>
vars == <<aborted, clock, links, sockets, peers, buffer, scheduler, signalled, forwarder>>

Msg == [val : 1 .. MaxSent1, ok : BOOLEAN]
Flight == [m : Msg, finish_time : Nat]
NoMsg == [val |-> 0, ok |-> TRUE]

Init ==
    /\ aborted = FALSE /\ clock = 0
    /\ link_up1 = FALSE /\ link_up2 = FALSE
    /\ in1 = <<>> /\ in2 = <<>> /\ out1 = <<>> /\ out2 = <<>>
    /\ sent1 = 0 /\ sent2 = 0
    /\ buffer = <<>>
    /\ in_flight = <<>> /\ idle_time = 0 /\ crt_time = 0 /\ stuff = FALSE
    /\ sched = "now" /\ wake = 0 /\ signalled = FALSE
    /\ fw = "receive" /\ m = NoMsg

-----------------------------------------------------------------------------
(* link_scheduler.                                                           *)

Now ==
    /\ ~aborted /\ sched = "now"
    /\ sched' = "drain"
    /\ crt_time' = clock
    /\ UNCHANGED <<aborted, clock, links, sockets, peers, buffer, in_flight, idle_time,
                   stuff, wake, signalled, forwarder>>

Due == in_flight # <<>> /\ crt_time >= Head(in_flight).finish_time

\* Mutant of Deliver: the message put in flight last is taken out.
DeliverNewest ==
    /\ ~aborted /\ sched = "drain" /\ Due
    /\ in_flight' = SubSeq(in_flight, 1, Len(in_flight) - 1)
    /\ out2' = IF link_up2 THEN Append(out2, in_flight[Len(in_flight)].m) ELSE out2
    /\ UNCHANGED <<aborted, clock, links, in1, in2, out1, peers, buffer, idle_time,
                   crt_time, stuff, sched, wake, signalled, forwarder>>

\* sendto() fails while nobody has said hello on socket 2.
Deliver ==
    /\ ~aborted /\ sched = "drain" /\ Due
    /\ in_flight' = Tail(in_flight)
    /\ out2' = IF link_up2 THEN Append(out2, Head(in_flight).m) ELSE out2
    /\ UNCHANGED <<aborted, clock, links, in1, in2, out1, peers, buffer, idle_time,
                   crt_time, stuff, sched, wake, signalled, forwarder>>

\* Mutant of ReadSize: what was seen once is believed for ever.
ReadSizeSticky ==
    /\ ~aborted /\ sched = "drain" /\ ~Due
    /\ stuff' = (stuff \/ buffer # <<>>)
    /\ sched' = "dispatch"
    /\ UNCHANGED <<aborted, clock, links, sockets, peers, buffer, in_flight, idle_time,
                   crt_time, wake, signalled, forwarder>>

ReadSize ==
    /\ ~aborted /\ sched = "drain" /\ ~Due
    /\ stuff' = (buffer # <<>>)
    /\ sched' = "dispatch"
    /\ UNCHANGED <<aborted, clock, links, sockets, peers, buffer, in_flight, idle_time,
                   crt_time, wake, signalled, forwarder>>

\* Mutant of Rest: the messages in flight are forgotten.
RestForgetsFlight ==
    LET wait_time_idle == idle_time' - crt_time
    IN  IF wait_time_idle > 0
        THEN sched' = "asleep" /\ wake' = clock + wait_time_idle
        ELSE sched' = "lock" /\ UNCHANGED wake

\* How the scheduler waits once idle_time and in_flight are set.
Rest ==
    LET wait_time_idle == idle_time' - crt_time
        wait_time_send == IF in_flight' = <<>> THEN 0
                          ELSE Head(in_flight').finish_time - crt_time
        wait_time ==
            IF wait_time_idle <= 0 THEN 0
            ELSE IF wait_time_send > 0 /\ wait_time_send < wait_time_idle
                 THEN wait_time_send ELSE wait_time_idle
    IN  IF wait_time_idle > 0 \/ wait_time_send > 0
        THEN sched' = "asleep" /\ wake' = clock + wait_time
        ELSE sched' = "lock" /\ UNCHANGED wake

\* Mutant of MayDispatch: the link is taken for idle at all times.
MayDispatchAlways == stuff

MayDispatch == stuff /\ crt_time >= idle_time

Dispatch ==
    /\ ~aborted /\ sched = "dispatch" /\ MayDispatch
    /\ idle_time' = crt_time + serialization_delay
    /\ buffer' = Tail(buffer)
    /\ in_flight' = Append(in_flight,
                           [m |-> Head(buffer),
                            finish_time |-> crt_time + serialization_delay + delay])
    /\ Rest
    /\ UNCHANGED <<aborted, clock, links, sockets, peers, crt_time, stuff, signalled,
                   forwarder>>

HoldBack ==
    /\ ~aborted /\ sched = "dispatch" /\ ~MayDispatch
    /\ UNCHANGED <<idle_time, in_flight>>
    /\ Rest
    /\ UNCHANGED <<aborted, clock, links, sockets, peers, buffer, crt_time, stuff,
                   signalled, forwarder>>

WakeUp ==
    /\ ~aborted /\ sched = "asleep" /\ clock >= wake
    /\ sched' = "now"
    /\ UNCHANGED <<aborted, clock, links, sockets, peers, buffer, in_flight, idle_time,
                   crt_time, stuff, wake, signalled, forwarder>>

\* assert(!buffer->size), under the lock that pthread_cond_wait releases.
CondWait ==
    /\ ~aborted /\ sched = "lock" /\ buffer = <<>>
    /\ sched' = "waiting" /\ signalled' = FALSE
    /\ UNCHANGED <<aborted, clock, links, sockets, peers, buffer, in_flight, idle_time,
                   crt_time, stuff, wake, forwarder>>

AssertFails ==
    /\ ~aborted /\ sched = "lock" /\ buffer # <<>>
    /\ aborted' = TRUE
    /\ UNCHANGED <<clock, links, sockets, peers, buffer, scheduler, signalled, forwarder>>

\* pthread_cond_wait() may also return without a signal.
CondReturn ==
    /\ ~aborted /\ sched = "waiting"
    /\ sched' = "now"
    /\ UNCHANGED <<aborted, clock, links, sockets, peers, buffer, in_flight, idle_time,
                   crt_time, stuff, wake, signalled, forwarder>>

Scheduler ==
    \/ Now \/ Deliver \/ ReadSize \/ Dispatch \/ HoldBack \/ WakeUp
    \/ CondWait \/ AssertFails \/ CondReturn

-----------------------------------------------------------------------------
(* run_forwarding.                                                           *)

\* Mutant of Hello1: the goto is missing, and the freed message is returned.
HelloFallsThrough ==
    /\ ~aborted /\ fw = "receive" /\ in1 # <<>> /\ ~link_up1
    /\ link_up1' = TRUE
    /\ in1' = Tail(in1)
    /\ fw' = "check"
    /\ UNCHANGED <<aborted, clock, link_up2, in2, out1, out2, peers, buffer, scheduler,
                   signalled, m>>

Hello1 ==
    /\ ~aborted /\ fw = "receive" /\ in1 # <<>> /\ ~link_up1
    /\ link_up1' = TRUE
    /\ in1' = Tail(in1)
    /\ UNCHANGED <<aborted, clock, link_up2, in2, out1, out2, peers, buffer, scheduler,
                   signalled, forwarder>>

Receive1 ==
    /\ ~aborted /\ fw = "receive" /\ in1 # <<>> /\ link_up1
    /\ in1' = Tail(in1)
    /\ m' = [val |-> Head(in1), ok |-> TRUE]
    /\ fw' = "check"
    /\ UNCHANGED <<aborted, clock, links, in2, out1, out2, peers, buffer, scheduler,
                   signalled>>

\* Mutant of Overflow: off by one.
OverflowAbove == Len(buffer) > BUFFER_SIZE

Overflow == Len(buffer) >= BUFFER_SIZE

Drop ==
    /\ ~aborted /\ fw = "check"
    /\ Overflow \/ Loss
    /\ fw' = "receive" /\ m' = NoMsg
    /\ UNCHANGED <<aborted, clock, links, sockets, peers, buffer, scheduler, signalled>>

\* The overflow flag and the dice are local: they are read in the step that
\* looks at the size, and the buffer may have changed when Enqueue comes.
Keep ==
    /\ ~aborted /\ fw = "check"
    /\ ~Overflow
    /\ fw' = "enqueue"
    /\ \/ UNCHANGED m
       \/ Corrupt /\ m' = [m EXCEPT !.ok = FALSE]
    /\ UNCHANGED <<aborted, clock, links, sockets, peers, buffer, scheduler, signalled>>

\* Mutant of Enqueue: the signal is forgotten.
EnqueueSilently ==
    /\ ~aborted /\ fw = "enqueue"
    /\ buffer' = Append(buffer, m)
    /\ fw' = "receive" /\ m' = NoMsg
    /\ UNCHANGED <<aborted, clock, links, sockets, peers, scheduler, signalled>>

Enqueue ==
    /\ ~aborted /\ fw = "enqueue"
    /\ buffer' = Append(buffer, m)
    /\ signalled' = (signalled \/ sched = "waiting")
    /\ fw' = "receive" /\ m' = NoMsg
    /\ UNCHANGED <<aborted, clock, links, sockets, peers, scheduler>>

Forwarding == Hello1 \/ Receive1 \/ Drop \/ Keep \/ Enqueue

-----------------------------------------------------------------------------
(* run_reverse_forwarding.                                                   *)

Hello2 ==
    /\ ~aborted /\ in2 # <<>> /\ ~link_up2
    /\ link_up2' = TRUE
    /\ in2' = Tail(in2)
    /\ UNCHANGED <<aborted, clock, link_up1, in1, out1, out2, peers, buffer, scheduler,
                   signalled, forwarder>>

Reverse ==
    /\ ~aborted /\ in2 # <<>> /\ link_up2
    /\ in2' = Tail(in2)
    /\ out1' = IF link_up1 THEN Append(out1, Head(in2)) ELSE out1
    /\ UNCHANGED <<aborted, clock, links, in1, out2, peers, buffer, scheduler, signalled,
                   forwarder>>

ReverseForwarding == Hello2 \/ Reverse

-----------------------------------------------------------------------------
(* The peers number their datagrams; the clock.                              *)

Send1 ==
    /\ sent1 < MaxSent1
    /\ sent1' = sent1 + 1
    /\ in1' = Append(in1, sent1 + 1)
    /\ UNCHANGED <<aborted, clock, links, in2, out1, out2, sent2, buffer, scheduler,
                   signalled, forwarder>>

Send2 ==
    /\ sent2 < MaxSent2
    /\ sent2' = sent2 + 1
    /\ in2' = Append(in2, sent2 + 1)
    /\ UNCHANGED <<aborted, clock, links, in1, out1, out2, sent1, buffer, scheduler,
                   signalled, forwarder>>

\* Time is of interest to the scheduler only: the clock goes on while a
\* moment it compares with lies ahead, and up to FreeTime in any case.
Awaited ==
    \/ clock < idle_time
    \/ sched = "asleep" /\ clock < wake
    \/ \E k \in DOMAIN in_flight : clock < in_flight[k].finish_time

Tick ==
    /\ ~aborted
    /\ clock < FreeTime \/ Awaited
    /\ clock' = clock + 1
    /\ UNCHANGED <<aborted, links, sockets, peers, buffer, scheduler, signalled, forwarder>>

Next == Scheduler \/ Forwarding \/ ReverseForwarding \/ Send1 \/ Send2 \/ Tick

Spec == Init /\ [][Next]_vars

\* Every thread runs when it can, and time passes; the wait for buffer_cond
\* need not end before it is signalled.
FairSpec ==
    /\ Spec
    /\ WF_vars(Now \/ Deliver \/ ReadSize \/ Dispatch \/ HoldBack \/ WakeUp
               \/ CondWait \/ AssertFails \/ (signalled /\ CondReturn))
    /\ WF_vars(Forwarding) /\ WF_vars(ReverseForwarding) /\ WF_vars(Tick)

-----------------------------------------------------------------------------
(* Properties.                                                               *)

\* Every variable has the shape its C type gives it, and times are not negative.
TypeOK ==
    /\ aborted \in BOOLEAN /\ clock \in Nat
    /\ link_up1 \in BOOLEAN /\ link_up2 \in BOOLEAN
    /\ in1 \in Seq(1 .. MaxSent1) /\ in2 \in Seq(1 .. MaxSent2)
    /\ out1 \in Seq(1 .. MaxSent2) /\ out2 \in Seq(Msg)
    /\ sent1 \in 0 .. MaxSent1 /\ sent2 \in 0 .. MaxSent2
    /\ buffer \in Seq(Msg)
    /\ in_flight \in Seq(Flight) /\ idle_time \in Nat /\ crt_time \in Nat
    /\ stuff \in BOOLEAN
    /\ sched \in {"now", "drain", "dispatch", "asleep", "lock", "waiting"}
    /\ wake \in Nat /\ signalled \in BOOLEAN
    /\ fw \in {"receive", "check", "enqueue"}
    /\ m \in Msg \/ (m = NoMsg /\ fw = "receive")

\* The buffer never holds more than BUFFER_SIZE messages, although the
\* forwarding thread looks at its size in one critical section of buffer_lock
\* and adds to it in another.
BufferBounded == Len(buffer) + (IF fw = "enqueue" THEN 1 ELSE 0) <= BUFFER_SIZE

\* assert(mif->m) of link_scheduler: what the scheduler saw in the buffer is
\* still there when it takes the lock again.
DequeueFindsMessage == sched = "dispatch" /\ stuff => buffer # <<>>

\* Messages in flight are due in the order of the queue, serialization_delay
\* apart: the scheduler may look at the oldest only.
Paced ==
    \A k \in 1 .. Len(in_flight) - 1 :
        in_flight[k].finish_time + serialization_delay <= in_flight[k + 1].finish_time

\* The scheduler waits for a signal only while there is nothing to do for it:
\* no wakeup is lost, and none is needed for the messages in flight.
WaitsOnlyWhenIdle ==
    sched = "waiting" /\ ~signalled => buffer = <<>> /\ in_flight = <<>>

\* Everything that reaches socket 1 leaves the emulator, or is dropped at once;
\* so does everything that reaches socket 2; unless an assertion fails.
Inside == in1 # <<>> \/ fw # "receive" \/ buffer # <<>> \/ in_flight # <<>>
EverythingLeaves ==
    /\ Inside ~> (aborted \/ ~Inside)
    /\ (in2 # <<>>) ~> (aborted \/ in2 = <<>>)

Flying == [k \in DOMAIN in_flight |-> in_flight[k].m]

\* What Channel sees as waiting at end 1, and as inside.
Waiting == (IF fw = "check" THEN <<m.val>> ELSE <<>>) \o in1
Crossing == Flying \o buffer \o (IF fw = "enqueue" THEN <<m>> ELSE <<>>)

Link == INSTANCE Channel WITH
    Values1 <- 1 .. MaxSent1, Values2 <- 1 .. MaxSent2,
    Capacity <- BUFFER_SIZE, Lossy <- Loss, Corrupting <- Corrupt,
    broken <- aborted, up1 <- link_up1, up2 <- link_up2,
    in1 <- Waiting, inside <- Crossing

\* The emulator implements Channel: what is in flight, in the buffer and on its
\* way into the buffer is one queue, which loses a message only on entry, only
\* when loss is configured or BUFFER_SIZE messages are inside, and never
\* reorders or repeats one.
ImplementsChannel == Link!Spec

\* link.c:272 "assert(!buffer->size)": the scheduler has nothing to send when it
\* is about to wait for a signal.
AssertionsHold == ~aborted
=============================================================================
