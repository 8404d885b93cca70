----------------------------- MODULE LinkProofs -----------------------------
(***************************************************************************)
(* Proofs about LinkEmulator, for every buffer size, delay and number of   *)
(* datagrams.                                                              *)
(***************************************************************************)
EXTENDS LinkEmulator, SequenceTheorems, TLAPS

\* Appending to a sequence and taking its head off, element by element.
LEMMA AppendElements ==
    ASSUME NEW S, NEW s \in Seq(S), NEW x \in S
    PROVE  /\ Append(s, x) \in Seq(S)
           /\ Len(Append(s, x)) = Len(s) + 1
           /\ \A k \in 1 .. Len(s) : Append(s, x)[k] = s[k]
           /\ Append(s, x)[Len(s) + 1] = x
  OBVIOUS

LEMMA TailElements ==
    ASSUME NEW S, NEW s \in Seq(S), s # <<>>
    PROVE  /\ Head(s) \in S /\ Head(s) = s[1]
           /\ Tail(s) \in Seq(S)
           /\ Len(s) \in Nat \ {0}
           /\ Len(Tail(s)) = Len(s) - 1
           /\ \A k \in 1 .. Len(s) - 1 : Tail(s)[k] = s[k + 1]
  OBVIOUS

-----------------------------------------------------------------------------
(* Types.                                                                    *)

LEMMA InitType == Init => TypeOK
<1> SUFFICES ASSUME Init PROVE TypeOK
  OBVIOUS
<1>1. /\ in1 \in Seq(1 .. MaxSent1) /\ in2 \in Seq(1 .. MaxSent2)
      /\ out1 \in Seq(1 .. MaxSent2) /\ out2 \in Seq(Msg)
      /\ buffer \in Seq(Msg) /\ in_flight \in Seq(Flight)
  BY EmptySeq DEF Init
<1>2. sent1 \in 0 .. MaxSent1 /\ sent2 \in 0 .. MaxSent2
  BY LinkAssumption DEF Init
<1>3. m = NoMsg /\ fw = "receive"
  BY DEF Init
<1> QED
  BY <1>1, <1>2, <1>3 DEF Init, TypeOK

\* The scheduler, when it settles down, goes to sleep or to the lock.
LEMMA RestType ==
    ASSUME TypeOK, Rest, idle_time' \in Nat, in_flight' \in Seq(Flight)
    PROVE  sched' \in {"asleep", "lock"} /\ wake' \in Nat
<1>1. crt_time \in Nat /\ clock \in Nat /\ wake \in Nat
  BY DEF TypeOK
<1>2. in_flight' # <<>> => Head(in_flight').finish_time \in Nat
  <2> SUFFICES ASSUME in_flight' # <<>> PROVE Head(in_flight').finish_time \in Nat
    OBVIOUS
  <2>1. Head(in_flight') \in Flight
    BY TailElements
  <2> QED
    BY <2>1 DEF Flight
<1> DEFINE wi == idle_time' - crt_time
           ws == IF in_flight' = <<>> THEN 0 ELSE Head(in_flight').finish_time - crt_time
           w == IF wi <= 0 THEN 0 ELSE IF ws > 0 /\ ws < wi THEN ws ELSE wi
<1>3. wi \in Int /\ ws \in Int
  BY <1>1, <1>2
<1>4. \/ sched' = "asleep" /\ wake' = clock + w
      \/ sched' = "lock" /\ wake' = wake
  BY Zenon DEF Rest
<1> HIDE DEF wi, ws
<1>5. w \in Nat
  BY <1>3
<1> QED
  BY <1>1, <1>4, <1>5

\* Every step keeps the types; Dispatch needs to know that the message is there.
LEMMA NextType == TypeOK /\ DequeueFindsMessage /\ [Next]_vars => TypeOK'
<1> SUFFICES ASSUME TypeOK, DequeueFindsMessage, [Next]_vars PROVE TypeOK'
  OBVIOUS
<1> USE LinkAssumption
<1>1. CASE UNCHANGED vars
  BY <1>1 DEF TypeOK, vars, links, sockets, peers, scheduler, forwarder
<1>2. CASE Now
  BY <1>2 DEF Now, TypeOK, links, sockets, peers, forwarder
<1>3. CASE Deliver
  <2>1. Head(in_flight).m \in Msg /\ Tail(in_flight) \in Seq(Flight)
    <3>1. Head(in_flight) \in Flight /\ Tail(in_flight) \in Seq(Flight)
      BY <1>3, TailElements DEF Deliver, Due, TypeOK
    <3> QED
      BY <3>1 DEF Flight
  <2>2. out2' \in Seq(Msg) /\ in_flight' \in Seq(Flight)
    BY <1>3, <2>1 DEF Deliver, TypeOK
  <2> QED
    BY <1>3, <2>2 DEF Deliver, TypeOK, links, peers, forwarder
<1>4. CASE ReadSize
  BY <1>4 DEF ReadSize, TypeOK, links, sockets, peers, forwarder
<1>5. CASE Dispatch
  <2>1. Head(buffer) \in Msg /\ Tail(buffer) \in Seq(Msg)
    BY <1>5, TailElements DEF Dispatch, MayDispatch, TypeOK, DequeueFindsMessage
  <2>2. /\ buffer' \in Seq(Msg) /\ idle_time' \in Nat
        /\ crt_time + serialization_delay + delay \in Nat
    BY <1>5, <2>1 DEF Dispatch, TypeOK
  <2>3. in_flight' \in Seq(Flight)
    BY <1>5, <2>1, <2>2 DEF Dispatch, TypeOK, Flight
  <2>4. sched' \in {"asleep", "lock"} /\ wake' \in Nat
    BY <1>5, <2>2, <2>3, RestType DEF Dispatch
  <2> QED
    BY <1>5, <2>2, <2>3, <2>4 DEF Dispatch, TypeOK, links, sockets, peers, forwarder
<1>6. CASE HoldBack
  <2>1. sched' \in {"asleep", "lock"} /\ wake' \in Nat
    BY <1>6, RestType DEF HoldBack, TypeOK
  <2> QED
    BY <1>6, <2>1 DEF HoldBack, TypeOK, links, sockets, peers, forwarder
<1>7. CASE WakeUp
  BY <1>7 DEF WakeUp, TypeOK, links, sockets, peers, forwarder
<1>8. CASE CondWait
  BY <1>8 DEF CondWait, TypeOK, links, sockets, peers, forwarder
<1>9. CASE AssertFails
  BY <1>9 DEF AssertFails, TypeOK, links, sockets, peers, scheduler, forwarder
<1>10. CASE CondReturn
  BY <1>10 DEF CondReturn, TypeOK, links, sockets, peers, forwarder
<1>11. CASE Hello1
  BY <1>11 DEF Hello1, TypeOK, peers, scheduler, forwarder
<1>12. CASE Receive1
  <2>1. Head(in1) \in 1 .. MaxSent1 /\ in1' \in Seq(1 .. MaxSent1)
    BY <1>12, TailElements DEF Receive1, TypeOK
  <2>2. m' \in Msg
    BY <1>12, <2>1 DEF Receive1, Msg
  <2> QED
    BY <1>12, <2>1, <2>2 DEF Receive1, TypeOK, links, peers, scheduler
<1>13. CASE Drop
  BY <1>13 DEF Drop, TypeOK, links, sockets, peers, scheduler
<1>14. CASE Keep
  <2>1. m' \in Msg
    BY <1>14 DEF Keep, TypeOK, Msg
  <2> QED
    BY <1>14, <2>1 DEF Keep, TypeOK, links, sockets, peers, scheduler
<1>15. CASE Enqueue
  <2>1. buffer' \in Seq(Msg)
    BY <1>15 DEF Enqueue, TypeOK
  <2> QED
    BY <1>15, <2>1 DEF Enqueue, TypeOK, links, sockets, peers, scheduler
<1>16. CASE Hello2
  BY <1>16 DEF Hello2, TypeOK, peers, scheduler, forwarder
<1>17. CASE Reverse
  <2>1. Head(in2) \in 1 .. MaxSent2 /\ in2' \in Seq(1 .. MaxSent2)
    BY <1>17, TailElements DEF Reverse, TypeOK
  <2>2. out1' = out1 \/ out1' = Append(out1, Head(in2))
    BY <1>17 DEF Reverse
  <2>3. out1' \in Seq(1 .. MaxSent2)
    <3>1. out1 \in Seq(1 .. MaxSent2)
      BY DEF TypeOK
    <3>2. Append(out1, Head(in2)) \in Seq(1 .. MaxSent2)
      BY <2>1, <3>1, AppendElements
    <3> QED
      BY <2>2, <3>1, <3>2
  <2> QED
    BY <1>17, <2>1, <2>3 DEF Reverse, TypeOK, links, peers, scheduler, forwarder
<1>18. CASE Send1
  <2>1. sent1' \in 0 .. MaxSent1 /\ in1' \in Seq(1 .. MaxSent1)
    BY <1>18 DEF Send1, TypeOK
  <2> QED
    BY <1>18, <2>1 DEF Send1, TypeOK, links, scheduler, forwarder
<1>19. CASE Send2
  <2>1. sent2' \in 0 .. MaxSent2 /\ in2' \in Seq(1 .. MaxSent2)
    BY <1>19 DEF Send2, TypeOK
  <2> QED
    BY <1>19, <2>1 DEF Send2, TypeOK, links, scheduler, forwarder
<1>20. CASE Tick
  BY <1>20 DEF Tick, TypeOK, links, sockets, peers, scheduler, forwarder
<1> QED
  BY <1>1, <1>2, <1>3, <1>4, <1>5, <1>6, <1>7, <1>8, <1>9, <1>10, <1>11, <1>12, <1>13,
     <1>14, <1>15, <1>16, <1>17, <1>18, <1>19, <1>20
     DEF Next, Scheduler, Forwarding, ReverseForwarding

-----------------------------------------------------------------------------
(* The buffer, which two threads share.                                      *)

BufferInv == TypeOK /\ BufferBounded /\ DequeueFindsMessage

LEMMA InitBuffer == Init => BufferInv
BY InitType, LinkAssumption DEF Init, BufferInv, BufferBounded, DequeueFindsMessage

\* Only Enqueue adds to the buffer and only Dispatch takes from it.
LEMMA NextBuffer == BufferInv /\ [Next]_vars => BufferInv'
<1> SUFFICES ASSUME BufferInv, [Next]_vars PROVE BufferBounded' /\ DequeueFindsMessage'
  BY NextType DEF BufferInv
<1>0. /\ buffer \in Seq(Msg) /\ Len(buffer) \in Nat /\ BUFFER_SIZE \in Nat
      /\ BufferBounded /\ DequeueFindsMessage
  BY LinkAssumption DEF BufferInv, TypeOK
<1>1. CASE Dispatch
  <2>1. buffer # <<>> /\ sched' # "dispatch" /\ fw' = fw
    <3>1. sched' \in {"asleep", "lock"}
      BY <1>1 DEF Dispatch, Rest
    <3> QED
      BY <1>0, <1>1, <3>1 DEF Dispatch, MayDispatch, DequeueFindsMessage, forwarder
  <2>2. Len(buffer') <= Len(buffer)
    BY <1>0, <1>1, <2>1, TailElements DEF Dispatch
  <2>3. Len(buffer') \in Nat
    BY <1>0, <1>1, <2>1, TailElements DEF Dispatch
  <2> QED
    BY <1>0, <2>1, <2>2, <2>3 DEF BufferBounded, DequeueFindsMessage
<1>2. CASE Enqueue
  <2>1. buffer' # <<>> /\ Len(buffer') = Len(buffer) + 1
    <3>1. m \in Msg
      BY <1>2 DEF Enqueue, BufferInv, TypeOK
    <3> QED
      BY <1>0, <1>2, <3>1 DEF Enqueue
  <2> QED
    BY <1>0, <1>2, <2>1 DEF Enqueue, BufferBounded, DequeueFindsMessage
<1>3. CASE Keep
  BY <1>0, <1>3 DEF Keep, Overflow, BufferBounded, DequeueFindsMessage, scheduler
<1>4. CASE ReadSize
  BY <1>0, <1>4 DEF ReadSize, BufferBounded, DequeueFindsMessage, forwarder
<1>5. CASE \/ Now \/ HoldBack \/ WakeUp \/ CondWait \/ CondReturn
  <2>1. buffer' = buffer /\ fw' = fw /\ sched' # "dispatch"
    BY <1>5 DEF Now, HoldBack, Rest, WakeUp, CondWait, CondReturn, forwarder
  <2> QED
    BY <1>0, <2>1 DEF BufferBounded, DequeueFindsMessage
<1>6. CASE Receive1 \/ Drop
  <2>1. buffer' = buffer /\ fw' # "enqueue" /\ sched' = sched /\ stuff' = stuff
    BY <1>6 DEF Receive1, Drop, scheduler
  <2> QED
    BY <1>0, <2>1 DEF BufferBounded, DequeueFindsMessage
<1>7. CASE \/ Deliver \/ AssertFails \/ Hello1 \/ Hello2 \/ Reverse
           \/ Send1 \/ Send2 \/ Tick \/ UNCHANGED vars
  <2>1. buffer' = buffer /\ fw' = fw /\ sched' = sched /\ stuff' = stuff
    BY <1>7 DEF Deliver, AssertFails, Hello1, Hello2, Reverse, Send1, Send2, Tick, vars,
                scheduler, forwarder
  <2> QED
    BY <1>0, <2>1 DEF BufferBounded, DequeueFindsMessage
<1> QED
  BY <1>1, <1>2, <1>3, <1>4, <1>5, <1>6, <1>7
     DEF Next, Scheduler, Forwarding, ReverseForwarding

LEMMA BufferInvariant == Spec => []BufferInv
<1>1. Init => BufferInv
  BY InitBuffer
<1>2. BufferInv /\ [Next]_vars => BufferInv'
  BY NextBuffer
<1> QED
  BY <1>1, <1>2, PTL DEF Spec

\* The variables of the emulator keep their types.
THEOREM TypeCorrect == Spec => []TypeOK
<1>1. BufferInv => TypeOK
  BY DEF BufferInv
<1> QED
  BY <1>1, BufferInvariant, PTL

\* The buffer never holds more than BUFFER_SIZE messages, whatever its size and
\* however the two threads interleave.
THEOREM BufferNeverOverflows == Spec => []BufferBounded
<1>1. BufferInv => BufferBounded
  BY DEF BufferInv
<1> QED
  BY <1>1, BufferInvariant, PTL

\* assert(mif->m) never fails.
THEOREM DequeueNeverFails == Spec => []DequeueFindsMessage
<1>1. BufferInv => DequeueFindsMessage
  BY DEF BufferInv
<1> QED
  BY <1>1, BufferInvariant, PTL

-----------------------------------------------------------------------------
(* The schedule: what is in flight, and when the scheduler may wait.         *)

\* The message put in flight last is due at idle_time + delay, at the latest.
FlightBeforeIdle ==
    in_flight # <<>> => in_flight[Len(in_flight)].finish_time <= idle_time + delay

\* What is left in flight when the scheduler dispatches is not due, and there is
\* nothing in flight when it takes the lock to wait.
DispatchNotDue == sched = "dispatch" => ~Due
LockNoFlight == sched = "lock" => in_flight = <<>>

ScheduleInv ==
    /\ BufferInv /\ Paced /\ FlightBeforeIdle
    /\ DispatchNotDue /\ LockNoFlight /\ WaitsOnlyWhenIdle

LEMMA InitSchedule == Init => ScheduleInv
<1> SUFFICES ASSUME Init PROVE ScheduleInv
  OBVIOUS
<1>1. BufferInv
  BY InitBuffer
<1>2. in_flight = <<>> /\ sched = "now"
  BY DEF Init
<1>3. Paced
  BY <1>2 DEF Paced
<1> QED
  BY <1>1, <1>2, <1>3
     DEF ScheduleInv, FlightBeforeIdle, DispatchNotDue, LockNoFlight, WaitsOnlyWhenIdle

\* While the oldest message in flight is not due, the scheduler goes to sleep.
LEMMA RestSleeps ==
    ASSUME TypeOK, Rest, idle_time' \in Nat, in_flight' \in Seq(Flight),
           in_flight' # <<>>, crt_time < Head(in_flight').finish_time
    PROVE  sched' = "asleep"
<1> DEFINE ws == Head(in_flight').finish_time - crt_time
<1>1. crt_time \in Nat /\ Head(in_flight').finish_time \in Nat
  <2>1. Head(in_flight') \in Flight
    BY TailElements
  <2> QED
    BY <2>1 DEF Flight, TypeOK
<1>2. ws > 0
  BY <1>1
<1>3. ws > 0 => sched' = "asleep"
  BY Zenon DEF Rest
<1> QED
  BY <1>2, <1>3

\* Dispatching puts one more message in flight, and never leads to the lock.
LEMMA DispatchSchedule == ScheduleInv /\ Dispatch => ScheduleInv'
<1> SUFFICES ASSUME ScheduleInv, Dispatch PROVE ScheduleInv'
  OBVIOUS
<1> USE LinkAssumption
<1> DEFINE n == Len(in_flight)
           x == [m |-> Head(buffer), finish_time |-> crt_time + serialization_delay + delay]
<1>1. BufferInv'
  <2>1. [Next]_vars
    BY DEF Next, Scheduler
  <2> QED
    BY <2>1, NextBuffer DEF ScheduleInv
<1>2. /\ in_flight \in Seq(Flight) /\ n \in Nat /\ crt_time \in Nat /\ idle_time \in Nat
      /\ buffer \in Seq(Msg) /\ in_flight' \in Seq(Flight) /\ idle_time' \in Nat /\ TypeOK
  BY <1>1 DEF ScheduleInv, BufferInv, TypeOK
<1>3. x \in Flight
  <2>1. Head(buffer) \in Msg
    BY <1>2, TailElements
       DEF Dispatch, MayDispatch, ScheduleInv, BufferInv, DequeueFindsMessage
  <2> QED
    BY <1>2, <2>1 DEF Flight
<1>4. /\ in_flight' = Append(in_flight, x) /\ idle_time' = crt_time + serialization_delay
      /\ crt_time >= idle_time
  BY DEF Dispatch, MayDispatch
<1>5. /\ Len(in_flight') = n + 1 /\ in_flight'[n + 1] = x
      /\ \A k \in 1 .. n : in_flight'[k] = in_flight[k]
  BY <1>2, <1>3, <1>4, AppendElements
<1>6. x.finish_time = crt_time + serialization_delay + delay
  OBVIOUS
<1>7. \A k \in 1 .. n : in_flight[k].finish_time \in Nat
  <2> SUFFICES ASSUME NEW k \in 1 .. n PROVE in_flight[k].finish_time \in Nat
    OBVIOUS
  <2>1. in_flight[k] \in Flight
    BY <1>2
  <2> QED
    BY <2>1 DEF Flight
<1> HIDE DEF x, n
<1>8. FlightBeforeIdle'
  BY <1>2, <1>4, <1>5, <1>6 DEF FlightBeforeIdle
<1>9. Paced'
  <2> SUFFICES ASSUME NEW k \in 1 .. n
               PROVE  in_flight'[k].finish_time + serialization_delay
                          <= in_flight'[k + 1].finish_time
    BY <1>2, <1>5 DEF Paced
  <2>1. CASE k < n
    <3>1. in_flight[k].finish_time + serialization_delay <= in_flight[k + 1].finish_time
      BY <1>2, <2>1 DEF ScheduleInv, Paced, n
    <3> QED
      BY <1>2, <1>5, <2>1, <3>1
  <2>2. CASE k = n
    <3>1. in_flight[n].finish_time <= idle_time + delay
      BY <1>2, <2>2 DEF ScheduleInv, FlightBeforeIdle, n
    <3> QED
      BY <1>2, <1>4, <1>5, <1>6, <1>7, <2>2, <3>1
  <2> QED
    BY <1>2, <2>1, <2>2
<1>10. in_flight' # <<>> /\ crt_time < Head(in_flight').finish_time
  <2>1. in_flight' # <<>> /\ Head(in_flight') = in_flight'[1]
    BY <1>2, <1>5
  <2>2. CASE n = 0
    BY <1>2, <1>5, <1>6, <2>1, <2>2
  <2>3. CASE n > 0
    <3>1. in_flight # <<>> /\ Head(in_flight) = in_flight[1]
      BY <1>2, <2>3, TailElements DEF n
    <3>2. ~Due
      BY DEF Dispatch, ScheduleInv, DispatchNotDue
    <3>3. crt_time < in_flight[1].finish_time
      BY <1>2, <1>7, <2>3, <3>1, <3>2 DEF Due
    <3> QED
      BY <1>2, <1>5, <2>1, <2>3, <3>3
  <2> QED
    BY <1>2, <2>2, <2>3
<1>11. sched' = "asleep"
  BY <1>2, <1>10, RestSleeps DEF Dispatch
<1> QED
  BY <1>1, <1>8, <1>9, <1>11
     DEF ScheduleInv, DispatchNotDue, LockNoFlight, WaitsOnlyWhenIdle

\* Delivering the oldest message leaves the others in order.
LEMMA DeliverSchedule == ScheduleInv /\ Deliver => ScheduleInv'
<1> SUFFICES ASSUME ScheduleInv, Deliver PROVE ScheduleInv'
  OBVIOUS
<1>1. BufferInv'
  <2>1. [Next]_vars
    BY DEF Next, Scheduler
  <2> QED
    BY <2>1, NextBuffer DEF ScheduleInv
<1>2. in_flight \in Seq(Flight) /\ in_flight # <<>> /\ in_flight' = Tail(in_flight)
  BY DEF ScheduleInv, BufferInv, TypeOK, Deliver, Due
<1> DEFINE n == Len(in_flight)
<1>3. /\ n \in Nat \ {0} /\ Len(in_flight') = n - 1
      /\ \A k \in 1 .. n - 1 : in_flight'[k] = in_flight[k + 1]
  BY <1>2, TailElements
<1>4. /\ sched' = "drain" /\ idle_time' = idle_time
  BY DEF Deliver
<1>5. Paced'
  BY <1>2, <1>3 DEF ScheduleInv, Paced
<1>6. FlightBeforeIdle'
  <2> SUFFICES ASSUME in_flight' # <<>>
               PROVE  in_flight'[n - 1].finish_time <= idle_time + delay
    BY <1>3, <1>4 DEF FlightBeforeIdle
  <2>1. n - 1 \in 1 .. n - 1
    BY <1>1, <1>3 DEF BufferInv, TypeOK
  <2>2. in_flight'[n - 1] = in_flight[n]
    BY <1>3, <2>1
  <2> QED
    BY <1>2, <2>2 DEF ScheduleInv, FlightBeforeIdle
<1> QED
  BY <1>1, <1>4, <1>5, <1>6
     DEF ScheduleInv, DispatchNotDue, LockNoFlight, WaitsOnlyWhenIdle

LEMMA NextSchedule == ScheduleInv /\ [Next]_vars => ScheduleInv'
<1> SUFFICES ASSUME ScheduleInv, [Next]_vars PROVE ScheduleInv'
  OBVIOUS
<1>1. BufferInv'
  BY NextBuffer DEF ScheduleInv
<1>2. CASE Dispatch
  BY <1>2, DispatchSchedule
<1>3. CASE Deliver
  BY <1>3, DeliverSchedule
<1>4. CASE UNCHANGED <<in_flight, idle_time>>
  <2>1. Paced' /\ FlightBeforeIdle'
    BY <1>4 DEF ScheduleInv, Paced, FlightBeforeIdle
  <2> SUFFICES ASSUME ~Dispatch, ~Deliver
               PROVE  DispatchNotDue' /\ LockNoFlight' /\ WaitsOnlyWhenIdle'
    BY <1>1, <1>2, <1>3, <2>1 DEF ScheduleInv
  <2>2. CASE HoldBack
    <3>1. sched' \in {"asleep", "lock"}
      BY <2>2 DEF HoldBack, Rest
    <3>2. LockNoFlight'
      <4> SUFFICES ASSUME in_flight # <<>> PROVE sched' = "asleep"
        BY <1>4, <3>1 DEF LockNoFlight
      <4>1. TypeOK /\ idle_time' \in Nat /\ in_flight' \in Seq(Flight) /\ in_flight' # <<>>
        BY <1>4 DEF ScheduleInv, BufferInv, TypeOK
      <4>2. Head(in_flight') \in Flight /\ crt_time \in Nat
        BY <4>1, TailElements DEF TypeOK
      <4>3. ~(crt_time >= Head(in_flight').finish_time)
        BY <1>4, <2>2 DEF HoldBack, ScheduleInv, DispatchNotDue, Due
      <4>4. crt_time < Head(in_flight').finish_time
        BY <4>2, <4>3 DEF Flight
      <4> QED
        BY <2>2, <4>1, <4>4, RestSleeps DEF HoldBack
    <3> QED
      BY <3>1, <3>2 DEF DispatchNotDue, WaitsOnlyWhenIdle
  <2>3. CASE ReadSize
    BY <2>3 DEF ReadSize, DispatchNotDue, LockNoFlight, WaitsOnlyWhenIdle, Due
  <2>4. CASE CondWait
    BY <2>4 DEF CondWait, ScheduleInv, DispatchNotDue, LockNoFlight, WaitsOnlyWhenIdle
  <2>5. CASE Now \/ WakeUp \/ CondReturn
    <3>1. sched' \in {"now", "drain"}
      BY <2>5 DEF Now, WakeUp, CondReturn
    <3> QED
      BY <3>1 DEF DispatchNotDue, LockNoFlight, WaitsOnlyWhenIdle
  <2>6. CASE Enqueue
    BY <2>6 DEF Enqueue, scheduler, ScheduleInv, DispatchNotDue, Due, LockNoFlight,
                WaitsOnlyWhenIdle
  <2>7. CASE \/ AssertFails \/ Hello1 \/ Receive1 \/ Drop \/ Keep \/ Hello2 \/ Reverse
             \/ Send1 \/ Send2 \/ Tick \/ UNCHANGED vars
    <3>1. UNCHANGED <<buffer, signalled, sched, crt_time, in_flight>>
      BY <2>7 DEF AssertFails, Hello1, Receive1, Drop, Keep, Hello2, Reverse, Send1, Send2,
                  Tick, vars, scheduler
    <3> QED
      BY <3>1 DEF ScheduleInv, DispatchNotDue, Due, LockNoFlight, WaitsOnlyWhenIdle
  <2> QED
    BY <2>2, <2>3, <2>4, <2>5, <2>6, <2>7
       DEF Next, Scheduler, Forwarding, ReverseForwarding
<1>5. Dispatch \/ Deliver \/ UNCHANGED <<in_flight, idle_time>>
  BY DEF Next, Scheduler, Forwarding, ReverseForwarding, Now, ReadSize, HoldBack, WakeUp,
         CondWait, AssertFails, CondReturn, Hello1, Receive1, Drop, Keep, Enqueue, Hello2,
         Reverse, Send1, Send2, Tick, vars, scheduler
<1> QED
  BY <1>2, <1>3, <1>4, <1>5

LEMMA ScheduleInvariant == Spec => []ScheduleInv
<1>1. Init => ScheduleInv
  BY InitSchedule
<1>2. ScheduleInv /\ [Next]_vars => ScheduleInv'
  BY NextSchedule
<1> QED
  BY <1>1, <1>2, PTL DEF Spec

\* The scheduler never sleeps through a signal, and never waits for one with a
\* message in flight, whatever the delays, as long as one of them is not 0.
THEOREM NoLostWakeup == Spec => []WaitsOnlyWhenIdle
<1>1. ScheduleInv => WaitsOnlyWhenIdle
  BY DEF ScheduleInv
<1> QED
  BY <1>1, ScheduleInvariant, PTL

\* Messages leave the link in order and serialization_delay apart.
THEOREM FlightsPaced == Spec => []Paced
<1>1. ScheduleInv => Paced
  BY DEF ScheduleInv
<1> QED
  BY <1>1, ScheduleInvariant, PTL

-----------------------------------------------------------------------------
(* Queues that are joined end to end.                                        *)

\* Something added behind the second queue is added behind both.
LEMMA AppendToConcat ==
    ASSUME NEW S, NEW s \in Seq(S), NEW t \in Seq(S), NEW x \in S
    PROVE  Append(s \o t, x) = s \o Append(t, x)
<1>1. <<x>> \in Seq(S) /\ s \o t \in Seq(S)
  BY ConcatProperties
<1>2. Append(s \o t, x) = (s \o t) \o <<x>>
  BY <1>1, AppendIsConcat
<1>3. Append(t, x) = t \o <<x>>
  BY AppendIsConcat
<1> QED
  BY <1>1, <1>2, <1>3, ConcatAssociative

\* Taking from the first queue takes from both.
LEMMA HeadOfConcat ==
    ASSUME NEW S, NEW s \in Seq(S), NEW t \in Seq(S), s # <<>>
    PROVE  /\ s \o t # <<>> /\ Head(s \o t) = Head(s)
           /\ Tail(s \o t) = Tail(s) \o t
<1>1. /\ s \o t \in Seq(S) /\ Len(s \o t) = Len(s) + Len(t)
      /\ \A k \in 1 .. Len(s) + Len(t) :
            (s \o t)[k] = IF k <= Len(s) THEN s[k] ELSE t[k - Len(s)]
  BY ConcatProperties
<1>2. /\ Len(s) \in Nat \ {0} /\ Len(t) \in Nat
      /\ Tail(s) \in Seq(S) /\ Len(Tail(s)) = Len(s) - 1
      /\ Head(s) = s[1] /\ \A k \in 1 .. Len(s) - 1 : Tail(s)[k] = s[k + 1]
  BY TailElements, LenProperties
<1>3. s \o t # <<>>
  BY <1>1, <1>2, EmptySeq
<1>4. /\ Tail(s \o t) \in Seq(S) /\ Len(Tail(s \o t)) = Len(s) + Len(t) - 1
      /\ Head(s \o t) = (s \o t)[1]
      /\ \A k \in 1 .. Len(s) + Len(t) - 1 : Tail(s \o t)[k] = (s \o t)[k + 1]
  BY <1>1, <1>3, TailElements
<1>5. /\ Tail(s) \o t \in Seq(S) /\ Len(Tail(s) \o t) = Len(s) - 1 + Len(t)
      /\ \A k \in 1 .. Len(s) - 1 + Len(t) : (Tail(s) \o t)[k] =
            IF k <= Len(s) - 1 THEN Tail(s)[k] ELSE t[k - (Len(s) - 1)]
  BY <1>2, ConcatProperties
<1>6. ASSUME NEW k \in 1 .. Len(s) + Len(t) - 1
      PROVE  Tail(s \o t)[k] = (Tail(s) \o t)[k]
  <2>1. Tail(s \o t)[k] = IF k + 1 <= Len(s) THEN s[k + 1] ELSE t[k + 1 - Len(s)]
    BY <1>1, <1>2, <1>4
  <2> QED
    BY <1>2, <1>5, <2>1
<1>7. Tail(s \o t) = Tail(s) \o t
  BY <1>2, <1>4, <1>5, <1>6, SeqEqual
<1> QED
  BY <1>1, <1>2, <1>3, <1>4, <1>7

\* Moving the head of the second queue behind the first changes nothing.
LEMMA MoveHead ==
    ASSUME NEW S, NEW s \in Seq(S), NEW t \in Seq(S), t # <<>>
    PROVE  Append(s, Head(t)) \o Tail(t) = s \o t
<1>1. Head(t) \in S /\ Tail(t) \in Seq(S) /\ <<Head(t)>> \in Seq(S)
  BY TailElements
<1>2. Append(s, Head(t)) = s \o <<Head(t)>>
  BY <1>1, AppendIsConcat
<1>3. (s \o <<Head(t)>>) \o Tail(t) = s \o (<<Head(t)>> \o Tail(t))
  BY <1>1, ConcatAssociative
<1>4. <<Head(t)>> \o Tail(t) = t
  <2>1. /\ <<Head(t)>> \o Tail(t) \in Seq(S)
        /\ Len(<<Head(t)>> \o Tail(t)) = 1 + Len(Tail(t))
        /\ \A k \in 1 .. 1 + Len(Tail(t)) : (<<Head(t)>> \o Tail(t))[k] =
              IF k <= 1 THEN <<Head(t)>>[k] ELSE Tail(t)[k - 1]
    <3>1. Len(<<Head(t)>>) = 1
      OBVIOUS
    <3> QED
      BY <1>1, <3>1, ConcatProperties
  <2>2. /\ Len(t) \in Nat \ {0} /\ Len(Tail(t)) = Len(t) - 1 /\ Head(t) = t[1]
        /\ \A k \in 1 .. Len(t) - 1 : Tail(t)[k] = t[k + 1]
    BY TailElements
  <2>3. \A k \in 1 .. Len(t) : (<<Head(t)>> \o Tail(t))[k] = t[k]
    BY <2>1, <2>2
  <2> QED
    BY <2>1, <2>2, <2>3, SeqEqual
<1> QED
  BY <1>2, <1>3, <1>4

-----------------------------------------------------------------------------
(* The emulator implements Channel.                                          *)

LEMMA FunctionIsSeq ==
    ASSUME NEW S, NEW n \in Nat, NEW f \in [1 .. n -> S]
    PROVE  f \in Seq(S) /\ Len(f) = n
<1>1. f \in Seq(S)
  BY SeqDef
<1> QED
  BY <1>1, LenProperties

\* Flying is in_flight without the times.
LEMMA FlyingElements ==
    ASSUME in_flight \in Seq(Flight)
    PROVE  /\ Flying \in Seq(Msg) /\ Len(Flying) = Len(in_flight)
           /\ \A k \in 1 .. Len(in_flight) : Flying[k] = in_flight[k].m
<1>1. DOMAIN in_flight = 1 .. Len(in_flight) /\ Len(in_flight) \in Nat
  BY LenProperties
<1>2. \A k \in 1 .. Len(in_flight) : in_flight[k].m \in Msg
  <2> SUFFICES ASSUME NEW k \in 1 .. Len(in_flight) PROVE in_flight[k].m \in Msg
    OBVIOUS
  <2>1. in_flight[k] \in Flight
    OBVIOUS
  <2> QED
    BY <2>1 DEF Flight
<1>3. Flying \in [1 .. Len(in_flight) -> Msg]
  BY <1>1, <1>2 DEF Flying
<1> QED
  BY <1>1, <1>3, FunctionIsSeq DEF Flying

\* A message that is checked is the one received, and port 1 has said hello.
HelloFirst ==
    /\ fw # "receive" => link_up1
    /\ fw = "check" => m = [val |-> m.val, ok |-> TRUE]

RefinementInv == BufferInv /\ HelloFirst

LEMMA NextRefinementInv == RefinementInv /\ [Next]_vars => RefinementInv'
<1> SUFFICES ASSUME RefinementInv, [Next]_vars PROVE HelloFirst'
  BY NextBuffer DEF RefinementInv
<1>1. CASE Receive1
  BY <1>1 DEF Receive1, HelloFirst, links
<1>2. CASE Hello1
  BY <1>2 DEF Hello1, HelloFirst, forwarder
<1>3. CASE Drop \/ Keep \/ Enqueue
  BY <1>3 DEF RefinementInv, HelloFirst, Drop, Keep, Enqueue, links
<1>4. CASE ~Receive1 /\ ~Hello1 /\ ~Drop /\ ~Keep /\ ~Enqueue
  <2>1. UNCHANGED <<link_up1, fw, m>>
    BY <1>4 DEF Next, Scheduler, Forwarding, ReverseForwarding, Now, Deliver, ReadSize,
           Dispatch, HoldBack, WakeUp, CondWait, AssertFails, CondReturn, Hello2, Reverse,
           Send1, Send2, Tick, vars, links, forwarder
  <2> QED
    BY <2>1 DEF RefinementInv, HelloFirst
<1> QED
  BY <1>1, <1>2, <1>3, <1>4

LEMMA RefinementInvariant == Spec => []RefinementInv
<1>1. Init => RefinementInv
  BY InitBuffer DEF Init, RefinementInv, HelloFirst
<1>2. RefinementInv /\ [Next]_vars => RefinementInv'
  BY NextRefinementInv
<1> QED
  BY <1>1, <1>2, PTL DEF Spec

LEMMA InitRefines == Init => Link!Init
<1> SUFFICES ASSUME Init PROVE Link!Init
  OBVIOUS
<1>1. Waiting = <<>>
  BY EmptySeq, ConcatEmptySeq DEF Init, Waiting
<1>2. Crossing = <<>>
  <2>1. Flying = <<>>
    BY EmptySeq, FlyingElements DEF Init
  <2> QED
    BY <2>1, EmptySeq, ConcatEmptySeq DEF Init, Crossing
<1> QED
  BY <1>1, <1>2 DEF Init, Link!Init

\* The held message as a queue of its own.
Held == IF fw = "enqueue" THEN <<m>> ELSE <<>>

LEMMA QueueTypes ==
    ASSUME RefinementInv
    PROVE  /\ Flying \in Seq(Msg) /\ buffer \in Seq(Msg) /\ Held \in Seq(Msg)
           /\ Flying \o buffer \in Seq(Msg) /\ Crossing = (Flying \o buffer) \o Held
           /\ Crossing \in Seq(Msg)
           /\ in1 \in Seq(1 .. MaxSent1) /\ Waiting \in Seq(1 .. MaxSent1)
<1>1. TypeOK
  BY DEF RefinementInv, BufferInv
<1>2. Flying \in Seq(Msg) /\ buffer \in Seq(Msg) /\ in1 \in Seq(1 .. MaxSent1)
  BY <1>1, FlyingElements DEF TypeOK
<1>3. Held \in Seq(Msg)
  BY <1>1 DEF TypeOK, Held
<1>4. (IF fw = "check" THEN <<m.val>> ELSE <<>>) \in Seq(1 .. MaxSent1)
  <2>1. CASE fw = "check"
    <3>1. m \in Msg
      BY <1>1, <2>1 DEF TypeOK
    <3>2. m.val \in 1 .. MaxSent1
      BY <3>1 DEF Msg
    <3> QED
      BY <2>1, <3>2
  <2>2. CASE fw # "check"
    BY <2>2
  <2> QED
    BY <2>1, <2>2
<1> QED
  BY <1>2, <1>3, <1>4, ConcatProperties DEF Crossing, Waiting, Held

\* Steps between which the two queues do not change are steps of the sockets.
LEMMA SameQueues ==
    ASSUME UNCHANGED <<in_flight, buffer, fw, m>>
    PROVE  Flying' = Flying /\ Crossing' = Crossing
BY DEF Flying, Crossing

\* Taking the oldest message out of flight is leaving the link.
LEMMA DeliverRefines == RefinementInv /\ Deliver => Link!Leave
<1> SUFFICES ASSUME RefinementInv, Deliver PROVE Link!Leave
  OBVIOUS
<1>1. /\ in_flight \in Seq(Flight) /\ in_flight # <<>> /\ in_flight' = Tail(in_flight)
      /\ UNCHANGED <<buffer, fw, m, in1>>
  BY DEF Deliver, Due, RefinementInv, BufferInv, TypeOK, forwarder
<1>2. /\ Len(in_flight) \in Nat \ {0} /\ in_flight' \in Seq(Flight)
      /\ Len(in_flight') = Len(in_flight) - 1 /\ Head(in_flight) = in_flight[1]
      /\ \A k \in 1 .. Len(in_flight) - 1 : in_flight'[k] = in_flight[k + 1]
  BY <1>1, TailElements
<1>3. /\ Flying \in Seq(Msg) /\ Len(Flying) = Len(in_flight)
      /\ \A k \in 1 .. Len(in_flight) : Flying[k] = in_flight[k].m
  BY <1>1, FlyingElements
<1>4. /\ Flying' \in Seq(Msg) /\ Len(Flying') = Len(in_flight')
      /\ \A k \in 1 .. Len(in_flight') : Flying'[k] = in_flight'[k].m
  <2>1. ASSUME in_flight' \in Seq(Flight)
        PROVE  /\ Flying' \in Seq(Msg) /\ Len(Flying') = Len(in_flight')
               /\ \A k \in 1 .. Len(in_flight') : Flying'[k] = in_flight'[k].m
    <3>1. DOMAIN in_flight' = 1 .. Len(in_flight') /\ Len(in_flight') \in Nat
      BY <2>1, LenProperties
    <3>2. \A k \in 1 .. Len(in_flight') : in_flight'[k].m \in Msg
      <4> SUFFICES ASSUME NEW k \in 1 .. Len(in_flight') PROVE in_flight'[k].m \in Msg
        OBVIOUS
      <4>1. in_flight'[k] \in Flight
        BY <2>1
      <4> QED
        BY <4>1 DEF Flight
    <3>3. Flying' \in [1 .. Len(in_flight') -> Msg]
      BY <3>1, <3>2 DEF Flying
    <3> QED
      BY <3>1, <3>3, FunctionIsSeq DEF Flying
  <2> QED
    BY <1>2, <2>1
<1>5. Flying # <<>>
  BY <1>2, <1>3, EmptySeq
<1>6. Head(Flying) = Head(in_flight).m /\ Tail(Flying) = Flying'
  <2>1. /\ Head(Flying) = Flying[1] /\ Tail(Flying) \in Seq(Msg)
        /\ Len(Tail(Flying)) = Len(in_flight) - 1
        /\ \A k \in 1 .. Len(in_flight) - 1 : Tail(Flying)[k] = Flying[k + 1]
    BY <1>3, <1>5, TailElements
  <2>2. \A k \in 1 .. Len(in_flight) - 1 : Tail(Flying)[k] = Flying'[k]
    BY <1>2, <1>3, <1>4, <2>1
  <2>3. Tail(Flying) = Flying'
    BY <1>2, <1>4, <2>1, <2>2, SeqEqual
  <2> QED
    BY <1>2, <1>3, <2>1, <2>3
<1>7. /\ Crossing # <<>> /\ Head(Crossing) = Head(Flying)
      /\ Tail(Crossing) = (Tail(Flying) \o buffer) \o Held
  <2>1. /\ Flying \o buffer # <<>> /\ Head(Flying \o buffer) = Head(Flying)
        /\ Tail(Flying \o buffer) = Tail(Flying) \o buffer
    BY <1>5, QueueTypes, HeadOfConcat
  <2>2. Flying \o buffer \in Seq(Msg) /\ Held \in Seq(Msg)
    BY QueueTypes
  <2>3. /\ (Flying \o buffer) \o Held # <<>>
        /\ Head((Flying \o buffer) \o Held) = Head(Flying \o buffer)
        /\ Tail((Flying \o buffer) \o Held) = Tail(Flying \o buffer) \o Held
    BY <2>1, <2>2, HeadOfConcat
  <2> QED
    BY <2>1, <2>3, QueueTypes
<1>8. Crossing' = (Flying' \o buffer) \o Held
  BY <1>1 DEF Crossing, Held
<1>9. Waiting' = Waiting
  BY <1>1 DEF Waiting
<1> QED
  BY <1>6, <1>7, <1>8, <1>9 DEF Deliver, links, Link!Leave

\* Dispatching moves a message from the buffer into flight, inside the link.
LEMMA DispatchRefines == RefinementInv /\ Dispatch => UNCHANGED Link!vars
<1> SUFFICES ASSUME RefinementInv, Dispatch PROVE UNCHANGED Link!vars
  OBVIOUS
<1> DEFINE x == [m |-> Head(buffer),
                 finish_time |-> crt_time + serialization_delay + delay]
<1>1. /\ in_flight \in Seq(Flight) /\ buffer \in Seq(Msg) /\ buffer # <<>>
      /\ in_flight' = Append(in_flight, x) /\ buffer' = Tail(buffer)
      /\ UNCHANGED <<fw, m, in1>>
  BY DEF Dispatch, MayDispatch, RefinementInv, BufferInv, TypeOK, DequeueFindsMessage,
         forwarder, sockets
<1>2. Head(buffer) \in Msg
  BY <1>1, TailElements
<1>3. x \in Flight /\ x.m = Head(buffer)
  BY <1>2, LinkAssumption DEF Flight, RefinementInv, BufferInv, TypeOK
<1> HIDE DEF x
<1>4. /\ Len(in_flight) \in Nat /\ in_flight' \in Seq(Flight)
      /\ Len(in_flight') = Len(in_flight) + 1 /\ in_flight'[Len(in_flight) + 1] = x
      /\ \A k \in 1 .. Len(in_flight) : in_flight'[k] = in_flight[k]
  BY <1>1, <1>3, AppendElements, LenProperties
<1>5. /\ Flying \in Seq(Msg) /\ Len(Flying) = Len(in_flight)
      /\ \A k \in 1 .. Len(in_flight) : Flying[k] = in_flight[k].m
  BY <1>1, FlyingElements
<1>6. Flying' = Append(Flying, Head(buffer))
  <2>1. /\ Append(Flying, Head(buffer)) \in Seq(Msg)
        /\ Len(Append(Flying, Head(buffer))) = Len(in_flight) + 1
        /\ \A k \in 1 .. Len(in_flight) : Append(Flying, Head(buffer))[k] = Flying[k]
        /\ Append(Flying, Head(buffer))[Len(in_flight) + 1] = Head(buffer)
    BY <1>2, <1>5, AppendElements
  <2>2. \A k \in 1 .. Len(in_flight) + 1 :
            Append(Flying, Head(buffer))[k] = in_flight'[k].m
    BY <1>3, <1>4, <1>5, <2>1
  <2>3. /\ DOMAIN Append(Flying, Head(buffer)) = 1 .. Len(in_flight) + 1
        /\ DOMAIN in_flight' = 1 .. Len(in_flight) + 1
    BY <1>4, <2>1, LenProperties
  <2>4. Append(Flying, Head(buffer))
            = [k \in 1 .. Len(in_flight) + 1 |-> Append(Flying, Head(buffer))[k]]
    BY <2>1, <2>3, LenProperties
  <2> QED
    BY <2>2, <2>3, <2>4 DEF Flying
<1>7. Crossing' = Crossing
  <2>1. Append(Flying, Head(buffer)) \o Tail(buffer) = Flying \o buffer
    BY <1>1, <1>5, MoveHead
  <2> QED
    BY <1>1, <1>6, <2>1 DEF Crossing
<1> QED
  BY <1>1, <1>7 DEF Dispatch, links, sockets, Waiting, Link!vars

\* Steps of the scheduler that move no message, and the passing of time.
LEMMA QuietRefines ==
    Now \/ ReadSize \/ HoldBack \/ WakeUp \/ CondWait \/ CondReturn \/ Tick
        => UNCHANGED Link!vars
<1> SUFFICES ASSUME Now \/ ReadSize \/ HoldBack \/ WakeUp \/ CondWait \/ CondReturn \/ Tick
             PROVE  UNCHANGED Link!vars
  OBVIOUS
<1>1. UNCHANGED <<aborted, links, sockets, buffer, in_flight, forwarder>>
  BY DEF Now, ReadSize, HoldBack, WakeUp, CondWait, CondReturn, Tick, scheduler
<1>2. UNCHANGED <<aborted, link_up1, link_up2, in1, in2, out1, out2, buffer, in_flight, fw, m>>
  BY <1>1 DEF links, sockets, forwarder
<1> QED
  BY <1>2, SameQueues DEF Waiting, Link!vars

\* A failing assertion breaks the link.
LEMMA AssertRefines == AssertFails => Link!Break
<1> SUFFICES ASSUME AssertFails PROVE Link!Break
  OBVIOUS
<1>1. UNCHANGED <<link_up1, link_up2, in1, in2, out1, out2, buffer, in_flight, fw, m>>
  BY DEF AssertFails, links, sockets, scheduler, forwarder
<1> QED
  BY <1>1, SameQueues DEF AssertFails, Waiting, Link!Break

\* What waits at end 1 is what is in its socket, but for a message being checked.
LEMMA WaitingInSocket ==
    ASSUME RefinementInv
    PROVE  /\ fw # "check" => Waiting = in1
           /\ fw = "check" => /\ Waiting # <<>>
                              /\ Head(Waiting) = m.val /\ Tail(Waiting) = in1
<1>1. in1 \in Seq(1 .. MaxSent1)
  BY QueueTypes
<1>2. fw # "check" => Waiting = in1
  BY <1>1, ConcatEmptySeq DEF Waiting
<1>3. ASSUME fw = "check"
      PROVE  Waiting # <<>> /\ Head(Waiting) = m.val /\ Tail(Waiting) = in1
  <2>1. m.val \in 1 .. MaxSent1
    <3>1. m \in Msg
      BY <1>3 DEF RefinementInv, BufferInv, TypeOK
    <3> QED
      BY <3>1 DEF Msg
  <2>2. /\ <<m.val>> \in Seq(1 .. MaxSent1) /\ <<m.val>> # <<>>
        /\ Head(<<m.val>>) = m.val /\ Tail(<<m.val>>) = <<>>
    BY <2>1
  <2>3. /\ <<m.val>> \o in1 # <<>> /\ Head(<<m.val>> \o in1) = Head(<<m.val>>)
        /\ Tail(<<m.val>> \o in1) = Tail(<<m.val>>) \o in1
    BY <1>1, <2>2, HeadOfConcat
  <2>4. <<>> \o in1 = in1
    BY <1>1, ConcatEmptySeq
  <2> QED
    BY <1>3, <2>2, <2>3, <2>4 DEF Waiting
<1> QED
  BY <1>2, <1>3

\* The first datagram of each side opens its side.
LEMMA HelloRefines ==
    ASSUME RefinementInv
    PROVE  (Hello1 => Link!Hello1) /\ (Hello2 => Link!Hello2)
<1>1. ASSUME Hello1 PROVE Link!Hello1
  <2>1. /\ UNCHANGED <<aborted, link_up2, in2, out1, out2, buffer, in_flight, fw, m>>
        /\ fw = "receive"
    BY <1>1 DEF Hello1, scheduler, forwarder
  <2>2. RefinementInv'
    BY <1>1, NextRefinementInv DEF Next, Forwarding
  <2>3. Waiting = in1
    BY <2>1, WaitingInSocket
  <2>4. Waiting' = in1'
    <3>1. in1' \in Seq(1 .. MaxSent1)
      BY <2>2 DEF RefinementInv, BufferInv, TypeOK
    <3>2. <<>> \o in1' = in1'
      BY <3>1, ConcatEmptySeq
    <3> QED
      BY <2>1, <3>2 DEF Waiting
  <2> QED
    BY <1>1, <2>1, <2>3, <2>4, SameQueues DEF Hello1, Link!Hello1
<1>2. ASSUME Hello2 PROVE Link!Hello2
  <2>1. UNCHANGED <<aborted, link_up1, in1, out1, out2, buffer, in_flight, fw, m>>
    BY <1>2 DEF Hello2, scheduler, forwarder
  <2> QED
    BY <1>2, <2>1, SameQueues DEF Hello2, Waiting, Link!Hello2
<1> QED
  BY <1>1, <1>2

\* Receiving on port 1 moves a datagram from the socket into a local variable.
LEMMA ReceiveRefines == RefinementInv /\ Receive1 => UNCHANGED Link!vars
<1> SUFFICES ASSUME RefinementInv, Receive1 PROVE UNCHANGED Link!vars
  OBVIOUS
<1>1. /\ UNCHANGED <<aborted, link_up1, link_up2, in2, out1, out2, buffer, in_flight>>
      /\ fw = "receive" /\ fw' = "check" /\ in1 # <<>> /\ in1' = Tail(in1)
      /\ m'.val = Head(in1)
  BY DEF Receive1, links, scheduler
<1>2. in1 \in Seq(1 .. MaxSent1)
  BY QueueTypes
<1>3. <<>> \in Seq(1 .. MaxSent1) /\ Append(<<>>, Head(in1)) = <<Head(in1)>>
  OBVIOUS
<1>4. <<Head(in1)>> \o Tail(in1) = <<>> \o in1
  BY <1>1, <1>2, <1>3, MoveHead
<1>5. Waiting' = Waiting
  BY <1>1, <1>4 DEF Waiting
<1>6. Crossing' = Crossing
  BY <1>1 DEF Crossing, Flying
<1> QED
  BY <1>1, <1>5, <1>6 DEF Link!vars

\* A message is dropped at once, before it enters the link.
LEMMA DropRefines == RefinementInv /\ Drop => Link!Lose
<1> SUFFICES ASSUME RefinementInv, Drop PROVE Link!Lose
  OBVIOUS
<1>1. /\ UNCHANGED <<aborted, link_up1, link_up2, in1, in2, out1, out2, buffer, in_flight>>
      /\ ~aborted /\ fw = "check" /\ fw' = "receive" /\ link_up1
      /\ Loss \/ Len(buffer) >= BUFFER_SIZE
  BY DEF Drop, Overflow, links, sockets, scheduler, RefinementInv, HelloFirst
<1>2. Waiting # <<>> /\ Tail(Waiting) = in1
  BY <1>1, WaitingInSocket
<1>3. Waiting' = in1
  <2>1. <<>> \o in1 = in1
    BY QueueTypes, ConcatEmptySeq
  <2> QED
    BY <1>1, <2>1 DEF Waiting
<1>4. Crossing' = Crossing
  BY <1>1 DEF Crossing, Flying
<1>5. Len(Crossing) >= Len(buffer)
  <2>1. /\ Flying \in Seq(Msg) /\ buffer \in Seq(Msg) /\ Held \in Seq(Msg)
        /\ Flying \o buffer \in Seq(Msg) /\ Crossing = (Flying \o buffer) \o Held
    BY QueueTypes
  <2>2. Len(Flying \o buffer) = Len(Flying) + Len(buffer)
    BY <2>1, ConcatProperties
  <2>3. Len((Flying \o buffer) \o Held) = Len(Flying \o buffer) + Len(Held)
    BY <2>1, ConcatProperties
  <2>4. Len(Flying) \in Nat /\ Len(buffer) \in Nat /\ Len(Held) \in Nat
    BY <2>1, LenProperties
  <2> QED
    BY <2>1, <2>2, <2>3, <2>4
<1>6. Len(Crossing) \in Nat /\ Len(buffer) \in Nat /\ BUFFER_SIZE \in Nat
  <2>1. Crossing \in Seq(Msg) /\ buffer \in Seq(Msg)
    BY QueueTypes
  <2> QED
    BY <2>1, LenProperties, LinkAssumption
<1>7. Loss \/ Len(Crossing) >= BUFFER_SIZE
  BY <1>1, <1>5, <1>6
<1> QED
  BY <1>1, <1>2, <1>3, <1>4, <1>7 DEF Link!Lose

\* A message that is kept enters the link, as it was sent or corrupted.
LEMMA KeepRefines == RefinementInv /\ Keep => \E ok \in BOOLEAN : Link!Enter(ok)
<1> SUFFICES ASSUME RefinementInv, Keep PROVE \E ok \in BOOLEAN : Link!Enter(ok)
  OBVIOUS
<1>1. /\ UNCHANGED <<aborted, link_up1, link_up2, in1, in2, out1, out2, buffer, in_flight>>
      /\ ~aborted /\ fw = "check" /\ fw' = "enqueue" /\ link_up1
      /\ m = [val |-> m.val, ok |-> TRUE]
      /\ m' = m \/ (Corrupt /\ m' = [m EXCEPT !.ok = FALSE])
  BY DEF Keep, links, sockets, scheduler, RefinementInv, HelloFirst
<1>2. Waiting # <<>> /\ Tail(Waiting) = in1 /\ Head(Waiting) = m.val
  BY <1>1, WaitingInSocket
<1>3. Waiting' = in1
  <2>1. <<>> \o in1 = in1
    BY QueueTypes, ConcatEmptySeq
  <2> QED
    BY <1>1, <2>1 DEF Waiting
<1>4. PICK ok \in BOOLEAN : m' = [val |-> m.val, ok |-> ok] /\ (ok \/ Corrupt)
  BY <1>1
<1>5. Crossing' = Append(Crossing, m')
  <2>1. /\ Flying \o buffer \in Seq(Msg) /\ Held = <<>>
        /\ Crossing = (Flying \o buffer) \o Held
    BY <1>1, QueueTypes DEF Held
  <2>2. Crossing = Flying \o buffer
    BY <2>1, ConcatEmptySeq
  <2>3. Crossing' = (Flying \o buffer) \o <<m'>>
    BY <1>1, QueueTypes DEF Crossing, Flying, Held
  <2>4. m' \in Msg
    <3>1. m \in Msg
      BY <1>1 DEF RefinementInv, BufferInv, TypeOK
    <3> QED
      BY <1>4, <3>1 DEF Msg
  <2> QED
    BY <2>1, <2>2, <2>3, <2>4, AppendIsConcat
<1>6. Link!Enter(ok)
  BY <1>1, <1>2, <1>3, <1>4, <1>5 DEF Link!Enter
<1> QED
  BY <1>6

\* Adding a message to the buffer moves it from a local variable, inside the link.
LEMMA EnqueueRefines == RefinementInv /\ Enqueue => UNCHANGED Link!vars
<1> SUFFICES ASSUME RefinementInv, Enqueue PROVE UNCHANGED Link!vars
  OBVIOUS
<1>1. /\ UNCHANGED <<aborted, link_up1, link_up2, in1, in2, out1, out2, in_flight>>
      /\ fw = "enqueue" /\ fw' = "receive" /\ buffer' = Append(buffer, m)
  BY DEF Enqueue, links, sockets, scheduler
<1>2. Flying \in Seq(Msg) /\ buffer \in Seq(Msg) /\ m \in Msg
  BY <1>1, QueueTypes DEF RefinementInv, BufferInv, TypeOK
<1>3. <<m>> \in Seq(Msg) /\ Append(buffer, m) = buffer \o <<m>>
  BY <1>2, AppendIsConcat
<1>4. Flying \o (buffer \o <<m>>) = (Flying \o buffer) \o <<m>>
  BY <1>2, <1>3, ConcatAssociative
<1>5. (Flying \o Append(buffer, m)) \o <<>> = Flying \o Append(buffer, m)
  <2>1. Append(buffer, m) \in Seq(Msg)
    BY <1>2, AppendElements
  <2>2. Flying \o Append(buffer, m) \in Seq(Msg)
    BY <1>2, <2>1, ConcatProperties
  <2> QED
    BY <2>2, ConcatEmptySeq
<1>6. Crossing' = (Flying \o Append(buffer, m)) \o <<>>
  BY <1>1 DEF Crossing, Flying
<1>7. Crossing = (Flying \o buffer) \o <<m>>
  BY <1>1, QueueTypes DEF Held
<1>8. Waiting' = Waiting
  BY <1>1 DEF Waiting
<1> QED
  BY <1>1, <1>3, <1>4, <1>5, <1>6, <1>7, <1>8 DEF Link!vars

\* The way back, and the two peers.
LEMMA OutsideRefines ==
    ASSUME RefinementInv
    PROVE  /\ Reverse => Link!Return
           /\ Send1 => \E v \in 1 .. MaxSent1 : Link!Send1(v)
           /\ Send2 => \E v \in 1 .. MaxSent2 : Link!Send2(v)
<1>1. ASSUME Reverse PROVE Link!Return
  <2>1. UNCHANGED <<aborted, link_up1, link_up2, in1, out2, buffer, in_flight, fw, m>>
    BY <1>1 DEF Reverse, links, scheduler, forwarder
  <2> QED
    BY <1>1, <2>1, SameQueues DEF Reverse, Waiting, Link!Return
<1>2. ASSUME Send1 PROVE \E v \in 1 .. MaxSent1 : Link!Send1(v)
  <2>1. /\ UNCHANGED <<aborted, link_up1, link_up2, in2, out1, out2, buffer, in_flight, fw, m>>
        /\ sent1 < MaxSent1 /\ in1' = Append(in1, sent1 + 1)
    BY <1>2 DEF Send1, links, scheduler, forwarder
  <2>2. sent1 + 1 \in 1 .. MaxSent1
    BY <2>1, LinkAssumption DEF RefinementInv, BufferInv, TypeOK
  <2>3. Waiting' = Append(Waiting, sent1 + 1)
    <3>1. in1 \in Seq(1 .. MaxSent1)
      BY QueueTypes
    <3>2. ASSUME NEW s \in Seq(1 .. MaxSent1), Waiting = s \o in1,
                 Waiting' = s \o Append(in1, sent1 + 1)
          PROVE  Waiting' = Append(Waiting, sent1 + 1)
      BY <2>2, <3>1, <3>2, AppendToConcat
    <3>3. CASE fw = "check"
      <4>1. m \in Msg
        BY <3>3 DEF RefinementInv, BufferInv, TypeOK
      <4>2. <<m.val>> \in Seq(1 .. MaxSent1)
        BY <4>1 DEF Msg
      <4>3. Waiting = <<m.val>> \o in1 /\ Waiting' = <<m.val>> \o Append(in1, sent1 + 1)
        BY <2>1, <3>3 DEF Waiting
      <4> QED
        BY <3>2, <4>2, <4>3
    <3>4. CASE fw # "check"
      <4>1. <<>> \in Seq(1 .. MaxSent1)
        OBVIOUS
      <4>2. Waiting = <<>> \o in1 /\ Waiting' = <<>> \o Append(in1, sent1 + 1)
        BY <2>1, <3>4 DEF Waiting
      <4> QED
        BY <3>2, <4>1, <4>2
    <3> QED
      BY <3>3, <3>4
  <2>4. Link!Send1(sent1 + 1)
    BY <2>1, <2>3, SameQueues DEF Link!Send1
  <2> QED
    BY <2>2, <2>4
<1>3. ASSUME Send2 PROVE \E v \in 1 .. MaxSent2 : Link!Send2(v)
  <2>1. /\ UNCHANGED <<aborted, link_up1, link_up2, in1, out1, out2, buffer, in_flight, fw, m>>
        /\ sent2 < MaxSent2 /\ in2' = Append(in2, sent2 + 1)
    BY <1>3 DEF Send2, links, scheduler, forwarder
  <2>2. sent2 + 1 \in 1 .. MaxSent2
    BY <2>1, LinkAssumption DEF RefinementInv, BufferInv, TypeOK
  <2>3. Link!Send2(sent2 + 1)
    BY <2>1, SameQueues DEF Waiting, Link!Send2
  <2> QED
    BY <2>2, <2>3
<1> QED
  BY <1>1, <1>2, <1>3

\* Every step of the emulator is a step of Channel, or of no interest to it.
LEMMA NextRefines == RefinementInv /\ [Next]_vars => [Link!Next]_(Link!vars)
<1> SUFFICES ASSUME RefinementInv, [Next]_vars PROVE [Link!Next]_(Link!vars)
  OBVIOUS
<1>1. CASE Now \/ ReadSize \/ HoldBack \/ WakeUp \/ CondWait \/ CondReturn \/ Tick
  BY <1>1, QuietRefines
<1>2. CASE Dispatch \/ Receive1 \/ Enqueue
  BY <1>2, DispatchRefines, ReceiveRefines, EnqueueRefines
<1>3. CASE AssertFails
  BY <1>3, AssertRefines DEF Link!Next
<1>4. CASE Deliver \/ Hello1 \/ Hello2 \/ Drop \/ Keep \/ Reverse
  <2>1. Link!LinkStep
    BY <1>4, DeliverRefines, HelloRefines, DropRefines, KeepRefines, OutsideRefines
       DEF Link!LinkStep
  <2> QED
    BY <2>1 DEF Link!Next
<1>5. CASE Send1 \/ Send2
  BY <1>5, OutsideRefines DEF Link!Next
<1>6. CASE UNCHANGED vars
  <2>1. UNCHANGED <<aborted, link_up1, link_up2, in1, in2, out1, out2, buffer, in_flight, fw, m>>
    BY <1>6 DEF vars, links, sockets, scheduler, forwarder
  <2> QED
    BY <2>1, SameQueues DEF Waiting, Link!vars
<1> QED
  BY <1>1, <1>2, <1>3, <1>4, <1>5, <1>6
     DEF Next, Scheduler, Forwarding, ReverseForwarding

\* The emulator, for every buffer size, delay and mode, is a link that neither
\* reorders nor repeats, and loses a message only where Channel says it may.
THEOREM LinkImplementsChannel == Spec => ImplementsChannel
<1>1. Init => Link!Init
  BY InitRefines
<1>2. RefinementInv /\ [Next]_vars => [Link!Next]_(Link!vars)
  BY NextRefines
<1> QED
  BY <1>1, <1>2, RefinementInvariant, PTL DEF Spec, ImplementsChannel, Link!Spec
=============================================================================
