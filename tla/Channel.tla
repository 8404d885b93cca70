------------------------------ MODULE Channel -------------------------------
(***************************************************************************)
(* What the link emulator (lab-02, lab-03) promises the two programs at    *)
(* its ends: a full-duplex link.  Towards end 2 a datagram may be lost, or *)
(* arrive with its payload changed, but the datagrams that arrive do so    *)
(* once and in order, and without loss configured one is lost only when    *)
(* Capacity others are inside.  The way back is perfect.  The first        *)
(* datagram of either end only tells the link where that end is.           *)
(***************************************************************************)
EXTENDS Naturals, Sequences

CONSTANTS
    Values1, Values2,  \* what the two ends send
    Capacity, Lossy, Corrupting

VARIABLES
    broken,        \* the link has stopped for good
    up1, up2,      \* the end has said hello
    in1, in2,      \* sent by an end, not taken by the link
    inside,        \* on the way from end 1 to end 2
    out1, out2     \* arrived at an end, not read by it

vars == <<broken, up1, up2, in1, in2, inside, out1, out2>>

\* A value on the way to end 2; ok tells whether its payload is the one sent.
Packet == [val : Values1, ok : BOOLEAN]

Init ==
    /\ broken = FALSE /\ up1 = FALSE /\ up2 = FALSE
    /\ in1 = <<>> /\ in2 = <<>> /\ inside = <<>> /\ out1 = <<>> /\ out2 = <<>>

Hello1 ==
    /\ ~broken /\ ~up1 /\ in1 # <<>>
    /\ up1' = TRUE /\ in1' = Tail(in1)
    /\ UNCHANGED <<broken, up2, in2, inside, out1, out2>>

Hello2 ==
    /\ ~broken /\ ~up2 /\ in2 # <<>>
    /\ up2' = TRUE /\ in2' = Tail(in2)
    /\ UNCHANGED <<broken, up1, in1, inside, out1, out2>>

Lose ==
    /\ ~broken /\ up1 /\ in1 # <<>>
    /\ Lossy \/ Len(inside) >= Capacity
    /\ in1' = Tail(in1)
    /\ UNCHANGED <<broken, up1, up2, in2, inside, out1, out2>>

Enter(ok) ==
    /\ ~broken /\ up1 /\ in1 # <<>>
    /\ ok \/ Corrupting
    /\ in1' = Tail(in1)
    /\ inside' = Append(inside, [val |-> Head(in1), ok |-> ok])
    /\ UNCHANGED <<broken, up1, up2, in2, out1, out2>>

\* Nothing reaches an end the link does not know yet.
Leave ==
    /\ ~broken /\ inside # <<>>
    /\ inside' = Tail(inside)
    /\ out2' = IF up2 THEN Append(out2, Head(inside)) ELSE out2
    /\ UNCHANGED <<broken, up1, up2, in1, in2, out1>>

Return ==
    /\ ~broken /\ up2 /\ in2 # <<>>
    /\ in2' = Tail(in2)
    /\ out1' = IF up1 THEN Append(out1, Head(in2)) ELSE out1
    /\ UNCHANGED <<broken, up1, up2, in1, inside, out2>>

Break ==
    /\ ~broken /\ broken' = TRUE
    /\ UNCHANGED <<up1, up2, in1, in2, inside, out1, out2>>

LinkStep ==
    \/ Hello1 \/ Hello2 \/ Lose \/ Leave \/ Return
    \/ \E ok \in BOOLEAN : Enter(ok)

Send1(v) ==
    /\ in1' = Append(in1, v)
    /\ UNCHANGED <<broken, up1, up2, in2, inside, out1, out2>>
Send2(v) ==
    /\ in2' = Append(in2, v)
    /\ UNCHANGED <<broken, up1, up2, in1, inside, out1, out2>>

Next ==
    \/ LinkStep
    \/ Break
    \/ \E v \in Values1 : Send1(v)
    \/ \E v \in Values2 : Send2(v)

Spec == Init /\ [][Next]_vars
=============================================================================
