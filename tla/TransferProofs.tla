--------------------------- MODULE TransferProofs ---------------------------
(***************************************************************************)
(* Proofs about FileTransfer, for every command line, every size of a file *)
(* and of a piece, and a link that holds any number of datagrams.          *)
(*                                                                         *)
(* The link is reduced to two things the two programs cannot tell from it: *)
(* the messages the sender is not known to have sent in vain (Way), and    *)
(* the number of answers it has not read (Replies).                        *)
(***************************************************************************)
EXTENDS FileTransfer, SequenceLemmas

\* Types.
TypeInv ==
    /\ up1 \in BOOLEAN /\ up2 \in BOOLEAN
    /\ in1 \in Seq(Message) /\ inside \in Seq(Link!Packet) /\ out2 \in Seq(Link!Packet)
    /\ in2 \in Seq({"hello", "ACK"}) /\ out1 \in Seq({"hello", "ACK"})
    /\ args \in Seq(Names) /\ Len(args) <= MaxFiles /\ size \in [Names -> -1 .. MaxSize]
    /\ arg \in Nat /\ offset \in Nat
    /\ files_number \in Int /\ files \in Nat /\ count \in Int
    /\ copies = [n \in Names |-> copies[n]]

\* The messages on the way, hello apart, and the answers on the way back.
Way == IF up1 THEN OnTheWay ELSE IF in1 = <<>> THEN <<>> ELSE Tail(in1)
Replies == Len(in2) + Len(out1) - (IF r_phase # "start" /\ ~up2 THEN 1 ELSE 0)

\* Who is known to the link, and what can be on its way before that.
Known ==
    /\ r_phase = "start" => ~up2 /\ in2 = <<>>
    /\ r_phase # "start" /\ ~up2 => Len(in2) = 1 /\ out1 = <<>>
    /\ up2 => \A k \in DOMAIN in2 : in2[k] = "ACK"
    /\ phase = "start" => in1 = <<>> /\ ~up1
    /\ phase # "start" => up2
    /\ ~up1 => /\ inside = <<>> /\ out2 = <<>> /\ Replies = 0
               /\ phase # "start" => in1 # <<>>
               /\ in1 # <<>> => Head(in1) = Hello

\* What is sent in a phase.
Number == Msg("number", Len(args), NoName, 0)
IsPiece(file, sz, off, msg) ==
    /\ msg.kind = "data" /\ msg.name = file /\ msg.from \in Nat
    /\ \/ sz < 0 /\ msg.len = -1 /\ msg.from = 0 /\ off = 0
       \/ sz - msg.from > MAX_LEN /\ msg.len = MAX_LEN /\ off = msg.from + MAX_LEN
       \/ sz - msg.from \in 1 .. MAX_LEN /\ msg.len = sz - msg.from /\ off = sz
SentAs(ph, file, sz, off, msg) ==
    \/ ph = "name sent" /\ msg = Msg("name", 1, file, 0)
    \/ ph = "size sent" /\ msg = Msg("size", sz, NoName, 0)
    \/ ph = "data sent" /\ IsPiece(file, sz, off, msg)
Sent(msg) == SentAs(phase, File, size[File], offset, msg)

\* The sender is at a file, and how far it has read.
InFile == {"name", "name sent", "size", "size sent", "data", "data sent"}
Waiting == {"name sent", "size sent", "data sent"}
At ==
    /\ phase \in {"start", "number", "done"} \cup InFile
    /\ phase \in {"start", "number"} => arg = 0
    /\ phase \in InFile => arg \in 1 .. Len(args)
    /\ phase = "done" => arg = Len(args) + 1
    /\ phase \in {"name", "name sent", "size", "size sent"} => offset = 0
    /\ phase \in {"data", "data sent"} =>
          IF size[File] < 0 THEN offset = 0 ELSE offset <= size[File]

\* The receiver starts: it has not been told the number of files.
Starting ==
    r_phase \in {"start", "number"} =>
        /\ Replies = 0 /\ files = 0
        /\ phase \in {"start", "number", "name", "name sent", "done"}
        /\ phase \in {"start", "number"} => Way = <<>>
        /\ phase \notin {"start", "number"} =>
              /\ arg = 1 /\ Way # <<>> /\ Head(Way) = Number /\ r_phase = "number"
              /\ \/ Len(Way) = 1
                 \/ Len(Way) = 2 /\ phase = "name sent" /\ Sent(Way[2])

\* After that, one message or answer is on its way while the sender waits.
Alternate ==
    r_phase \notin {"start", "number"} =>
        /\ up1 /\ phase \notin {"start", "number"}
        /\ Replies >= 0 /\ Len(Way) + Replies <= 1
        /\ phase \notin Waiting => Len(Way) = 0 /\ Replies = 0
        /\ Way # <<>> => Sent(Head(Way))

\* There are k pieces in n bytes; n is -1 when the file is not there.
Left(k, n) == IF n < 0 THEN k = 1 ELSE k >= 1 /\ (k - 1) * MAX_LEN < n /\ n <= k * MAX_LEN

\* How much the receiver has of the file: what is on its way is not counted.
Got == IF phase = "data sent" /\ Replies # 1 THEN Head(Way).from ELSE offset

\* The receiver waits for what the sender sends next.
SameFile == filename = File /\ files = arg - 1
Copying == SameFile /\ r_phase = "data" /\ Left(count, size[File] - Got)
NextPiece ==
    IF size[File] = offset
    THEN files = arg /\ r_phase = IF arg < Len(args) THEN "name" ELSE "done"
    ELSE Copying
Abreast ==
    /\ r_phase \in {"name", "size", "data", "done"} /\ files_number = Len(args)
    /\ phase = "name" => r_phase = "name" /\ files = arg - 1
    /\ phase = "name sent" =>
          IF Replies = 1 THEN SameFile /\ r_phase = "size"
                         ELSE files = arg - 1 /\ r_phase = "name"
    /\ phase = "size" => SameFile /\ r_phase = "size"
    /\ phase = "size sent" =>
          IF Replies = 1 THEN NextPiece ELSE SameFile /\ r_phase = "size"
    /\ phase = "data" => NextPiece
    /\ phase = "data sent" =>
          IF Replies = 1 THEN NextPiece ELSE Way # <<>> /\ Copying
    /\ phase = "done" => r_phase = "done" /\ files = Len(args)
InStep == r_phase \notin {"start", "number", "failed"} => Abreast

\* How much of file n is copied: as often as it was sent, and what has been copied
\* of it since.
Content(n, s, c) == [k \in 1 .. c |-> <<n, ((k - 1) % s) + 1>>]
Copied(n) == Len(copies[n]) - Len(Old(n))
Form ==
    \A n \in Names :
        Copied(n) \in Nat /\ copies[n] = Old(n) \o Content(n, size[n], Copied(n))
Extra(n) == IF r_phase = "data" /\ n = filename THEN Got ELSE 0
Done(n) == NumberOf(SubSeq(args, 1, files), {n})
Amount ==
    r_phase # "failed" => \A n \in Names : Copied(n) = Done(n) * size[n] + Extra(n)

-----------------------------------------------------------------------------
(* The way through the link: a message that moves on stays on it.            *)

Path(out, in, wait) == (Vals(out) \o Vals(in)) \o wait

LEMMA ValsElements ==
    ASSUME NEW s \in Seq(Link!Packet)
    PROVE  /\ Len(s) \in Nat /\ Vals(s) \in Seq(Message) /\ Len(Vals(s)) = Len(s)
           /\ \A k \in 1 .. Len(s) : Vals(s)[k] = s[k].val
           /\ s # <<>> => Vals(s) # <<>>
<1>1. /\ Len(s) \in Nat /\ DOMAIN s = 1 .. Len(s)
      /\ \A k \in 1 .. Len(s) : s[k].val \in Message
  <2>1. \A p \in Link!Packet : p.val \in Message
    BY DEF Link!Packet
  <2> QED
    BY <2>1
<1>2. Vals(s) \in [1 .. Len(s) -> Message]
  BY <1>1 DEF Vals
<1>3. Vals(s) \in Seq(Message) /\ Len(Vals(s)) = Len(s)
  BY <1>1, <1>2, FunctionIsSeq
<1>4. s # <<>> => Vals(s) # <<>>
  BY <1>3, EmptySeq
<1> QED
  BY <1>1, <1>3, <1>4 DEF Vals

LEMMA ValsAppend ==
    ASSUME NEW s \in Seq(Link!Packet), NEW e \in Link!Packet
    PROVE  Vals(Append(s, e)) = Append(Vals(s), e.val)
<1> DEFINE s2 == Append(s, e)
           u == Vals(s)
           v == Vals(s2)
<1>1. /\ s2 \in Seq(Link!Packet) /\ Len(s) \in Nat /\ Len(s2) = Len(s) + 1
      /\ \A k \in 1 .. Len(s) : s2[k] = s[k]
      /\ s2[Len(s) + 1] = e /\ e.val \in Message
  BY AppendElements DEF Link!Packet
<1> HIDE DEF s2
<1>2. /\ u \in Seq(Message) /\ Len(u) = Len(s) /\ \A k \in 1 .. Len(s) : u[k] = s[k].val
      /\ v \in Seq(Message) /\ Len(v) = Len(s2) /\ \A k \in 1 .. Len(s2) : v[k] = s2[k].val
  BY <1>1, ValsElements
<1> HIDE DEF u, v
<1>3. /\ Append(u, e.val) \in Seq(Message) /\ Len(Append(u, e.val)) = Len(s) + 1
      /\ \A k \in 1 .. Len(s) : Append(u, e.val)[k] = u[k]
      /\ Append(u, e.val)[Len(s) + 1] = e.val
  BY <1>1, <1>2, AppendElements
<1>4. ASSUME NEW k \in 1 .. Len(v) PROVE v[k] = Append(u, e.val)[k]
  <2>1. CASE k \in 1 .. Len(s)
    BY <1>1, <1>2, <1>3, <2>1
  <2>2. CASE k = Len(s) + 1
    BY <1>1, <1>2, <1>3, <2>2
  <2> QED
    BY <1>1, <1>2, <2>1, <2>2
<1>5. v = Append(u, e.val)
  BY <1>1, <1>2, <1>3, <1>4, SeqEqual
<1> QED
  BY <1>5 DEF u, v, s2

LEMMA ValsTail ==
    ASSUME NEW s \in Seq(Link!Packet), s # <<>>
    PROVE  Head(Vals(s)) = Head(s).val /\ Vals(Tail(s)) = Tail(Vals(s))
<1> DEFINE s2 == Tail(s)
           u == Vals(s)
           v == Vals(s2)
<1>1. /\ s2 \in Seq(Link!Packet) /\ Len(s) \in Nat \ {0} /\ Len(s2) = Len(s) - 1
      /\ Head(s) = s[1] /\ \A k \in 1 .. Len(s) - 1 : s2[k] = s[k + 1]
  BY TailElements
<1> HIDE DEF s2
<1>2. /\ u \in Seq(Message) /\ Len(u) = Len(s) /\ \A k \in 1 .. Len(s) : u[k] = s[k].val
      /\ v \in Seq(Message) /\ Len(v) = Len(s2) /\ \A k \in 1 .. Len(s2) : v[k] = s2[k].val
      /\ u # <<>>
  BY <1>1, ValsElements
<1> HIDE DEF u, v
<1>3. /\ Head(u) = u[1] /\ Tail(u) \in Seq(Message) /\ Len(Tail(u)) = Len(s) - 1
      /\ \A k \in 1 .. Len(s) - 1 : Tail(u)[k] = u[k + 1]
  BY <1>1, <1>2, TailElements
<1>4. ASSUME NEW k \in 1 .. Len(v) PROVE v[k] = Tail(u)[k]
  <2>1. k \in 1 .. Len(s) - 1 /\ k + 1 \in 1 .. Len(s)
    BY <1>1, <1>2
  <2> QED
    BY <1>1, <1>2, <1>3, <2>1
<1>5. v = Tail(u)
  BY <1>1, <1>2, <1>3, <1>4, SeqEqual
<1>6. Head(u) = Head(s).val
  BY <1>1, <1>2, <1>3
<1> QED
  BY <1>5, <1>6 DEF u, v, s2

LEMMA PathType ==
    ASSUME NEW o \in Seq(Link!Packet), NEW i \in Seq(Link!Packet), NEW s \in Seq(Message)
    PROVE  /\ Vals(o) \in Seq(Message) /\ Vals(i) \in Seq(Message)
           /\ Vals(o) \o Vals(i) \in Seq(Message)
           /\ Path(o, i, s) \in Seq(Message)
BY ValsElements, ConcatProperties DEF Path

LEMMA PathSend ==
    ASSUME NEW o \in Seq(Link!Packet), NEW i \in Seq(Link!Packet), NEW s \in Seq(Message),
           NEW msg \in Message
    PROVE  Path(o, i, Append(s, msg)) = Append(Path(o, i, s), msg)
<1> DEFINE w == Vals(o) \o Vals(i)
<1>1. w \in Seq(Message)
  BY PathType
<1>2. Path(o, i, s) = w \o s /\ Path(o, i, Append(s, msg)) = w \o Append(s, msg)
  BY DEF Path
<1> HIDE DEF w
<1>3. w \o (s \o <<msg>>) = (w \o s) \o <<msg>>
  BY <1>1, ConcatAssociative
<1>4. w \o s \in Seq(Message)
  BY <1>1, ConcatProperties
<1> QED
  BY <1>2, <1>3, <1>4, AppendIsConcat

LEMMA PathReceive ==
    ASSUME NEW o \in Seq(Link!Packet), NEW i \in Seq(Link!Packet), NEW s \in Seq(Message),
           o # <<>>
    PROVE  /\ Path(o, i, s) # <<>> /\ Head(Path(o, i, s)) = Head(o).val
           /\ Path(Tail(o), i, s) = Tail(Path(o, i, s))
<1> DEFINE u == Vals(o)
           v == Vals(i)
<1>1. /\ u \in Seq(Message) /\ v \in Seq(Message) /\ u # <<>>
      /\ Head(u) = Head(o).val /\ Vals(Tail(o)) = Tail(u)
  BY ValsElements, ValsTail
<1>2. Path(o, i, s) = (u \o v) \o s /\ Path(Tail(o), i, s) = (Vals(Tail(o)) \o v) \o s
  BY DEF Path
<1> HIDE DEF u, v
<1>3. u \o v # <<>> /\ Head(u \o v) = Head(u) /\ Tail(u \o v) = Tail(u) \o v
  BY <1>1, ConcatHeadTail
<1>4. u \o v \in Seq(Message)
  BY <1>1, ConcatProperties
<1>5. /\ (u \o v) \o s # <<>> /\ Head((u \o v) \o s) = Head(u \o v)
      /\ Tail((u \o v) \o s) = Tail(u \o v) \o s
  BY <1>3, <1>4, ConcatHeadTail
<1> QED
  BY <1>1, <1>2, <1>3, <1>5

\* A message that leaves the queue of the link for the receiver.
LEMMA PathLeave ==
    ASSUME NEW o \in Seq(Link!Packet), NEW i \in Seq(Link!Packet), NEW s \in Seq(Message),
           i # <<>>
    PROVE  Path(Append(o, Head(i)), Tail(i), s) = Path(o, i, s)
<1>1. Head(i) \in Link!Packet
  BY TailElements
<1>2. /\ Vals(o) \in Seq(Message) /\ Vals(i) \in Seq(Message) /\ Vals(i) # <<>>
      /\ Vals(Append(o, Head(i))) = Append(Vals(o), Head(Vals(i)))
      /\ Vals(Tail(i)) = Tail(Vals(i))
  BY <1>1, ValsElements, ValsAppend, ValsTail
<1>3. Append(Vals(o), Head(Vals(i))) \o Tail(Vals(i)) = Vals(o) \o Vals(i)
  BY <1>2, MoveHead
<1> QED
  BY <1>2, <1>3 DEF Path

\* A message that enters the queue of the link.
LEMMA PathEnter ==
    ASSUME NEW o \in Seq(Link!Packet), NEW i \in Seq(Link!Packet), NEW s \in Seq(Message),
           s # <<>>, NEW e \in Link!Packet, e.val = Head(s)
    PROVE  Path(o, Append(i, e), Tail(s)) = Path(o, i, s)
<1> DEFINE u == Vals(o)
           v == Vals(i)
           h == Head(s)
<1>1. u \in Seq(Message) /\ v \in Seq(Message) /\ Vals(Append(i, e)) = Append(v, h) /\ h \in Message
  BY ValsElements, ValsAppend, TailElements
<1>2. Path(o, Append(i, e), Tail(s)) = (u \o Append(v, h)) \o Tail(s)
  BY <1>1 DEF Path
<1>3. Path(o, i, s) = (u \o v) \o s
  BY DEF Path
<1> HIDE DEF u, v
<1>4. u \o Append(v, h) = Append(u \o v, h)
  <2>1. u \o (v \o <<h>>) = (u \o v) \o <<h>>
    BY <1>1, ConcatAssociative
  <2>2. Append(v, h) = v \o <<h>>
    BY <1>1, AppendIsConcat
  <2>3. u \o v \in Seq(Message)
    BY <1>1, ConcatProperties
  <2> HIDE DEF h
  <2>4. Append(u \o v, h) = (u \o v) \o <<h>>
    BY <1>1, <2>3, AppendIsConcat
  <2> QED
    BY <2>1, <2>2, <2>4
<1>5. u \o v \in Seq(Message)
  BY <1>1, ConcatProperties
<1>6. Append(u \o v, h) \o Tail(s) = (u \o v) \o s
  BY <1>5, MoveHead
<1> QED
  BY <1>2, <1>3, <1>4, <1>6

\* The link drops what it has no room for, never the first message on the way.
LEMMA PathLose ==
    ASSUME NEW o \in Seq(Link!Packet), NEW i \in Seq(Link!Packet), NEW s \in Seq(Message),
           s # <<>>, i # <<>>
    PROVE  /\ Len(Path(o, i, s)) >= 2 /\ Path(o, i, Tail(s)) # <<>>
           /\ Len(Path(o, i, Tail(s))) = Len(Path(o, i, s)) - 1
           /\ Head(Path(o, i, Tail(s))) = Head(Path(o, i, s))
<1> DEFINE w == Vals(o) \o Vals(i)
<1>1. /\ Vals(o) \in Seq(Message) /\ Vals(i) \in Seq(Message) /\ Vals(i) # <<>>
      /\ w \in Seq(Message)
  BY ValsElements, PathType
<1>2. w # <<>>
  BY <1>1, ConcatProperties, EmptySeq
<1>3. Path(o, i, s) = w \o s /\ Path(o, i, Tail(s)) = w \o Tail(s)
  BY DEF Path
<1> HIDE DEF w
<1>4. /\ Tail(s) \in Seq(Message) /\ Len(s) \in Nat \ {0} /\ Len(Tail(s)) = Len(s) - 1
      /\ Len(w) \in Nat \ {0}
  BY <1>1, <1>2, TailElements
<1>5. Head(w \o s) = Head(w) /\ Head(w \o Tail(s)) = Head(w) /\ w \o Tail(s) # <<>>
  BY <1>1, <1>2, <1>4, ConcatHeadTail
<1>6. Len(w \o s) = Len(w) + Len(s) /\ Len(w \o Tail(s)) = Len(w) + Len(Tail(s))
  BY <1>1, <1>4, ConcatProperties
<1>7. Len(w \o s) >= 2 /\ Len(w \o Tail(s)) = Len(w \o s) - 1
  BY <1>4, <1>6
<1> QED
  BY <1>3, <1>5, <1>7, Zenon

LEMMA PathEmpty == ASSUME NEW s \in Seq(Message) PROVE Path(<<>>, <<>>, s) = s
<1>1. Vals(<<>>) = <<>>
  <2>1. <<>> \in Seq(Link!Packet) /\ Len(<<>>) = 0
    BY EmptySeq
  <2>2. Vals(<<>>) \in Seq(Message) /\ Len(Vals(<<>>)) = 0
    BY <2>1, ValsElements
  <2> QED
    BY <2>2, EmptySeq
<1>2. (<<>> \o <<>>) \o s = s
  BY EmptySeq, ConcatEmptySeq
<1> QED
  BY <1>1, <1>2 DEF Path

LEMMA WayIs ==
    /\ Way = IF up1 THEN Path(out2, inside, in1) ELSE IF in1 = <<>> THEN <<>> ELSE Tail(in1)
    /\ Way' = IF up1' THEN Path(out2', inside', in1')
              ELSE IF in1' = <<>> THEN <<>> ELSE Tail(in1')
BY Zenon DEF Way, OnTheWay, Path

LEMMA LinkTypes ==
    ASSUME TypeInv
    PROVE  /\ in1 \in Seq(Message) /\ inside \in Seq(Link!Packet) /\ out2 \in Seq(Link!Packet)
           /\ in2 \in Seq({"hello", "ACK"}) /\ out1 \in Seq({"hello", "ACK"})
           /\ Len(in2) \in Nat /\ Len(out1) \in Nat /\ Replies \in Int
           /\ Way \in Seq(Message) /\ Len(Way) \in Nat
<1>1. /\ in1 \in Seq(Message) /\ inside \in Seq(Link!Packet) /\ out2 \in Seq(Link!Packet)
      /\ in2 \in Seq({"hello", "ACK"}) /\ out1 \in Seq({"hello", "ACK"})
      /\ Len(in2) \in Nat /\ Len(out1) \in Nat
  BY DEF TypeInv
<1>2. Path(out2, inside, in1) \in Seq(Message)
  BY <1>1, PathType
<1>3. in1 # <<>> => Tail(in1) \in Seq(Message)
  BY <1>1, TailElements
<1>4. Way \in Seq(Message)
  BY <1>2, <1>3, WayIs, EmptySeq
<1> QED
  BY <1>1, <1>4 DEF Replies

-----------------------------------------------------------------------------
(* What each step does to the two ends of the link.                          *)

\* A message is sent once the link has been greeted.
LEMMA SendEffect ==
    ASSUME TypeInv, Known, phase # "start", phase' # "start", r_phase' = r_phase,
           NEW msg \in Message, Link!Send1(msg)
    PROVE  /\ in1' \in Seq(Message) /\ Known'
           /\ Way' = Append(Way, msg) /\ Replies' = Replies
<1>1. /\ in1' = Append(in1, msg)
      /\ UNCHANGED <<up1, up2, in2, inside, out1, out2>>
  BY DEF Link!Send1
<1>2. Replies' = Replies
  BY <1>1 DEF Replies
<1>3. /\ in1 \in Seq(Message) /\ inside \in Seq(Link!Packet) /\ out2 \in Seq(Link!Packet)
  BY LinkTypes
<1>4. /\ in1' \in Seq(Message) /\ in1' # <<>>
      /\ in1 # <<>> => Head(in1') = Head(in1) /\ Tail(in1') = Append(Tail(in1), msg)
  BY <1>1, <1>3, AppendProperties, HeadTailAppend
<1>5. Way' = Append(Way, msg)
  <2>1. CASE up1
    <3>1. Path(out2, inside, Append(in1, msg)) = Append(Path(out2, inside, in1), msg)
      BY <1>3, PathSend
    <3> QED
      BY <1>1, <2>1, <3>1, WayIs
  <2>2. CASE ~up1
    <3>1. in1 # <<>>
      BY <2>2 DEF Known
    <3> QED
      BY <1>1, <1>4, <2>2, <3>1, WayIs
  <2> QED
    BY <2>1, <2>2
<1>6. Known'
  BY <1>1, <1>2, <1>4 DEF Known
<1> QED
  BY <1>2, <1>4, <1>5, <1>6

\* The sender reads an answer.
LEMMA ResponseEffect ==
    ASSUME TypeInv, Known, phase # "start", phase' # "start", r_phase' = r_phase,
           out1 # <<>>, out1' = Tail(out1), UNCHANGED <<up1, up2, in1, in2, inside, out2>>
    PROVE  /\ out1' \in Seq({"hello", "ACK"}) /\ Known'
           /\ Way' = Way /\ Replies >= 1 /\ Replies' = Replies - 1
<1>1. /\ out1' \in Seq({"hello", "ACK"}) /\ Len(out1') = Len(out1) - 1 /\ Len(out1) >= 1
      /\ Len(in2) \in Nat /\ Len(out1) \in Nat
  BY LinkTypes, TailElements
<1>2. up2
  BY DEF Known
<1>3. Replies >= 1 /\ Replies' = Replies - 1
  BY <1>1, <1>2 DEF Replies
<1>4. Way' = Way
  BY WayIs
<1>5. up1
  BY <1>3 DEF Known
<1>6. Known'
  BY <1>2, <1>5 DEF Known
<1> QED
  BY <1>1, <1>3, <1>4, <1>6

\* A step of the sender alone.
LEMMA QuietEffect ==
    ASSUME TypeInv, Known, phase # "start", phase' # "start", r_phase' = r_phase,
           UNCHANGED <<up1, up2, in1, in2, inside, out1, out2>>
    PROVE  Known' /\ Way' = Way /\ Replies' = Replies
<1>1. Way' = Way /\ Replies' = Replies
  BY WayIs DEF Replies
<1> QED
  BY <1>1 DEF Known

\* The receiver reads a message, and may answer it.
LEMMA ReceiveEffect ==
    ASSUME TypeInv, Known, r_phase # "start", r_phase' # "start", Receive,
           in2' = in2 \/ Answer
    PROVE  /\ up1 /\ up1' = up1 /\ out2' \in Seq(Link!Packet) /\ in2' \in Seq({"hello", "ACK"})
           /\ Known'
           /\ Way # <<>> /\ Received = Head(Way) /\ Way' = Tail(Way)
           /\ in2' = in2 => Replies' = Replies
           /\ Answer => Replies' = Replies + 1
<1>1. /\ out2 # <<>> /\ out2' = Tail(out2)
      /\ UNCHANGED <<up1, up2, in1, inside, out1>> /\ phase' = phase
  BY DEF Receive, sender
<1>2. up1 /\ up2
  BY <1>1 DEF Known
<1>3. /\ in1 \in Seq(Message) /\ inside \in Seq(Link!Packet) /\ out2 \in Seq(Link!Packet)
      /\ Len(in2) \in Nat /\ Len(out1) \in Nat /\ in2 \in Seq({"hello", "ACK"})
  BY LinkTypes
<1>4. out2' \in Seq(Link!Packet)
  BY <1>1, <1>3, TailElements
<1>5. Way # <<>> /\ Received = Head(Way) /\ Way' = Tail(Way)
  BY <1>1, <1>2, <1>3, WayIs, PathReceive DEF Received
<1>6. Answer => /\ in2' \in Seq({"hello", "ACK"}) /\ Len(in2') = Len(in2) + 1
                /\ DOMAIN in2' = 1 .. Len(in2) + 1
                /\ \A k \in DOMAIN in2' :
                      (k \in DOMAIN in2 /\ in2'[k] = in2[k]) \/ in2'[k] = "ACK"
  <2> SUFFICES ASSUME Answer
               PROVE  /\ in2' \in Seq({"hello", "ACK"}) /\ Len(in2') = Len(in2) + 1
                      /\ DOMAIN in2' = 1 .. Len(in2) + 1
                      /\ \A k \in DOMAIN in2' :
                            (k \in DOMAIN in2 /\ in2'[k] = in2[k]) \/ in2'[k] = "ACK"
    OBVIOUS
  <2>1. /\ in2' = Append(in2, "ACK") /\ in2' \in Seq({"hello", "ACK"})
        /\ Len(in2') = Len(in2) + 1 /\ in2'[Len(in2) + 1] = "ACK"
        /\ \A k \in 1 .. Len(in2) : in2'[k] = in2[k]
    BY <1>3, AppendElements DEF Answer
  <2> QED
    BY <1>3, <2>1
<1>7. /\ in2' = in2 => Replies' = Replies
      /\ Answer => Replies' = Replies + 1
  <2>1. Replies = Len(in2) + Len(out1)
    BY <1>2, <1>3 DEF Replies
  <2>2. Replies' = Len(in2') + Len(out1)
    <3>1. Replies' = Len(in2') + Len(out1') - 0
      BY <1>1, <1>2, Zenon DEF Replies
    <3>2. Len(in2') \in Nat
      BY <1>3, <1>6
    <3> QED
      BY <1>1, <1>3, <3>1, <3>2
  <2> QED
    BY <1>3, <1>6, <2>1, <2>2
<1>8. Known'
  BY <1>1, <1>2, <1>6 DEF Known
<1> QED
  BY <1>1, <1>2, <1>3, <1>4, <1>5, <1>6, <1>7, <1>8

\* What the link does: it moves what is on its way, and may drop what is not first.
Moved ==
    \/ Way' = Way
    \/ Len(Way) >= 2 /\ Way' # <<>> /\ Len(Way') = Len(Way) - 1 /\ Head(Way') = Head(Way)

LEMMA LinkEffect ==
    ASSUME TypeInv, Known, Link!LinkStep \/ Link!Break, Others
    PROVE  TypeInv' /\ Known' /\ Moved /\ Replies' = Replies /\ (up1 => up1')
<1>0. /\ UNCHANGED <<args, size, old, phase, arg, offset, r_phase, files_number, files,
                     filename, count, copies>>
  BY DEF Others, inputs, sender, receiver
<1> DEFINE Moves == /\ up1' \in BOOLEAN /\ up2' \in BOOLEAN
                    /\ in1' \in Seq(Message) /\ inside' \in Seq(Link!Packet)
                    /\ out2' \in Seq(Link!Packet) /\ in2' \in Seq({"hello", "ACK"})
                    /\ out1' \in Seq({"hello", "ACK"})
                    /\ Known' /\ Moved /\ Replies' = Replies /\ (up1 => up1')
<1> SUFFICES Moves
  BY <1>0 DEF TypeInv
<1>1. /\ up1 \in BOOLEAN /\ up2 \in BOOLEAN
      /\ in1 \in Seq(Message) /\ inside \in Seq(Link!Packet) /\ out2 \in Seq(Link!Packet)
      /\ in2 \in Seq({"hello", "ACK"}) /\ out1 \in Seq({"hello", "ACK"})
      /\ Len(in2) \in Nat /\ Len(out1) \in Nat
  BY LinkTypes DEF TypeInv
<1>2. up1 => up2 /\ phase # "start"
  BY DEF Known
<1>3. CASE Link!Hello1
  <2>1. /\ ~up1 /\ in1 # <<>> /\ up1' = TRUE /\ in1' = Tail(in1)
        /\ UNCHANGED <<up2, in2, inside, out1, out2>>
    BY <1>3 DEF Link!Hello1
  <2>2. phase # "start" /\ up2 /\ inside = <<>> /\ out2 = <<>> /\ in1' \in Seq(Message)
    BY <1>1, <2>1, TailElements DEF Known
  <2>3. Path(out2', inside', in1') = in1'
    BY <2>1, <2>2, PathEmpty
  <2>4. Way' = Way
    BY <2>1, <2>3, WayIs
  <2>5. Replies' = Replies
    BY <1>0, <2>1 DEF Replies
  <2>6. Known'
    BY <1>0, <2>1, <2>2 DEF Known
  <2> QED
    BY <1>1, <2>1, <2>2, <2>4, <2>5, <2>6 DEF Moved
<1>4. CASE Link!Hello2
  <2>1. /\ ~up2 /\ in2 # <<>> /\ up2' = TRUE /\ in2' = Tail(in2)
        /\ UNCHANGED <<up1, in1, inside, out1, out2>>
    BY <1>4 DEF Link!Hello2
  <2>2. phase = "start" /\ r_phase # "start" /\ Len(in2) = 1
    BY <2>1 DEF Known
  <2>3. in2' \in Seq({"hello", "ACK"}) /\ Len(in2') = 0
    BY <1>1, <2>1, <2>2, TailElements
  <2>4. in2' = <<>> /\ DOMAIN in2' = {}
    BY <2>3, EmptySeq
  <2>5. Way' = Way
    BY <2>1, WayIs
  <2>6. Replies' = Replies
    BY <1>0, <1>1, <2>1, <2>2, <2>3 DEF Replies
  <2>7. Known'
    BY <1>0, <2>1, <2>2, <2>4, <2>6 DEF Known
  <2> QED
    BY <1>1, <2>1, <2>3, <2>5, <2>6, <2>7 DEF Moved
<1>5. CASE Link!Lose
  <2>1. /\ up1 /\ in1 # <<>> /\ in1' = Tail(in1) /\ Len(inside) >= BUFFER_SIZE
        /\ UNCHANGED <<up1, up2, in2, inside, out1, out2>>
    BY <1>5 DEF Link!Lose
  <2>2. in1' \in Seq(Message)
    BY <1>1, <2>1, TailElements
  <2>3. inside # <<>>
    BY <2>1, EmptySeq, TransferAssumption
  <2>4. Moved
    BY <1>1, <2>1, <2>3, PathLose, WayIs DEF Moved
  <2>5. Replies' = Replies
    BY <1>0, <2>1 DEF Replies
  <2>6. Known'
    BY <1>0, <1>2, <2>1, <2>5 DEF Known
  <2> QED
    BY <1>1, <2>1, <2>2, <2>4, <2>5, <2>6
<1>6. CASE Link!Leave
  <2>1. /\ inside # <<>> /\ inside' = Tail(inside)
        /\ out2' = IF up2 THEN Append(out2, Head(inside)) ELSE out2
        /\ UNCHANGED <<up1, up2, in1, in2, out1>>
    BY <1>6 DEF Link!Leave
  <2>2. up1 /\ up2
    BY <1>2, <2>1 DEF Known
  <2>3. out2' = Append(out2, Head(inside))
    BY <2>1, <2>2
  <2>4. inside' \in Seq(Link!Packet) /\ out2' \in Seq(Link!Packet)
    <3>1. Head(inside) \in Link!Packet /\ inside' \in Seq(Link!Packet)
      BY <1>1, <2>1, TailElements
    <3> QED
      BY <1>1, <2>3, <3>1, AppendElements
  <2>5. Way' = Way
    BY <1>1, <2>1, <2>2, <2>3, PathLeave, WayIs
  <2>6. Replies' = Replies
    BY <1>0, <2>1 DEF Replies
  <2>7. Known'
    BY <1>0, <2>1, <2>2, <2>6 DEF Known
  <2> QED
    BY <1>1, <2>1, <2>4, <2>5, <2>6, <2>7 DEF Moved
<1>7. CASE Link!Return
  <2>1. /\ up2 /\ in2 # <<>> /\ in2' = Tail(in2)
        /\ out1' = IF up1 THEN Append(out1, Head(in2)) ELSE out1
        /\ UNCHANGED <<up1, up2, in1, inside, out2>>
    BY <1>7 DEF Link!Return
  <2>2. /\ in2' \in Seq({"hello", "ACK"}) /\ Len(in2') = Len(in2) - 1 /\ Len(in2) >= 1
        /\ Head(in2) \in {"hello", "ACK"}
        /\ \A k \in 1 .. Len(in2) - 1 : in2'[k] = in2[k + 1]
    BY <1>1, <2>1, TailElements
  <2>3. Replies = Len(in2) + Len(out1) /\ Replies >= 1
    BY <1>1, <2>1, <2>2 DEF Replies
  <2>4. up1
    BY <2>3 DEF Known
  <2>5. out1' = Append(out1, Head(in2))
    BY <2>1, <2>4
  <2>6. out1' \in Seq({"hello", "ACK"}) /\ Len(out1') = Len(out1) + 1
    BY <1>1, <2>2, <2>5, AppendElements
  <2>7. Replies' = Replies
    BY <1>0, <1>1, <2>1, <2>2, <2>3, <2>6 DEF Replies
  <2>8. Way' = Way
    BY <2>1, WayIs
  <2>9. \A k \in DOMAIN in2' : k \in Nat /\ k + 1 \in DOMAIN in2 /\ in2'[k] = in2[k + 1]
    BY <1>1, <2>2, SMTT(30)
  <2>10. Known'
    BY <1>0, <2>1, <2>4, <2>7, <2>9, <1>2 DEF Known
  <2> QED
    BY <1>1, <2>1, <2>2, <2>6, <2>7, <2>8, <2>10 DEF Moved
<1>8. ASSUME NEW ok \in BOOLEAN, Link!Enter(ok) PROVE Moves
  <2> DEFINE e == [val |-> Head(in1), ok |-> ok]
  <2>1. /\ up1 /\ in1 # <<>> /\ in1' = Tail(in1) /\ inside' = Append(inside, e)
        /\ UNCHANGED <<up1, up2, in2, out1, out2>>
    BY <1>8 DEF Link!Enter
  <2>2. in1' \in Seq(Message) /\ Head(in1) \in Message
    BY <1>1, <2>1, TailElements
  <2>3. e \in Link!Packet /\ e.val = Head(in1)
    BY <2>2 DEF Link!Packet
  <2> HIDE DEF e
  <2>4. inside' \in Seq(Link!Packet)
    BY <1>1, <2>1, <2>3, AppendElements
  <2>5. Way' = Way
    BY <1>1, <2>1, <2>3, PathEnter, WayIs
  <2>6. Replies' = Replies
    BY <1>0, <2>1 DEF Replies
  <2>7. Known'
    BY <1>0, <1>2, <2>1, <2>6 DEF Known
  <2> QED
    BY <1>1, <2>1, <2>2, <2>4, <2>5, <2>6, <2>7 DEF Moved
<1>9. CASE Link!Break
  <2>1. UNCHANGED <<up1, up2, in1, in2, inside, out1, out2>>
    BY <1>9 DEF Link!Break
  <2>2. Way' = Way /\ Replies' = Replies
    BY <1>0, <2>1, WayIs DEF Replies
  <2>3. Known'
    BY <1>0, <2>1, <2>2 DEF Known
  <2> QED
    BY <1>1, <2>1, <2>2, <2>3 DEF Moved
<1> QED
  BY <1>3, <1>4, <1>5, <1>6, <1>7, <1>8, <1>9 DEF Link!LinkStep

-----------------------------------------------------------------------------
(* Pieces of a file.                                                         *)

LEMMA Products ==
    ASSUME NEW k \in Int, NEW m \in Nat
    PROVE  /\ k * m \in Int /\ (k - 1) * m = k * m - m
           /\ k >= 1 => k * m >= m
           /\ k <= 0 => k * m <= 0
OBVIOUS

\* As many pieces are announced as there are in a file; a file that is not there has one.
LEMMA PiecesLeft ==
    ASSUME NEW n \in Int, n >= -1
    PROVE  /\ Pieces(n) \in Int
           /\ n = 0 => Pieces(n) = 0
           /\ n # 0 => Pieces(n) > 0 /\ Left(Pieces(n), n)
<1>1. MAX_LEN \in Nat /\ MAX_LEN >= 2
  BY TransferAssumption
<1>2. CASE n = -1
  <2>1. 1 \div MAX_LEN = 0
    BY <1>1
  <2>2. Quotient(n, MAX_LEN) = 0
    BY <1>2, <2>1 DEF Quotient
  <2>3. Pieces(n) = 1
    BY <1>1, <1>2, <2>2 DEF Pieces
  <2> QED
    BY <1>2, <2>3 DEF Left
<1>3. CASE n >= 0
  <2> DEFINE q == n \div MAX_LEN
  <2>1. /\ Quotient(n, MAX_LEN) = q /\ q \in Int /\ q >= 0
        /\ n - q * MAX_LEN \in 0 .. MAX_LEN - 1
    <3>1. q \in Int /\ q >= 0 /\ n = MAX_LEN * q + (n % MAX_LEN)
          /\ n % MAX_LEN \in 0 .. MAX_LEN - 1
      BY <1>1, <1>3
    <3> QED
      BY <1>1, <1>3, <3>1 DEF Quotient
  <2>2. Pieces(n) = IF n - q * MAX_LEN = 0 THEN q ELSE q + 1
    BY <2>1 DEF Pieces
  <2> HIDE DEF q
  <2>3. q * MAX_LEN \in Int /\ (q + 1) * MAX_LEN = q * MAX_LEN + MAX_LEN
        /\ (q - 1) * MAX_LEN = q * MAX_LEN - MAX_LEN
        /\ (q = 0 => q * MAX_LEN = 0) /\ (q >= 1 => q * MAX_LEN >= MAX_LEN)
    BY <1>1, <2>1
  <2>4. CASE n - q * MAX_LEN = 0
    <3>1. Pieces(n) = q /\ n = q * MAX_LEN
      BY <1>3, <2>2, <2>3, <2>4
    <3>2. n = 0 => q = 0
      BY <1>1, <2>1, <2>3, <3>1
    <3>3. n # 0 => q >= 1
      BY <2>1, <2>3, <3>1
    <3>4. n # 0 => (q - 1) * MAX_LEN < n /\ n <= q * MAX_LEN
      BY <1>1, <2>3, <3>1
    <3> QED
      BY <1>3, <2>1, <3>1, <3>2, <3>3, <3>4 DEF Left
  <2>5. CASE n - q * MAX_LEN # 0
    <3>1. Pieces(n) = q + 1 /\ n > q * MAX_LEN /\ n <= (q + 1) * MAX_LEN
      BY <1>1, <1>3, <2>1, <2>2, <2>3, <2>5
    <3>2. n # 0
      BY <1>1, <2>1, <2>3, <3>1
    <3>3. (q + 1) - 1 = q /\ q + 1 >= 1
      BY <2>1
    <3> QED
      BY <1>3, <2>1, <3>1, <3>2, <3>3 DEF Left
  <2> QED
    BY <2>4, <2>5
<1> QED
  BY <1>2, <1>3

\* After a piece there is one piece less.
LEMMA LeftNext ==
    ASSUME NEW n \in Nat, NEW k \in Int, Left(k, n)
    PROVE  /\ n <= MAX_LEN => k = 1
           /\ n > MAX_LEN => k - 1 > 0 /\ Left(k - 1, n - MAX_LEN)
<1>1. MAX_LEN \in Nat /\ MAX_LEN >= 2
  BY TransferAssumption
<1>2. k >= 1 /\ (k - 1) * MAX_LEN < n /\ n <= k * MAX_LEN
  BY DEF Left
<1>3. /\ (k - 1) * MAX_LEN = k * MAX_LEN - MAX_LEN /\ k * MAX_LEN \in Int
      /\ ((k - 1) - 1) * MAX_LEN = (k - 1) * MAX_LEN - MAX_LEN
      /\ k - 1 >= 1 => (k - 1) * MAX_LEN >= MAX_LEN
  BY <1>1, Products
<1>4. CASE n <= MAX_LEN
  BY <1>1, <1>2, <1>3, <1>4
<1>5. CASE n > MAX_LEN
  <2>1. k # 1
    <3>1. 1 * MAX_LEN = MAX_LEN
      BY <1>1
    <3> QED
      BY <1>1, <1>2, <1>5, <3>1
  <2>2. k - 1 >= 1 /\ k - 1 > 0
    BY <1>2, <2>1
  <2>3. ((k - 1) - 1) * MAX_LEN < n - MAX_LEN /\ n - MAX_LEN <= (k - 1) * MAX_LEN
    BY <1>1, <1>2, <1>3
  <2> QED
    BY <1>1, <1>5, <2>2, <2>3 DEF Left
<1> QED
  BY <1>1, <1>4, <1>5

\* What read() gives.
LEMMA ReadIs ==
    ASSUME TypeInv, At, phase = "data"
    PROVE  /\ File \in Names /\ size[File] \in Int /\ size[File] >= -1 /\ offset \in Nat
           /\ \/ size[File] < 0 /\ Read = -1 /\ offset = 0
              \/ size[File] - offset > MAX_LEN /\ Read = MAX_LEN
              \/ size[File] - offset \in 1 .. MAX_LEN /\ Read = size[File] - offset
              \/ size[File] = offset /\ Read = 0
           /\ Read \in -1 .. MaxSize
<1>1. MAX_LEN \in Nat /\ MAX_LEN >= 2 /\ MaxSize \in Nat
  BY TransferAssumption
<1>2. arg \in 1 .. Len(args) /\ args \in Seq(Names) /\ offset \in Nat
  BY DEF TypeInv, At, InFile
<1>3. File \in Names
  BY <1>2 DEF File
<1>4. size[File] \in -1 .. MaxSize
  BY <1>3 DEF TypeInv
<1>5. size[File] < 0 => offset = 0
  BY DEF At
<1>6. ~(size[File] < 0) => offset <= size[File]
  BY DEF At
<1>7. CASE size[File] < 0
  BY <1>1, <1>2, <1>3, <1>4, <1>5, <1>7 DEF Read
<1>8. CASE ~(size[File] < 0) /\ size[File] - offset > MAX_LEN
  <2>1. Read = MAX_LEN
    BY <1>8 DEF Read
  <2> QED
    BY <1>1, <1>2, <1>3, <1>4, <1>8, <2>1
<1>9. CASE ~(size[File] < 0) /\ ~(size[File] - offset > MAX_LEN)
  <2>1. Read = size[File] - offset
    BY <1>9 DEF Read
  <2> QED
    BY <1>1, <1>2, <1>3, <1>4, <1>6, <1>9, <2>1
<1> QED
  BY <1>7, <1>8, <1>9

-----------------------------------------------------------------------------
(* The exchange: what is on its way, who waits for whom.                     *)

Exchange == TypeInv /\ Known /\ At /\ Starting /\ Alternate /\ InStep

LEMMA AppendShort ==
    ASSUME NEW w \in Seq(Message), NEW msg \in Message
    PROVE  /\ Len(w) \in Nat /\ (Len(w) = 0 <=> w = <<>>)
           /\ Append(w, msg) \in Seq(Message) /\ Append(w, msg) # <<>>
           /\ Len(Append(w, msg)) = Len(w) + 1
           /\ w = <<>> => Head(Append(w, msg)) = msg
           /\ w # <<>> => Head(Append(w, msg)) = Head(w)
           /\ Len(w) = 1 => Append(w, msg)[2] = msg
<1>1. Len(w) \in Nat /\ (Len(w) = 0 <=> w = <<>>)
  BY EmptySeq
<1>2. /\ Append(w, msg) \in Seq(Message) /\ Append(w, msg) # <<>>
      /\ Len(Append(w, msg)) = Len(w) + 1 /\ Append(w, msg)[Len(w) + 1] = msg
      /\ Head(Append(w, msg)) = IF w = <<>> THEN msg ELSE Head(w)
  BY AppendProperties, HeadTailAppend
<1>3. Len(w) = 1 => Append(w, msg)[2] = msg
  BY <1>2
<1> QED
  BY <1>1, <1>2, <1>3

LEMMA TailShort ==
    ASSUME NEW w \in Seq(Message), w # <<>>
    PROVE  /\ Len(w) \in Nat \ {0} /\ Tail(w) \in Seq(Message) /\ Len(Tail(w)) = Len(w) - 1
           /\ Len(w) = 1 => Tail(w) = <<>>
           /\ Len(w) = 2 => Tail(w) # <<>> /\ Head(Tail(w)) = w[2]
<1>1. /\ Len(w) \in Nat \ {0} /\ Tail(w) \in Seq(Message) /\ Len(Tail(w)) = Len(w) - 1
      /\ \A k \in 1 .. Len(w) - 1 : Tail(w)[k] = w[k + 1]
  BY TailElements
<1>2. Len(w) = 2 => Tail(w) # <<>> /\ Head(Tail(w)) = w[2]
  <2> SUFFICES ASSUME Len(w) = 2 PROVE Tail(w) # <<>> /\ Head(Tail(w)) = w[2]
    OBVIOUS
  <2> DEFINE t == Tail(w)
  <2>1. t \in Seq(Message) /\ Len(t) = 1 /\ t[1] = w[2]
    BY <1>1
  <2> HIDE DEF t
  <2>2. t # <<>>
    BY <2>1
  <2>3. Head(t) = t[1]
    BY <2>1, <2>2, TailElements
  <2> QED
    BY <2>1, <2>2, <2>3 DEF t
<1>3. Len(w) = 1 => Tail(w) = <<>>
  <2> DEFINE t == Tail(w)
  <2>1. Len(w) = 1 => t \in Seq(Message) /\ Len(t) = 0
    BY <1>1
  <2> HIDE DEF t
  <2>2. Len(w) = 1 => t = <<>>
    BY <2>1, EmptySeq
  <2> QED
    BY <2>2 DEF t
<1> QED
  BY <1>1, <1>2, <1>3

LEMMA WayTypes ==
    ASSUME TypeInv
    PROVE  Way \in Seq(Message) /\ Len(Way) \in Nat /\ (Len(Way) = 0 <=> Way = <<>>)
           /\ Replies \in Int
BY LinkTypes, EmptySeq

\* What the sender sends are messages.
LEMMA MessageTypes ==
    ASSUME TypeInv
    PROVE  /\ Number \in Message /\ Hello \in Message
           /\ phase \in InFile /\ At =>
                 /\ File \in Names /\ size[File] \in -1 .. MaxSize
                 /\ Msg("name", 1, File, 0) \in Message
                 /\ Msg("size", size[File], NoName, 0) \in Message
                 /\ \A n \in -1 .. MaxSize : Msg("data", n, File, offset) \in Message
<1>1. MaxFiles \in Nat /\ MaxSize \in Nat
  BY TransferAssumption
<1>2. args \in Seq(Names) /\ Len(args) \in Nat /\ Len(args) <= MaxFiles /\ offset \in Nat
  BY DEF TypeInv
<1>3. Len(args) \in -1 .. MaxFiles + MaxSize /\ 0 \in -1 .. MaxFiles + MaxSize
  BY <1>1, <1>2
<1>4. Number \in Message /\ Hello \in Message
  BY <1>3 DEF Number, Hello, Msg, Message
<1>5. ASSUME phase \in InFile, At
      PROVE  /\ File \in Names /\ size[File] \in -1 .. MaxSize
             /\ Msg("name", 1, File, 0) \in Message
             /\ Msg("size", size[File], NoName, 0) \in Message
             /\ \A n \in -1 .. MaxSize : Msg("data", n, File, offset) \in Message
  <2>1. arg \in 1 .. Len(args)
    BY <1>5 DEF At
  <2>2. File \in Names
    BY <1>2, <2>1 DEF File
  <2>3. size[File] \in -1 .. MaxSize
    BY <2>2 DEF TypeInv
  <2>4. 1 \in -1 .. MaxFiles + MaxSize
    BY <1>1, <1>2, <2>1
  <2>5. \A n \in -1 .. MaxSize : n \in -1 .. MaxFiles + MaxSize
    BY <1>1
  <2>6. Msg("name", 1, File, 0) \in Message
    BY <2>2, <2>4 DEF Msg, Message
  <2>7. Msg("size", size[File], NoName, 0) \in Message
    BY <2>3, <2>5 DEF Msg, Message
  <2>8. \A n \in -1 .. MaxSize : Msg("data", n, File, offset) \in Message
    BY <1>2, <2>2, <2>5 DEF Msg, Message
  <2> QED
    BY <2>2, <2>3, <2>6, <2>7, <2>8
<1> QED
  BY <1>4, <1>5

LEMMA FileSame == UNCHANGED <<args, arg, size>> => File' = File /\ size[File]' = size[File]
  BY DEF File

\* A message sent when nothing is on its way.
LEMMA SendAlone ==
    ASSUME TypeInv, Alternate, r_phase \notin {"start", "number"},
           phase \in {"name", "size", "data"}, phase' \in Waiting,
           r_phase' = r_phase, up1' = up1, Replies' = Replies,
           NEW msg \in Message, Way' = Append(Way, msg),
           SentAs(phase', File', size[File]', offset', msg)
    PROVE  /\ Way' # <<>> /\ Head(Way') = msg /\ Replies = 0 /\ Replies' # 1
           /\ Starting' /\ Alternate'
<1>1. Way \in Seq(Message) /\ Replies \in Int /\ Len(Way) = 0 /\ Replies = 0 /\ up1
      /\ Way = <<>>
  BY WayTypes DEF Alternate, Waiting
<1>2. Way' # <<>> /\ Head(Way') = msg /\ Len(Way') = 1
  BY <1>1, AppendShort
<1>3. Replies' >= 0 /\ Len(Way') + Replies' <= 1
  BY <1>1, <1>2
<1>4. Sent(Head(Way))'
  BY <1>2, Zenon DEF Sent
<1>5. phase' \notin {"start", "number"} /\ r_phase' \notin {"start", "number"}
  BY DEF Waiting
<1>6. Alternate'
  BY <1>1, <1>3, <1>4, <1>5, Zenon DEF Alternate
<1>7. Starting'
  BY <1>5, Zenon DEF Starting
<1>8. Replies' # 1
  <2>1. Replies # 1
    BY <1>1
  <2> QED
    BY <2>1, Zenon
<1> QED
  BY <1>1, <1>2, <1>6, <1>7, <1>8, Zenon

LEMMA StartSenderKeeps == ASSUME Exchange, StartSender PROVE Exchange'
<1>1. /\ phase = "start" /\ up2 /\ phase' = "number" /\ in1' = Append(in1, Hello)
      /\ UNCHANGED <<up1, up2, in2, inside, out1, out2>>
      /\ UNCHANGED <<args, size, old, arg, offset>>
      /\ UNCHANGED <<r_phase, files_number, files, filename, count, copies>>
  BY DEF StartSender, Send, Link!Send1, inputs, receiver
<1>2. TypeInv /\ Known /\ At /\ Starting /\ Alternate
  BY DEF Exchange
<1>3. r_phase = "number" /\ Replies = 0 /\ Way = <<>> /\ in1 = <<>> /\ ~up1
      /\ inside = <<>> /\ out2 = <<>>
  BY <1>1, <1>2 DEF Known, Starting, Alternate
<1>4. /\ in1' \in Seq(Message) /\ in1' # <<>> /\ Head(in1') = Hello /\ Tail(in1') = <<>>
  <2>1. in1 \in Seq(Message) /\ Hello \in Message
    BY <1>2, MessageTypes DEF TypeInv
  <2> QED
    BY <1>1, <1>3, <2>1, AppendProperties, HeadTailAppend
<1>5. Way' = <<>> /\ Replies' = Replies
  BY <1>1, <1>3, <1>4, WayIs DEF Replies
<1>6. TypeInv'
  BY <1>1, <1>2, <1>4 DEF TypeInv
<1>7. Known'
  BY <1>1, <1>2, <1>3, <1>4, <1>5 DEF Known
<1>8. At' /\ Starting' /\ Alternate' /\ InStep'
  BY <1>1, <1>2, <1>3, <1>5 DEF At, InFile, Starting, Alternate, InStep
<1> QED
  BY <1>6, <1>7, <1>8 DEF Exchange

LEMMA SendNumberKeeps == ASSUME Exchange, SendNumber PROVE Exchange'
<1>1. /\ phase = "number" /\ Link!Send1(Number)
      /\ phase' = (IF arg < Len(args) THEN "name" ELSE "done") /\ arg' = arg + 1 /\ offset' = 0
      /\ UNCHANGED <<args, size, old>>
      /\ UNCHANGED <<r_phase, files_number, files, filename, count, copies>>
  BY DEF SendNumber, Send, NextFile, Number, inputs, receiver
<1>2. TypeInv /\ Known /\ At /\ Starting /\ Alternate
  BY DEF Exchange
<1>3. /\ r_phase = "number" /\ Replies = 0 /\ Way = <<>> /\ arg = 0 /\ files = 0
      /\ Number \in Message /\ Len(args) \in Nat
  BY <1>1, <1>2, MessageTypes DEF Known, Starting, Alternate, At, TypeInv
<1>4. in1' \in Seq(Message) /\ Known' /\ Way' = Append(Way, Number) /\ Replies' = Replies
  BY <1>1, <1>2, <1>3, SendEffect
<1>5. UNCHANGED <<up1, up2, in2, inside, out1, out2>>
  BY <1>1 DEF Link!Send1
<1>6. TypeInv'
  BY <1>1, <1>2, <1>3, <1>4, <1>5 DEF TypeInv
<1>7. Way' # <<>> /\ Len(Way') = 1 /\ Head(Way') = Number
  BY <1>2, <1>3, <1>4, AppendShort, WayTypes
<1>8. Number' = Number
  BY <1>1 DEF Number
<1>9. At'
  BY <1>1, <1>3 DEF At, InFile
<1>10. Starting'
  BY <1>1, <1>3, <1>4, <1>7, <1>8 DEF Starting
<1>11. Alternate' /\ InStep'
  BY <1>1, <1>3 DEF Alternate, InStep
<1> QED
  BY <1>4, <1>6, <1>9, <1>10, <1>11 DEF Exchange

LEMMA SendNameKeeps == ASSUME Exchange, SendName PROVE Exchange'
<1> DEFINE msg == Msg("name", 1, File, 0)
<1>1. /\ phase = "name" /\ Link!Send1(msg) /\ phase' = "name sent"
      /\ UNCHANGED <<args, size, old, arg, offset>>
      /\ UNCHANGED <<r_phase, files_number, files, filename, count, copies>>
  BY DEF SendName, Send, inputs, receiver
<1>2. TypeInv /\ Known /\ At /\ Starting /\ Alternate /\ InStep
  BY DEF Exchange
<1>3. msg \in Message
  BY <1>1, <1>2, MessageTypes DEF InFile
<1>4. File' = File /\ size[File]' = size[File]
      /\ SentAs(phase', File, size[File], offset, msg)
  BY <1>1, FileSame DEF SentAs
<1> HIDE DEF msg
<1>5. in1' \in Seq(Message) /\ Known' /\ Way' = Append(Way, msg) /\ Replies' = Replies
  BY <1>1, <1>2, <1>3, SendEffect
<1>6. UNCHANGED <<up1, up2, in2, inside, out1, out2>>
  BY <1>1 DEF Link!Send1
<1>7. TypeInv'
  BY <1>1, <1>2, <1>5, <1>6 DEF TypeInv
<1>8. At'
  BY <1>1, <1>2 DEF At, InFile
<1>9. Number' = Number
  BY <1>1 DEF Number
<1>10. CASE r_phase \in {"start", "number"}
  <2>1. /\ arg = 1 /\ Way # <<>> /\ Head(Way) = Number /\ r_phase = "number" /\ Replies = 0
        /\ Len(Way) = 1 /\ files = 0
    BY <1>1, <1>2, <1>10 DEF Starting
  <2>2. Way' # <<>> /\ Head(Way') = Number /\ Len(Way') = 2 /\ Way'[2] = msg
    BY <1>2, <1>3, <1>5, <2>1, AppendShort, WayTypes
  <2>3. SentAs(phase', File', size[File]', offset', Way'[2])
    BY <1>4, <2>2, <1>1
  <2>4. Starting'
    BY <1>1, <1>5, <1>9, <2>1, <2>2, <2>3 DEF Starting, Sent
  <2>5. Alternate' /\ InStep'
    BY <1>1, <1>10 DEF Alternate, InStep
  <2> QED
    BY <1>5, <1>7, <1>8, <2>4, <2>5 DEF Exchange
<1>11. CASE r_phase \notin {"start", "number"}
  <2>1. SentAs(phase', File', size[File]', offset', msg)
    BY <1>1, <1>4
  <2>2. phase \in {"name", "size", "data"} /\ phase' \in Waiting
    BY <1>1 DEF Waiting
  <2>3. Way' # <<>> /\ Replies' # 1 /\ Starting' /\ Alternate'
    BY <1>1, <1>2, <1>3, <1>5, <1>6, <1>11, <2>1, <2>2, SendAlone
  <2>4. r_phase # "failed" => /\ r_phase = "name" /\ files_number = Len(args)
                             /\ files = arg - 1
    BY <1>1, <1>2, <1>11, Zenon DEF InStep, Abreast
  <2>5. InStep'
    <3>1. r_phase' # "failed" => /\ r_phase' = "name" /\ files_number' = Len(args')
                                /\ files' = arg' - 1
      BY <1>1, <2>4
    <3>2. phase' = "name sent" /\ Replies' # 1
      BY <1>1, <2>3
    <3>3. r_phase' # "failed" => Abreast'
      BY <3>1, <3>2 DEF Abreast
    <3> QED
      BY <3>3 DEF InStep
  <2> QED
    BY <1>5, <1>7, <1>8, <2>3, <2>5 DEF Exchange
<1> QED
  BY <1>10, <1>11

\* Once it has the number of files, the receiver has got all that was sent.
LEMMA Told ==
    ASSUME Exchange, phase \in {"size", "data", "size sent", "data sent"}
    PROVE  r_phase \notin {"start", "number"} /\ up1
BY DEF Exchange, Starting, Alternate

LEMMA SendSizeKeeps == ASSUME Exchange, SendSize PROVE Exchange'
<1> DEFINE msg == Msg("size", size[File], NoName, 0)
<1>1. /\ phase = "size" /\ Link!Send1(msg) /\ phase' = "size sent"
      /\ UNCHANGED <<args, size, old, arg, offset>>
      /\ UNCHANGED <<r_phase, files_number, files, filename, count, copies>>
  BY DEF SendSize, Send, inputs, receiver
<1>2. TypeInv /\ Known /\ At /\ Starting /\ Alternate /\ InStep
  BY DEF Exchange
<1>3. msg \in Message
  BY <1>1, <1>2, MessageTypes DEF InFile
<1>4. File' = File /\ size[File]' = size[File]
      /\ SentAs(phase', File, size[File], offset, msg)
  BY <1>1, FileSame DEF SentAs
<1> HIDE DEF msg
<1>5. in1' \in Seq(Message) /\ Known' /\ Way' = Append(Way, msg) /\ Replies' = Replies
  BY <1>1, <1>2, <1>3, SendEffect
<1>6. UNCHANGED <<up1, up2, in2, inside, out1, out2>>
  BY <1>1 DEF Link!Send1
<1>7. TypeInv'
  BY <1>1, <1>2, <1>5, <1>6 DEF TypeInv
<1>8. At'
  BY <1>1, <1>2 DEF At, InFile
<1>9. r_phase \notin {"start", "number"}
  BY <1>1, Told
<1>10. SentAs(phase', File', size[File]', offset', msg)
  BY <1>1, <1>4
<1>11. phase \in {"name", "size", "data"} /\ phase' \in Waiting
  BY <1>1 DEF Waiting
<1>12. Way' # <<>> /\ Replies' # 1 /\ Starting' /\ Alternate'
  BY <1>1, <1>2, <1>3, <1>5, <1>6, <1>9, <1>10, <1>11, SendAlone
<1>13. r_phase # "failed" => /\ r_phase = "size" /\ files_number = Len(args) /\ SameFile
  BY <1>1, <1>2, <1>9, Zenon DEF InStep, Abreast
<1>14. SameFile => SameFile'
  BY <1>1, <1>4 DEF SameFile
<1>15. InStep'
  <2>1. r_phase' # "failed" => r_phase' = "size" /\ files_number' = Len(args') /\ SameFile'
    BY <1>1, <1>13, <1>14
  <2>2. phase' = "size sent" /\ Replies' # 1
    BY <1>1, <1>12
  <2>3. r_phase' # "failed" => Abreast'
    BY <2>1, <2>2 DEF Abreast
  <2> QED
    BY <2>3 DEF InStep
<1> QED
  BY <1>5, <1>7, <1>8, <1>12, <1>15 DEF Exchange

LEMMA SendDataKeeps == ASSUME Exchange, SendData PROVE Exchange' /\ Got' = Got
<1> DEFINE msg == Msg("data", Read, File, offset)
<1>1. /\ phase = "data" /\ Read # 0 /\ Link!Send1(msg) /\ phase' = "data sent"
      /\ offset' = (IF Read > 0 THEN offset + Read ELSE offset)
      /\ UNCHANGED <<args, size, old, arg>>
      /\ UNCHANGED <<r_phase, files_number, files, filename, count, copies>>
  BY DEF SendData, Send, inputs, receiver
<1>2. TypeInv /\ Known /\ At /\ Starting /\ Alternate /\ InStep
  BY DEF Exchange
<1>3. /\ size[File] \in Int /\ offset \in Nat /\ size[File] >= -1 /\ Read \in -1 .. MaxSize
      /\ \/ size[File] < 0 /\ Read = -1 /\ offset = 0
         \/ size[File] - offset > MAX_LEN /\ Read = MAX_LEN
         \/ size[File] - offset \in 1 .. MAX_LEN /\ Read = size[File] - offset
  BY <1>1, <1>2, ReadIs
<1>4. msg \in Message
  BY <1>1, <1>2, <1>3, MessageTypes DEF InFile
<1>5. MAX_LEN \in Nat /\ MAX_LEN >= 2 /\ MaxSize \in Nat
  BY TransferAssumption
<1>6. msg.kind = "data" /\ msg.name = File /\ msg.len = Read /\ msg.from = offset
  BY DEF Msg
<1>7. /\ File' = File /\ size[File]' = size[File] /\ offset' \in Nat
      /\ offset' = IF size[File] < 0 THEN offset ELSE offset + Read
  <2>1. File' = File /\ size[File]' = size[File]
    BY <1>1, FileSame
  <2>2. \/ size[File] < 0 /\ Read = -1
        \/ ~(size[File] < 0) /\ Read > 0
    BY <1>3, <1>5
  <2>3. -1 > 0 <=> FALSE
    OBVIOUS
  <2>4. offset' = IF size[File] < 0 THEN offset ELSE offset + Read
    BY <1>1, <2>2, <2>3, Zenon
  <2>5. offset \in Nat /\ (~(size[File] < 0) => offset + Read \in Nat)
    BY <1>3, <2>2
  <2> QED
    BY <2>1, <2>4, <2>5, Zenon
<1> HIDE DEF msg
<1>8. SentAs(phase', File, size[File], offset', msg)
  <2> DEFINE sz == size[File]
             off == offset'
  <2>1. \/ sz < 0 /\ msg.len = -1 /\ msg.from = 0 /\ off = 0
        \/ sz - msg.from > MAX_LEN /\ msg.len = MAX_LEN /\ off = msg.from + MAX_LEN
        \/ sz - msg.from \in 1 .. MAX_LEN /\ msg.len = sz - msg.from /\ off = sz
    <3> HIDE DEF sz
    <3>1. /\ sz \in Int /\ off = IF sz < 0 THEN offset ELSE offset + Read
          /\ \/ sz < 0 /\ Read = -1 /\ offset = 0
             \/ sz - offset > MAX_LEN /\ Read = MAX_LEN
             \/ sz - offset \in 1 .. MAX_LEN /\ Read = sz - offset
      BY <1>3, <1>7 DEF sz
    <3> HIDE DEF off
    <3> QED
      BY <1>3, <1>5, <1>6, <3>1
  <2> QED
    BY <1>1, <1>3, <1>6, <2>1, Zenon DEF SentAs, IsPiece
<1>9. in1' \in Seq(Message) /\ Known' /\ Way' = Append(Way, msg) /\ Replies' = Replies
  BY <1>1, <1>2, <1>4, SendEffect
<1>10. UNCHANGED <<up1, up2, in2, inside, out1, out2>>
  BY <1>1 DEF Link!Send1
<1>11. TypeInv'
  BY <1>1, <1>2, <1>7, <1>9, <1>10 DEF TypeInv
<1>12. At'
  <2>1. IF size[File] < 0 THEN offset' = 0 ELSE offset' <= size[File]
    BY <1>3, <1>5, <1>7
  <2> QED
    BY <1>1, <1>2, <1>7, <2>1 DEF At, InFile
<1>13. r_phase \notin {"start", "number"}
  BY <1>1, Told
<1>14. SentAs(phase', File', size[File]', offset', msg)
  BY <1>7, <1>8
<1>15. phase \in {"name", "size", "data"} /\ phase' \in Waiting
  BY <1>1 DEF Waiting
<1>16. Way' # <<>> /\ Head(Way') = msg /\ Replies = 0 /\ Replies' # 1 /\ Starting' /\ Alternate'
  BY <1>1, <1>2, <1>4, <1>9, <1>10, <1>13, <1>14, <1>15, SendAlone
<1>18. Got = offset
  BY <1>1 DEF Got
<1>19. Got' = offset
  <2>1. Head(Way)' = msg
    BY <1>16
  <2> QED
    BY <1>1, <1>6, <1>16, <2>1 DEF Got
<1>17. InStep'
  <2>1. size[File] # offset
    BY <1>3, <1>5
  <2>4. r_phase # "failed" => Copying /\ files_number = Len(args)
    BY <1>1, <1>2, <1>13, <2>1 DEF InStep, Abreast, NextPiece
  <2>5. Copying => Copying'
    BY <1>1, <1>7, <1>18, <1>19 DEF Copying, SameFile
  <2>6. Copying' => r_phase' = "data"
    BY DEF Copying
  <2>7. r_phase' # "failed" => /\ r_phase' = "data" /\ files_number' = Len(args') /\ Copying'
    BY <1>1, <2>4, <2>5, <2>6
  <2>8. phase' = "data sent" /\ Replies' # 1 /\ Way' # <<>>
    BY <1>1, <1>16
  <2>9. r_phase' # "failed" => Abreast'
    BY <2>7, <2>8 DEF Abreast
  <2> QED
    BY <2>9 DEF InStep
<1> QED
  BY <1>9, <1>11, <1>12, <1>16, <1>17, <1>18, <1>19 DEF Exchange

\* Nothing is on its way, but perhaps the answer the sender waits for.
LEMMA NothingComes ==
    ASSUME phase' \notin {"start", "number"}, r_phase' \notin {"start", "number"}, up1',
           Way' = <<>>, NEW r \in {0, 1}, Replies' = r, phase' \notin Waiting => r = 0
    PROVE  Starting' /\ Alternate'
<1>1. r >= 0 /\ 0 + r <= 1 /\ Len(<<>>) = 0
  BY EmptySeq
<1>2. Replies' >= 0 /\ Len(Way') + Replies' <= 1 /\ Len(Way') = 0
  BY <1>1, Zenon
<1>3. phase' \notin Waiting => Replies' = 0
  BY Zenon
<1>4. Alternate'
  BY <1>2, <1>3, Zenon DEF Alternate
<1>5. Starting'
  BY Zenon DEF Starting
<1> QED
  BY <1>4, <1>5

LEMMA EndOfFileKeeps == ASSUME Exchange, EndOfFile PROVE Exchange'
<1>1. /\ phase = "data" /\ Read = 0
      /\ phase' = (IF arg < Len(args) THEN "name" ELSE "done") /\ arg' = arg + 1 /\ offset' = 0
      /\ UNCHANGED <<up1, up2, in1, in2, inside, out1, out2>>
      /\ UNCHANGED <<args, size, old>>
      /\ UNCHANGED <<r_phase, files_number, files, filename, count, copies>>
  BY DEF EndOfFile, NextFile, link, inputs, receiver
<1>2. TypeInv /\ Known /\ At /\ Starting /\ Alternate /\ InStep
  BY DEF Exchange
<1>3. size[File] = offset
  <2>1. MAX_LEN \in Nat /\ MAX_LEN >= 2
    BY TransferAssumption
  <2> QED
    BY <1>1, <1>2, <2>1, ReadIs
<1>4. arg \in 1 .. Len(args) /\ Len(args) \in Nat
  BY <1>1, <1>2 DEF At, InFile, TypeInv
<1>5. r_phase \notin {"start", "number"} /\ up1
  BY <1>1, Told
<1>6. Way = <<>> /\ Replies = 0
  BY <1>1, <1>2, <1>5, WayTypes DEF Alternate, Waiting
<1>7. Known' /\ Way' = Way /\ Replies' = Replies
  BY <1>1, <1>2, QuietEffect
<1>8. TypeInv'
  <2>1. arg' \in Nat /\ offset' \in Nat
    BY <1>1, <1>4
  <2>2. /\ UNCHANGED <<up1, up2, in1, in2, inside, out1, out2, args, size>>
        /\ UNCHANGED <<files_number, files, count, copies>>
    BY <1>1
  <2> QED
    BY <1>2, <2>1, <2>2, Zenon DEF TypeInv
<1>9. At'
  BY <1>1, <1>4 DEF At, InFile
<1>10. Starting' /\ Alternate'
  <2>1. phase' \notin {"start", "number"} /\ r_phase' \notin {"start", "number"} /\ up1'
    BY <1>1, <1>5
  <2>2. Way' = <<>> /\ Replies' = 0
    BY <1>6, <1>7, Zenon
  <2> QED
    BY <2>1, <2>2, NothingComes
<1>11. r_phase # "failed" => /\ files_number = Len(args) /\ files = arg
                             /\ r_phase = IF arg < Len(args) THEN "name" ELSE "done"
  BY <1>1, <1>2, <1>3, <1>5 DEF InStep, Abreast, NextPiece
<1>12. r_phase' # "failed" => Abreast'
  BY <1>1, <1>4, <1>11 DEF Abreast
<1>13. InStep'
  BY <1>12 DEF InStep
<1> QED
  BY <1>7, <1>8, <1>9, <1>10, <1>13 DEF Exchange

LEMMA HandleResponseKeeps == ASSUME Exchange, HandleResponse PROVE Exchange' /\ Got' = Got
<1>1. /\ out1 # <<>> /\ out1' = Tail(out1)
      /\ \/ phase = "name sent" /\ phase' = "size"
         \/ phase = "size sent" /\ phase' = "data"
         \/ phase = "data sent" /\ phase' = "data"
      /\ UNCHANGED <<up1, up2, in1, in2, inside, out2>>
      /\ UNCHANGED <<args, size, old, arg, offset>>
      /\ UNCHANGED <<r_phase, files_number, files, filename, count, copies>>
  BY DEF HandleResponse, inputs, receiver
<1>2. TypeInv /\ Known /\ At /\ Starting /\ Alternate /\ InStep
  BY DEF Exchange
<1>3. /\ out1' \in Seq({"hello", "ACK"}) /\ Known'
      /\ Way' = Way /\ Replies >= 1 /\ Replies' = Replies - 1
  BY <1>1, <1>2, ResponseEffect
<1>4. Replies \in Int /\ Way \in Seq(Message) /\ Len(Way) \in Nat /\ (Len(Way) = 0 <=> Way = <<>>)
  BY <1>2, WayTypes
<1>5. r_phase \notin {"start", "number"}
  <2>1. Replies # 0
    BY <1>3, <1>4
  <2> QED
    BY <1>2, <2>1 DEF Starting
<1>6. up1 /\ Replies >= 0 /\ Len(Way) + Replies <= 1
  BY <1>2, <1>5 DEF Alternate
<1>7. Replies = 1 /\ Way = <<>> /\ Replies - 1 = 0
  BY <1>3, <1>4, <1>6
<1>8. Starting' /\ Alternate'
  <2>1. phase' \notin {"start", "number"} /\ r_phase' \notin {"start", "number"} /\ up1'
    BY <1>1, <1>5, <1>6
  <2>2. Way' = <<>> /\ Replies' = 0
    BY <1>3, <1>7, Zenon
  <2> QED
    BY <2>1, <2>2, NothingComes
<1>9. TypeInv'
  BY <1>1, <1>2, <1>3 DEF TypeInv
<1>10. File' = File /\ size[File]' = size[File]
  BY <1>1, FileSame
<1>11. At'
  <2>1. arg \in 1 .. Len(args) /\ (phase \in {"name sent", "size sent"} => offset = 0)
        /\ (phase = "data sent" => IF size[File] < 0 THEN offset = 0 ELSE offset <= size[File])
    BY <1>1, <1>2 DEF At, InFile
  <2>2. size[File] \in -1 .. MaxSize /\ MaxSize \in Nat
    <3>1. phase \in InFile
      BY <1>1 DEF InFile
    <3> QED
      BY <1>2, <3>1, MessageTypes, TransferAssumption
  <2>3. phase' = "size" => offset = 0
    BY <1>1, <2>1
  <2>4. offset = 0 => (IF size[File] < 0 THEN offset = 0 ELSE offset <= size[File])
    BY <2>2
  <2>5. phase' = "data" => (IF size[File] < 0 THEN offset = 0 ELSE offset <= size[File])
    BY <1>1, <2>1, <2>4
  <2> QED
    BY <1>1, <1>10, <2>1, <2>3, <2>5 DEF At, InFile
<1>13. Got = offset /\ Got' = offset
  BY <1>1, <1>7 DEF Got
<1>12. InStep'
  <2>1. r_phase # "failed" => Abreast
    BY <1>2, <1>5 DEF InStep
  <2>3. SameFile => SameFile'
    BY <1>1, <1>10 DEF SameFile
  <2>4. NextPiece => NextPiece'
    <3>1. Copying => Copying'
      BY <1>1, <1>10, <1>13, <2>3 DEF Copying
    <3> QED
      BY <1>1, <1>10, <3>1 DEF NextPiece
  <2>5. r_phase # "failed" =>
           /\ r_phase \in {"name", "size", "data", "done"} /\ files_number = Len(args)
           /\ phase' = "size" => SameFile /\ r_phase = "size"
           /\ phase' = "data" => NextPiece
    BY <1>1, <1>7, <2>1 DEF Abreast
  <2>6. r_phase' # "failed" =>
           /\ r_phase' \in {"name", "size", "data", "done"} /\ files_number' = Len(args')
           /\ phase' = "size" => SameFile' /\ r_phase' = "size"
           /\ phase' = "data" => NextPiece'
    BY <1>1, <2>3, <2>4, <2>5
  <2>7. phase' \in {"size", "data"}
    BY <1>1
  <2>8. r_phase' # "failed" => Abreast'
    BY <2>6, <2>7 DEF Abreast
  <2> QED
    BY <2>8 DEF InStep
<1> QED
  BY <1>3, <1>8, <1>9, <1>11, <1>12, <1>13 DEF Exchange

LEMMA StartReceiverKeeps == ASSUME Exchange, StartReceiver PROVE Exchange'
<1>1. /\ r_phase = "start" /\ r_phase' = "number" /\ in2' = Append(in2, "hello")
      /\ UNCHANGED <<up1, up2, in1, inside, out1, out2>>
      /\ UNCHANGED <<args, size, old, phase, arg, offset>>
      /\ UNCHANGED <<files_number, files, filename, count, copies>>
  BY DEF StartReceiver, Link!Send2, inputs, sender
<1>2. TypeInv /\ Known /\ At /\ Starting
  BY DEF Exchange
<1>3. ~up2 /\ in2 = <<>> /\ phase = "start" /\ in1 = <<>> /\ ~up1 /\ Replies = 0
      /\ inside = <<>> /\ out2 = <<>>
  BY <1>1, <1>2 DEF Known
<1>4. Len(in2) = 0 /\ Len(out1) = 0 /\ out1 = <<>>
  <2>1. Len(in2) = 0 /\ Len(out1) \in Nat
    BY <1>2, <1>3, EmptySeq DEF TypeInv
  <2>2. Replies = Len(in2) + Len(out1)
    BY <1>1, <2>1 DEF Replies
  <2>3. Len(out1) = 0
    BY <1>3, <2>1, <2>2
  <2> QED
    BY <1>2, <2>1, <2>3, EmptySeq DEF TypeInv
<1>5. in2' \in Seq({"hello", "ACK"}) /\ Len(in2') = 1
  BY <1>1, <1>2, <1>4, AppendElements DEF TypeInv
<1>6. Replies' = 0
  <2>1. Replies' = Len(in2') + Len(out1') - 1
    BY <1>1, <1>3, Zenon DEF Replies
  <2> QED
    BY <1>1, <1>4, <1>5, <2>1
<1>7. Way' = <<>>
  BY <1>1, <1>3, WayIs
<1>8. TypeInv'
  BY <1>1, <1>2, <1>5 DEF TypeInv
<1>9. Known'
  BY <1>1, <1>3, <1>4, <1>5, <1>6 DEF Known
<1>10. At'
  BY <1>1, <1>2, <1>3 DEF At, InFile
<1>11. Starting'
  <2>1. files = 0
    BY <1>1, <1>2 DEF Starting
  <2>2. phase' = "start" /\ files' = 0
    BY <1>1, <1>3, <2>1
  <2> QED
    BY <1>6, <1>7, <2>2 DEF Starting
<1>12. Alternate' /\ InStep'
  BY <1>1 DEF Alternate, InStep
<1> QED
  BY <1>8, <1>9, <1>10, <1>11, <1>12 DEF Exchange

\* What a message tells, from the phase it is sent in.
LEMMA SentIs ==
    ASSUME NEW ph, NEW file, NEW sz, NEW off, NEW msg, SentAs(ph, file, sz, off, msg)
    PROVE  /\ ph = "name sent" => msg.kind = "name" /\ msg.name = file
           /\ ph = "size sent" => msg.kind = "size" /\ msg.len = sz
           /\ ph = "data sent" => msg.kind = "data" /\ IsPiece(file, sz, off, msg)
<1>1. ph = "name sent" => msg = Msg("name", 1, file, 0)
  BY DEF SentAs
<1>2. ph = "size sent" => msg = Msg("size", sz, NoName, 0)
  BY DEF SentAs
<1>6. Msg("name", 1, file, 0).kind = "name" /\ Msg("name", 1, file, 0).name = file
  BY DEF Msg
<1>7. Msg("size", sz, NoName, 0).kind = "size" /\ Msg("size", sz, NoName, 0).len = sz
  BY DEF Msg
<1>3. ph = "name sent" => msg.kind = "name" /\ msg.name = file
  BY <1>1, <1>6, Zenon
<1>4. ph = "size sent" => msg.kind = "size" /\ msg.len = sz
  BY <1>2, <1>7, Zenon
<1>5. "data sent" # "name sent" /\ "data sent" # "size sent"
  OBVIOUS
<1>8. ph = "data sent" => IsPiece(file, sz, off, msg)
  BY <1>5, Zenon DEF SentAs
<1> QED
  BY <1>3, <1>4, <1>8, Zenon DEF IsPiece

LEMMA AtSame == ASSUME At, UNCHANGED <<args, size, phase, arg, offset>> PROVE At'
<1>1. File' = File /\ size[File]' = size[File]
  BY FileSame
<1> QED
  BY <1>1 DEF At, InFile

LEMMA ReceiveNumberKeeps == ASSUME Exchange, ReceiveNumber PROVE Exchange'
<1>1. /\ r_phase = "number" /\ Receive /\ in2' = in2 /\ files_number' = Received.len
      /\ r_phase' = (IF Received.len > 0 THEN "name" ELSE "done")
      /\ UNCHANGED <<files, filename, count, copies>>
  BY DEF ReceiveNumber
<1>2. TypeInv /\ Known /\ At /\ Starting
  BY DEF Exchange
<1>3. UNCHANGED <<args, size, old, phase, arg, offset, in1, inside, out1, up2>>
  BY <1>1 DEF Receive, inputs, sender
<1>4. /\ up1 /\ up1' = up1 /\ out2' \in Seq(Link!Packet) /\ in2' \in Seq({"hello", "ACK"})
      /\ Known' /\ Way # <<>> /\ Received = Head(Way) /\ Way' = Tail(Way)
  BY <1>1, <1>2, ReceiveEffect
<1>13. Replies' = Replies
  BY <1>1, <1>2, ReceiveEffect
<1>5. /\ Replies = 0 /\ files = 0 /\ arg = 1 /\ Head(Way) = Number
      /\ phase \in {"name", "name sent", "done"}
      /\ \/ Len(Way) = 1
         \/ Len(Way) = 2 /\ phase = "name sent" /\ Sent(Way[2])
  BY <1>1, <1>2, <1>4 DEF Starting
<1>6. Received.len = Len(args) /\ Len(args) \in Nat
  <2>1. Received = Number
    BY <1>4, <1>5
  <2> QED
    BY <1>2, <2>1 DEF Number, Msg, TypeInv
<1>7. TypeInv'
  BY <1>1, <1>2, <1>3, <1>4, <1>6 DEF TypeInv
<1>8. At'
  BY <1>2, <1>3, AtSame
<1>9. /\ Way \in Seq(Message) /\ Len(Tail(Way)) = Len(Way) - 1
      /\ Len(Way) = 1 => Tail(Way) = <<>>
      /\ Len(Way) = 2 => Tail(Way) # <<>> /\ Head(Tail(Way)) = Way[2]
  BY <1>2, <1>4, WayTypes, TailShort
<1>10. phase' \notin {"start", "number"} /\ r_phase' \notin {"start", "number", "failed"} /\ up1'
  BY <1>1, <1>3, <1>4, <1>5
<1>11. Starting' /\ Alternate'
  <2>1. CASE Len(Way) = 1
    <3>1. Way' = <<>> /\ Replies' = 0
      BY <1>4, <1>5, <1>9, <1>13, <2>1, Zenon
    <3> QED
      BY <1>10, <3>1, NothingComes
  <2>2. CASE Len(Way) = 2 /\ phase = "name sent" /\ Sent(Way[2])
    <3>1. SentAs(phase, File, size[File], offset, Way[2])
      BY <2>2 DEF Sent
    <3>2. File' = File /\ size[File]' = size[File]
      BY <1>3, FileSame
    <3>3. SentAs(phase', File', size[File]', offset', Way[2])
      BY <1>3, <3>1, <3>2
    <3>4. Head(Way') = Way[2]
      BY <1>4, <1>9, <2>2
    <3>5. Sent(Head(Way))'
      BY <3>3, <3>4, Zenon DEF Sent
    <3>6. 0 >= 0 /\ Len(Tail(Way)) + 0 <= 1
      <4>1. 2 - 1 = 1 /\ 0 >= 0 /\ 1 + 0 <= 1
        OBVIOUS
      <4>2. Len(Tail(Way)) = 1
        BY <1>9, <2>2, <4>1, Zenon
      <4> QED
        BY <4>1, <4>2, Zenon
    <3>7. Replies' >= 0 /\ Len(Way') + Replies' <= 1
      BY <1>4, <1>5, <1>13, <3>6, Zenon
    <3>8. phase' \in Waiting
      BY <1>3, <2>2 DEF Waiting
    <3>9. Alternate'
      BY <1>10, <3>5, <3>7, <3>8, Zenon DEF Alternate
    <3>10. Starting'
      BY <1>10, Zenon DEF Starting
    <3> QED
      BY <3>9, <3>10
  <2> QED
    BY <1>5, <2>1, <2>2
<1>12. InStep'
  <2>1. phase \in {"name", "name sent"} => Len(args) > 0
    <3>1. phase \in {"name", "name sent"} => arg \in 1 .. Len(args)
      BY <1>2 DEF At, InFile
    <3>2. \A a : \A n \in Nat : a \in 1 .. n => n > 0
      OBVIOUS
    <3> QED
      BY <1>6, <3>1, <3>2, Zenon
  <2>2. phase = "done" => Len(args) = 0
    BY <1>2, <1>5, <1>6 DEF At
  <2>3. Replies' # 1
    <3>1. 0 # 1
      OBVIOUS
    <3> QED
      BY <1>5, <1>13, <3>1, Zenon
  <2>5. phase \in {"name", "name sent", "done"} /\ arg = 1 /\ files = 0
    BY <1>5
  <2>4. /\ phase' \in {"name", "name sent", "done"} /\ files_number' = Len(args')
        /\ phase' = "name" => r_phase' = "name" /\ files' = arg' - 1
        /\ phase' = "name sent" => r_phase' = "name" /\ files' = arg' - 1
        /\ phase' = "done" => r_phase' = "done" /\ files' = Len(args')
    <3>1. phase' = phase /\ arg' = 1 /\ files' = 0 /\ args' = args
      BY <1>1, <1>3, <2>5
    <3>2. files_number' = Len(args)
      BY <1>1, <1>6
    <3>3. r_phase' = IF Len(args) > 0 THEN "name" ELSE "done"
      BY <1>1, <1>6
    <3>4. ~(0 > 0) /\ 0 = 1 - 1
      OBVIOUS
    <3>5. phase \in {"name", "name sent"} => r_phase' = "name"
      BY <2>1, <3>3, Zenon
    <3>6. phase = "done" => r_phase' = "done"
      BY <2>2, <3>3, <3>4, Zenon
    <3>7. files' = arg' - 1 /\ (phase = "done" => files' = Len(args'))
      BY <2>2, <3>1, <3>4, Zenon
    <3> QED
      BY <2>5, <3>1, <3>2, <3>5, <3>6, <3>7, Zenon
  <2>6. Abreast'
    BY <2>3, <2>4 DEF Abreast
  <2> QED
    BY <2>6 DEF InStep
<1> QED
  BY <1>4, <1>7, <1>8, <1>11, <1>12 DEF Exchange

\* What reaches the receiver is what it waits for: this is PlacesAgree.
LEMMA Arrives ==
    ASSUME Exchange, r_phase \in {"name", "size", "data"}, Way # <<>>
    PROVE  /\ Len(Way) = 1 /\ Replies = 0 /\ Replies # 1 /\ up1
           /\ SentAs(phase, File, size[File], offset, Head(Way))
           /\ files_number = Len(args) /\ Len(args) \in Nat
           /\ arg \in 1 .. Len(args) /\ File \in Names /\ size[File] \in -1 .. MaxSize
           /\ r_phase = "name" => phase = "name sent" /\ files = arg - 1
           /\ r_phase = "size" => phase = "size sent" /\ SameFile /\ offset = 0
           /\ r_phase = "data" => phase = "data sent" /\ Copying
           /\ Head(Way).kind = r_phase
<1>1. TypeInv /\ At /\ Alternate /\ Abreast
  BY DEF Exchange, InStep
<1>2. Len(Way) \in Nat /\ Replies \in Int /\ Len(Way) # 0
  BY <1>1, WayTypes
<1>3. Sent(Head(Way)) /\ phase \in Waiting /\ Len(Way) + Replies <= 1 /\ Replies >= 0 /\ up1
  <2>1. r_phase \notin {"start", "number"}
    OBVIOUS
  <2> QED
    BY <1>1, <1>2, <2>1, Zenon DEF Alternate
<1>4. Len(Way) = 1 /\ Replies = 0 /\ Replies # 1
  <2>1. Len(Way) + Replies <= 1 /\ Replies >= 0
    BY <1>3
  <2> QED
    BY <1>2, <2>1, SMTT(30)
<1>5. SentAs(phase, File, size[File], offset, Head(Way))
  BY <1>3 DEF Sent
<1>6. phase = "size sent" => offset = 0
  BY <1>1 DEF At
<1>7. phase \in InFile /\ arg \in 1 .. Len(args)
  BY <1>1, <1>3 DEF At, InFile, Waiting
<1>8. File \in Names /\ size[File] \in -1 .. MaxSize
  BY <1>1, <1>7, MessageTypes
<1>9. /\ r_phase = "name" => phase = "name sent" /\ files = arg - 1
      /\ r_phase = "size" => phase = "size sent" /\ SameFile
      /\ r_phase = "data" => phase = "data sent" /\ Copying
      /\ files_number = Len(args)
  <2>1. Replies # 1
    BY <1>4
  <2>2. phase \in {"name sent", "size sent", "data sent"}
    BY <1>3, Zenon DEF Waiting
  <2>3. /\ phase = "name sent" => r_phase = "name" /\ files = arg - 1
        /\ phase = "size sent" => r_phase = "size" /\ SameFile
        /\ phase = "data sent" => r_phase = "data" /\ Copying
        /\ files_number = Len(args)
    BY <1>1, <2>1, Zenon DEF Abreast, Copying
  <2>4. "name" # "size" /\ "size" # "data" /\ "name" # "data"
    OBVIOUS
  <2> QED
    BY <2>2, <2>3, <2>4, Zenon
<1>10. Head(Way).kind = r_phase
  <2>1. /\ phase = "name sent" => Head(Way).kind = "name"
        /\ phase = "size sent" => Head(Way).kind = "size"
        /\ phase = "data sent" => Head(Way).kind = "data"
    BY <1>5, SentIs, Zenon
  <2>2. r_phase = "name" \/ r_phase = "size" \/ r_phase = "data"
    OBVIOUS
  <2>3. r_phase = "name" => Head(Way).kind = r_phase
    BY <1>9, <2>1
  <2>4. r_phase = "size" => Head(Way).kind = r_phase
    BY <1>9, <2>1
  <2>5. r_phase = "data" => Head(Way).kind = r_phase
    BY <1>9, <2>1
  <2> QED
    BY <2>2, <2>3, <2>4, <2>5
<1>11. Len(args) \in Nat
  BY <1>1 DEF TypeInv
<1> QED
  BY <1>3, <1>4, <1>5, <1>6, <1>7, <1>8, <1>9, <1>10, <1>11, Zenon

\* What every step of the receiver does after that.
LEMMA Taken ==
    ASSUME Exchange, r_phase \in {"name", "size", "data"}, Receive, in2' = in2 \/ Answer,
           r_phase' \notin {"start", "number"}
    PROVE  /\ Way # <<>> /\ Received = Head(Way) /\ Way' = <<>>
           /\ Answer => Replies' = 1
           /\ UNCHANGED <<args, size, old, phase, arg, offset, in1, inside, out1, up1, up2>>
           /\ out2' \in Seq(Link!Packet) /\ in2' \in Seq({"hello", "ACK"})
           /\ Known' /\ At' /\ Starting' /\ Alternate'
           /\ File' = File /\ size[File]' = size[File]
<1>1. TypeInv /\ Known /\ At
  BY DEF Exchange
<1>2. /\ up1 /\ up1' = up1 /\ out2' \in Seq(Link!Packet) /\ in2' \in Seq({"hello", "ACK"})
      /\ Known' /\ Way # <<>> /\ Received = Head(Way) /\ Way' = Tail(Way)
      /\ in2' = in2 => Replies' = Replies
      /\ Answer => Replies' = Replies + 1
  BY <1>1, ReceiveEffect
<1>3. UNCHANGED <<args, size, old, phase, arg, offset, in1, inside, out1, up1, up2>>
  BY <1>2 DEF Receive, inputs, sender
<1>4. Len(Way) = 1 /\ Replies = 0 /\ phase \in Waiting
  BY <1>2, Arrives DEF Waiting
<1>5. Way' = <<>>
  BY <1>1, <1>2, <1>4, WayTypes, TailShort
<1>6. 0 + 1 = 1
  OBVIOUS
<1>7. (in2' = in2 => Replies' = 0) /\ (Answer => Replies' = 1)
  BY <1>2, <1>4, <1>6, Zenon
<1>8. phase' \in Waiting /\ phase' \notin {"start", "number"}
  BY <1>3, <1>4 DEF Waiting
<1>9. Starting' /\ Alternate'
  <2>1. CASE in2' = in2
    <3>1. Replies' = 0
      BY <1>7, <2>1
    <3> QED
      BY <1>2, <1>5, <1>8, <3>1, NothingComes
  <2>2. CASE Answer
    <3>1. Replies' = 1
      BY <1>7, <2>2
    <3> QED
      BY <1>2, <1>5, <1>8, <3>1, NothingComes
  <2> QED
    BY <2>1, <2>2
<1>10. At'
  BY <1>1, <1>3, AtSame
<1>11. File' = File /\ size[File]' = size[File]
  BY <1>3, FileSame
<1> QED
  BY <1>2, <1>3, <1>5, <1>7, <1>9, <1>10, <1>11

LEMMA ReceiveNameKeeps == ASSUME Exchange, ReceiveName PROVE Exchange'
<1>1. /\ r_phase = "name" /\ Receive /\ Answer /\ filename' = Received.name
      /\ r_phase' = "size" /\ UNCHANGED <<files_number, files, count, copies>>
  BY DEF ReceiveName
<1>2. TypeInv
  BY DEF Exchange
<1>3. /\ Way # <<>> /\ Received = Head(Way) /\ Way' = <<>>
      /\ UNCHANGED <<args, size, old, phase, arg, offset, in1, inside, out1, up1, up2>>
      /\ out2' \in Seq(Link!Packet) /\ in2' \in Seq({"hello", "ACK"})
      /\ Known' /\ At' /\ Starting' /\ Alternate' /\ File' = File
  BY <1>1, Taken
<1>12. Replies' = 1
  BY <1>1, Taken
<1>4. /\ phase = "name sent" /\ files = arg - 1 /\ files_number = Len(args)
      /\ SentAs(phase, File, size[File], offset, Head(Way))
  BY <1>1, <1>3, Arrives
<1>5. Received.name = File
  BY <1>3, <1>4, SentIs, Zenon
<1>6. TypeInv'
  BY <1>1, <1>2, <1>3 DEF TypeInv
<1>7. SameFile'
  BY <1>1, <1>3, <1>4, <1>5 DEF SameFile
<1>8. phase' = "name sent" /\ r_phase' = "size" /\ files_number' = Len(args')
  BY <1>1, <1>3, <1>4
<1>9. phase' = "name sent" => (IF Replies = 1 THEN SameFile /\ r_phase = "size"
                                              ELSE files = arg - 1 /\ r_phase = "name")'
  BY <1>7, <1>8, <1>12, Zenon
<1>10. Abreast'
  BY <1>8, <1>9 DEF Abreast
<1>11. InStep'
  BY <1>10 DEF InStep
<1> QED
  BY <1>3, <1>6, <1>11 DEF Exchange

LEMMA WriteFailsKeeps == ASSUME Exchange, WriteFails PROVE Exchange'
<1>1. /\ r_phase = "data" /\ Receive /\ in2' = in2 /\ r_phase' = "failed"
      /\ UNCHANGED <<files_number, files, filename, count, copies>>
  BY DEF WriteFails
<1>2. TypeInv
  BY DEF Exchange
<1>3. /\ UNCHANGED <<args, size, old, phase, arg, offset, in1, inside, out1, up1, up2>>
      /\ out2' \in Seq(Link!Packet) /\ in2' \in Seq({"hello", "ACK"})
      /\ Known' /\ At' /\ Starting' /\ Alternate'
  BY <1>1, Taken
<1>4. TypeInv'
  BY <1>1, <1>2, <1>3 DEF TypeInv
<1>5. InStep'
  BY <1>1 DEF InStep
<1> QED
  BY <1>3, <1>4, <1>5 DEF Exchange

\* After the size, and after a piece: the next piece, or the next file.
LEMMA NextPieceIs ==
    ASSUME NEW k \in Int, AfterPiece(k), Got' = offset, arg \in Int,
           UNCHANGED <<args, size, arg, offset, filename, files_number>>,
           SameFile, files_number = Len(args),
           size[File] = offset => k = 0,
           size[File] # offset => k > 0 /\ Left(k, size[File] - offset)
    PROVE  /\ NextPiece' /\ r_phase' \in {"name", "size", "data", "done"}
           /\ files_number' = Len(args')
           /\ count' = k /\ (files' = files \/ files' = files + 1)
<1>1. File' = File /\ size[File]' = size[File]
  BY FileSame
<1>2. filename = File /\ files = arg - 1
  BY DEF SameFile
<1>3. CASE size[File] = offset
  <2>1. k = 0 /\ ~(0 > 0) /\ 0 <= 0
    BY <1>3
  <2>2. files' = files + 1 /\ count' = 0
    BY <2>1, Zenon DEF AfterPiece
  <2>3. files + 1 = arg
    BY <1>2
  <2>4. r_phase' = IF arg < Len(args) THEN "name" ELSE "done"
    BY <2>1, <2>3 DEF AfterPiece
  <2>5. NextPiece'
    <3>1. size[File]' = offset' /\ files' = arg'
      BY <1>1, <1>3, <2>2, <2>3
    <3>2. r_phase' = IF arg' < Len(args') THEN "name" ELSE "done"
      BY <2>4
    <3> QED
      BY <3>1, <3>2, Zenon DEF NextPiece
  <2> QED
    BY <2>1, <2>2, <2>4, <2>5
<1>4. CASE size[File] # offset
  <2>1. k > 0 /\ Left(k, size[File] - offset)
    BY <1>4
  <2>2. files' = files /\ count' = k /\ r_phase' = "data"
    BY <2>1 DEF AfterPiece
  <2>3. SameFile'
    BY <1>1, <1>2, <2>2 DEF SameFile
  <2>4. Left(count, size[File] - Got)'
    BY <1>1, <2>1, <2>2, Zenon DEF Left
  <2>5. Copying'
    BY <2>2, <2>3, <2>4, Zenon DEF Copying
  <2>6. size[File]' # offset'
    BY <1>1, <1>4
  <2>7. NextPiece'
    BY <2>5, <2>6, Zenon DEF NextPiece
  <2> QED
    BY <2>2, <2>7
<1> QED
  BY <1>3, <1>4

LEMMA ReceiveSizeKeeps == ASSUME Exchange, ReceiveSize PROVE Exchange'
<1>1. /\ r_phase = "size" /\ Receive /\ Answer
      /\ IF old[filename] = "readonly"
         THEN r_phase' = "failed" /\ UNCHANGED <<files, count>>
         ELSE AfterPiece(Pieces(Received.len))
      /\ UNCHANGED <<files_number, filename, copies>>
  BY DEF ReceiveSize
<1>2. TypeInv /\ Len(args) \in Nat
  BY DEF Exchange, TypeInv
<1>3. r_phase' \notin {"start", "number"}
  BY <1>1 DEF AfterPiece
<1>4. /\ Way # <<>> /\ Received = Head(Way) /\ Way' = <<>>
      /\ UNCHANGED <<args, size, old, phase, arg, offset, in1, inside, out1, up1, up2>>
      /\ out2' \in Seq(Link!Packet) /\ in2' \in Seq({"hello", "ACK"})
      /\ Known' /\ At' /\ Starting' /\ Alternate' /\ File' = File
  BY <1>1, <1>3, Taken
<1>5. Replies' = 1
  BY <1>1, <1>3, Taken
<1>6. /\ phase = "size sent" /\ SameFile /\ offset = 0 /\ files_number = Len(args)
      /\ SentAs(phase, File, size[File], offset, Head(Way))
      /\ arg \in 1 .. Len(args) /\ size[File] \in -1 .. MaxSize
  BY <1>1, <1>4, Arrives
<1>7. Received.len = size[File]
  <2>1. SentAs(phase, File, size[File], offset, Head(Way)) /\ phase = "size sent"
    BY <1>6
  <2>2. phase = "size sent" =>
           Head(Way).kind = "size" /\ Head(Way).len = size[File]
    BY <2>1, SentIs
  <2> QED
    BY <1>4, <2>1, <2>2, Zenon
<1>8. phase' = "size sent"
  BY <1>4, <1>6
<1>9. CASE old[filename] = "readonly"
  <2>1. r_phase' = "failed" /\ UNCHANGED <<files, count>>
    BY <1>1, <1>9
  <2>2. TypeInv'
    BY <1>1, <1>2, <1>4, <2>1 DEF TypeInv
  <2>3. InStep'
    BY <2>1 DEF InStep
  <2> QED
    BY <1>4, <2>2, <2>3 DEF Exchange
<1>10. CASE old[filename] # "readonly"
  <2> DEFINE n == size[File]
             k == Pieces(n)
  <2>1. AfterPiece(k)
    BY <1>1, <1>7, <1>10
  <2>2. n \in Int /\ n >= -1 /\ n - offset = n
    <3>1. n \in -1 .. MaxSize /\ offset = 0 /\ MaxSize \in Nat
      BY <1>6, TransferAssumption
    <3> HIDE DEF n
    <3> QED
      BY <3>1
  <2> HIDE DEF n
  <2>3. k \in Int /\ (n = 0 => k = 0) /\ (n # 0 => k > 0 /\ Left(k, n))
    BY <2>2, PiecesLeft
  <2> HIDE DEF k
  <2>4. (n = offset => k = 0) /\ (n # offset => k > 0 /\ Left(k, n - offset))
    BY <1>6, <2>2, <2>3, Zenon
  <2>5. Got' = offset
    <3>1. phase' # "data sent" /\ offset' = offset
      BY <1>4, <1>8
    <3> QED
      BY <3>1, Zenon DEF Got
  <2>12. arg \in Int
    BY <1>2 DEF TypeInv
  <2>6. UNCHANGED <<args, size, arg, offset, filename, files_number>>
    BY <1>1, <1>4
  <2>7. /\ NextPiece' /\ r_phase' \in {"name", "size", "data", "done"}
        /\ files_number' = Len(args') /\ count' = k /\ (files' = files \/ files' = files + 1)
    BY <1>6, <2>1, <2>3, <2>4, <2>5, <2>6, <2>12, NextPieceIs DEF n
  <2>8. phase' = "size sent" =>
           (IF Replies = 1 THEN NextPiece ELSE SameFile /\ r_phase = "size")'
    BY <1>5, <2>7, Zenon
  <2>9. Abreast'
    BY <1>8, <2>7, <2>8 DEF Abreast
  <2>10. InStep'
    BY <2>9 DEF InStep
  <2>11. TypeInv'
    <3>1. files' \in Nat /\ count' \in Int
      <4>1. files \in Nat /\ files + 1 \in Nat
        BY <1>2 DEF TypeInv
      <4> QED
        BY <2>3, <2>7, <4>1, Zenon
    <3> QED
      BY <1>1, <1>2, <1>4, <3>1 DEF TypeInv
  <2> QED
    BY <1>4, <2>10, <2>11 DEF Exchange
<1> QED
  BY <1>9, <1>10

\* A piece of a file that is there: s is the size, off what is read of it.
PieceRead(k, s, off, msg) ==
    /\ s \in Nat /\ s > 0 /\ msg.len \in Nat \ {0} /\ off = msg.from + msg.len /\ off <= s
    /\ k - 1 \in Int
    /\ s = off => k - 1 = 0
    /\ s # off => k - 1 > 0 /\ Left(k - 1, s - off)
LEMMA PieceArithmetic ==
    ASSUME NEW file, NEW s \in Int, NEW off \in Nat, NEW msg, IsPiece(file, s, off, msg),
           msg.len >= 0, NEW k \in Int, Left(k, s - msg.from)
    PROVE  PieceRead(k, s, off, msg)
<1>1. PICK from, len : from = msg.from /\ len = msg.len
  OBVIOUS
<1>2. /\ from \in Nat /\ len >= 0 /\ Left(k, s - from)
      /\ \/ s < 0 /\ len = -1 /\ from = 0 /\ off = 0
         \/ s - from > MAX_LEN /\ len = MAX_LEN /\ off = from + MAX_LEN
         \/ s - from \in 1 .. MAX_LEN /\ len = s - from /\ off = s
  BY <1>1, Zenon DEF IsPiece
<1>3. MAX_LEN \in Nat /\ MAX_LEN >= 2
  BY TransferAssumption
<1> DEFINE Goal == /\ s \in Nat /\ s > 0 /\ len \in Nat \ {0} /\ off = from + len /\ off <= s
                   /\ k - 1 \in Int
                   /\ s = off => k - 1 = 0
                   /\ s # off => k - 1 > 0 /\ Left(k - 1, s - off)
<1>4. ASSUME s < 0, len = -1 PROVE Goal
  BY <1>2, <1>4
<1>5. ASSUME s - from > MAX_LEN, len = MAX_LEN, off = from + MAX_LEN PROVE Goal
  <2>1. s - from \in Nat
    BY <1>2, <1>3, <1>5
  <2>2. k - 1 > 0 /\ Left(k - 1, (s - from) - MAX_LEN)
    BY <1>2, <1>5, <2>1, LeftNext
  <2>3. (s - from) - MAX_LEN = s - off
    BY <1>2, <1>3, <1>5
  <2>4. k - 1 > 0 /\ Left(k - 1, s - off)
    BY <2>2, <2>3
  <2> QED
    BY <1>2, <1>3, <1>5, <2>4
<1>6. ASSUME s - from \in 1 .. MAX_LEN, len = s - from, off = s PROVE Goal
  <2>1. s - from \in Nat /\ s - from <= MAX_LEN
    BY <1>2, <1>3, <1>6
  <2>2. k = 1
    BY <1>2, <2>1, LeftNext
  <2> QED
    BY <1>2, <1>3, <1>6, <2>2
<1>7. Goal
  BY <1>2, <1>4, <1>5, <1>6, Zenon
<1> QED
  BY <1>1, <1>7, Zenon DEF PieceRead

\* What ReceiveData knows of the piece, for the exchange and for the copies.
LEMMA PieceIs ==
    ASSUME Exchange, ReceiveData
    PROVE  /\ phase = "data sent" /\ Replies # 1 /\ Copying /\ filename = File /\ File \in Names
           /\ Received = Head(Way) /\ Received.name = File /\ Got = Received.from
           /\ size[File] \in Nat /\ size[File] > 0 /\ Received.from \in Nat /\ offset \in Nat
           /\ Received.len \in Nat \ {0} /\ offset = Received.from + Received.len
           /\ offset <= size[File]
           /\ count - 1 \in Int
           /\ size[File] = offset => count - 1 = 0
           /\ size[File] # offset => count - 1 > 0 /\ Left(count - 1, size[File] - offset)
<1>1. r_phase = "data" /\ Receive /\ Answer /\ Received.len >= 0
  BY DEF ReceiveData
<1>2. TypeInv
  BY DEF Exchange
<1>3. r_phase' \notin {"start", "number"}
  BY DEF ReceiveData, AfterPiece
<1>4. Way # <<>> /\ Received = Head(Way)
  BY <1>1, <1>3, Taken
<1>5. /\ phase = "data sent" /\ Copying /\ Replies # 1
      /\ SentAs(phase, File, size[File], offset, Head(Way))
      /\ File \in Names
  BY <1>1, <1>4, Arrives
<1>6. IsPiece(File, size[File], offset, Received)
  BY <1>4, <1>5, SentIs, Zenon
<1>7. size[File] \in Int
  <2>1. size[File] \in -1 .. MaxSize /\ MaxSize \in Nat
    BY <1>1, <1>4, Arrives, TransferAssumption
  <2> QED
    BY <2>1
<1>8. count \in Int /\ offset \in Nat
  BY <1>2 DEF TypeInv
<1>9. Got = Received.from
  BY <1>4, <1>5, Zenon DEF Got
<1>10. Left(count, size[File] - Received.from) /\ filename = File
  BY <1>5, <1>9, Zenon DEF Copying, SameFile
<1>11. Received.len >= 0
  BY <1>1
<1>12. PieceRead(count, size[File], offset, Received)
  BY <1>6, <1>7, <1>8, <1>10, <1>11, PieceArithmetic, Zenon
<1>13. Received.name = File /\ Received.from \in Nat
  BY <1>6 DEF IsPiece
<1> QED
  BY <1>4, <1>5, <1>8, <1>9, <1>10, <1>12, <1>13, Zenon DEF PieceRead

LEMMA ReceiveDataKeeps == ASSUME Exchange, ReceiveData PROVE Exchange' /\ Got' = offset
<1> DEFINE piece == [k \in 1 .. Received.len |-> <<Received.name, Received.from + k>>]
<1>1. /\ r_phase = "data" /\ Receive /\ Answer /\ AfterPiece(count - 1)
      /\ copies' = [copies EXCEPT ![filename] = @ \o piece]
      /\ UNCHANGED <<files_number, filename>>
  BY DEF ReceiveData
<1> HIDE DEF piece
<1>2. TypeInv /\ Len(args) \in Nat
  BY DEF Exchange, TypeInv
<1>3. r_phase' \notin {"start", "number"}
  BY <1>1 DEF AfterPiece
<1>4. /\ Way' = <<>>
      /\ UNCHANGED <<args, size, old, phase, arg, offset, in1, inside, out1, up1, up2>>
      /\ out2' \in Seq(Link!Packet) /\ in2' \in Seq({"hello", "ACK"})
      /\ Known' /\ At' /\ Starting' /\ Alternate' /\ File' = File
  BY <1>1, <1>3, Taken
<1>5. Replies' = 1
  BY <1>1, <1>3, Taken
<1>6. /\ phase = "data sent" /\ Copying /\ count - 1 \in Int
      /\ size[File] = offset => count - 1 = 0
      /\ size[File] # offset => count - 1 > 0 /\ Left(count - 1, size[File] - offset)
  BY PieceIs
<1>7. files_number = Len(args) /\ arg \in 1 .. Len(args) /\ SameFile
  <2>1. Way # <<>>
    BY <1>1, <1>3, Taken
  <2> QED
    BY <1>1, <1>6, <2>1, Arrives DEF Copying
<1>8. phase' = "data sent"
  BY <1>4, <1>6
<1>9. Got' = offset
  <2>1. offset' = offset
    BY <1>4
  <2> QED
    BY <1>5, <2>1, Zenon DEF Got
<1>10. UNCHANGED <<args, size, arg, offset, filename, files_number>>
  BY <1>1, <1>4
<1>16. arg \in Int
  BY <1>2 DEF TypeInv
<1>11. /\ NextPiece' /\ r_phase' \in {"name", "size", "data", "done"}
       /\ files_number' = Len(args') /\ count' = count - 1
       /\ (files' = files \/ files' = files + 1)
  <2> DEFINE k == count - 1
  <2>1. /\ k \in Int /\ AfterPiece(k) /\ (size[File] = offset => k = 0)
        /\ size[File] # offset => k > 0 /\ Left(k, size[File] - offset)
    BY <1>1, <1>6
  <2> HIDE DEF k
  <2>2. /\ NextPiece' /\ r_phase' \in {"name", "size", "data", "done"}
        /\ files_number' = Len(args') /\ count' = k
        /\ (files' = files \/ files' = files + 1)
    BY <1>7, <1>9, <1>10, <1>16, <2>1, NextPieceIs
  <2> QED
    BY <2>2 DEF k
<1>12. phase' = "data sent" =>
          (IF Replies = 1 THEN NextPiece ELSE Way # <<>> /\ Copying)'
  BY <1>5, <1>11, Zenon
<1>13. Abreast'
  BY <1>8, <1>11, <1>12 DEF Abreast
<1>14. InStep'
  BY <1>13 DEF InStep
<1>15. TypeInv'
  <2>1. files' \in Nat /\ count' \in Int
    <3>1. files \in Nat /\ files + 1 \in Nat
      BY <1>2 DEF TypeInv
    <3> QED
      BY <1>6, <1>11, <3>1, Zenon
  <2>2. copies' = [n \in Names |-> copies'[n]]
    BY <1>1, <1>2 DEF TypeInv
  <2> QED
    BY <1>1, <1>2, <1>4, <2>1, <2>2 DEF TypeInv
<1> QED
  BY <1>4, <1>9, <1>14, <1>15 DEF Exchange

\* A step of the link.
LEMMA LinkKeeps ==
    ASSUME Exchange, Link!LinkStep \/ Link!Break, Others
    PROVE  Exchange' /\ Got' = Got
<1>1. UNCHANGED <<args, size, old, phase, arg, offset, r_phase, files_number, files,
                  filename, count, copies>>
  BY DEF Others, inputs, sender, receiver
<1>2. TypeInv /\ Known /\ At /\ Starting /\ Alternate /\ InStep
  BY DEF Exchange
<1>3. TypeInv' /\ Known' /\ Moved /\ (up1 => up1')
  BY <1>2, LinkEffect
<1>4. Replies' = Replies
  BY <1>2, LinkEffect
<1>5. At'
  <2>1. UNCHANGED <<args, size, phase, arg, offset>>
    BY <1>1
  <2> QED
    BY <1>2, <2>1, AtSame
<1>6. File' = File /\ size[File]' = size[File] /\ Number' = Number
  <2>1. UNCHANGED <<args, size, arg>>
    BY <1>1
  <2> QED
    BY <2>1, FileSame DEF Number
<1>7. ASSUME NEW m, NEW m2, m2 = m, Sent(m) PROVE SentAs(phase', File', size[File]', offset', m2)
  <2>1. phase' = phase /\ offset' = offset
    BY <1>1
  <2> QED
    BY <1>6, <1>7, <2>1, Zenon DEF Sent
<1>8. Len(Way) \in Nat /\ Replies \in Int
  BY <1>2, WayTypes
<1>9. Starting'
  <2> SUFFICES ASSUME r_phase' \in {"start", "number"} PROVE Starting'
    BY DEF Starting
  <2>1. r_phase \in {"start", "number"}
    BY <1>1
  <2>2. /\ Replies = 0 /\ files = 0
        /\ phase \in {"start", "number", "name", "name sent", "done"}
        /\ phase \in {"start", "number"} => Way = <<>>
        /\ phase \notin {"start", "number"} =>
              /\ arg = 1 /\ Way # <<>> /\ Head(Way) = Number /\ r_phase = "number"
              /\ \/ Len(Way) = 1
                 \/ Len(Way) = 2 /\ phase = "name sent" /\ Sent(Way[2])
    BY <1>2, <2>1 DEF Starting
  <2>3. Replies' = 0
    BY <1>4, <2>2, Zenon
  <2>4. /\ files' = 0 /\ phase' \in {"start", "number", "name", "name sent", "done"}
        /\ phase' \notin {"start", "number"} => arg' = 1 /\ r_phase' = "number"
    BY <1>1, <2>2
  <2>5. phase' = phase
    BY <1>1
  <2>6. CASE Way' = Way
    <3>1. /\ phase' \in {"start", "number"} => Way' = <<>>
          /\ phase' \notin {"start", "number"} => Way' # <<>> /\ Head(Way') = Number'
      BY <1>6, <2>2, <2>5, <2>6, Zenon
    <3>2. phase' \notin {"start", "number"} =>
             \/ Len(Way') = 1
             \/ Len(Way') = 2 /\ phase' = "name sent" /\ Sent(Way[2])'
      <4>1. Way'[2] = Way[2]
        BY <2>6, Zenon
      <4>2. Sent(Way[2]) => Sent(Way[2])'
        BY <1>7, <4>1, Zenon DEF Sent
      <4> QED
        BY <2>2, <2>5, <2>6, <4>2, Zenon
    <3> QED
      BY <2>3, <2>4, <3>1, <3>2, Zenon DEF Starting
  <2>7. CASE Len(Way) >= 2 /\ Way' # <<>> /\ Len(Way') = Len(Way) - 1 /\ Head(Way') = Head(Way)
    <3>1. phase \notin {"start", "number"} /\ Len(Way) = 2
      <4>1. Len(Way) # 1 /\ Len(Way) # 0
        BY <1>8, <2>7
      <4>2. Way # <<>>
        BY <4>1, EmptySeq
      <4> QED
        BY <2>2, <4>1, <4>2, Zenon
    <3>2. Len(Way') = 1
      <4>1. 2 - 1 = 1
        OBVIOUS
      <4> QED
        BY <2>7, <3>1, <4>1, Zenon
    <3>3. Way' # <<>> /\ Head(Way') = Number'
      BY <1>6, <2>2, <2>7, <3>1, Zenon
    <3> QED
      BY <2>3, <2>4, <2>5, <3>1, <3>2, <3>3, Zenon DEF Starting
  <2> QED
    BY <1>3, <2>6, <2>7 DEF Moved
<1>10. r_phase \notin {"start", "number"} => Way' = Way
  <2> SUFFICES ASSUME r_phase \notin {"start", "number"}, Len(Way) >= 2 PROVE FALSE
    BY <1>3, Zenon DEF Moved
  <2>1. Len(Way) + Replies <= 1 /\ Replies >= 0
    BY <1>2, Zenon DEF Alternate
  <2> QED
    BY <1>8, <2>1
<1>11. Alternate'
  <2> SUFFICES ASSUME r_phase' \notin {"start", "number"} PROVE Alternate'
    BY Zenon DEF Alternate
  <2>1. r_phase' = r_phase /\ phase' = phase
    BY <1>1
  <2>2. Way' = Way
    BY <1>10, <2>1, Zenon
  <2>3. /\ up1 /\ phase \notin {"start", "number"} /\ Replies >= 0 /\ Len(Way) + Replies <= 1
        /\ phase \notin Waiting => Len(Way) = 0 /\ Replies = 0
        /\ Way # <<>> => Sent(Head(Way))
    BY <1>2, <2>1, Zenon DEF Alternate
  <2>4. Way # <<>> => Sent(Head(Way))'
    <3>1. Head(Way') = Head(Way)
      BY <2>2, Zenon
    <3> QED
      BY <1>7, <2>3, <3>1, Zenon DEF Sent
  <2>5. up1' /\ phase' \notin {"start", "number"} /\ Replies' >= 0 /\ Len(Way') + Replies' <= 1
    BY <1>3, <1>4, <2>1, <2>2, <2>3, Zenon
  <2>6. phase' \notin Waiting => Len(Way') = 0 /\ Replies' = 0
    BY <1>4, <2>1, <2>2, <2>3, Zenon
  <2> QED
    BY <2>2, <2>4, <2>5, <2>6, Zenon DEF Alternate
<1>12. Got' = Got
  <2>1. phase' = phase /\ offset' = offset
    BY <1>1
  <2>2. CASE r_phase \notin {"start", "number"}
    BY <1>4, <1>10, <2>1, <2>2, Zenon DEF Got
  <2>3. CASE Way' = Way
    BY <1>4, <2>1, <2>3, Zenon DEF Got
  <2>4. CASE Head(Way') = Head(Way)
    BY <1>4, <2>1, <2>4, Zenon DEF Got
  <2> QED
    BY <1>3, <2>3, <2>4 DEF Moved
<1>13. InStep'
  <2> SUFFICES ASSUME r_phase' \notin {"start", "number", "failed"} PROVE Abreast'
    BY Zenon DEF InStep
  <2>1. r_phase' = r_phase /\ phase' = phase /\ UNCHANGED <<args, arg, offset, files, filename, count>>
    BY <1>1
  <2>2. Abreast
    BY <1>2, <2>1, Zenon DEF InStep
  <2>3. r_phase \notin {"start", "number"}
    BY <2>1
  <2>4. Way' = Way
    BY <1>10, <2>3
  <2>5. SameFile' <=> SameFile
    BY <1>6, <2>1 DEF SameFile
  <2>6. Copying' <=> Copying
    BY <1>6, <1>12, <2>1, <2>5, Zenon DEF Copying
  <2>7. NextPiece' <=> NextPiece
    BY <1>6, <2>1, <2>6 DEF NextPiece
  <2>8. Abreast'
    <3>1. Replies' = 1 <=> Replies = 1
      BY <1>4, Zenon
    <3>2. UNCHANGED <<args, phase, arg, r_phase, files_number, files>>
      BY <1>1
    <3>3. Way' # <<>> <=> Way # <<>>
      BY <2>4, Zenon
    <3> QED
      BY <2>2, <2>5, <2>6, <2>7, <3>1, <3>2, <3>3 DEF Abreast
  <2> QED
    BY <2>8
<1> QED
  BY <1>3, <1>5, <1>9, <1>11, <1>12, <1>13 DEF Exchange

LEMMA StutterKeeps ==
    ASSUME Exchange, UNCHANGED vars
    PROVE  Exchange' /\ Got' = Got
<1>1. /\ UNCHANGED <<up1, up2, in1, in2, inside, out1, out2>>
      /\ UNCHANGED <<args, size, old, phase, arg, offset>>
      /\ UNCHANGED <<r_phase, files_number, files, filename, count, copies>>
  BY DEF vars, link, inputs, sender, receiver
<1>2. TypeInv /\ Known /\ At /\ Starting /\ Alternate /\ InStep
  BY DEF Exchange
<1>3. Way' = Way /\ Replies' = Replies /\ Number' = Number /\ File' = File
      /\ size[File]' = size[File]
  <2>1. Way' = Way
    BY <1>1, WayIs
  <2>2. Replies' = Replies
    BY <1>1 DEF Replies
  <2> QED
    BY <1>1, <2>1, <2>2, FileSame DEF Number
<1>4. \A m : Sent(m)' <=> Sent(m)
  BY <1>1, <1>3 DEF Sent
<1>5. TypeInv'
  BY <1>1, <1>2 DEF TypeInv
<1>6. Known'
  BY <1>1, <1>2, <1>3 DEF Known
<1>7. At'
  BY <1>1, <1>2, AtSame
<1>8. Starting'
  <2>1. Sent(Way[2])' <=> Sent(Way[2])
    BY <1>1, <1>3, Zenon DEF Sent
  <2>2. phase' = phase /\ r_phase' = r_phase /\ arg' = arg /\ files' = files
    BY <1>1
  <2> QED
    BY <1>2, <1>3, <2>1, <2>2, Zenon DEF Starting
<1>9. Alternate'
  <2>1. Sent(Head(Way))' <=> Sent(Head(Way))
    BY <1>1, <1>3, Zenon DEF Sent
  <2>2. phase' = phase /\ r_phase' = r_phase /\ up1' = up1
    BY <1>1
  <2> QED
    BY <1>2, <1>3, <2>1, <2>2, Zenon DEF Alternate
<1>10. Got' = Got
  <2>1. phase' = phase /\ offset' = offset
    BY <1>1
  <2> QED
    BY <1>3, <2>1, Zenon DEF Got
<1>11. InStep'
  <2>1. UNCHANGED <<args, phase, arg, offset, r_phase, files_number, files, filename, count>>
    BY <1>1
  <2>2. SameFile' <=> SameFile
    BY <1>3, <2>1 DEF SameFile
  <2>3. Copying' <=> Copying
    <3>1. r_phase' = r_phase /\ count' = count
      BY <2>1
    <3> QED
      BY <1>3, <1>10, <2>2, <3>1, Zenon DEF Copying
  <2>4. NextPiece' <=> NextPiece
    <3>1. size[File]' = size[File]
      BY <1>3
    <3> QED
      BY <2>1, <2>3, <3>1 DEF NextPiece
  <2>5. (Replies' = 1 <=> Replies = 1) /\ (Way' # <<>> <=> Way # <<>>)
    BY <1>3, Zenon
  <2>6. Abreast' <=> Abreast
    BY <2>1, <2>2, <2>3, <2>4, <2>5 DEF Abreast
  <2> QED
    BY <1>2, <2>1, <2>6 DEF InStep
<1> QED
  BY <1>5, <1>6, <1>7, <1>8, <1>9, <1>10, <1>11 DEF Exchange

LEMMA InitExchange == Init => Exchange
<1> SUFFICES ASSUME Init PROVE Exchange
  OBVIOUS
<1>1. /\ up1 = FALSE /\ up2 = FALSE
      /\ in1 = <<>> /\ in2 = <<>> /\ inside = <<>> /\ out1 = <<>> /\ out2 = <<>>
      /\ size \in [Names -> -1 .. MaxSize]
      /\ phase = "start" /\ arg = 0 /\ offset = 0
      /\ r_phase = "start" /\ files_number = 0 /\ files = 0 /\ count = 0
      /\ copies = [n \in Names |-> Old(n)]
  BY DEF Init, Link!Init
<1>2. PICK k \in 0 .. MaxFiles : args \in [1 .. k -> Names]
  BY DEF Init
<1>3. args \in Seq(Names) /\ Len(args) = k /\ k <= MaxFiles
  <2>1. k \in Nat /\ k <= MaxFiles
    BY TransferAssumption
  <2> QED
    BY <1>2, <2>1, FunctionIsSeq
<1>4. copies = [n \in Names |-> copies[n]]
  BY <1>1
<1>5. TypeInv
  <2>1. in1 \in Seq(Message) /\ inside \in Seq(Link!Packet) /\ out2 \in Seq(Link!Packet)
        /\ in2 \in Seq({"hello", "ACK"}) /\ out1 \in Seq({"hello", "ACK"})
    BY <1>1, EmptySeq
  <2>2. up1 \in BOOLEAN /\ up2 \in BOOLEAN
    BY <1>1
  <2>3. arg \in Nat /\ offset \in Nat /\ files_number \in Int /\ files \in Nat /\ count \in Int
    BY <1>1
  <2>4. size \in [Names -> -1 .. MaxSize] /\ Len(args) <= MaxFiles
    BY <1>1, <1>3
  <2> QED
    BY <1>3, <1>4, <2>1, <2>2, <2>3, <2>4, Zenon DEF TypeInv
<1>6. Way = <<>> /\ Replies = 0
  <2>1. Way = <<>>
    BY <1>1, WayIs
  <2>2. Len(in2) = 0 /\ Len(out1) = 0
    BY <1>1, EmptySeq
  <2> QED
    BY <1>1, <2>1, <2>2 DEF Replies
<1>7. Known
  BY <1>1, <1>6 DEF Known
<1>8. At
  BY <1>1 DEF At, InFile
<1>9. Starting /\ Alternate /\ InStep
  BY <1>1, <1>6 DEF Starting, Alternate, InStep
<1> QED
  BY <1>5, <1>7, <1>8, <1>9 DEF Exchange

LEMMA ExchangeKept == Exchange /\ [Next]_vars => Exchange'
<1> SUFFICES ASSUME Exchange, [Next]_vars PROVE Exchange'
  OBVIOUS
<1>1. CASE Sender
  BY <1>1, StartSenderKeeps, SendNumberKeeps, SendNameKeeps, SendSizeKeeps, SendDataKeeps,
     EndOfFileKeeps, HandleResponseKeeps DEF Sender
<1>2. CASE Receiver
  BY <1>2, StartReceiverKeeps, ReceiveNumberKeeps, ReceiveNameKeeps, ReceiveSizeKeeps,
     ReceiveDataKeeps, WriteFailsKeeps DEF Receiver
<1>3. CASE (Link!LinkStep \/ Link!Break) /\ Others
  BY <1>3, LinkKeeps
<1>4. CASE UNCHANGED vars
  BY <1>4, StutterKeeps
<1> QED
  BY <1>1, <1>2, <1>3, <1>4 DEF Next

LEMMA ExchangeInvariant == Spec => []Exchange
BY InitExchange, ExchangeKept, PTL DEF Spec

-----------------------------------------------------------------------------
(* Theorems.                                                                 *)

LEMMA ExchangeAgrees == Exchange => PlacesAgree
<1> SUFFICES ASSUME Exchange, out2 # <<>>, r_phase \notin {"start", "done", "failed"}
             PROVE  /\ r_phase = Received.kind
                    /\ r_phase = "data" => filename = Received.name /\ filename = File
  BY DEF PlacesAgree
<1>1. TypeInv /\ Known /\ Starting /\ InStep
  BY DEF Exchange
<1>2. up1
  BY <1>1 DEF Known
<1>3. Way # <<>> /\ Received = Head(Way)
  <2>1. out2 \in Seq(Link!Packet) /\ inside \in Seq(Link!Packet) /\ in1 \in Seq(Message)
    BY <1>1, LinkTypes
  <2> QED
    BY <1>2, <2>1, WayIs, PathReceive DEF Received
<1>4. CASE r_phase = "number"
  <2>1. Head(Way) = Number
    BY <1>1, <1>3, <1>4 DEF Starting
  <2>2. Number.kind = "number"
    BY DEF Number, Msg
  <2>3. r_phase # "data"
    BY <1>4
  <2> QED
    BY <1>3, <1>4, <2>1, <2>2, <2>3, Zenon
<1>5. CASE r_phase # "number"
  <2>1. r_phase \in {"name", "size", "data"}
    BY <1>1, <1>5 DEF InStep, Abreast
  <2>2. Head(Way).kind = r_phase
    BY <1>3, <2>1, Arrives
  <2>3. r_phase = "data" => /\ phase = "data sent" /\ Copying
                            /\ SentAs(phase, File, size[File], offset, Head(Way))
    BY <1>3, <2>1, Arrives
  <2>4. r_phase = "data" => IsPiece(File, size[File], offset, Head(Way))
    BY <2>3, SentIs, Zenon
  <2>5. r_phase = "data" => Head(Way).name = File /\ filename = File
    BY <2>3, <2>4, Zenon DEF IsPiece, Copying, SameFile
  <2> QED
    BY <1>3, <2>2, <2>5, Zenon
<1> QED
  BY <1>4, <1>5

\* PlacesAgree holds in every reachable state: a datagram of send.c says nothing of
\* what it is, and recv.c takes it for what it was sent as.
THEOREM Agreement == Spec => []PlacesAgree
BY ExchangeInvariant, ExchangeAgrees, PTL

\* The messages that are answered, of those on the way.
Answered == {m \in Message : m.kind \in {"name", "size", "data"}}

LEMMA FlyingIs ==
    ASSUME TypeInv, Known
    PROVE  Flying = PlacesIn(OnTheWay, Answered) /\ Cardinality(Flying) = NumberOf(Way, Answered)
<1>1. /\ in1 \in Seq(Message) /\ inside \in Seq(Link!Packet) /\ out2 \in Seq(Link!Packet)
      /\ Way \in Seq(Message)
  BY LinkTypes
<1>2. OnTheWay = Path(out2, inside, in1) /\ OnTheWay \in Seq(Message)
  BY <1>1, PathType DEF OnTheWay, Path
<1>3. Flying = PlacesIn(OnTheWay, Answered)
  <2>1. DOMAIN OnTheWay = 1 .. Len(OnTheWay) /\ \A k \in DOMAIN OnTheWay : OnTheWay[k] \in Message
    BY <1>2
  <2> QED
    BY <2>1 DEF Flying, PlacesIn, Answered
<1>4. NumberOf(OnTheWay, Answered) = NumberOf(Way, Answered)
  <2>1. CASE up1
    <3>1. OnTheWay = Way
      BY <1>2, <2>1, WayIs
    <3> QED
      BY <3>1
  <2>2. CASE ~up1
    <3>1. OnTheWay = in1 /\ (in1 # <<>> => Head(in1) = Hello)
      <4>1. inside = <<>> /\ out2 = <<>> /\ (in1 # <<>> => Head(in1) = Hello)
        BY <2>2 DEF Known
      <4> QED
        BY <1>1, <1>2, <4>1, PathEmpty
    <3>2. CASE in1 = <<>>
      BY <2>2, <3>1, <3>2, WayIs
    <3>3. CASE in1 # <<>>
      <4>1. Way = Tail(in1)
        BY <2>2, <3>3, WayIs
      <4>2. Hello \notin Answered
        BY DEF Hello, Msg, Answered
      <4>3. NumberOf(in1, Answered) = NumberOf(Tail(in1), Answered)
                                      + (IF Head(in1) \in Answered THEN 1 ELSE 0)
        BY <1>1, <3>3, NumberOfTail
      <4>4. NumberOf(Tail(in1), Answered) \in Nat
        BY <1>1, <4>1, NumberIsNat
      <4>5. ~(Head(in1) \in Answered)
        BY <3>1, <3>3, <4>2
      <4>6. NumberOf(in1, Answered) = NumberOf(Tail(in1), Answered) + 0
        BY <4>3, <4>5, Zenon
      <4>7. NumberOf(in1, Answered) = NumberOf(Tail(in1), Answered)
        BY <4>4, <4>6
      <4> QED
        BY <3>1, <4>1, <4>7
    <3> QED
      BY <3>2, <3>3
  <2> QED
    BY <2>1, <2>2
<1> QED
  BY <1>3, <1>4, Zenon DEF NumberOf

LEMMA AcksAre ==
    ASSUME TypeInv
    PROVE  Cardinality(Acks) \in Nat /\ Cardinality(Acks) <= Len(in2)
<1>1. in2 \in Seq({"hello", "ACK"})
  BY LinkTypes
<1>2. Acks = PlacesIn(in2, {"ACK"})
  BY <1>1 DEF Acks, PlacesIn
<1> QED
  BY <1>1, <1>2, NumberIsNat, NumberAtMost, Zenon DEF NumberOf

LEMMA ExchangeAlternates == Exchange => StopAndWait
<1> SUFFICES ASSUME Exchange PROVE StopAndWait
  OBVIOUS
<1>1. TypeInv /\ Known /\ Starting /\ Alternate
  BY DEF Exchange
<1>2. /\ Flying = PlacesIn(OnTheWay, Answered) /\ Cardinality(Flying) = NumberOf(Way, Answered)
      /\ Cardinality(Acks) \in Nat /\ Cardinality(Acks) <= Len(in2)
  BY <1>1, FlyingIs, AcksAre
<1>3. /\ Way \in Seq(Message) /\ Len(Way) \in Nat /\ Replies \in Int
      /\ Len(in2) \in Nat /\ Len(out1) \in Nat /\ out1 \in Seq({"hello", "ACK"})
      /\ OnTheWay \in Seq(Message)
  <2>1. OnTheWay \in Seq(Message)
    <3>1. OnTheWay = Path(out2, inside, in1)
      BY DEF OnTheWay, Path
    <3> QED
      BY <1>1, <3>1, LinkTypes, PathType
  <2> QED
    BY <1>1, <2>1, LinkTypes
<1> DEFINE f == NumberOf(Way, Answered)
           acks == Cardinality(Acks)
           back == Len(out1)
<1>4. f \in Nat /\ f <= Len(Way)
  BY <1>3, NumberIsNat, NumberAtMost
<1>5. IsFiniteSet(Flying) /\ (f = 0 => Flying = {})
  <2>1. IsFiniteSet(Flying)
    BY <1>2, <1>3, NumberIsNat
  <2> QED
    BY <1>2, <2>1, FS_EmptySet
<1>6. back = 0 => out1 = <<>>
  BY <1>3, EmptySeq
<1> HIDE DEF f, acks, back
<1>7. SUFFICES /\ f + back + acks <= 1
               /\ phase \in {"number", "name", "size", "data"} => f = 0 /\ back = 0
  BY <1>2, <1>5, <1>6, <1>7, Zenon DEF StopAndWait, f, acks, back
<1>8. /\ f \in Nat /\ f <= Len(Way) /\ acks \in Nat /\ acks <= Len(in2) /\ back \in Nat
  BY <1>2, <1>3, <1>4 DEF acks, back
<1>9. (r_phase = "start" \/ up2) => Replies = Len(in2) + back
  <2>1. (r_phase = "start" \/ up2) => Replies = Len(in2) + (Len(out1) - 0)
    BY Zenon DEF Replies
  <2>2. Len(in2) + (Len(out1) - 0) = Len(in2) + Len(out1)
    BY <1>3
  <2> QED
    BY <2>1, <2>2, Zenon DEF back
<1>10. CASE r_phase \notin {"start", "number"}
  <2>1. /\ up1 /\ Replies >= 0 /\ Len(Way) + Replies <= 1
        /\ phase \notin Waiting => Len(Way) = 0 /\ Replies = 0
    BY <1>1, <1>10, Zenon DEF Alternate
  <2>2. up2
    BY <1>1, <2>1 DEF Known
  <2>3. Replies = Len(in2) + back
    BY <1>9, <2>2
  <2>4. f + back + acks <= 1
    BY <1>3, <1>8, <2>1, <2>3
  <2>5. phase \in {"number", "name", "size", "data"} => phase \notin Waiting
    BY DEF Waiting
  <2>6. Len(Way) = 0 /\ Replies = 0 => f = 0 /\ back = 0
    BY <1>3, <1>8, <2>3
  <2> QED
    BY <2>1, <2>4, <2>5, <2>6
<1>11. CASE r_phase \in {"start", "number"}
  <2>1. /\ Replies = 0
        /\ phase \in {"start", "number", "name", "name sent", "done"}
        /\ phase \in {"start", "number"} => Way = <<>>
        /\ phase \notin {"start", "number"} =>
              /\ Way # <<>> /\ Head(Way) = Number
              /\ Len(Way) = 1 \/ (Len(Way) = 2 /\ phase = "name sent")
    BY <1>1, <1>11, Zenon DEF Starting
  <2>2. phase \in {"start", "number"} => f = 0
    <3>1. Way = <<>> => Len(Way) = 0
      BY EmptySeq
    <3>2. Len(Way) = 0 => f = 0
      BY <1>8
    <3> QED
      BY <2>1, <3>1, <3>2
  <2>3. phase \notin {"start", "number"} => f <= 1 /\ (phase # "name sent" => f = 0)
    <3> SUFFICES ASSUME phase \notin {"start", "number"}
                 PROVE  f <= 1 /\ (phase # "name sent" => f = 0)
      OBVIOUS
    <3>1. /\ Way # <<>> /\ Head(Way) = Number
          /\ Len(Way) = 1 \/ (Len(Way) = 2 /\ phase = "name sent")
      BY <2>1
    <3>2. Number \notin Answered
      BY DEF Number, Msg, Answered
    <3> DEFINE g == NumberOf(Tail(Way), Answered)
    <3>3. Tail(Way) \in Seq(Message) /\ Len(Tail(Way)) = Len(Way) - 1
      BY <1>3, <3>1, TailElements
    <3>4. g \in Nat /\ g <= Len(Way) - 1
      BY <3>3, NumberIsNat, NumberAtMost
    <3>5. f = g + (IF Head(Way) \in Answered THEN 1 ELSE 0)
      BY <1>3, <3>1, NumberOfTail DEF f
    <3> HIDE DEF g
    <3>6. f = g + 0
      BY <3>1, <3>2, <3>5, Zenon
    <3>7. f = g /\ (Len(Way) = 1 => g = 0) /\ (Len(Way) = 2 => g <= 1)
      <4>1. f = g
        BY <3>4, <3>6
      <4>2. \A n \in Nat : \A m : n <= m - 1 => (m = 1 => n = 0) /\ (m = 2 => n <= 1)
        OBVIOUS
      <4> QED
        BY <3>4, <4>1, <4>2, Zenon
    <3>8. 0 <= 1
      OBVIOUS
    <3> QED
      BY <3>1, <3>7, <3>8, Zenon
  <2>4. CASE up2
    <3>1. Len(in2) + back = 0
      BY <1>9, <2>1, <2>4, Zenon
    <3>2. Len(in2) = 0 /\ back = 0 /\ acks = 0
      BY <1>3, <1>8, <3>1
    <3>3. f <= 1
      <4>1. 0 <= 1
        OBVIOUS
      <4> QED
        BY <2>2, <2>3, <4>1, Zenon
    <3>4. phase \in {"number", "name", "size", "data"} => f = 0
      BY <2>2, <2>3
    <3> QED
      BY <1>8, <3>2, <3>3, <3>4
  <2>5. CASE ~up2
    <3>1. phase = "start"
      BY <1>1, <2>5 DEF Known
    <3>2. f = 0
      BY <2>2, <3>1
    <3>3. CASE r_phase = "start"
      <4>1. Len(in2) + back = 0
        BY <1>9, <2>1, <3>3, Zenon
      <4>2. back = 0 /\ acks = 0
        BY <1>3, <1>8, <4>1
      <4> QED
        BY <3>1, <3>2, <4>2
    <3>4. CASE r_phase # "start"
      <4>1. Len(in2) = 1 /\ out1 = <<>>
        BY <1>1, <2>5, <3>4, Zenon DEF Known
      <4>2. back = 0
        BY <4>1, EmptySeq DEF back
      <4>3. acks <= 1
        BY <1>8, <4>1
      <4> QED
        BY <1>8, <3>1, <3>2, <4>2, <4>3
    <3> QED
      BY <3>3, <3>4
  <2> QED
    BY <2>4, <2>5
<1> QED
  BY <1>10, <1>11

\* StopAndWait holds in every reachable state: one message at most is without an
\* answer, so that neither program has to number what it sends.
THEOREM OneAtATime == Spec => []StopAndWait
BY ExchangeInvariant, ExchangeAlternates, PTL

-----------------------------------------------------------------------------
(* The copies.                                                               *)

Bytes(n) == {"old"} \cup ({n} \X Int)

LEMMA ContentIs ==
    ASSUME NEW n, NEW s \in Nat \ {0}, NEW c \in Nat
    PROVE  /\ Content(n, s, c) \in Seq(Bytes(n)) /\ Len(Content(n, s, c)) = c
           /\ \A k \in 1 .. c : Content(n, s, c)[k] = <<n, ((k - 1) % s) + 1>>
<1> DEFINE f == [k \in 1 .. c |-> <<n, ((k - 1) % s) + 1>>]
<1>1. f \in [1 .. c -> Bytes(n)]
  <2>1. \A k \in 1 .. c : ((k - 1) % s) + 1 \in Int
    OBVIOUS
  <2>2. \A k \in 1 .. c : <<n, ((k - 1) % s) + 1>> \in Bytes(n)
    BY <2>1 DEF Bytes
  <2> QED
    BY <2>2
<1>2. \A k \in 1 .. c : f[k] = <<n, ((k - 1) % s) + 1>>
  OBVIOUS
<1> HIDE DEF f
<1>3. f \in Seq(Bytes(n)) /\ Len(f) = c
  BY <1>1, FunctionIsSeq
<1>4. Content(n, s, c) = f
  BY DEF Content, f
<1> QED
  BY <1>2, <1>3, <1>4

LEMMA ModIs ==
    ASSUME NEW s \in Nat \ {0}, NEW times \in Nat, NEW x \in Nat, x < s
    PROVE  (times * s + x) % s = x
  OBVIOUS

\* A piece continues the content: times is how often all of it was sent before.
Continues(n, s, times, from, len, c, piece) ==
    /\ s \in Nat \ {0} /\ times \in Nat /\ from \in Nat /\ len \in Nat /\ from + len <= s
    /\ c \in Nat /\ c = times * s + from
    /\ piece = [k \in 1 .. len |-> <<n, from + k>>]
LEMMA ContentGrows ==
    ASSUME NEW n, NEW s, NEW times, NEW from, NEW len, NEW c, NEW piece,
           Continues(n, s, times, from, len, c, piece)
    PROVE  /\ piece \in Seq(Bytes(n))
           /\ Content(n, s, c) \in Seq(Bytes(n)) /\ Content(n, s, c + len) \in Seq(Bytes(n))
           /\ Len(Content(n, s, c + len)) = c + len /\ c + len \in Nat
           /\ Content(n, s, c) \o piece = Content(n, s, c + len)
<1>0. /\ s \in Nat \ {0} /\ times \in Nat /\ from \in Nat /\ len \in Nat /\ from + len <= s
      /\ c \in Nat /\ c = times * s + from
      /\ piece = [k \in 1 .. len |-> <<n, from + k>>]
  BY DEF Continues
<1> USE <1>0
<1>1. piece \in [1 .. len -> Bytes(n)]
  <2>1. \A k \in 1 .. len : <<n, from + k>> \in Bytes(n)
    BY DEF Bytes
  <2> QED
    BY <2>1
<1>2. piece \in Seq(Bytes(n)) /\ Len(piece) = len
  BY <1>1, FunctionIsSeq
<1>3. \A k \in 1 .. len : piece[k] = <<n, from + k>>
  OBVIOUS
<1>4. c + len \in Nat
  OBVIOUS
<1> DEFINE u == Content(n, s, c)
           v == Content(n, s, c + len)
<1>5. /\ u \in Seq(Bytes(n)) /\ Len(u) = c
      /\ \A k \in 1 .. c : u[k] = <<n, ((k - 1) % s) + 1>>
  BY ContentIs
<1>6. /\ v \in Seq(Bytes(n)) /\ Len(v) = c + len
      /\ \A k \in 1 .. c + len : v[k] = <<n, ((k - 1) % s) + 1>>
  BY <1>4, ContentIs
<1> HIDE DEF u, v
<1>7. /\ u \o piece \in Seq(Bytes(n)) /\ Len(u \o piece) = c + len
      /\ \A k \in 1 .. c + len :
            (u \o piece)[k] = IF k <= c THEN u[k] ELSE piece[k - c]
  <2>1. /\ u \o piece \in Seq(Bytes(n)) /\ Len(u \o piece) = Len(u) + Len(piece)
        /\ \A k \in 1 .. Len(u) + Len(piece) :
              (u \o piece)[k] = IF k <= Len(u) THEN u[k] ELSE piece[k - Len(u)]
    BY <1>2, <1>5, ConcatProperties
  <2> QED
    BY <1>2, <1>5, <2>1, Zenon
<1>8. ASSUME NEW k \in 1 .. c + len PROVE (u \o piece)[k] = v[k]
  <2>1. k \in Nat /\ (k <= c \/ ~(k <= c))
    BY <1>4
  <2>2. CASE k <= c
    <3>1. k \in 1 .. c
      BY <2>1, <2>2
    <3> QED
      BY <1>5, <1>6, <1>7, <2>2, <3>1, Zenon
  <2>3. CASE ~(k <= c)
    <3>1. k - c \in 1 .. len
      BY <2>1, <2>3
    <3>2. PICK x \in Nat : x = from + (k - c) - 1
      BY <3>1
    <3>3. x < s /\ x >= 0 /\ k - 1 = times * s + x /\ from + (k - c) = x + 1
      <4>1. times * s \in Nat
        OBVIOUS
      <4> QED
        BY <3>1, <3>2, <4>1
    <3>4. (times * s + x) % s = x
      BY <3>3, ModIs
    <3>5. ((k - 1) % s) + 1 = from + (k - c)
      BY <3>3, <3>4
    <3>6. piece[k - c] = <<n, from + (k - c)>>
      BY <1>3, <3>1
    <3> QED
      BY <1>6, <1>7, <2>3, <3>5, <3>6, Zenon
  <2> QED
    BY <2>1, <2>2, <2>3
<1>9. u \o piece = v
  BY <1>6, <1>7, <1>8, SeqEqual
<1> QED
  BY <1>2, <1>4, <1>5, <1>6, <1>9 DEF u, v

\* A step that copies nothing and ends no file.
LEMMA Untouched ==
    ASSUME Form, Amount, UNCHANGED <<args, size, old, copies>>,
           r_phase' # "failed" =>
               /\ r_phase # "failed" /\ files' = files
               /\ \A n \in Names : Extra(n)' = Extra(n)
    PROVE  Form' /\ Amount'
<1>1. \A n \in Names : Old(n)' = Old(n) /\ Copied(n)' = Copied(n)
  BY DEF Old, Copied
<1>2. Form'
  BY <1>1, Zenon DEF Form
<1>3. Amount'
  <2> SUFFICES ASSUME r_phase' # "failed", NEW n \in Names
               PROVE  Copied(n)' = Done(n)' * size'[n] + Extra(n)'
    BY DEF Amount
  <2>1. Done(n)' = Done(n) /\ Extra(n)' = Extra(n)
    BY DEF Done
  <2>2. Copied(n) = Done(n) * size[n] + Extra(n)
    BY DEF Amount
  <2> QED
    BY <1>1, <2>1, <2>2, Zenon
<1> QED
  BY <1>2, <1>3

\* While the sender sends the number, a name or a size, or ends a file, no file is
\* being copied.
LEMMA NotCopying ==
    ASSUME Exchange,
           \/ phase \in {"start", "number", "name", "size"}
           \/ phase = "data" /\ Read = 0
    PROVE  r_phase # "data"
<1> SUFFICES ASSUME r_phase = "data" PROVE FALSE
  OBVIOUS
<1>1. TypeInv /\ At /\ Alternate /\ Abreast
  BY DEF Exchange, InStep
<1>2. phase \notin {"start", "number"}
  BY <1>1 DEF Alternate
<1>3. phase \notin {"name", "size"}
  BY <1>1 DEF Abreast
<1>4. phase = "data" /\ Read = 0 /\ NextPiece
  BY <1>1, <1>2, <1>3 DEF Abreast
<1>5. size[File] = offset
  <2>1. MAX_LEN \in Nat /\ MAX_LEN >= 2
    BY TransferAssumption
  <2> QED
    BY <1>1, <1>4, <2>1, ReadIs
<1> QED
  BY <1>4, <1>5 DEF NextPiece

CopiesInv == Form /\ Amount

LEMMA SenderCopies == ASSUME Exchange, CopiesInv, Sender PROVE CopiesInv'
<1> USE DEF CopiesInv
<1>1. UNCHANGED <<args, size, old, r_phase, files, filename, copies>>
  BY DEF Sender, StartSender, SendNumber, SendName, SendSize, SendData, EndOfFile,
         HandleResponse, Send, inputs, receiver
<1>2. CASE SendData \/ HandleResponse
  <2>1. Got' = Got
    BY <1>2, SendDataKeeps, HandleResponseKeeps
  <2>2. \A n \in Names : Extra(n)' = Extra(n)
    BY <1>1, <2>1, Zenon DEF Extra
  <2> QED
    BY <1>1, <2>2, Untouched
<1>3. CASE StartSender \/ SendNumber \/ SendName \/ SendSize \/ EndOfFile
  <2>1. r_phase # "data"
    BY <1>3, NotCopying DEF StartSender, SendNumber, SendName, SendSize, EndOfFile
  <2>2. \A n \in Names : Extra(n)' = Extra(n)
    BY <1>1, <2>1, Zenon DEF Extra
  <2> QED
    BY <1>1, <2>2, Untouched
<1> QED
  BY <1>2, <1>3 DEF Sender

\* The receiver before it copies.
LEMMA ReceiverCopiesNot ==
    ASSUME Exchange, CopiesInv,
           StartReceiver \/ ReceiveNumber \/ ReceiveName \/ WriteFails
    PROVE  CopiesInv'
<1> USE DEF CopiesInv
<1>1. UNCHANGED <<args, size, old, files, copies>>
  BY DEF StartReceiver, ReceiveNumber, ReceiveName, WriteFails, Receive, inputs
<1>2. CASE WriteFails
  <2>1. r_phase' = "failed"
    BY <1>2 DEF WriteFails
  <2> QED
    BY <1>1, <2>1, Untouched
<1>3. CASE StartReceiver \/ ReceiveNumber \/ ReceiveName
  <2>1. r_phase \in {"start", "number", "name"} /\ r_phase' \in {"number", "name", "done", "size"}
    BY <1>3 DEF StartReceiver, ReceiveNumber, ReceiveName
  <2>2. r_phase # "data" /\ r_phase' # "data" /\ r_phase # "failed"
    BY <2>1
  <2>3. \A n \in Names : Extra(n)' = Extra(n)
    BY <2>2, Zenon DEF Extra
  <2> QED
    BY <1>1, <2>2, <2>3, Untouched
<1> QED
  BY <1>2, <1>3

\* A file that is done counts for its name.
LEMMA DoneNext ==
    ASSUME TypeInv, NEW n \in Names, files + 1 \in 1 .. Len(args)
    PROVE  /\ Done(n) \in Nat
           /\ NumberOf(SubSeq(args, 1, files + 1), {n}) =
                 Done(n) + (IF args[files + 1] = n THEN 1 ELSE 0)
<1>1. args \in Seq(Names) /\ files \in Nat /\ Len(args) \in Nat
  BY DEF TypeInv
<1> DEFINE u == SubSeq(args, 1, files)
           x == args[files + 1]
<1>2. u \in Seq(Names) /\ x \in Names
  <2>1. \A i \in 1 .. files : args[i] \in Names
    BY <1>1
  <2>2. u \in Seq(Names)
    BY <1>1, <2>1, SubSeqProperties
  <2> QED
    BY <1>1, <2>2
<1>3. SubSeq(args, 1, files + 1) = u \o <<x>>
  <2>1. 1 \in 1 .. Len(args) /\ files + 1 \in 1 .. Len(args) /\ (files + 1) - 1 = files
    BY <1>1
  <2>2. SubSeq(args, 1, files + 1) = SubSeq(args, 1, (files + 1) - 1) \o <<args[files + 1]>>
    BY <1>1, <2>1, SubSeqRecursiveSecond
  <2> QED
    BY <2>1, <2>2
<1>4. Done(n) = NumberOf(u, {n})
  BY DEF Done
<1> HIDE DEF u, x
<1>5. SubSeq(args, 1, files + 1) = Append(u, x)
  BY <1>2, <1>3, AppendIsConcat
<1>6. NumberOf(Append(u, x), {n}) = NumberOf(u, {n}) + (IF x \in {n} THEN 1 ELSE 0)
      /\ NumberOf(u, {n}) \in Nat
  BY <1>2, NumberOfAppend, NumberIsNat
<1> QED
  BY <1>4, <1>5, <1>6, Zenon DEF x

\* A file without content is done with its size; one with content is copied next.
LEMMA ReceiveSizeCopies == ASSUME Exchange, CopiesInv, ReceiveSize PROVE CopiesInv'
<1> USE DEF CopiesInv
<1>1. /\ r_phase = "size" /\ Receive /\ Answer
      /\ IF old[filename] = "readonly"
         THEN r_phase' = "failed" /\ UNCHANGED <<files, count>>
         ELSE AfterPiece(Pieces(Received.len))
      /\ UNCHANGED <<files_number, filename, copies>>
  BY DEF ReceiveSize
<1>2. TypeInv /\ Len(args) \in Nat
  BY DEF Exchange, TypeInv
<1>3. r_phase' \notin {"start", "number"}
  BY <1>1 DEF AfterPiece
<1>4. /\ Way # <<>> /\ Received = Head(Way)
      /\ UNCHANGED <<args, size, old, phase, arg, offset>>
  BY <1>1, <1>3, Taken
<1>5. /\ phase = "size sent" /\ SameFile /\ offset = 0
      /\ SentAs(phase, File, size[File], offset, Head(Way))
      /\ arg \in 1 .. Len(args) /\ size[File] \in -1 .. MaxSize /\ File \in Names
  BY <1>1, <1>4, Arrives
<1>6. Received.len = size[File]
  <2>1. SentAs(phase, File, size[File], offset, Head(Way)) /\ phase = "size sent"
    BY <1>5
  <2>2. phase = "size sent" => Head(Way).kind = "size" /\ Head(Way).len = size[File]
    BY <2>1, SentIs
  <2> QED
    BY <1>4, <2>1, <2>2, Zenon
<1>7. UNCHANGED <<args, size, old, copies>>
  BY <1>1, <1>4
<1>8. \A n \in Names : Extra(n) = 0
  BY <1>1, Zenon DEF Extra
<1>9. Got' = 0
  <2>1. phase' # "data sent" /\ offset' = 0
    BY <1>4, <1>5
  <2> QED
    BY <2>1, Zenon DEF Got
<1>10. \A n \in Names : Extra(n)' = 0
  BY <1>9, Zenon DEF Extra
<1>11. CASE old[filename] = "readonly"
  BY <1>1, <1>7, <1>11, Untouched
<1>12. CASE old[filename] # "readonly"
  <2> DEFINE s == size[File]
             k == Pieces(s)
  <2>1. AfterPiece(k)
    BY <1>1, <1>6, <1>12
  <2>2. s \in Int /\ s >= -1
    <3>1. s \in -1 .. MaxSize /\ MaxSize \in Nat
      BY <1>5, TransferAssumption
    <3> HIDE DEF s
    <3> QED
      BY <3>1
  <2> HIDE DEF s
  <2>3. k \in Int /\ (s = 0 => k = 0) /\ (s # 0 => k > 0 /\ Left(k, s))
    BY <2>2, PiecesLeft
  <2> HIDE DEF k
  <2>4. CASE s # 0
    <3>1. files' = files
      BY <2>1, <2>3, <2>4 DEF AfterPiece
    <3>2. \A n \in Names : Extra(n)' = Extra(n)
      BY <1>8, <1>10, Zenon
    <3> QED
      BY <1>1, <1>7, <3>1, <3>2, Untouched
  <2>5. CASE s = 0
    <3>1. files' = files + 1
      <4>1. k = 0 /\ ~(0 > 0)
        BY <2>3, <2>5
      <4> QED
        BY <2>1, <4>1, Zenon DEF AfterPiece
    <3>2. files + 1 \in 1 .. Len(args) /\ args[files + 1] = File
      <4>1. files = arg - 1 /\ arg \in 1 .. Len(args)
        BY <1>5 DEF SameFile
      <4>2. files + 1 = arg
        BY <1>2, <4>1
      <4> QED
        BY <4>1, <4>2 DEF File
    <3>3. \A n \in Names : Old(n)' = Old(n) /\ Copied(n)' = Copied(n)
      BY <1>7 DEF Old, Copied
    <3>4. Form'
      BY <1>7, <3>3, Zenon DEF Form
    <3>5. Amount'
      <4> SUFFICES ASSUME NEW n \in Names
                   PROVE  Copied(n)' = Done(n)' * size'[n] + Extra(n)'
        BY DEF Amount
      <4>1. Copied(n) = Done(n) * size[n] + 0
        <5>1. r_phase # "failed"
          BY <1>1
        <5> QED
          BY <1>8, <5>1, Zenon DEF Amount
      <4>2. /\ Done(n) \in Nat
            /\ Done(n)' = Done(n) + (IF File = n THEN 1 ELSE 0)
        <5>1. Done(n)' = NumberOf(SubSeq(args, 1, files + 1), {n})
          BY <1>7, <3>1, Zenon DEF Done
        <5> QED
          BY <1>2, <3>2, <5>1, DoneNext
      <4>3. size[n] \in Int
        <5>1. size[n] \in -1 .. MaxSize /\ MaxSize \in Nat
          BY <1>2, TransferAssumption DEF TypeInv
        <5> QED
          BY <5>1
      <4>4. Done(n)' * size[n] = Done(n) * size[n]
        <5>1. CASE File = n
          <6>1. size[n] = 0
            BY <2>5, <5>1 DEF s
          <6>2. Done(n)' \in Nat
            BY <4>2, <5>1
          <6>3. \A d \in Nat : d * 0 = 0
            OBVIOUS
          <6> QED
            BY <4>2, <6>1, <6>2, <6>3, Zenon
        <5>2. CASE File # n
          <6>1. Done(n)' = Done(n) + 0
            BY <4>2, <5>2, Zenon
          <6>2. Done(n)' = Done(n)
            BY <4>2, <6>1
          <6> QED
            BY <6>2, Zenon
        <5> QED
          BY <5>1, <5>2
      <4> QED
        BY <1>7, <1>10, <3>3, <4>1, <4>4, Zenon
    <3> QED
      BY <3>4, <3>5
  <2> QED
    BY <2>4, <2>5
<1> QED
  BY <1>11, <1>12

Before(o) == o = <<>> \/ o = <<"old">>

\* The same for a copy, which begins with what there was of it.
LEMMA CopyGrows ==
    ASSUME NEW n, NEW s, NEW times, NEW from, NEW len, NEW c, NEW piece,
           Continues(n, s, times, from, len, c, piece), NEW o, Before(o)
    PROVE  /\ (o \o Content(n, s, c)) \o piece = o \o Content(n, s, c + len)
           /\ Len(o \o Content(n, s, c + len)) - Len(o) = c + len
           /\ c + len \in Nat
<1>1. /\ piece \in Seq(Bytes(n))
      /\ Content(n, s, c) \in Seq(Bytes(n)) /\ Content(n, s, c + len) \in Seq(Bytes(n))
      /\ Len(Content(n, s, c + len)) = c + len /\ c + len \in Nat
      /\ Content(n, s, c) \o piece = Content(n, s, c + len)
  BY ContentGrows
<1>3. PICK u, v : u = Content(n, s, c) /\ v = Content(n, s, c + len)
  OBVIOUS
<1>4. u \in Seq(Bytes(n)) /\ v \in Seq(Bytes(n)) /\ Len(v) = c + len
  BY <1>1, <1>3, Zenon
<1>5. o \in Seq(Bytes(n)) /\ Len(o) \in Nat
  <2>1. PICK B : B = Bytes(n)
    OBVIOUS
  <2>2. "old" \in B
    BY <2>1 DEF Bytes
  <2>3. <<>> \in Seq(B) /\ <<"old">> \in Seq(B)
    BY <2>2
  <2>4. o \in Seq(B)
    BY <2>3, Zenon DEF Before
  <2> QED
    BY <2>1, <2>4
<1>6. (o \o u) \o piece = o \o (u \o piece)
  <2>1. PICK B : B = Bytes(n)
    OBVIOUS
  <2>2. o \in Seq(B) /\ u \in Seq(B) /\ piece \in Seq(B)
    BY <1>1, <1>4, <1>5, <2>1, Zenon
  <2> QED
    BY <2>2, ConcatAssociative
<1>7. Len(o \o v) = Len(o) + (c + len)
  <2>1. Len(o \o v) = Len(o) + Len(v)
    BY <1>4, <1>5, ConcatProperties, Zenon
  <2> QED
    BY <1>4, <2>1, Zenon
<1>8. Len(o \o v) - Len(o) = c + len
  BY <1>1, <1>5, <1>7
<1> QED
  BY <1>1, <1>3, <1>6, <1>8, Zenon

\* A piece is written after what is copied of its file.
LEMMA ReceiveDataCopies == ASSUME Exchange, CopiesInv, ReceiveData PROVE CopiesInv'
<1> USE DEF CopiesInv
<1> DEFINE piece == [k \in 1 .. Received.len |-> <<Received.name, Received.from + k>>]
           s == size[File]
           from == Received.from
           len == Received.len
           c == Copied(File)
<1>1. /\ r_phase = "data" /\ Receive /\ AfterPiece(count - 1)
      /\ copies' = [copies EXCEPT ![filename] = @ \o piece]
      /\ UNCHANGED <<files_number, filename>>
  BY DEF ReceiveData
<1>2. /\ Copying /\ filename = File /\ File \in Names /\ Received.name = File
      /\ Got = from /\ s \in Nat \ {0} /\ from \in Nat /\ len \in Nat /\ offset = from + len
      /\ offset <= s /\ offset \in Nat
      /\ count - 1 \in Int
      /\ s = offset => count - 1 = 0
      /\ s # offset => count - 1 > 0
  <2>1. s \in Nat /\ s > 0 /\ Received.len \in Nat \ {0}
    BY PieceIs
  <2>2. s \in Nat \ {0} /\ len \in Nat
    BY <2>1
  <2> QED
    BY <2>2, PieceIs
<1>3. TypeInv /\ Len(args) \in Nat
  BY DEF Exchange, TypeInv
<1>4. UNCHANGED <<args, size, old, offset>>
  BY <1>1 DEF Receive, inputs, sender
<1>5. Got' = offset
  BY ReceiveDataKeeps
<1>6. \A n \in Names : Old(n)' = Old(n)
  BY <1>4 DEF Old
<1>7. \A n \in Names : n # File => copies'[n] = copies[n] /\ Copied(n)' = Copied(n)
  <2>1. copies = [n \in Names |-> copies[n]]
    BY <1>3 DEF TypeInv
  <2>2. \A n \in Names : n # File => copies'[n] = copies[n]
    BY <1>1, <1>2, <2>1
  <2> QED
    BY <1>6, <2>2, Zenon DEF Copied
<1>8. c \in Nat /\ copies[File] = Old(File) \o Content(File, s, c)
  BY <1>2 DEF Form
<1>9. copies'[File] = copies[File] \o piece
  <2>1. copies = [n \in Names |-> copies[n]]
    BY <1>3 DEF TypeInv
  <2> HIDE DEF piece
  <2> QED
    BY <1>1, <1>2, <2>1
<1>10. files + 1 \in 1 .. Len(args) /\ args[files + 1] = File
  <2>1. Way # <<>>
    <3>1. r_phase' \notin {"start", "number"}
      BY <1>1 DEF AfterPiece
    <3>2. Answer
      BY DEF ReceiveData
    <3> QED
      BY <1>1, <3>1, <3>2, Taken
  <2>2. arg \in 1 .. Len(args) /\ files = arg - 1
    BY <1>1, <1>2, <2>1, Arrives DEF Copying, SameFile
  <2>3. files + 1 = arg
    BY <1>3, <2>2
  <2> QED
    BY <2>2, <2>3 DEF File
<1>11. c = Done(File) * s + from /\ Done(File) \in Nat
  <2>1. Extra(File) = from
    BY <1>1, <1>2, Zenon DEF Extra
  <2>2. r_phase # "failed"
    BY <1>1
  <2>3. c = Done(File) * s + Extra(File)
    BY <1>2, <2>2, Zenon DEF Amount
  <2> QED
    BY <1>2, <1>3, <1>10, <2>1, <2>3, DoneNext
<1>12. Before(Old(File))
  BY DEF Old, Before
<1>13. piece = [k \in 1 .. len |-> <<File, from + k>>] /\ from + len <= s
  BY <1>2
<1> HIDE DEF piece, s, from, len, c
<1>14. /\ (Old(File) \o Content(File, s, c)) \o piece = Old(File) \o Content(File, s, c + len)
       /\ Len(Old(File) \o Content(File, s, c + len)) - Len(Old(File)) = c + len
       /\ c + len \in Nat
  <2>1. PICK f, z, t, w, l, d, p, o :
           /\ f = File /\ z = s /\ t = Done(File) /\ w = from /\ l = len /\ d = c /\ p = piece
           /\ o = Old(File)
    OBVIOUS
  <2>2. Continues(f, z, t, w, l, d, p) /\ (Before(o))
    <3>1. z \in Nat \ {0} /\ t \in Nat /\ w \in Nat /\ l \in Nat /\ d \in Nat
      BY <1>2, <1>8, <1>11, <2>1, Zenon DEF s, from, len
    <3>2. w + l <= z /\ d = t * z + w /\ p = [k \in 1 .. l |-> <<f, w + k>>]
      BY <1>11, <1>13, <2>1, Zenon
    <3>3. Before(o)
      BY <1>12, <2>1, Zenon
    <3> QED
      BY <3>1, <3>2, <3>3, Zenon DEF Continues
  <2>3. /\ (o \o Content(f, z, d)) \o p = o \o Content(f, z, d + l)
        /\ Len(o \o Content(f, z, d + l)) - Len(o) = d + l
        /\ d + l \in Nat
    BY <2>2, CopyGrows, Zenon
  <2> QED
    BY <2>1, <2>3, Zenon
<1>15. copies'[File] = Old(File) \o Content(File, s, c + len)
  BY <1>8, <1>9, <1>14, Zenon DEF s, c
<1>16. Len(copies'[File]) - Len(Old(File)) = c + len
  BY <1>14, <1>15, Zenon
<1>17. PICK f \in Names : f = File
  BY <1>2
<1>18. Copied(f)' = c + len
  <2>1. Copied(f)' = Len(copies'[f]) - Len(Old(f)')
    BY DEF Copied
  <2> QED
    BY <1>6, <1>16, <1>17, <2>1
<1>19. Form'
  <2> SUFFICES ASSUME NEW n \in Names
               PROVE  /\ Copied(n)' \in Nat
                      /\ copies'[n] = Old(n)' \o Content(n, size'[n], Copied(n)')
    BY DEF Form
  <2>1. CASE n = File
    <3>1. n = f
      BY <1>17, <2>1
    <3>2. Copied(n)' = c + len
      BY <1>18, <3>1
    <3>3. size'[n] = s
      BY <1>4, <2>1 DEF s
    <3>4. copies'[n] = Old(n) \o Content(n, s, c + len)
      BY <1>15, <2>1
    <3> QED
      BY <1>6, <1>14, <3>2, <3>3, <3>4, Zenon
  <2>2. CASE n # File
    <3>1. Copied(n) \in Nat /\ copies[n] = Old(n) \o Content(n, size[n], Copied(n))
      BY DEF Form
    <3> QED
      BY <1>4, <1>6, <1>7, <2>2, <3>1, Zenon
  <2> QED
    BY <2>1, <2>2
<1>20. Amount'
  <2> SUFFICES ASSUME NEW n \in Names
               PROVE  Copied(n)' = Done(n)' * size[n] + Extra(n)'
    BY <1>4 DEF Amount
  <2>1. Copied(n) = Done(n) * size[n] + (IF n = File THEN from ELSE 0)
    <3>1. r_phase # "failed"
      BY <1>1
    <3>2. Copied(n) = Done(n) * size[n] + Extra(n)
      BY <3>1, Zenon DEF Amount
    <3>3. Extra(n) = IF n = File THEN from ELSE 0
      BY <1>1, <1>2, Zenon DEF Extra, from
    <3> QED
      BY <3>2, <3>3, Zenon
  <2>2. n = File => Copied(n)' = c + len /\ Copied(n) = c /\ size[n] = s
    BY <1>17, <1>18 DEF c, s
  <2>3. n # File => Copied(n)' = Copied(n)
    BY <1>7
  <2>4. Done(n) \in Nat
        /\ NumberOf(SubSeq(args, 1, files + 1), {n}) = Done(n) + (IF File = n THEN 1 ELSE 0)
    BY <1>3, <1>10, DoneNext
  <2>5. CASE s # offset
    <3>1. files' = files /\ r_phase' = "data"
      BY <1>1, <1>2, <2>5 DEF AfterPiece, s
    <3>2. Done(n)' = Done(n)
      BY <1>4, <3>1, Zenon DEF Done
    <3>3. Extra(n)' = IF n = File THEN offset ELSE 0
      BY <1>1, <1>2, <1>5, <3>1, Zenon DEF Extra
    <3>4. CASE n = File
      <4>1. c + len = Done(n) * s + offset
        <5>1. c = Done(n) * s + from
          BY <2>1, <2>2, <3>4, Zenon
        <5>2. Done(n) * s \in Nat
          BY <1>2, <2>4 DEF s
        <5> QED
          BY <1>2, <5>1, <5>2 DEF from, len
      <4> QED
        BY <2>2, <3>2, <3>3, <3>4, <4>1, Zenon
    <3>5. CASE n # File
      BY <2>1, <2>3, <3>2, <3>3, <3>5, Zenon
    <3> QED
      BY <3>4, <3>5
  <2>6. CASE s = offset
    <3>1. count - 1 = 0 /\ ~(0 > 0) /\ 0 <= 0
      BY <1>2, <2>6 DEF s
    <3>2. files' = files + 1 /\ r_phase' # "data"
      <4>1. AfterPiece(0)
        BY <1>1, <3>1
      <4> QED
        BY <4>1 DEF AfterPiece
    <3>3. Done(n)' = Done(n) + (IF File = n THEN 1 ELSE 0)
      <4>1. Done(n)' = NumberOf(SubSeq(args, 1, files + 1), {n})
        BY <1>4, <3>2, Zenon DEF Done
      <4> QED
        BY <2>4, <4>1, Zenon
    <3>4. Extra(n)' = 0
      BY <3>2, Zenon DEF Extra
    <3>5. CASE n = File
      <4>1. Done(n)' = Done(n) + 1
        BY <3>3, <3>5, Zenon
      <4>2. c + len = (Done(n) + 1) * s + 0
        <5>1. c = Done(n) * s + from
          BY <2>1, <2>2, <3>5, Zenon
        <5>2. from + len = s /\ s \in Nat /\ from \in Nat /\ len \in Nat
          BY <1>2, <2>6 DEF s, from, len
        <5>3. PICK d \in Nat : d = Done(n)
          BY <2>4
        <5>4. (d + 1) * s = d * s + s /\ d * s \in Nat
          BY <5>2
        <5>5. c = d * s + from
          BY <5>1, <5>3
        <5> QED
          BY <5>2, <5>3, <5>4, <5>5
      <4> QED
        BY <2>2, <3>4, <3>5, <4>1, <4>2, Zenon
    <3>6. CASE n # File
      <4>1. Done(n)' = Done(n)
        <5>1. Done(n)' = Done(n) + 0
          BY <3>3, <3>6, Zenon
        <5> QED
          BY <2>4, <5>1
      <4> QED
        BY <2>1, <2>3, <3>4, <3>6, <4>1, Zenon
    <3> QED
      BY <3>5, <3>6
  <2> QED
    BY <2>5, <2>6
<1> QED
  BY <1>19, <1>20

LEMMA InitCopies == Init => CopiesInv
<1> SUFFICES ASSUME Init PROVE CopiesInv
  OBVIOUS
<1>1. copies = [n \in Names |-> Old(n)] /\ files = 0 /\ r_phase = "start"
      /\ size \in [Names -> -1 .. MaxSize]
  BY DEF Init
<1>2. ASSUME NEW n \in Names
      PROVE  /\ Copied(n) = 0 /\ copies[n] = Old(n) \o Content(n, size[n], 0)
             /\ Done(n) * size[n] + Extra(n) = 0
  <2>1. copies[n] = Old(n)
    BY <1>1
  <2>2. PICK o : o = Old(n) /\ Before(o)
    BY DEF Old, Before
  <2>3. o \in Seq({"old"})
    <3>1. <<>> \in Seq({"old"}) /\ <<"old">> \in Seq({"old"})
      OBVIOUS
    <3> QED
      BY <2>2, <3>1, Zenon DEF Before
  <2>4. Len(o) - Len(o) = 0
    BY <2>3
  <2>5. Content(n, size[n], 0) = <<>>
    <3> DEFINE f == [k \in 1 .. 0 |-> <<n, ((k - 1) % size[n]) + 1>>]
    <3>1. f \in [1 .. 0 -> {0}]
      OBVIOUS
    <3> HIDE DEF f
    <3>2. f \in Seq({0}) /\ Len(f) = 0
      BY <3>1, FunctionIsSeq
    <3>3. f = <<>>
      BY <3>2, EmptySeq
    <3> QED
      BY <3>3 DEF Content, f
  <2>6. o \o <<>> = o
    BY <2>3, ConcatEmptySeq
  <2>7. Done(n) = 0
    <3>1. SubSeq(args, 1, files) = <<>>
      BY <1>1, SubSeqEmpty
    <3>2. NumberOf(<<>>, {n}) = 0
      <4>1. <<>> \in Seq({n}) /\ Len(<<>>) = 0
        BY EmptySeq
      <4> QED
        BY <4>1, NumberOfEmpty
    <3> QED
      BY <3>1, <3>2 DEF Done
  <2>8. Extra(n) = 0
    BY <1>1 DEF Extra
  <2>9. 0 * size[n] + 0 = 0
    <3>1. size[n] \in -1 .. MaxSize /\ MaxSize \in Nat
      BY <1>1, TransferAssumption
    <3> QED
      BY <3>1
  <2>10. Copied(n) = 0
    BY <2>1, <2>2, <2>4, Zenon DEF Copied
  <2>11. copies[n] = Old(n) \o Content(n, size[n], 0)
    BY <2>1, <2>2, <2>5, <2>6, Zenon
  <2>12. Done(n) * size[n] + Extra(n) = 0
    BY <2>7, <2>8, <2>9, Zenon
  <2> QED
    BY <2>10, <2>11, <2>12, Zenon
<1>3. 0 \in Nat
  OBVIOUS
<1>4. Form
  BY <1>2, <1>3, Zenon DEF Form
<1>5. Amount
  BY <1>2, Zenon DEF Amount
<1> QED
  BY <1>4, <1>5 DEF CopiesInv

LEMMA CopiesKept == Exchange /\ CopiesInv /\ [Next]_vars => CopiesInv'
<1> SUFFICES ASSUME Exchange, CopiesInv, [Next]_vars PROVE CopiesInv'
  OBVIOUS
<1>1. CASE Sender
  BY <1>1, SenderCopies
<1>2. CASE Receiver
  BY <1>2, ReceiverCopiesNot, ReceiveSizeCopies, ReceiveDataCopies DEF Receiver
<1>3. CASE ((Link!LinkStep \/ Link!Break) /\ Others) \/ UNCHANGED vars
  <2>1. UNCHANGED <<args, size, old, r_phase, files, filename, copies>>
    BY <1>3 DEF Others, vars, inputs, receiver
  <2>2. Got' = Got
    BY <1>3, LinkKeeps, StutterKeeps
  <2>3. \A n \in Names : Extra(n)' = Extra(n)
    BY <2>1, <2>2, Zenon DEF Extra
  <2> QED
    BY <2>1, <2>3, Untouched DEF CopiesInv
<1> QED
  BY <1>1, <1>2, <1>3 DEF Next

\* A receiver that is done has had every file of the command line.
LEMMA DoneWithAll == ASSUME Exchange, r_phase = "done" PROVE files = Len(args)
<1>1. TypeInv /\ At /\ Alternate /\ Abreast
  BY DEF Exchange, InStep
<1>2. phase \notin {"start", "number"}
  BY <1>1 DEF Alternate
<1>3. NextPiece => files = Len(args) \/ phase \notin InFile
  <2>1. ASSUME NextPiece, phase \in InFile PROVE files = Len(args)
    <3>1. files = arg /\ ~(arg < Len(args))
      <4>1. "done" # "data" /\ "done" # "name"
        OBVIOUS
      <4>2. size[File] = offset
        BY <2>1, <4>1, Zenon DEF NextPiece, Copying
      <4> QED
        BY <2>1, <4>1, <4>2, Zenon DEF NextPiece
    <3>2. arg \in 1 .. Len(args)
      BY <1>1, <2>1, Zenon DEF At
    <3>3. Len(args) \in Nat
      BY <1>1 DEF TypeInv
    <3> QED
      BY <3>1, <3>2, <3>3
  <2> QED
    BY <2>1
<1>4. ~Copying
  BY DEF Copying
<1> QED
  BY <1>1, <1>2, <1>3, <1>4 DEF At, InFile, Abreast

LEMMA CopiedFaithfully == Exchange /\ CopiesInv => CopiesFaithful
<1> SUFFICES ASSUME Exchange, CopiesInv, NEW n \in Names
             PROVE  /\ copies[n] = Old(n) \o Content(n, size[n], Copied(n))
                    /\ r_phase = "done" => Copied(n) = Times(n) * size[n]
  BY Zenon DEF CopiesFaithful, Content, Copied
<1>1. copies[n] = Old(n) \o Content(n, size[n], Copied(n))
  BY DEF CopiesInv, Form
<1>2. ASSUME r_phase = "done" PROVE Copied(n) = Times(n) * size[n]
  <2>1. args \in Seq(Names) /\ size[n] \in Int
    <3>1. args \in Seq(Names) /\ size[n] \in -1 .. MaxSize /\ MaxSize \in Nat
      BY TransferAssumption DEF Exchange, TypeInv
    <3> QED
      BY <3>1
  <2>2. SubSeq(args, 1, files) = args
    BY <1>2, <2>1, DoneWithAll, SubSeqFull
  <2>3. Done(n) = Times(n)
    <3>1. PlacesIn(args, {n}) = {k \in DOMAIN args : args[k] = n}
      BY <2>1 DEF PlacesIn
    <3> QED
      BY <2>2, <3>1, Zenon DEF Done, Times, NumberOf
  <2>4. Done(n) \in Nat
    BY <2>1, <2>2, NumberIsNat DEF Done
  <2>5. Copied(n) = Done(n) * size[n] + Extra(n)
    BY <1>2 DEF CopiesInv, Amount
  <2>6. Extra(n) = 0
    BY <1>2 DEF Extra
  <2>7. \A d \in Nat : \A z \in Int : d * z + 0 = d * z
    OBVIOUS
  <2>8. Copied(n) = Done(n) * size[n]
    BY <2>1, <2>4, <2>5, <2>6, <2>7, Zenon
  <2> QED
    BY <2>3, <2>8, Zenon
<1> QED
  BY <1>1, <1>2

\* CopiesFaithful holds in every reachable state: what recv.c writes is the files,
\* byte for byte, and all of each when it is done.
THEOREM CopiesComplete == Spec => []CopiesFaithful
<1>1. Init => Exchange /\ CopiesInv
  BY InitExchange, InitCopies
<1>2. (Exchange /\ CopiesInv) /\ [Next]_vars => (Exchange /\ CopiesInv)'
  BY ExchangeKept, CopiesKept
<1> QED
  BY <1>1, <1>2, CopiedFaithfully, PTL DEF Spec
=============================================================================
