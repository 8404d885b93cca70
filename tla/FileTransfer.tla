---------------------------- MODULE FileTransfer ----------------------------
(***************************************************************************)
(* The file transfer of lab-02 (send.c, recv.c) over the link (Channel).   *)
(* The sender announces how many files there are, and for each one sends   *)
(* its name, its size and its content in pieces, waiting for an answer     *)
(* after each of these.  The two programs know what a message is from its  *)
(* place in the exchange only: kind is not in the datagram.                *)
(*                                                                         *)
(* A byte of a file is <<name, position>>; a file that cannot be opened    *)
(* has the size -1, as lseek() says.                                       *)
(***************************************************************************)
EXTENDS Integers, Sequences, FiniteSets

CONSTANTS
    Names,
    MaxFiles,        \* bound: names on the command line of the sender
    MaxSize,         \* bound: size of a file
    MAX_LEN,
    BUFFER_SIZE      \* of the link

ASSUME TransferAssumption ==
    /\ MaxFiles \in Nat /\ MaxSize \in Nat
    /\ MAX_LEN \in Nat \ {0, 1} /\ BUFFER_SIZE \in Nat \ {0}

VARIABLES
    broken, up1, up2, in1, in2, inside, out1, out2,   \* the link
    args, size,           \* the sender's command line and files
    old,                  \* what there is of a copy before: "none", "some" or "readonly"
    phase, arg, offset,   \* where the sender is: in which file, how far it has read
    r_phase, files_number, files, filename, count,    \* the receiver
    copies

link == <<broken, up1, up2, in1, in2, inside, out1, out2>>
inputs == <<args, size, old>>
sender == <<phase, arg, offset>>
receiver == <<r_phase, files_number, files, filename, count, copies>>
vars == <<link, inputs, sender, receiver>>

NoName == "no name"
Message == [kind : {"hello", "number", "name", "size", "data"},
            len : -1 .. MaxFiles + MaxSize, name : Names \cup {NoName}, from : Nat]
Msg(kind, len, name, from) == [kind |-> kind, len |-> len, name |-> name, from |-> from]
Hello == Msg("hello", 0, NoName, 0)

Link == INSTANCE Channel WITH
    Values1 <- Message, Values2 <- {"hello", "ACK"},
    Capacity <- BUFFER_SIZE, Lossy <- FALSE, Corrupting <- FALSE

Old(n) == IF old[n] = "none" THEN <<>> ELSE <<"old">>

Init ==
    /\ Link!Init
    /\ args \in UNION {[1 .. k -> Names] : k \in 0 .. MaxFiles}
    /\ size \in [Names -> -1 .. MaxSize]
    /\ old \in [Names -> {"none", "some", "readonly"}]
    /\ phase = "start" /\ arg = 0 /\ offset = 0
    /\ r_phase = "start" /\ files_number = 0 /\ files = 0 /\ filename = NoName
    /\ count = 0
    /\ copies = [n \in Names |-> Old(n)]

-----------------------------------------------------------------------------
(* The sender.                                                               *)

File == args[arg]

Send(msg) == Link!Send1(msg) /\ UNCHANGED <<inputs, receiver>>

\* run_experiment.sh starts the sender a second after the receiver, which the
\* link is taken to know by then.
StartSender ==
    /\ phase = "start" /\ up2
    /\ Send(Hello)
    /\ phase' = "number"
    /\ UNCHANGED <<arg, offset>>

\* Mutant of NextFile: the last file is left out.
NextFileButLast ==
    /\ phase' = IF arg + 1 < Len(args) THEN "name" ELSE "done"
    /\ arg' = arg + 1 /\ offset' = 0

\* The next file, or the end.
NextFile ==
    /\ phase' = IF arg < Len(args) THEN "name" ELSE "done"
    /\ arg' = arg + 1 /\ offset' = 0

SendNumber ==
    /\ phase = "number"
    /\ Send(Msg("number", Len(args), NoName, 0))
    /\ NextFile

SendName ==
    /\ phase = "name"
    /\ Send(Msg("name", 1, File, 0))
    /\ phase' = "name sent"
    /\ UNCHANGED <<arg, offset>>

SendSize ==
    /\ phase = "size"
    /\ Send(Msg("size", size[File], NoName, 0))
    /\ phase' = "size sent"
    /\ UNCHANGED <<arg, offset>>

\* read(): at most MAX_LEN bytes, and -1 for a file that is not open.
Read ==
    CASE size[File] < 0 -> -1
      [] size[File] - offset > MAX_LEN -> MAX_LEN
      [] OTHER -> size[File] - offset

SendData ==
    /\ phase = "data" /\ Read # 0
    /\ Send(Msg("data", Read, File, offset))
    /\ phase' = "data sent"
    /\ offset' = IF Read > 0 THEN offset + Read ELSE offset
    /\ UNCHANGED arg

EndOfFile ==
    /\ phase = "data" /\ Read = 0
    /\ NextFile
    /\ UNCHANGED <<link, inputs, receiver>>

\* Mutant of HandleResponse: after the size the sender does not wait.
HandleResponseNotForSize ==
    /\ \/ /\ out1 # <<>> /\ phase = "name sent"
          /\ out1' = Tail(out1) /\ phase' = "size"
       \/ phase = "size sent" /\ phase' = "data" /\ UNCHANGED out1
       \/ /\ out1 # <<>> /\ phase = "data sent"
          /\ out1' = Tail(out1) /\ phase' = "data"
    /\ UNCHANGED <<broken, up1, up2, in1, in2, inside, out2, inputs, arg, offset, receiver>>

HandleResponse ==
    /\ out1 # <<>>
    /\ out1' = Tail(out1)
    /\ \/ phase = "name sent" /\ phase' = "size"
       \/ phase = "size sent" /\ phase' = "data"
       \/ phase = "data sent" /\ phase' = "data"
    /\ UNCHANGED <<broken, up1, up2, in1, in2, inside, out2, inputs, arg, offset, receiver>>

Sender ==
    \/ StartSender \/ SendNumber \/ SendName \/ SendSize \/ SendData \/ EndOfFile
    \/ HandleResponse

-----------------------------------------------------------------------------
(* The receiver.                                                             *)

Answer == in2' = Append(in2, "ACK")

\* What every step of the receiver does: take the next message.
Receive ==
    /\ out2 # <<>>
    /\ out2' = Tail(out2)
    /\ UNCHANGED <<broken, up1, up2, in1, inside, out1, inputs, sender>>

Received == Head(out2).val

StartReceiver ==
    /\ r_phase = "start"
    /\ Link!Send2("hello")
    /\ r_phase' = "number"
    /\ UNCHANGED <<inputs, sender, files_number, files, filename, count, copies>>

ReceiveNumber ==
    /\ r_phase = "number" /\ Receive
    /\ files_number' = Received.len
    /\ r_phase' = IF Received.len > 0 THEN "name" ELSE "done"
    /\ UNCHANGED <<in2, files, filename, count, copies>>

ReceiveName ==
    /\ r_phase = "name" /\ Receive /\ Answer
    /\ filename' = Received.name
    /\ r_phase' = "size"
    /\ UNCHANGED <<files_number, files, count, copies>>

\* C rounds a quotient towards 0.
Quotient(a, b) == IF a >= 0 THEN a \div b ELSE -((-a) \div b)

\* Mutant of Pieces: a piece that is not full is not counted.
PiecesWhole(n) == Quotient(n, MAX_LEN)

\* Mutant of Pieces: there is always a piece that is not full.
PiecesOneMore(n) == Quotient(n, MAX_LEN) + 1

Pieces(n) ==
    LET whole == Quotient(n, MAX_LEN)
    IN  IF n - whole * MAX_LEN = 0 THEN whole ELSE whole + 1

\* The next file, or the end; k is how many pieces are left of this one.
AfterPiece(k) ==
    /\ count' = k
    /\ files' = IF k > 0 THEN files ELSE files + 1
    /\ r_phase' = CASE k > 0 -> "data"
                    [] k <= 0 /\ files + 1 < files_number -> "name"
                    [] OTHER -> "done"

\* The size is answered before the copy is opened.
ReceiveSize ==
    /\ r_phase = "size" /\ Receive /\ Answer
    /\ IF old[filename] = "readonly"
       THEN r_phase' = "failed" /\ UNCHANGED <<files, count>>
       ELSE AfterPiece(Pieces(Received.len))
    /\ UNCHANGED <<files_number, filename, copies>>

\* write() of -1 bytes fails.
ReceiveData ==
    /\ r_phase = "data" /\ Receive /\ Received.len >= 0
    /\ Answer
    /\ copies' = [copies EXCEPT ![filename] =
                    @ \o [k \in 1 .. Received.len |-> <<Received.name, Received.from + k>>]]
    /\ AfterPiece(count - 1)
    /\ UNCHANGED <<files_number, filename>>

WriteFails ==
    /\ r_phase = "data" /\ Receive /\ Received.len < 0
    /\ r_phase' = "failed"
    /\ UNCHANGED <<in2, files_number, files, filename, count, copies>>

Receiver ==
    \/ StartReceiver \/ ReceiveNumber \/ ReceiveName \/ ReceiveSize \/ ReceiveData
    \/ WriteFails

-----------------------------------------------------------------------------
Others == UNCHANGED <<inputs, sender, receiver>>

Next ==
    \/ Sender \/ Receiver
    \/ Link!LinkStep /\ Others
    \/ Link!Break /\ Others

Spec == Init /\ [][Next]_vars

\* The two programs run when they can, and the link passes on what it has.
FairSpec ==
    /\ Spec
    /\ WF_vars(Sender) /\ WF_vars(Receiver)
    /\ WF_vars(Link!LinkStep /\ Others)

-----------------------------------------------------------------------------
(* Properties.                                                               *)

\* The variables keep their types.
TypeOK ==
    /\ broken \in BOOLEAN /\ up1 \in BOOLEAN /\ up2 \in BOOLEAN
    /\ in1 \in Seq(Message) /\ inside \in Seq(Link!Packet) /\ out2 \in Seq(Link!Packet)
    /\ in2 \in Seq({"hello", "ACK"}) /\ out1 \in Seq({"ACK"})
    /\ args \in Seq(Names) /\ size \in [Names -> -1 .. MaxSize]
    /\ old \in [Names -> {"none", "some", "readonly"}]
    /\ phase \in {"start", "number", "name", "name sent", "size", "size sent",
                  "data", "data sent", "done"}
    /\ arg \in 0 .. MaxFiles + 1 /\ offset \in 0 .. MaxSize
    /\ r_phase \in {"start", "number", "name", "size", "data", "done", "failed"}
    /\ files_number \in 0 .. MaxFiles /\ files \in 0 .. MaxFiles
    /\ filename \in Names \cup {NoName} /\ count \in 0 .. MaxSize
    /\ DOMAIN copies = Names

\* The receiver takes every message for what the sender sent it as, and its file
\* is the sender's: size and number of pieces agree with what read() returns.
PlacesAgree ==
    out2 # <<>> /\ r_phase \notin {"start", "done", "failed"} =>
        /\ r_phase = Received.kind
        /\ r_phase = "data" => filename = Received.name /\ filename = File

\* What the sender sent and the receiver has not read, oldest first.
Vals(packets) == [k \in DOMAIN packets |-> packets[k].val]
OnTheWay == Vals(out2) \o Vals(inside) \o in1

\* One message at most is without an answer, but for the number of files, which
\* has none; and none is when the sender goes on.
Flying == {k \in DOMAIN OnTheWay : OnTheWay[k].kind \in {"name", "size", "data"}}
Acks == {k \in DOMAIN in2 : in2[k] = "ACK"}
StopAndWait ==
    /\ Cardinality(Flying) + Len(out1) + Cardinality(Acks) <= 1
    /\ phase \in {"number", "name", "size", "data"} => Flying = {} /\ out1 = <<>>

\* A copy is what there was of it before, and after that the file itself, once
\* for each time its name is on the command line: complete when the receiver is
\* done, and never anything else on the way.
Times(n) == Cardinality({k \in DOMAIN args : args[k] = n})
CopiesFaithful ==
    \A n \in Names :
        LET copied == Len(copies[n]) - Len(Old(n))
        IN  /\ copies[n] = Old(n) \o [k \in 1 .. copied |-> <<n, ((k - 1) % size[n]) + 1>>]
            /\ r_phase = "done" => copied = Times(n) * size[n]

\* Both programs end when every file can be opened, unless the link breaks.
AllOpen == \A k \in DOMAIN args : size[args[k]] >= 0 /\ old[args[k]] # "readonly"
Finishes == AllOpen ~> (broken \/ (phase = "done" /\ r_phase = "done"))
=============================================================================
