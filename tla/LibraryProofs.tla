---------------------------- MODULE LibraryProofs ----------------------------
(***************************************************************************)
(* Proofs about LibraryClient, for every number of sockets and every way   *)
(* the server may answer, forget its sessions and cut its answers short.   *)
(***************************************************************************)
EXTENDS LibraryClient, TLAPS

-----------------------------------------------------------------------------
(* Cookie and token.                                                         *)

Busy == phase # "prompt"

\* What is held is of the last login.
Held == latest \in Nat /\ cookies \in {0, latest} /\ token_access \in {0, cookies}

\* What a request carries is what was held when it was sent, and a login carries
\* nothing and finds nothing held.
Carried ==
    Busy => /\ request.cookie \in {0, cookies} /\ request.token \in {0, token_access}
            /\ command = "login" => cookies = 0
            /\ command = "enter_library" => request.cookie = cookies

CredentialInv == Held /\ Carried

\* The request of a command holds the cookie or the token, or nothing.
LEMMA RequestCarries ==
    ASSUME NEW c \in Commands
    PROVE  /\ Request(c).cookie \in {0, cookies} /\ Request(c).token \in {0, token_access}
           /\ c = "login" => Request(c).cookie = 0 /\ Request(c).token = 0
           /\ c = "enter_library" => Request(c).cookie = cookies
BY DEF Request, Commands, ByCookie, ByToken, compute_get_request, compute_post_request,
       compute_delete_request

\* Starting a command.
LEMMA StartCredentials ==
    ASSUME CredentialInv, NEW c \in Commands, Start(c)
    PROVE  CredentialInv'
<1>1. /\ request' = Request(c) /\ command' = c /\ latest' = latest
      /\ IF c = "login" THEN free_stored_data ELSE UNCHANGED held
  BY DEF Start, server
<1>2. CASE c = "login"
  <2>1. cookies' = 0 /\ token_access' = 0
    BY <1>1, <1>2 DEF free_stored_data
  <2>2. request'.cookie = 0 /\ request'.token = 0
    BY <1>1, <1>2, RequestCarries
  <2> QED
    BY <1>1, <1>2, <2>1, <2>2 DEF CredentialInv, Held, Carried
<1>3. CASE c # "login"
  <2>1. cookies' = cookies /\ token_access' = token_access
    BY <1>1, <1>3 DEF held
  <2>2. /\ request'.cookie \in {0, cookies} /\ request'.token \in {0, token_access}
        /\ c = "enter_library" => request'.cookie = cookies
    BY <1>1, RequestCarries
  <2> QED
    BY <1>1, <1>3, <2>1, <2>2 DEF CredentialInv, Held, Carried
<1> QED
  BY <1>2, <1>3

\* A session that is opened is opened by a login, when nothing is held.
LEMMA ServerAnswersCredentials ==
    ASSUME CredentialInv, ServerAnswers
    PROVE  CredentialInv'
<1>1. Busy /\ UNCHANGED <<held, command, request>>
  BY DEF ServerAnswers, Busy
<1>2. latest' = latest \/ (command = "login" /\ latest' = latest + 1)
  BY DEF ServerAnswers
<1> QED
  BY <1>1, <1>2 DEF CredentialInv, Held, Carried, Busy, held

\* What a handler keeps.
LEMMA HandleCredentials ==
    ASSUME CredentialInv, HandleAnswer
    PROVE  CredentialInv'
<1>1. /\ Busy /\ phase' = "prompt" /\ latest' = latest
      /\ \/ UNCHANGED held
         \/ command = "login" /\ cookies' \in {latest, cookies} /\ UNCHANGED token_access
         \/ /\ command = "enter_library" /\ token_access' \in {request.cookie, token_access}
            /\ UNCHANGED cookies
         \/ free_stored_data
  BY DEF HandleAnswer, handle_auth, handle_enter_library, handle_get_books, handle_get_book,
         handle_add_book, handle_delete_book, handle_logout, Handling, Busy, held, server
<1> QED
  BY <1>1 DEF CredentialInv, Held, Carried, Busy, held, free_stored_data

\* Every other step leaves what is held, and the request, alone.
LEMMA NextCredentials ==
    ASSUME CredentialInv, [Next]_vars
    PROVE  CredentialInv'
<1>1. CASE \E c \in Commands : Start(c)
  BY <1>1, StartCredentials
<1>2. CASE handle_exit
  BY <1>2 DEF handle_exit, free_stored_data, CredentialInv, Held, Carried, Busy, server
<1>3. CASE ServerAnswers
  BY <1>3, ServerAnswersCredentials
<1>4. CASE HandleAnswer
  BY <1>4, HandleCredentials
<1>5. CASE \/ open_connection_fails \/ error \/ ReadHeader \/ ReadBody
           \/ Expire \/ ServerSends \/ ServerCloses \/ UNCHANGED vars
  <2>1. /\ UNCHANGED <<held, latest, request, command>>
        /\ Busy' => Busy
    BY <1>5 DEF open_connection_fails, error, ReadHeader, ReadBody, Reading, Expire, ServerSends,
                ServerCloses, QuietServer, server, vars, Busy
  <2> QED
    BY <2>1 DEF CredentialInv, Held, Carried, held
<1> QED
  BY <1>1, <1>2, <1>3, <1>4, <1>5 DEF Next, Client

\* Cookie and token are always of one login, the last.
THEOREM CredentialsKept == Spec => []CredentialsOfOneLogin
<1>1. Init => CredentialInv
  BY DEF Init, CredentialInv, Held, Carried, Busy
<1>2. CredentialInv /\ [Next]_vars => CredentialInv'
  BY NextCredentials
<1>3. CredentialInv => CredentialsOfOneLogin
  BY DEF CredentialInv, Held, Carried, Busy, CredentialsOfOneLogin
<1> QED
  BY <1>1, <1>2, <1>3, PTL DEF Spec

-----------------------------------------------------------------------------
(* Reading an answer.                                                        *)

Answered == phase \in {"header", "body", "handle"}

\* An answer, and what is known of it.
AnswerTyped ==
    /\ answer \in Answers
    /\ Answered /\ (~answer.ok \/ command \in {"enter_library", "get_books", "get_book"}) =>
            answer.json
    /\ Answered /\ answer.json => answer.body > 0

\* Nothing is read that has not come, and nothing comes that is not in the answer.
Counted ==
    /\ size \in Nat /\ sent \in Nat
    /\ Busy => size <= sent
    /\ phase = "request" => sent = 0
    /\ Answered => sent <= Size(answer)

\* The length that is known when the loop for the body is entered is the right one,
\* or there is nothing more to read.
LengthKnown ==
    /\ phase = "body" =>
        \/ content_length = answer.body /\ header_end = HeaderSize
        \/ EndOfStream
    /\ phase = "handle" => size = Size(answer) \/ EndOfStream

\* A client that has crashed had an answer that was cut short.
CrashOnlyCut ==
    /\ status \in {"running", "exited", "crashed"}
    /\ status # "running" => phase = "prompt"
    /\ status = "crashed" => CutShort

ReadInv == AnswerTyped /\ Counted /\ LengthKnown /\ CrashOnlyCut

\* The size of an answer is a number.
LEMMA SizeNat == ASSUME NEW a \in Answers PROVE Size(a) \in Nat /\ Size(a) = 3 + a.body
BY DEF Answers, Size, HeaderSize

\* A handler fails only over an answer that is not whole.
LEMMA WholeIsHandled ==
    ASSUME ReadInv, phase = "handle", size = Size(answer)
    PROVE  /\ OptionalBody
           /\ command \in {"enter_library", "get_books", "get_book"} => NeededBody
           /\ ~ErrorSeen => take_cookie
<1>1. /\ answer \in Answers /\ size \in Nat /\ answer.body \in {0, 2}
      /\ answer.ok \in BOOLEAN /\ answer.json \in BOOLEAN
  BY DEF ReadInv, AnswerTyped, Counted, Answers
<1>2. size = 3 + answer.body
  BY <1>1, SizeNat
<1>3. /\ ~answer.ok => answer.json
      /\ command \in {"enter_library", "get_books", "get_book"} => answer.json
      /\ answer.json => answer.body > 0
  BY DEF ReadInv, AnswerTyped, Answered
<1>4. answer.json => BodySeen
  BY <1>1, <1>2, <1>3 DEF BodySeen, HeaderSize
<1>5. BodySeen => Parsed
  BY DEF Parsed
<1>6. size > 1
  BY <1>1, <1>2
<1>7. size > 0
  BY <1>6, <1>1
<1> QED
  BY <1>3, <1>4, <1>5, <1>6, <1>7 DEF OptionalBody, NeededBody, StatusSeen, ErrorSeen, take_cookie

\* What the two loops keep.
LEMMA ReadHeaderKeeps == ASSUME ReadInv, ReadHeader PROVE ReadInv'
<1>1. /\ status = "running" /\ status' = status /\ phase = "header"
      /\ UNCHANGED <<command, answer, sent, closed>>
  BY DEF ReadHeader, Reading, server, stream
<1>2. /\ answer \in Answers /\ size \in Nat /\ sent \in Nat /\ size <= sent
      /\ Size(answer) \in Nat
  BY <1>1, SizeNat DEF ReadInv, AnswerTyped, Counted, Busy
<1>3. CASE /\ Read /\ header_end' = FindHeader(size')
           /\ IF header_end' >= 0 /\ answer.length
              THEN content_length' = answer.body /\ phase' = "body"
              ELSE UNCHANGED <<content_length, phase>>
  <2>1. size' \in Nat /\ size' <= sent
    BY <1>2, <1>3 DEF Read
  <2>2. header_end' >= 0 => header_end' = HeaderSize
    BY <1>3 DEF FindHeader, HeaderSize
  <2>3. /\ phase' \in {"header", "body"}
        /\ phase' = "body" => content_length' = answer.body /\ header_end' = HeaderSize
    BY <1>1, <1>3, <2>2
  <2> QED
    BY <1>1, <1>2, <2>1, <2>3
       DEF ReadInv, AnswerTyped, Counted, LengthKnown, CrashOnlyCut, Answered, Busy
<1>4. CASE EndOfStream /\ phase' = "body" /\ UNCHANGED buffer
  BY <1>1, <1>2, <1>4 DEF ReadInv, AnswerTyped, Counted, LengthKnown, CrashOnlyCut,
        Answered, Busy, buffer, EndOfStream
<1> QED
  BY <1>3, <1>4 DEF ReadHeader

LEMMA ReadBodyKeeps == ASSUME ReadInv, ReadBody PROVE ReadInv'
<1>1. /\ status = "running" /\ status' = status /\ phase = "body"
      /\ UNCHANGED <<command, answer, sent, closed, content_length, header_end>>
  BY DEF ReadBody, Reading, server, stream
<1>2. /\ answer \in Answers /\ size \in Nat /\ sent \in Nat /\ size <= sent
      /\ sent <= Size(answer) /\ Size(answer) = 3 + answer.body /\ answer.body \in {0, 2}
  BY <1>1, SizeNat DEF ReadInv, AnswerTyped, Counted, Busy, Answered, Answers
<1>3. CASE Read /\ phase' = phase
  <2>1. size' \in Nat /\ size' <= sent /\ size < sent
    BY <1>2, <1>3 DEF Read
  <2>2. content_length = answer.body /\ header_end = HeaderSize
    BY <1>1, <1>2, <2>1 DEF ReadInv, LengthKnown, EndOfStream
  <2> QED
    BY <1>1, <1>2, <1>3, <2>1, <2>2
       DEF ReadInv, AnswerTyped, Counted, LengthKnown, CrashOnlyCut, Answered, Busy
<1>4. CASE (~Incomplete \/ EndOfStream) /\ phase' = "handle" /\ UNCHANGED size
  <2>1. size = Size(answer) \/ EndOfStream
    <3>1. CASE EndOfStream
      BY <3>1
    <3>2. CASE ~Incomplete /\ ~EndOfStream
      <4>1. content_length = answer.body /\ header_end = 3
        BY <1>1, <3>2 DEF ReadInv, LengthKnown, HeaderSize
      <4> QED
        BY <1>2, <3>2, <4>1 DEF Incomplete
    <3> QED
      BY <1>4, <3>1, <3>2
  <2> QED
    BY <1>1, <1>2, <1>4, <2>1 DEF ReadInv, AnswerTyped, Counted, LengthKnown, CrashOnlyCut,
        Answered, Busy, EndOfStream
<1> QED
  BY <1>3, <1>4 DEF ReadBody

\* The handlers crash over nothing but an answer that was cut short.
LEMMA HandleKeeps == ASSUME ReadInv, HandleAnswer PROVE ReadInv'
<1>1. /\ status = "running" /\ phase = "handle" /\ phase' = "prompt"
      /\ UNCHANGED <<answer, size, sent, closed>>
      /\ \E readable \in {OptionalBody, NeededBody, OptionalBody /\ take_cookie} :
            status' = IF readable THEN "running" ELSE "crashed"
  BY DEF HandleAnswer, handle_auth, handle_enter_library, handle_get_books, handle_get_book,
         handle_add_book, handle_delete_book, handle_logout, Handling, server, stream, buffer,
         Survive
<1>2. /\ answer \in Answers /\ size \in Nat /\ sent \in Nat
      /\ sent <= Size(answer) /\ Size(answer) \in Nat
      /\ size = Size(answer) \/ EndOfStream
  BY <1>1, SizeNat DEF ReadInv, AnswerTyped, Counted, LengthKnown, Answered
<1>3. CASE size = Size(answer)
  <2>1. /\ OptionalBody /\ (~ErrorSeen => take_cookie)
        /\ command \in {"enter_library", "get_books", "get_book"} => NeededBody
    BY <1>1, <1>3, WholeIsHandled
  <2>2. status' = "running"
    BY <2>1, Zenon DEF HandleAnswer, handle_auth, handle_enter_library, handle_get_books,
         handle_get_book, handle_add_book, handle_delete_book, handle_logout, Handling, Survive
  <2> QED
    BY <1>1, <1>2, <2>2 DEF ReadInv, AnswerTyped, Counted, LengthKnown, CrashOnlyCut,
        Answered, Busy
<1>4. CASE size # Size(answer)
  <2>1. CutShort
    BY <1>2, <1>4 DEF EndOfStream, CutShort
  <2>2. CutShort'
    BY <1>1, <2>1 DEF CutShort
  <2>3. status' \in {"running", "crashed"}
    BY <1>1
  <2> QED
    BY <1>1, <1>2, <2>2, <2>3 DEF ReadInv, AnswerTyped, Counted, LengthKnown, CrashOnlyCut,
        Answered, Busy
<1> QED
  BY <1>3, <1>4

\* What the server does on the stream.
LEMMA ServerKeeps ==
    ASSUME ReadInv, ServerAnswers \/ Expire \/ ServerSends \/ ServerCloses
    PROVE  ReadInv'
<1>1. CASE ServerAnswers
  <2>1. /\ phase = "request" /\ phase' = "header" /\ UNCHANGED <<status, command, size, sent, closed>>
        /\ \E ok \in BOOLEAN : Reply(ok)
    BY <1>1 DEF ServerAnswers, buffer, stream
  <2>2. /\ answer' \in Answers
        /\ (~answer'.ok \/ command \in {"enter_library", "get_books", "get_book"}) => answer'.json
        /\ answer'.json => answer'.body > 0
    BY <2>1 DEF Reply
  <2>3. Size(answer') \in Nat
    BY <2>2, SizeNat
  <2>4. sent = 0 /\ size \in Nat /\ size <= sent
    BY <2>1 DEF ReadInv, Counted, Busy
  <2> QED
    BY <2>1, <2>2, <2>3, <2>4 DEF ReadInv, AnswerTyped, Counted, LengthKnown, CrashOnlyCut,
        Answered, Busy
<1>2. CASE Expire
  BY <1>2 DEF Expire, ReadInv, AnswerTyped, Counted, LengthKnown, CrashOnlyCut, Answered,
        Busy, buffer, stream, EndOfStream, CutShort
<1>3. CASE ServerSends
  <2>1. /\ phase \in {"header", "body"} /\ ~closed /\ sent' \in sent + 1 .. Size(answer)
        /\ UNCHANGED <<status, command, phase, size, content_length, header_end, answer, closed>>
    BY <1>3 DEF ServerSends, InStream, QuietServer, buffer, server
  <2>2. answer \in Answers /\ Size(answer) \in Nat /\ sent \in Nat /\ size \in Nat /\ size <= sent
    BY <2>1, SizeNat DEF ReadInv, AnswerTyped, Counted, Busy
  <2>3. sent' \in Nat /\ size <= sent' /\ sent' <= Size(answer)
    BY <2>1, <2>2
  <2>4. phase = "body" => content_length = answer.body /\ header_end = HeaderSize
    BY <2>1 DEF ReadInv, LengthKnown, EndOfStream
  <2>5. status = "running"
    BY <2>1 DEF ReadInv, CrashOnlyCut
  <2> QED
    BY <2>1, <2>2, <2>3, <2>4, <2>5 DEF ReadInv, AnswerTyped, Counted, LengthKnown,
        CrashOnlyCut, Answered, Busy
<1>4. CASE ServerCloses
  <2>1. /\ phase \in {"header", "body"} /\ closed' = TRUE
        /\ UNCHANGED <<status, command, phase, size, content_length, header_end, answer, sent>>
    BY <1>4 DEF ServerCloses, InStream, QuietServer, buffer, server
  <2>2. status = "running"
    BY <2>1 DEF ReadInv, CrashOnlyCut
  <2>3. phase = "body" => \/ content_length = answer.body /\ header_end = HeaderSize
                          \/ EndOfStream'
    BY <2>1 DEF ReadInv, LengthKnown, EndOfStream
  <2> QED
    BY <2>1, <2>2, <2>3 DEF ReadInv, AnswerTyped, Counted, LengthKnown,
        CrashOnlyCut, Answered, Busy
<1> QED
  BY <1>1, <1>2, <1>3, <1>4

\* Every step of the program.
LEMMA NextReads == ASSUME ReadInv, [Next]_vars PROVE ReadInv'
<1>1. ASSUME NEW c \in Commands, Start(c) PROVE ReadInv'
  <2>1. /\ status = "running" /\ phase' = "request" /\ UNCHANGED <<status, answer>>
        /\ size' = 0 /\ sent' = 0 /\ closed' = FALSE
    BY <1>1 DEF Start, server
  <2> QED
    BY <2>1 DEF ReadInv, AnswerTyped, Counted, LengthKnown, CrashOnlyCut, Answered, Busy
<1>2. CASE open_connection_fails \/ error \/ handle_exit
  <2>1. /\ phase' = "prompt" /\ status' = "exited"
        /\ UNCHANGED <<answer, size, sent, closed>>
    BY <1>2 DEF open_connection_fails, error, handle_exit, server, stream, buffer
  <2> QED
    BY <2>1 DEF ReadInv, AnswerTyped, Counted, LengthKnown, CrashOnlyCut, Answered, Busy
<1>3. CASE UNCHANGED vars
  BY <1>3 DEF vars, server, stream, buffer, ReadInv, AnswerTyped, Counted, LengthKnown,
        CrashOnlyCut, Answered, Busy, EndOfStream, CutShort
<1> QED
  BY <1>1, <1>2, <1>3, ReadHeaderKeeps, ReadBodyKeeps, HandleKeeps, ServerKeeps
     DEF Next, Client

\* A handler sees the whole of an answer, and nothing but an answer that was cut
\* short can crash the client.
THEOREM AnswersReadWhole == Spec => []WholeUnlessCut
<1>1. Init => ReadInv
  BY DEF Init, ReadInv, AnswerTyped, Counted, LengthKnown, CrashOnlyCut, Answered, Busy,
         NoAnswer, Answers
<1>2. ReadInv /\ [Next]_vars => ReadInv'
  BY NextReads
<1>3. ReadInv => WholeUnlessCut
  <2> SUFFICES ASSUME ReadInv PROVE WholeUnlessCut
    OBVIOUS
  <2>1. status = "crashed" => CutShort
    BY DEF ReadInv, CrashOnlyCut
  <2>2. ASSUME phase = "handle", size # Size(answer) PROVE CutShort
    <3>1. answer \in Answers /\ sent <= Size(answer) /\ sent \in Nat
      BY <2>2 DEF ReadInv, AnswerTyped, Counted, Answered
    <3>2. Size(answer) \in Nat /\ closed /\ size = sent
      BY <2>2, <3>1, SizeNat DEF ReadInv, LengthKnown, EndOfStream
    <3> QED
      BY <2>2, <3>1, <3>2 DEF CutShort
  <2> QED
    BY <2>1, <2>2 DEF WholeUnlessCut
<1> QED
  BY <1>1, <1>2, <1>3, PTL DEF Spec
=============================================================================
