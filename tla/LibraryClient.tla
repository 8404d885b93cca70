---------------------------- MODULE LibraryClient ---------------------------
(***************************************************************************)
(* The client of the web library of tema3 (client.cpp, requests.cpp,       *)
(* helpers.cpp, buffer.cpp).  It runs one command at a time: it opens a    *)
(* connection, which it never closes, sends a request with the cookie or   *)
(* the token it holds, reads the answer in whatever pieces it comes, and   *)
(* keeps what the answer gives.                                            *)
(*                                                                         *)
(* A session is a number; a cookie or a token is named by its session, 0   *)
(* for none.  An answer has five parts at most: the status line, the other *)
(* headers, the end of the header, the start and the rest of the body.     *)
(* The server is modelled by what the client expects of it; it may close   *)
(* or reset the connection at any moment.                                  *)
(***************************************************************************)
EXTENDS Integers

CONSTANTS FdLimit   \* sockets that the process may have open

ASSUME LibraryAssumption == FdLimit \in Nat

VARIABLES
    status,             \* "running", "exited" or "crashed"
    cookies, token_access,
    command, phase,     \* the command and where it is
    request,            \* the cookie and the token of the request
    opened,             \* sockets opened so far
    size, content_length, header_end,   \* of receive_from_server()
    sessions, latest,   \* sessions the server knows, and the last one it opened
    answer, sent, closed    \* the answer, how much of it has come, end of stream

held == <<cookies, token_access>>
buffer == <<size, content_length, header_end>>
server == <<sessions, latest, answer>>
stream == <<sent, closed>>
vars == <<status, held, command, phase, request, opened, buffer, server, stream>>

ByCookie == {"enter_library", "logout"}
ByToken == {"get_books", "get_book", "add_book", "delete_book"}
Commands == {"register", "login"} \cup ByCookie \cup ByToken

\* ok: not an error; json: the body is JSON; length: it has a Content-Length.
Answers == [ok : BOOLEAN, json : BOOLEAN, length : BOOLEAN, body : {0, 2}]
NoAnswer == [ok |-> FALSE, json |-> FALSE, length |-> FALSE, body |-> 0]
HeaderSize == 3
Size(a) == HeaderSize + a.body

Init ==
    /\ status = "running" /\ cookies = 0 /\ token_access = 0
    /\ command = "none" /\ phase = "prompt" /\ request = [cookie |-> 0, token |-> 0]
    /\ opened = 1
    /\ size = 0 /\ content_length = 0 /\ header_end = 0
    /\ sessions = {} /\ latest = 0 /\ answer = NoAnswer /\ sent = 0 /\ closed = FALSE

-----------------------------------------------------------------------------
(* A command up to its request.                                              *)

\* Mutant of free_stored_data: the token is left.
free_cookie == cookies' = 0 /\ UNCHANGED token_access

free_stored_data == cookies' = 0 /\ token_access' = 0

compute_get_request(cookie, authorization) == [cookie |-> cookie, token |-> authorization]
compute_post_request(authorization) == [cookie |-> 0, token |-> authorization]
compute_delete_request(authorization) == [cookie |-> 0, token |-> authorization]

Request(c) ==
    CASE c \in ByCookie -> compute_get_request(cookies, 0)
      [] c \in {"get_books", "get_book"} -> compute_get_request(0, token_access)
      [] c \in {"register", "login"} -> compute_post_request(0)
      [] c = "add_book" -> compute_post_request(token_access)
      [] c = "delete_book" -> compute_delete_request(token_access)

\* login forgets what is held before it asks.
Start(c) ==
    /\ status = "running" /\ phase = "prompt" /\ opened < FdLimit
    /\ opened' = opened + 1
    /\ command' = c /\ phase' = "request" /\ request' = Request(c)
    /\ IF c = "login" THEN free_stored_data ELSE UNCHANGED held
    /\ size' = 0 /\ content_length' = 0 /\ header_end' = 0
    /\ sent' = 0 /\ closed' = FALSE
    /\ UNCHANGED <<status, server>>

\* error(): no descriptor is left for another connection.
open_connection_fails ==
    /\ status = "running" /\ phase = "prompt" /\ opened = FdLimit
    /\ status' = "exited"
    /\ UNCHANGED <<held, command, phase, request, opened, buffer, server, stream>>

handle_exit ==
    /\ status = "running" /\ phase = "prompt"
    /\ free_stored_data /\ status' = "exited"
    /\ UNCHANGED <<command, phase, request, opened, buffer, server, stream>>

-----------------------------------------------------------------------------
(* The server.  Errors come as JSON, and so does what enter_library and the  *)
(* reading of books ask for.  An answer has a length, or ends with the       *)
(* connection.                                                               *)

Reply(ok) ==
    \E a \in Answers :
        /\ a.ok = ok
        /\ (~ok \/ command \in {"enter_library", "get_books", "get_book"}) => a.json
        /\ a.json => a.body > 0
        /\ answer' = a

ServerAnswers ==
    /\ phase = "request" /\ phase' = "header"
    /\ \/ /\ Reply(FALSE)
          /\ UNCHANGED <<sessions, latest>>
       \/ /\ command \in {"register"} \cup ByToken
          /\ command \in ByToken => request.token # 0
          /\ Reply(TRUE)
          /\ UNCHANGED <<sessions, latest>>
       \/ /\ command = "login"
          /\ Reply(TRUE)
          /\ latest' = latest + 1 /\ sessions' = sessions \cup {latest + 1}
       \/ /\ command = "enter_library" /\ request.cookie \in sessions
          /\ Reply(TRUE)
          /\ UNCHANGED <<sessions, latest>>
       \/ /\ command = "logout" /\ request.cookie \in sessions
          /\ Reply(TRUE)
          /\ sessions' = sessions \ {request.cookie} /\ UNCHANGED latest
    /\ UNCHANGED <<status, held, command, request, opened, buffer, stream>>

\* A session may end by itself.
Expire ==
    \E s \in sessions :
        /\ sessions' = sessions \ {s}
        /\ UNCHANGED <<status, held, command, phase, request, opened, buffer, latest,
                       answer, stream>>

InStream == phase \in {"header", "body"} /\ ~closed
QuietServer == UNCHANGED <<status, held, command, phase, request, opened, buffer, server>>

ServerSends ==
    /\ InStream /\ sent < Size(answer)
    /\ sent' \in sent + 1 .. Size(answer)
    /\ UNCHANGED closed /\ QuietServer

\* After an answer without a length, or before the end of any answer.
ServerCloses ==
    /\ InStream
    /\ closed' = TRUE
    /\ UNCHANGED sent /\ QuietServer

-----------------------------------------------------------------------------
(* receive_from_server().                                                    *)

\* read() and buffer_add().
Read ==
    /\ size < sent
    /\ size' \in size + 1 .. sent

EndOfStream == closed /\ size = sent

Reading(p) ==
    /\ status = "running" /\ phase = p
    /\ UNCHANGED <<status, held, command, request, opened, server, stream>>

\* buffer_find(): where the header ends, or -1.
FindHeader(n) == IF n >= HeaderSize THEN HeaderSize ELSE -1

\* Mutant of ReadHeader: the length is looked for at the first piece only.
ReadHeaderOnce ==
    /\ Reading("header")
    /\ Read
    /\ header_end' = FindHeader(size')
    /\ phase' = "body"
    /\ content_length' = IF header_end' >= 0 /\ answer.length THEN answer.body ELSE 0

\* A length is looked for as soon as the header is whole.
ReadHeader ==
    /\ Reading("header")
    /\ \/ /\ Read
          /\ header_end' = FindHeader(size')
          /\ IF header_end' >= 0 /\ answer.length
             THEN content_length' = answer.body /\ phase' = "body"
             ELSE UNCHANGED <<content_length, phase>>
       \/ /\ EndOfStream
          /\ phase' = "body"
          /\ UNCHANGED buffer

\* total is a size_t: all that can be read when the header was not found.
Incomplete == header_end < 0 \/ size < content_length + header_end

\* Mutant of ReadBody: the end of the stream is not looked at.
ReadBodyOnly ==
    /\ Reading("body")
    /\ \/ Incomplete /\ Read /\ UNCHANGED phase
       \/ ~Incomplete /\ phase' = "handle" /\ UNCHANGED size
    /\ UNCHANGED <<content_length, header_end>>

ReadBody ==
    /\ Reading("body")
    /\ \/ Incomplete /\ Read /\ UNCHANGED phase
       \/ /\ ~Incomplete \/ EndOfStream
          /\ phase' = "handle" /\ UNCHANGED size
    /\ UNCHANGED <<content_length, header_end>>

\* connect(), write() or read() failed: the server refused or reset the connection.
error ==
    /\ status = "running" /\ phase \in {"request", "header", "body"}
    /\ phase = "body" => Incomplete
    /\ status' = "exited" /\ phase' = "prompt"
    /\ UNCHANGED <<held, command, request, opened, buffer, server, stream>>

-----------------------------------------------------------------------------
(* What the handlers make of the answer.                                     *)

BodySeen == answer.json /\ size > HeaderSize      \* there is a "{" or a "["
Parsed == BodySeen /\ size = Size(answer)          \* json::parse does not throw
StatusSeen == size > 0
ErrorSeen == Parsed /\ ~answer.ok

Handling(c) ==
    /\ status = "running" /\ phase = "handle" /\ command = c
    /\ phase' = "prompt" /\ command' = "none"
    /\ UNCHANGED <<request, opened, buffer, server, stream>>

\* A handler that can do without a body, and one that cannot.
OptionalBody == StatusSeen /\ (BodySeen => Parsed)
NeededBody == Parsed

Survive(readable) == status' = IF readable THEN "running" ELSE "crashed"

\* take_cookie() runs past an answer that has no cookie.
take_cookie == answer.ok /\ size > 1

handle_auth(c) ==
    /\ Handling(c)
    /\ IF c = "login" /\ ~ErrorSeen
       THEN /\ Survive(OptionalBody /\ take_cookie)
            /\ cookies' = IF take_cookie THEN latest ELSE cookies
       ELSE Survive(OptionalBody) /\ UNCHANGED cookies
    /\ UNCHANGED token_access

\* An error leaves the token that there was.
handle_enter_library ==
    /\ Handling("enter_library")
    /\ Survive(NeededBody)
    /\ token_access' = IF Parsed /\ answer.ok THEN request.cookie ELSE token_access
    /\ UNCHANGED cookies

handle_get_books == Handling("get_books") /\ Survive(NeededBody) /\ UNCHANGED held
handle_get_book == Handling("get_book") /\ Survive(NeededBody) /\ UNCHANGED held
handle_add_book == Handling("add_book") /\ Survive(OptionalBody) /\ UNCHANGED held
handle_delete_book == Handling("delete_book") /\ Survive(OptionalBody) /\ UNCHANGED held

\* Whatever the server says, what is held is forgotten.
handle_logout == Handling("logout") /\ Survive(OptionalBody) /\ free_stored_data

HandleAnswer ==
    \/ handle_auth("register") \/ handle_auth("login") \/ handle_enter_library
    \/ handle_get_books \/ handle_get_book \/ handle_add_book \/ handle_delete_book
    \/ handle_logout

Client ==
    \/ \E c \in Commands : Start(c)
    \/ open_connection_fails \/ error \/ handle_exit
    \/ ReadHeader \/ ReadBody \/ HandleAnswer

Next == Client \/ ServerAnswers \/ Expire \/ ServerSends \/ ServerCloses

Spec == Init /\ [][Next]_vars

\* The client reads and handles what comes; the server answers, sends all of an
\* answer unless it closes, and closes after an answer without a length.
FairSpec ==
    /\ Spec
    /\ WF_vars(ReadHeader \/ ReadBody \/ HandleAnswer)
    /\ WF_vars(ServerAnswers) /\ WF_vars(ServerSends)
    /\ WF_vars(sent = Size(answer) /\ ~answer.length /\ ServerCloses)

-----------------------------------------------------------------------------
(* Properties.                                                               *)

\* The cookie is that of the session the server opened last, and the token was
\* given for that very cookie: no login, logout, error or session that expired on
\* the way mixes two sessions.
CredentialsOfOneLogin ==
    status = "running" =>
        /\ cookies \in {0, latest}
        /\ token_access \in {0, cookies}
        /\ phase # "prompt" => request.cookie \in {0, latest} /\ request.token \in {0, latest}

\* A handler sees the whole answer, in however many pieces it came, unless the
\* server closed the connection early; only such an answer can crash the client.
CutShort == closed /\ sent < Size(answer)
WholeUnlessCut ==
    /\ status = "running" /\ phase = "handle" => size = Size(answer) \/ CutShort
    /\ status = "crashed" => CutShort

\* Every command comes to its end: the client never waits for more than the server
\* sends.
CommandEnds == (phase # "prompt") ~> (phase = "prompt")
=============================================================================
