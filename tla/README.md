# Specifications of the programs of this repository

The repository holds the programs of a networking course: three assignments
(`tema1`: an IP router, `tema2`: a publish/subscribe broker, `tema3`: a client
of a web library), a practical test (`test_practic`: a chat server) and eleven
laboratories (`laboratoare/lab-01` to `lab-11`). They share no code; each
directory is a system of its own. This directory models, checks and proves
properties of those among them whose behaviour is hard to test: the ones with
several processes or threads, with sessions, or with a protocol.

Paths below are relative to `src/`.

## Inventory

| Component | State | Operations | How it interacts | What is hard |
|---|---|---|---|---|
| tema2 broker: `server.cpp`, `server_helper.cpp` | set of watched descriptors, five tables of clients, descriptors, subscriptions and stored messages | handlers of stdin, the listening socket, the UDP socket, a client socket, called by one `select()` loop | TCP to subscribers, UDP from publishers | departures and returns between two visits of the scan, descriptors that are used again, five tables that must agree, a dead peer in the middle of a forwarding loop |
| tema2 subscriber: `subscriber.cpp`, `subscriber_helper.cpp` | its socket | connect, identify, subscribe, unsubscribe, receive, exit | TCP to the broker | leaves and is killed at any moment |
| tema2 publisher: `pcom_hw2_udp_client` | none | send a datagram | UDP to the broker | reorders against subscriptions |
| lab-03 and lab-02 link emulator: `link.c`, `queue.c`, `lib.c` | buffer under a lock, list of messages in flight, times, addresses of the peers | three threads: scheduler, forwarding, reverse forwarding | two UDP sockets; mutex and condition variable between threads | lost wakeups, state read under a lock and used after it, overflow, loss, corruption |
| lab-03 `send.c`, `recv.c` | window and counters; loop counter | sliding window with ACK and NACK, checksum | over the link | waiting on each other, window against buffer, counting |
| lab-02 `send.c`, `recv.c` | open file, position; expected pieces, copy | stop-and-wait transfer of files | over the link | both sides must derive the same message sequence; missing files |
| tema1 router: `router.c` (`skel.c`, `queue.c`, `list.c`, `parser.c`) | sorted routing table, ARP table, queue of waiting packets | forward, answer ARP and ICMP | raw packets on its interfaces | one reply releases one packet, a queued address of a local variable, binary search over prefixes of several lengths |
| test_practic `server.cpp`, `client.cpp` | session tables with numbers | connect, list, message by number | TCP | a client that returns is not watched; numbers kept for ever, descriptors used again |
| tema3 `client.cpp`, `requests.cpp`, `helpers.cpp`, `buffer.cpp` | cookie, token | register, login, enter, books, logout | one HTTP exchange per command | which session the cookie and the token are of, answers in pieces or cut short |
| lab-07, lab-08 chat | descriptors | relay | TCP | - |
| lab-04 router, lab-05 ICMP, lab-06 UDP backup, lab-01, lab-09, lab-10, lab-11 | little or none | sequential | - | - |
| course slides, archives, binaries, `tema1/topo.py`, test scripts, routing tables | | | | no program of their own to model; read for what they state |

What makes each component correct: the broker's tables describe the same
sessions and each subscriber gets what it is owed, once and in order; the link
neither reorders nor repeats and loses only where it is told to; the window
sender and the file sender, with their receivers, end, and agree about what
was transferred; the router sends what it
forwards to a route that matches, and nothing waits when every neighbour has
answered; the chat server's tables agree and a message reaches the owner of the
number; the library client never holds the token of another session and reads
its answers whole.

## Modules

| Module | What it is |
|---|---|
| `Broker` | tema2: broker, subscribers, publisher, sockets |
| `PubSub` | what the broker promises, without sockets or tables |
| `BrokerPubSub` | the mapping from `Broker` to `PubSub`; what readme and tests say of delivery |
| `BrokerProofs` | theorems about `Broker`, with the refinement of `PubSub` |
| `LinkEmulator` | lab-03 link emulator, three threads and a clock |
| `Channel` | what the emulator promises: a full-duplex FIFO link that may lose and corrupt one way |
| `LinkProofs` | theorems about `LinkEmulator`, with the refinement of `Channel` |
| `SlidingWindow` | lab-03 sender and receiver, composed with `Channel` |
| `FileTransfer` | lab-02 sender and receiver, composed with `Channel` |
| `RouteTable` | tema1: the routing table, its order and one comparison |
| `Router` | tema1 router, its neighbours and the search in the table |
| `RouterProofs` | theorems about `Router` |
| `SequenceLemmas` | lemmas on queues, on counting what is in them and on finite unions, for the proof modules |
| `WindowProofs` | theorems about `SlidingWindow` |
| `TransferProofs` | theorems about `FileTransfer` |
| `ChatProofs` | theorems about `Chat` |
| `LibraryProofs` | theorems about `LibraryClient` |
| `Chat` | test_practic: chat server and clients |
| `LibraryClient` | tema3: client of the web library, over a stream |
| `MCBroker`, `MCLink`, `MCSlidingWindow`, `MCFileTransfer`, `MCRouter`, `MCChat`, `MCLibraryClient` | instances for TLC |

The labs are layered: `LinkEmulator` implements `Channel` (checked and
proved), and the programs at the two ends are checked against `Channel`.

### Broker

State. `read_fds`, `tmp_fds`, `fd_max`, `active_clients`, `all_clients`,
`active_ids_sockets`, `topics_subs` and `store_and_forward` are the variables
of `main()` in `server.cpp`. `sock` is the process's descriptor table, `conn`
the connections ever made (with both ends and the data on the way), `backlog`
what `accept()` has not taken, `udpq` the UDP socket.

Actions. `Select` is the call of `select()`; then the scan calls the handler
of the lowest descriptor left in `tmp_fds`, and one handler is one step:
`HandleStdinMessage`, `HandleConnectionRequest` (with `RejectConnection`,
`AddNewClient`, `Reconnect`), `HandleUdpMessage` (`UnknownTopic`, `Forward`)
and `HandleTcpMessage` (`Disconnect`, `ReceiveError`, `IgnoreRequest`,
`Subscribe`, `Unsubscribe`). Subscribers and the publisher interleave between
handlers. A descriptor is the lowest free one, as the kernel hands them out,
which is what makes the stale `socket` of a returning client visible. A killed
subscriber resets its connection: the next `send()` there ends the broker
(`SigPipe`), possibly in the middle of a forwarding loop, and a `recv()` that
meets the reset ends it through `DIE`.

Abstractions. A message is a topic and a number; one `recv()` returns one
whole message; a subscriber sends its first request after its identifier was
read; the socket buffers are unbounded, so that `send()` never blocks.

Runs.

* `broker_sessions` (two identifiers, symmetric, three connections, two
  datagrams, two requests, kills): the session tables and the watched set agree
  at all times (`SessionTablesAgree`), every descriptor belongs to the client
  the tables say (`SocketIdentified`), no handler blocks on a descriptor with
  nothing to read (`ScanNeverBlocks`), one subscription per client and topic,
  which only its own requests change, and every step between states with
  current sockets is a step of `PubSub`. Three connections are enough for a
  client that returns while another has taken its descriptor; two datagrams for
  one that comes before and one that comes after a subscription.
* `broker_one_id` (one identifier, three connections, three datagrams, exit):
  messages are stored only for absent store-and-forward subscribers, in the
  order of their publication (`KeptOnlyForAbsent`). The first datagram of a
  topic only creates it and is forwarded to nobody, so that three leave two to
  store, which have an order. A client that returns always gets its old
  descriptor, and the broker implements `PubSub` outright; every connection is
  answered and every datagram and request handled.
* `broker_stored` finds that `reconnect()` sends stored messages to the
  descriptor of the first connection, where `tema2/test.py:548` expects them
  to reach the restarted client.

Not among the runs: `MCBroker_subscribe.cfg` refutes `SubscribeTakesEffect`, a
SUBSCRIBE for a topic without a datagram yet is dropped
(`server_helper.cpp:209`).

Fairness. `WF(BrokerStep)`: the broker is one loop that never waits while a
descriptor is ready. `WF(SendId(c))`, `WF(Receive(c))`: a subscriber process
sends its identifier right after `connect()` and reads what `select()`
reports. Nothing forces anybody to type, publish or leave. Without the
fairness of `SendId` a connected peer that sends nothing stops the broker in
its blocking `recv()`; the liveness properties hold only of peers that are
subscribers.

`CHECK_DEADLOCK FALSE`: when all bounds are used up and everything is handled
`select()` waits, and an ended broker stays ended.

### LinkEmulator and Channel

State. `buffer`, the two `link_up` flags and the sockets are the shared
variables of `link.c`; `in_flight`, `idle_time`, `crt_time`, `stuff` are
locals of `link_scheduler`, `m` the local of `run_forwarding`. `sched` and
`fw` are the places where the two threads can be interrupted. `buffer_lock`
is not a variable: a critical section is one step, and nothing shared is
touched outside of one.

Actions. The scheduler: `Now`, `Deliver` (one message due), `ReadSize` (first
critical section), `Dispatch` or `HoldBack` (second one, and how to wait),
`WakeUp`, `CondWait` or `AssertFails` (third one), `CondReturn` (signalled or
spurious). The forwarding thread: `Hello1`, `Receive1`, `Drop` or `Keep`
(overflow check), `Enqueue` (with the signal). The main thread: `Hello2`,
`Reverse`. `Send1`, `Send2` are the peers, `Tick` the clock.

`Channel` has one queue from end 1 to end 2, which `Enter`s and `Leave`s in
order, loses only on entry and only when configured or when `Capacity` others
are inside, and a perfect queue back. The mapping takes the message being
checked as still outside, and flight, buffer and the message about to be
enqueued as the one queue inside.

Runs.

* `link_full` (buffer of two, transmission 2 ticks, delay 1, four datagrams one
  way and two back, corruption on): `BufferBounded` although check and
  enqueue are two critical sections, `DequeueFindsMessage`, `Paced` (the
  scheduler looks at the oldest flight only), `WaitsOnlyWhenIdle` (no lost
  wakeup), `EverythingLeaves`, and `ImplementsChannel`. A hello and three
  datagrams fill the buffer with one more on its way. A message leaves one tick
  into the transmission of the next, so two are in flight and the scheduler
  wakes while the line is still busy, which is when `Paced` needs its guard.
  `FreeTime` lets the clock run ahead of what anybody waits for.
* `link_assert` finds that `assert(!buffer->size)` (`link.c:272`) fails when a
  datagram arrives between the two critical sections: the process aborts.

Because of that abort `Channel` has `Break`, and what is said of programs over
the link is said "unless the link breaks".

Fairness: each thread runs while it can, and time passes. `pthread_cond_wait`
is only forced to return after a signal, so that `EverythingLeaves` would
catch a lost one. `Channel`'s own fairness is not checked through the mapping,
which TLC cannot do for conditions on `ENABLED`; `EverythingLeaves` states its
consequence.

`LinkAssumption` asks that the two delays are not both 0: the scripts never
set that, and the program then waits with a message in flight.

### SlidingWindow

`window_size` is the argument of `send.c` in frames, any of `Windows`; `phase`
and `i` are the position in its three loops, `in_queue`, `acks`, `nacks` its
counters; `r_phase`, `r_i`, `r` the receiver. The actions are the loops' send
and receive calls. Frames are numbered, which is not in the datagram, to say
which reply is about which frame; of each byte of a payload the one bit is kept
that the link flips, and the checksum is the parity of the data. `garbled` and
`lost` count what the link did.

Run `window` (five frames, a buffer of two, windows 0, 1, 2, 3 and 6):
`InQueueTruthful` (the sender's `in_queue` is the number of frames and replies
between the programs and of frames lost), `NothingLost` (a window not above the
buffer means no drop), `RepliesNumbered` (the frame number it prints is the one
the reply is about, as long as nothing was lost), `Reckoning` (ACKs and NACKs
add up to COUNT, one NACK per corruption), `Finishes`. A window of two turns
twice and does not divide COUNT; three overflows the buffer but not COUNT; 0 is
what an argument below 12 gives. The sender sends `window_size` frames before
it looks at COUNT: with a window above COUNT, and with none, it waits for
replies that nobody sends, and `Finishes` says that it never ends.

Fairness: both programs run when they can; the link's threads deliver. The
sender starts when the link knows the receiver, which is what the `sleep 1` of
`run_experiment.sh` is for. `CHECK_DEADLOCK FALSE`: the programs end.

### FileTransfer

`phase`, `arg`, `offset` are the sender's position, `r_phase`, `files`,
`count`, `filename` the receiver's; `copies` the files it writes, byte by
byte. Names on the command line, sizes (with -1 for a file that cannot be
opened) and what is there of a copy beforehand are chosen initially. `Pieces`
is `recv.c`'s computation with C's division.

Run `transfer_files` (two names, up to two on the command line, possibly
twice the same, sizes -1 to 4 in pieces of 2): `PlacesAgree` (a message is
taken for what it was sent as, since nothing in it says what it is),
`StopAndWait`, `CopiesFaithful` (what is appended is the file, and all of it
at the end), `Finishes` if every file can be opened. Sizes 0 to 4 cover an
empty file, exact multiples and the pieces between. When a file is missing or
its copy cannot be opened the receiver fails and the sender waits for ever;
the safety properties hold there too. Fairness and deadlock as above.

### RouteTable and Router

`RouteTable`. A line of the file is an `Entry`; an address has two octets below
`Octet`, and is compared as the word that a little-endian machine loads, so
that a shorter prefix is a smaller word. `compar` is the C function with its
unsigned difference returned as an `int`. `TablesOf` is every order `qsort` may
leave: entries that compare equal in any order, and, where `compar` is no
order, any in which neighbours agree.

`Router`. State: `rtable`, `arp_table` as in `router.c`; `m`, `start`, `end`
the packet and the bounds while `get_best_route` runs; `waiting` and `frame`
the queue. `forward_packet` enqueues the address of its local `m_copy`, and
always runs at the same depth, so that all elements of the queue point to the
same place: the model keeps how many there are and what the place holds. Calls
in between may overwrite it (`Overwritten`: the checksum is then wrong, or the
header all zeros, which the checksum accepts and the TTL test does not), and it
may have lost its interface and its length when it is used: an ICMP error goes
out on any interface or ends the router (`send_icmp_error`), and a packet of
length 0 ends it too (`WriteFails`). Network: `inbox`, `asked` (requests under
way), `silent` (neighbours that never answer), `out` (what was sent).

Actions. `GetPacket` takes the frame from the lowest readable interface and is
part of `HandleIP`, `HandleEcho`, `HandleRequest`, `Ignore`, `HandleReply`;
the last adds to the ARP table and `Release`s one packet. `Check` is
`forward_packet` up to the search; each comparison of the search is a step
(`GoLeft`, `GoRight`), and `Forward`, `Wait`, `Unreachable`, `WriteFails` are
its ends. Nothing else runs during a search but the network.

Runs.

* `router` (three tables - four networks of one length, a default route with
  one network, none -, two packets for unknown neighbours and two frames more
  out of five kinds, an unasked reply among them): `NoneWaitsInVain` (there is
  always a reply due or unread for each packet that waits, although replies are
  matched by number alone), `Drains` (when every neighbour answers nothing
  waits in the end), `RoutedRightly` (what leaves goes to a matching route's
  next hop even when another's reply released it), `SearchKeepsRoute` (in a
  table of one mask whose words are below half the range the search never
  leaves the route behind). Two waiting packets are the fewest whose pointers
  coincide; four entries give the search three levels.
* `router_twice` (two packets that wait) finds that the second leaves twice and
  the first never, because the queue has two pointers to the one `m_copy`;
  `tema1/README:22-26` says that the original packet is queued and then sent.
  Its TTL is lowered before it is queued (`router.c:113`) and at every release:
  it comes with 4 and leaves with 2 and 1, where `tests.py:315` expects 63 of a
  packet sent with 64.

Not among the runs: `MCRouter_ttl.cfg` refutes `LoweredOnce` with one packet
that waits; `MCRouter_lookup.cfg` refutes `FindsRoute`: with a route to a host
among routes to networks, as in `rtable0.txt`, the search can miss the route
that `router.c:17` promises, which is why `SearchKeepsRoute` and
`RoutedRightly` speak of tables of one mask.

`NoneWaitsInVain` and `Drains` count pointers: they say that the queue empties,
not that what was put in it leaves.

Fairness: `WF(RouterStep)`, one loop that never waits while a frame is there;
`WF(Answer)`, a neighbour that is not silent answers. `Drains` is stated for
runs without silent neighbours. The router may end (`alive`) when it sends a
packet whose length or interface was overwritten. `CHECK_DEADLOCK FALSE`: when
all frames are handled `select()` waits.

### Chat

State. `read_fds`, `tmp_fds`, `fd_max`, `active_clients`, `all_clients`,
`active_nrs_sockets`, `active_socket_client`, `curr_id` are the variables of
`main()` in `server.cpp`; `sock`, `conn`, `backlog` the kernel's, as in
`Broker`. An empty nickname (`NoNick`) is what the server reads from a client
that left before it sent one. Actions are the handlers: `AlreadyConnected`,
`Reconnect`, `add_new_client`; `Disconnect`, `ReceiveError`, and `Request` with
`List`, `Message`, `MessageToNobody` and `Overrun`; and of the clients
`Connect`, `SendNick`, `SendRequest`, `handle_server_message`, `Exit`, `Kill`.

A `recv()` of the server takes BUFLEN bytes (`server.cpp:118`) into the 56 of
one `message`: all the requests that have come, up to 28. The first is handled,
the others are written to what lies behind it on the stack and are gone
(`Takes`, `Taken`). What that does depends on the build: with a few requests
nothing or little, with many the end of the server, so that `Overrun` lets the
server end whenever it takes more than one. A server that goes on with other
variables changed is not modelled. `Send` to a client that has ended succeeds
until the reset has come back; after that it may fail or raise SIGPIPE, which
ends the server, and a `recv()` that meets the reset ends it through `DIE`.

Abstractions: a `recv()` takes whole requests; a client types only once its
nickname was read, and only numbers that can be given; socket buffers are
unbounded; clients are followed as long as the server runs.

Runs.

* `chat` (two nicknames, three connections, two requests):
  `SessionTablesAgree`, `SocketIdentified` (the connection at a descriptor is
  that of the client in the tables, and what is watched or still to be scanned
  has a client), `DeliveredToNumber` (numbers are kept and descriptors used
  again, but a client is sent only what is for its number) and `WatchedServed`
  (who connects is answered, and what comes on a watched descriptor is read).
  Three connections let a client leave, another take its descriptor, and the
  first return; two requests are taken one at a time or both at once.
* `chat_return` finds that a client that returns is never heard: it is put in
  the tables of active clients, but its descriptor not in the set that
  `select()` watches (`server.cpp:89-97`).

Not among the runs: `MCChat_lists.cfg` refutes `ListsAnswered`, two LIST
requests that one `recv()` takes get one answer.

`WatchedServed` says nothing of descriptors that are not watched; who is left
out by that is what `chat_return` shows. The entries of a client that returned
and has left again stay in all tables, which then agree with one another
(`SessionTablesAgree`) and not with the connections.

Fairness: `WF(ServerStep)`, one loop; `WF(SendNick)`, a client sends its
nickname right after `connect()`: until then the server is blocked in
`recv()`. `CHECK_DEADLOCK FALSE`: `select()` may wait for ever.

### LibraryClient

State: `cookies` and `token_access` of `Handler`, named by the session they are
of; `command`, `phase`, `request` the command that runs; `size`,
`content_length`, `header_end` of `receive_from_server`; `opened` the sockets,
which no command closes. The server is external: `sessions`, and an `answer`
with or without JSON and Content-Length, of which `sent` parts have come, and
which it may cut short.

Actions: `Start` (with `free_stored_data` for a login, before it is answered),
`ReadHeader`, `ReadBody` (the two loops of `receive_from_server`, any piece at
a time), and a handler for every command. A handler that looks for a brace, a
line end or a cookie that did not come leaves the buffer or throws: `status`
is then `"crashed"`. `error` is the end of the client when `connect()`,
`write()` or `read()` fails; for `CommandEnds` the end of the client is an end
of its command.

Run `library` (four commands, so that two logins and an entrance fit, with
every answer in every split): `CredentialsOfOneLogin` (the cookie is the last
session's and the token was given for that very cookie), `WholeUnlessCut` (a
handler sees all of the answer unless the server closed early, and only then
can it crash), `CommandEnds`. An answer has a status line, the other headers,
an end and a body in two parts: a cut in each of them differs for the
handlers.

Fairness: the client reads and handles; the server answers, sends what it owes
unless it closes, and closes after an answer without a length, which is what
HTTP asks of it. `CHECK_DEADLOCK FALSE`: the client exits.

## Proofs

TLAPS checks the following for every value of the constants that satisfies the
assumptions named in the modules. They say that bounds are natural numbers and
sizes positive (all of them), that `NoId` and `NoNick` name nobody and nicknames
are finitely many (`BrokerAssumption`, `ChatAssumption`), that the two delays of
the link are not both 0 (`LinkAssumption`), and that lines of a table are
finitely many, next hops and interfaces too, and an id tells one IP or ICMP
packet that arrives from another (`RouterAssumption`).

Every safety invariant, every action property and every refinement of the
passing runs is a theorem. A theorem names its property; what follows is the
inductive invariant behind it and why less is not enough.

`BrokerProofs`.
* `TypeCorrect`, `SessionsConsistent`: neither conjunct of
  `TypeOK /\ SessionTablesAgree` is inductive alone. The types of the tables
  after a disconnection need that the descriptor is in `active_clients`, and
  the agreement of the tables needs their domains to be typed. `AddSession`,
  `ReturnSession` and `DropSession` are the three ways a session changes,
  `SameSessions` every other step.
* `SocketsIdentified`, `ScansNeverBlock`: `SocketInv` adds `InOrder`
  (connections are accepted in the order they were made), `Apart` (no
  connection has two descriptors), `OpenEnds` (the broker closes its end only of
  what it refuses or drops), and that a subscriber sends its identifier before
  its requests (`HelloFirst`). `Apart` is
  what makes a descriptor that is used again belong to the new connection only.
* `SubscribedOnce`, `OwnRequestsOnly`: from `Once` and `SocketInv`; a request
  the broker reads is of the client the tables name for the descriptor.
* `KeptForAbsent`: `Numbered` (datagrams wait in the order of publication, all
  later than what was dispatched), `Subscribers` (only known clients are
  subscribed) and `Kept`.
* `BrokerStepsRefine`: every step between states with current sockets is a step
  of `PubSub` or a stutter, with any number of clients. `RefinementInv` puts the
  invariants above together and adds `Silent` (nothing is on its way to a
  connection that was not accepted yet, nor to a subscriber that has ended),
  without which a first session would start with something owed and a noticed
  departure would take something away. There is one lemma per handler
  (`ConnectionRefines`, `UdpRefines`, `DisconnectRefines`, `RequestRefines`,
  ...); the ones about datagrams compare what is written to a connection
  (`SentTo`) and what is kept (`KeptFor`) with who is entitled. A broker that
  dies of SIGPIPE while it forwards is `Stop` with the clients it had served.
* `CurrentImplements`: a behaviour whose sockets stay current implements
  `PubSub` from its start. `OneClientImplements`: with one identifier and no
  kills they do, so that what `broker_one_id` checks holds for any number of
  connections, topics and messages. The invariant is that whoever ended had
  sent its identifier (`Announced`) and that every descriptor in use or on
  record is the first (`FirstOnly`). Kills must be excluded: a client killed
  before it sent its identifier leaves a session of the empty identifier on the
  first descriptor, and the next one gets the second.

`LinkProofs`. `TypeCorrect`, `BufferNeverOverflows` and `DequeueNeverFails`
from `BufferInv`; `FlightsPaced` and `NoLostWakeup` from `ScheduleInv`, which
adds that the newest flight is due at `idle_time + delay` at the latest, that
nothing is due when the scheduler dispatches, and that nothing is in flight
when it takes the lock to wait. `LinkImplementsChannel` adds `HelloFirst` (a
message being checked is as it was sent, and socket 1 has said hello) and has a
lemma for every action that is a step of `Channel` or a stutter, over lemmas on
queues joined end to end.

`WindowProofs`. `CountTruthful` and `WindowFits` from `QueueInv`: the counters
of each of the sender's three loops (`Loops`), the kinds of what is in the two
queues, and that replies sent, lost frames and frames under way add up.
`OrderKept` needs `NumberInv`: as long as nothing was lost, the frames and the
replies on the way are numbered one after the other, ending at the last one
sent. `ReckoningTrue` needs that there is a NACK counted, a NACK on its way or
a garbled frame on its way for every frame the link corrupted; that is a count
over three places, so most of the lemmas are on counting in queues.

`TransferProofs`. `Agreement` and `OneAtATime` from `Exchange`: at most one
message or one answer is between the two programs, what the receiver waits for
is what the sender is about to send or has sent (`Alternate`, `InStep`), and
its loop counter is abreast of the sender's position. `PlacesAgree` alone says
nothing of the message that comes next. `CopiesComplete` adds `CopiesInv`: each
copy is what was there before followed by the file, over and over (`Form`), and
its length is what the files received so far and the pieces of the present one
come to (`Amount`).

`ChatProofs`. `SessionsConsistent`, `SocketsIdentified` and `NumbersDeliver`
from `ChatInv`: the five tables (`Tables`: which descriptors they name, that no
entry is left of a closed one, that numbers were given once), the connections
(`ConnInv`: accepted in order, read up to what was handled, identified by the
nickname they sent, silent before they are accepted), what is watched
(`Watched`), and `DeliveredToNumber` itself.

`LibraryProofs`. `CredentialsKept` from `CredentialInv`: the cookie and the
token in the request and in the answer under way are of the sessions the client
holds, since a login drops them before it is answered. `AnswersReadWhole` from
`ReadInv`: what has been counted is what has come, a length that is known is
the answer's, and only a cut answer can crash a handler.

`RouterProofs`.
* `TypeCorrect` from `TypeInv`, which adds that what is searched for has at
  least two hops left and that every ARP reply names a neighbour.
* `SearchSucceeds` shows `SearchKeepsRoute` for tables of any size. While all
  words stay below half of the range (`Narrow`), the unsigned difference that
  `compar` returns as an int is the difference of the words, so that what
  `qsort` leaves descends; with one mask (`OneMask`), a route that matches has
  the word that is looked for, and lies on the side the comparison keeps. The
  invariant `SearchInv` adds that the table is sorted and that the search is
  inside it.
* `RoutesFollowed` from `TypeInv /\ SearchInv`.
* `RepliesSuffice`: `NoneWaitsInVain` is inductive with `TypeInv`. The numbers
  it compares are cardinalities of disjoint unions; the step that takes a reply
  is also the one that releases a packet.

Only model-checked, because the proof system does not reach it:

* all liveness (`EveryConnectionAnswered`, `EverythingHandled`,
  `EverythingLeaves`, both `Finishes`, `Drains`, `WatchedServed`,
  `CommandEnds`), which needs `ENABLED`.

## Plan

In this order; what is done is marked.

1. `Broker`, `PubSub`, `BrokerPubSub`, `BrokerProofs` - done.
2. `LinkEmulator`, `Channel`, `LinkProofs` - done.
3. `SlidingWindow`, `FileTransfer` over `Channel`, `WindowProofs`,
   `TransferProofs` - done.
4. `RouteTable`, `Router`, `Chat`, `LibraryClient` and their proofs - done.
5. The refinement of `PubSub` as theorems, one lemma per handler - done.
6. lab-04's linear search next to the search of tema1.

## Not modelled, and why

Failures of local calls that the programs answer with a message and an exit
(`socket`, `bind`, `malloc`); parsing of command lines and formatting of
output; bytes on a TCP stream (a `recv()` takes one message in `Broker` and
whole requests in `Chat`); bounded kernel buffers of UDP sockets, which hold
the few datagrams the window allows; `guess_hz` of the emulator, whose result
is not used; the arithmetic of the router's checksums (a header is good or
not), Ethernet addresses, and the growth of its ARP table at the hundredth
reply (`router.c:244` reallocates it to as many bytes as it should have
entries). The programs marked `not_modelled` in `PROJECT.json` are sequential
programs without state that outlives a call, or weaker forms of programs that
are modelled.
