---------------------------- MODULE RouterProofs ----------------------------
(***************************************************************************)
(* The binary search of the router never leaves behind a route that        *)
(* matches, in every table of one mask whose words are below half of their *)
(* range.  There compar is the order of the words, so that qsort leaves    *)
(* them descending; a route with the word that is looked for is then on    *)
(* the side that the search keeps.                                         *)
(***************************************************************************)
EXTENDS Router, SequenceLemmas

\* The order of the table says no more than that the words descend.
Descending(t) == \A i, j \in DOMAIN t : i < j => Key(t[i]) >= Key(t[j])

\* The table is a sequence of entries, in the order that sort_rtable left.
TableSorted == rtable \in Seq(Entry) /\ Sorted(rtable)

\* What is searched is inside the table.
Bounded ==
    pc = "search" => /\ start \in Nat \ {0} /\ end \in Nat
                     /\ end <= Len(rtable)

\* The inductive invariant.
SearchInv == TableSorted /\ Bounded /\ SearchKeepsRoute

-----------------------------------------------------------------------------
(* The table.                                                                *)

\* The words of entries are numbers.
LEMMA KeyNat == \A r \in Entry : Key(r) \in Nat
  <1> SUFFICES ASSUME NEW r \in Entry PROVE Key(r) \in Nat
    OBVIOUS
  <1>1. /\ r.mask \in {0, 1, 2}
        /\ r.prefix[1] \in Nat /\ r.prefix[2] \in Nat /\ Octet \in Nat
    BY RouteTableAssumption DEF Entry, Address
  <1>2. Octet * r.prefix[2] \in Nat
    BY <1>1
  <1> QED
    BY <1>1, <1>2 DEF Key, And

\* The unsigned difference of two words below half the range is their difference.
LEMMA SmallDifference ==
  ASSUME NEW w \in Nat, NEW x \in Nat, NEW y \in Nat, 2 * x < w, 2 * y < w
  PROVE  LET d == (y - x) % w
         IN  (IF 2 * d < w THEN d ELSE d - w) = y - x
  <1>1. CASE y >= x
    <2>1. y - x \in 0 .. w - 1
      BY <1>1
    <2>2. (y - x) % w = y - x
      BY <2>1
    <2> QED
      BY <1>1, <2>2
  <1>2. CASE y < x
    <2>1. y - x + w \in 0 .. w - 1
      BY <1>2
    <2>2. (y - x) % w = y - x + w
      BY <2>1
    <2> QED
      BY <1>2, <2>2
  <1> QED
    BY <1>1, <1>2

\* Where words are below half the range compar is their difference.
LEMMA ComparIsDifference ==
  ASSUME NEW a \in Entry, NEW b \in Entry, 2 * Key(a) < WordSize, 2 * Key(b) < WordSize
  PROVE  compar(a, b) = Key(b) - Key(a)
  <1>1. WordSize \in Nat
    BY RouteTableAssumption DEF WordSize
  <1>2. Key(a) \in Nat /\ Key(b) \in Nat
    BY KeyNat
  <1> HIDE DEF WordSize, Key
  <1> QED
    BY <1>1, <1>2, SmallDifference DEF compar

\* A sorted table of small words descends: compar is then transitive on it.
LEMMA SortedDescends ==
  ASSUME TableSorted, Narrow
  PROVE  Descending(rtable)
  <1>1. \A i \in DOMAIN rtable : rtable[i] \in Entry /\ 2 * Key(rtable[i]) < WordSize
    BY DEF TableSorted, Narrow
  <1>2. \A a \in Range(rtable) : a \in Entry /\ 2 * Key(a) < WordSize
    BY <1>1 DEF Range
  <1>3. \A a, b \in Range(rtable) : compar(a, b) = Key(b) - Key(a)
    BY <1>2, ComparIsDifference
  <1>4. \A a \in Range(rtable) : Key(a) \in Nat
    BY <1>2, KeyNat
  <1>5. Transitive(Range(rtable))
    <2> SUFFICES ASSUME NEW a \in Range(rtable), NEW b \in Range(rtable),
                        NEW c \in Range(rtable), compar(a, b) <= 0, compar(b, c) <= 0
                 PROVE  compar(a, c) <= 0
      BY DEF Transitive
    <2> QED
      BY <1>3, <1>4
  <1> SUFFICES ASSUME NEW i \in DOMAIN rtable, NEW j \in DOMAIN rtable, i < j
               PROVE  Key(rtable[i]) >= Key(rtable[j])
    BY DEF Descending
  <1>6. rtable[i] \in Range(rtable) /\ rtable[j] \in Range(rtable)
    BY DEF Range
  <1>7. compar(rtable[i], rtable[j]) <= 0
    BY <1>5 DEF TableSorted, Sorted
  <1> QED
    BY <1>3, <1>4, <1>6, <1>7

\* What the file becomes is a sorted sequence of its lines.
LEMMA TablesSorted ==
  ASSUME NEW file \in Tables, NEW t \in TablesOf(file)
  PROVE  t \in Seq(Entry) /\ Sorted(t)
  <1>1. file \subseteq Entry /\ IsFiniteSet(file)
    BY RouterAssumption
  <1>2. Cardinality(file) \in Nat
    BY <1>1, FS_CardinalityType
  <1>3. t \in [1 .. Cardinality(file) -> Entry] /\ Sorted(t)
    BY <1>1 DEF TablesOf
  <1> QED
    BY <1>2, <1>3

-----------------------------------------------------------------------------
(* The search.                                                               *)

\* A route with the word that is looked for stays on the side that is kept.
LEMMA KeptSide ==
  ASSUME SearchInv, pc = "search", OneMask, Narrow, start <= end,
         NEW k \in DOMAIN rtable, Matches(m.dest, rtable[k]),
         ~Matches(m.dest, best_route)
  PROVE  \E j \in start .. end :
            /\ Matches(m.dest, rtable[j])
            /\ And(m.dest, best_route.mask) > Key(best_route) => j \in start .. mid - 1
            /\ And(m.dest, best_route.mask) < Key(best_route) => j \in mid + 1 .. end
  <1>1. PICK j \in start .. end : Matches(m.dest, rtable[j])
    BY DEF SearchInv, SearchKeepsRoute
  <1>2. /\ start \in Nat \ {0} /\ end \in Nat /\ end <= Len(rtable)
        /\ rtable \in Seq(Entry) /\ Len(rtable) \in Nat
    BY DEF SearchInv, Bounded, TableSorted
  <1>3. mid \in start .. end
    BY <1>2 DEF mid
  <1>4. j \in DOMAIN rtable /\ mid \in DOMAIN rtable
    BY <1>2, <1>3
  <1>5. rtable[j] \in Entry /\ rtable[mid] \in Entry
    BY <1>2, <1>4
  <1>6. And(m.dest, best_route.mask) = Key(rtable[j])
    BY <1>1, <1>4 DEF OneMask, Matches, best_route
  <1>7. Key(rtable[j]) \in Nat /\ Key(best_route) \in Nat
    BY <1>5, KeyNat DEF best_route
  <1>8. j < mid => Key(rtable[j]) >= Key(best_route)
    BY <1>4, SortedDescends DEF SearchInv, Descending, best_route
  <1>9. mid < j => Key(best_route) >= Key(rtable[j])
    BY <1>4, SortedDescends DEF SearchInv, Descending, best_route
  <1>10. j # mid
    BY <1>1 DEF best_route
  <1> QED
    BY <1>1, <1>2, <1>3, <1>6, <1>7, <1>8, <1>9, <1>10

\* A step that leaves the table alone, and does not search, keeps the invariant.
LEMMA NoSearch ==
  ASSUME SearchInv, rtable' = rtable,
         pc' # "search" \/ (pc' = "search" /\ start' = 1 /\ end' = Len(rtable))
  PROVE  SearchInv'
  <1>1. rtable \in Seq(Entry) /\ Len(rtable) \in Nat /\ DOMAIN rtable = 1 .. Len(rtable)
    BY DEF SearchInv, TableSorted
  <1>2. TableSorted'
    BY DEF SearchInv, TableSorted
  <1>3. Bounded'
    BY <1>1 DEF Bounded
  <1>4. SearchKeepsRoute'
    BY <1>1 DEF SearchKeepsRoute
  <1> QED
    BY <1>2, <1>3, <1>4 DEF SearchInv

\* Forwarding a packet starts a search over the whole table, or none.
LEMMA CheckStep ==
  ASSUME SearchInv, rtable' = rtable, pc = "receive",
         NEW p, NEW waited, Check(p, waited)
  PROVE  SearchInv'
  <1>1. pc' = pc \/ (pc' = "search" /\ start' = 1 /\ end' = Len(rtable))
    BY DEF Check, search
  <1> QED
    BY <1>1, NoSearch

\* The invariant is kept by every step.
LEMMA SearchInvStep ==
  ASSUME SearchInv, [Next]_vars
  PROVE  SearchInv'
  <1>0. CASE UNCHANGED vars
    <2>1. rtable' = rtable /\ pc' = pc /\ m' = m /\ start' = start /\ end' = end
      BY <1>0 DEF vars, search
    <2> QED
      BY <2>1 DEF SearchInv, TableSorted, Bounded, SearchKeepsRoute, OneMask, Narrow
  <1>1. CASE Arrive \/ Answer
    <2>1. rtable' = rtable /\ pc' = pc /\ m' = m /\ start' = start /\ end' = end
      BY <1>1 DEF Arrive, Answer, search
    <2> QED
      BY <2>1 DEF SearchInv, TableSorted, Bounded, SearchKeepsRoute, OneMask, Narrow
  <1>2. CASE HandleFrame
    <2> PICK p : HandleIP(p) \/ HandleEcho(p) \/ HandleRequest(p) \/ Ignore(p) \/ HandleReply(p)
      BY <1>2 DEF HandleFrame
    <2>1. rtable' = rtable /\ pc = "receive"
      BY DEF HandleIP, HandleEcho, HandleRequest, Ignore, HandleReply, GetPacket
    <2>2. CASE HandleIP(p)
      BY <2>1, <2>2, CheckStep DEF HandleIP
    <2>3. CASE HandleEcho(p) \/ HandleRequest(p) \/ Ignore(p)
      BY <2>1, <2>3, NoSearch DEF HandleEcho, HandleRequest, Ignore
    <2>4. CASE HandleReply(p)
      <3>1. pc' = pc \/ Check(frame', TRUE)
        BY <2>4 DEF HandleReply, Release
      <3> QED
        BY <2>1, <3>1, CheckStep, NoSearch
    <2> QED
      BY <2>2, <2>3, <2>4
  <1>3. CASE Unreachable \/ Forward \/ WriteFails \/ Wait
    <2>1. rtable' = rtable /\ pc' = "receive"
      BY <1>3 DEF Unreachable, Forward, WriteFails, Wait, Found, Searching, Return
    <2> QED
      BY <2>1, NoSearch
  <1>4. CASE GoLeft \/ GoRight
    <2>1. /\ pc = "search" /\ pc' = pc /\ rtable' = rtable /\ m' = m /\ start <= end
          /\ ~Matches(m.dest, best_route) \/ And(m.dest, best_route.mask) = Key(best_route)
      BY <1>4 DEF GoLeft, GoRight, Searching, Matches
    <2>2. /\ start \in Nat \ {0} /\ end \in Nat /\ end <= Len(rtable)
          /\ rtable \in Seq(Entry) /\ Len(rtable) \in Nat
      BY <2>1 DEF SearchInv, Bounded, TableSorted
    <2>3. mid \in start .. end
      BY <2>1, <2>2 DEF mid
    <2>4. TableSorted'
      BY <2>1 DEF SearchInv, TableSorted
    <2>5. Bounded'
      BY <1>4, <2>1, <2>2, <2>3 DEF Bounded, GoLeft, GoRight
    <2>6. SearchKeepsRoute'
      <3> SUFFICES ASSUME OneMask, Narrow, NEW k \in DOMAIN rtable, Matches(m.dest, rtable[k])
                   PROVE  \E j \in start' .. end' : Matches(m.dest, rtable[j])
        BY <2>1 DEF SearchKeepsRoute, OneMask, Narrow
      <3>1. best_route \in Entry
        BY <2>2, <2>3 DEF best_route
      <3>2. Key(best_route) \in Nat
        BY <3>1, KeyNat
      <3>3. ~Matches(m.dest, best_route)
        BY <1>4, <3>2, <2>2, KeyNat DEF GoLeft, GoRight, Matches, OneMask, best_route
      <3>4. PICK j \in start .. end :
              /\ Matches(m.dest, rtable[j])
              /\ And(m.dest, best_route.mask) > Key(best_route) => j \in start .. mid - 1
              /\ And(m.dest, best_route.mask) < Key(best_route) => j \in mid + 1 .. end
        BY <2>1, <3>3, KeptSide
      <3>5. CASE GoLeft
        BY <3>4, <3>5 DEF GoLeft
      <3>6. CASE GoRight
        BY <3>4, <3>6 DEF GoRight
      <3> QED
        BY <1>4, <3>5, <3>6
    <2> QED
      BY <2>4, <2>5, <2>6 DEF SearchInv
  <1> QED
    BY <1>0, <1>1, <1>2, <1>3, <1>4 DEF Next, RouterStep, get_best_route

LEMMA InitSearch == Init => SearchInv
  <1> SUFFICES ASSUME Init PROVE SearchInv
    OBVIOUS
  <1>1. PICK file \in Tables : rtable \in TablesOf(file)
    BY DEF Init
  <1>2. TableSorted
    BY <1>1, TablesSorted DEF TableSorted
  <1>3. pc = "receive"
    BY DEF Init
  <1> QED
    BY <1>2, <1>3 DEF SearchInv, Bounded, SearchKeepsRoute

\* get_best_route(), in a table of one mask and small words: as long as it goes on, a
\* route that matches the destination is between its bounds, if the table has one.
THEOREM SearchSucceeds == Spec => []SearchKeepsRoute
  <1>1. Init => SearchInv
    BY InitSearch
  <1>2. SearchInv /\ [Next]_vars => SearchInv'
    BY SearchInvStep
  <1>3. SearchInv => SearchKeepsRoute
    BY DEF SearchInv
  <1> QED
    BY <1>1, <1>2, <1>3, PTL DEF Spec

-----------------------------------------------------------------------------
(* Types.                                                                    *)

\* Neighbours and tables, typed as what they are, and the packet that is searched
\* for has more than one hop left.
TypeInv ==
    /\ rtable \in Seq(Entry) /\ arp_table \in Seq(Hops)
    /\ waiting \in Nat /\ frame \in Packet /\ alive \in BOOLEAN
    /\ pc \in {"receive", "search"} /\ m \in Packet /\ released \in BOOLEAN
    /\ start \in 1 .. Len(rtable) + 1 /\ end \in 0 .. Len(rtable)
    /\ pending \subseteq UNION Arrivals /\ silent \subseteq Hops
    /\ inbox \in [Interfaces -> Seq(Arrival)]
    /\ asked \in [Links -> Nat]
    /\ out \in Seq(Sent)
    /\ \A k \in DOMAIN out : out[k].kind = "forward" => out[k].ttl > 0
    /\ pc = "search" => LivesOn(m)

\* What an Output adds.
LEMMA OutputTyped ==
  ASSUME TypeInv, NEW kind \in {"forward", "exceeded", "unreachable", "local"},
         NEW p \in Packet, NEW i \in Interfaces, NEW hop \in Hops \cup {NoHop},
         Output(kind, p, i, hop), kind = "forward" => p.ttl > 0
  PROVE  /\ out' \in Seq(Sent)
         /\ \A k \in DOMAIN out' : out'[k].kind = "forward" => out'[k].ttl > 0
  <1> DEFINE e == [kind |-> kind, id |-> p.id, dest |-> p.dest, ttl |-> p.ttl,
                   interface |-> i, hop |-> hop]
  <1>1. e \in Sent
    BY DEF Sent, Packet
  <1>2. out' = Append(out, e) /\ out \in Seq(Sent)
    BY DEF Output, TypeInv
  <1>3. e.kind = "forward" => e.ttl > 0
    OBVIOUS
  <1>4. \A k \in DOMAIN out : out[k].kind = "forward" => out[k].ttl > 0
    BY DEF TypeInv
  <1> HIDE DEF e
  <1>5. out' \in Seq(Sent)
    BY <1>1, <1>2
  <1>6. ASSUME NEW k \in DOMAIN out', out'[k].kind = "forward"
        PROVE  out'[k].ttl > 0
    <2>1. CASE k = Len(out) + 1
      BY <1>1, <1>2, <1>3, <1>6, <2>1
    <2>2. CASE k \in DOMAIN out
      BY <1>1, <1>2, <1>4, <1>6, <2>2
    <2> QED
      BY <1>1, <1>2, <2>1, <2>2
  <1> QED
    BY <1>5, <1>6

LEMMA ErrorTyped ==
  ASSUME TypeInv, NEW kind \in {"exceeded", "unreachable"}, NEW p \in Packet,
         NEW waited \in BOOLEAN, send_icmp_error(kind, p, waited)
  PROVE  /\ out' \in Seq(Sent) /\ alive' \in BOOLEAN
         /\ \A k \in DOMAIN out' : out'[k].kind = "forward" => out'[k].ttl > 0
  <1>1. CASE alive' = FALSE /\ UNCHANGED out
    BY <1>1 DEF TypeInv
  <1>2. ASSUME NEW i \in Interfaces, Output(kind, p, i, NoHop), UNCHANGED alive
        PROVE  /\ out' \in Seq(Sent) /\ alive' \in BOOLEAN
               /\ \A k \in DOMAIN out' : out'[k].kind = "forward" => out'[k].ttl > 0
    BY <1>2, OutputTyped DEF TypeInv
  <1> QED
    BY <1>1, <1>2 DEF send_icmp_error

\* One hop less.
LEMMA LoweredTyped ==
  ASSUME NEW p \in Packet, LivesOn(p)
  PROVE  Lowered(p) \in Packet /\ Lowered(p).ttl > 0
  BY DEF Packet, LivesOn, Lowered

\* What Check changes keeps its type.
LEMMA CheckTyped ==
  ASSUME TypeInv, NEW p \in Packet, NEW waited \in BOOLEAN, Check(p, waited),
         rtable' = rtable, pc = "receive"
  PROVE  /\ pc' \in {"receive", "search"} /\ m' \in Packet /\ released' \in BOOLEAN
         /\ alive' \in BOOLEAN
         /\ start' \in 1 .. Len(rtable') + 1 /\ end' \in 0 .. Len(rtable')
         /\ out' \in Seq(Sent)
         /\ \A k \in DOMAIN out' : out'[k].kind = "forward" => out'[k].ttl > 0
         /\ pc' = "search" => LivesOn(m')
  <1>1. CASE UNCHANGED <<alive, pc, search, out>>
    BY <1>1 DEF TypeInv, search
  <1>2. CASE send_icmp_error("exceeded", p, waited) /\ UNCHANGED <<pc, search>>
    <2>1. /\ out' \in Seq(Sent) /\ alive' \in BOOLEAN
          /\ \A k \in DOMAIN out' : out'[k].kind = "forward" => out'[k].ttl > 0
      BY <1>2, ErrorTyped
    <2> QED
      BY <1>2, <2>1 DEF TypeInv, search
  <1>3. CASE /\ LivesOn(p) /\ pc' = "search" /\ m' = p /\ released' = waited
             /\ start' = 1 /\ end' = Len(rtable) /\ UNCHANGED <<alive, out>>
    <2>1. Len(rtable) \in Nat
      BY DEF TypeInv
    <2> QED
      BY <1>3, <2>1 DEF TypeInv
  <1> QED
    BY <1>1, <1>2, <1>3 DEF Check

\* Taking a frame.
LEMMA GetPacketTyped ==
  ASSUME TypeInv, NEW i \in Interfaces, NEW p \in Range(inbox[i]), GetPacket(p)
  PROVE  /\ p \in Arrival /\ p \in Packet
         /\ inbox' \in [Interfaces -> Seq(Arrival)]
         /\ pc = "receive"
         /\ UNCHANGED <<rtable, pending, asked, silent>>
  <1>0. inbox[i] \in Seq(Arrival)
    BY DEF TypeInv
  <1>7. p \in Arrival /\ p \in Packet
    BY <1>0, RangeOfSeq DEF Arrival
  <1>1. p \in Arrival /\ p \in Packet /\ p.interface \in Interfaces
    BY <1>7 DEF Packet
  <1>2. Head(inbox[p.interface]) = p /\ inbox' = [inbox EXCEPT ![p.interface] = Tail(@)]
    BY DEF GetPacket
  <1>3. p \in Range(inbox[i]) /\ inbox[i] \in Seq(Arrival) /\ inbox[p.interface] \in Seq(Arrival)
    BY <1>1 DEF TypeInv
  <1>4. inbox[p.interface] # <<>> => Tail(inbox[p.interface]) \in Seq(Arrival)
    BY <1>3
  <1>5. Tail(<<>>) = <<>>
    OBVIOUS
  <1>6. Tail(inbox[p.interface]) \in Seq(Arrival)
    BY <1>3, <1>4, <1>5
  <1> QED
    BY <1>1, <1>2, <1>6 DEF GetPacket, TypeInv, network

\* A packet that was overwritten, and a reply, are packets.
LEMMA DamagedTyped ==
  ASSUME NEW p \in Packet
  PROVE  [p EXCEPT !.good = FALSE] \in Packet /\ [p EXCEPT !.good = TRUE, !.ttl = 0] \in Packet
  <1>1. [p EXCEPT !.good = FALSE] \in Packet
    BY DEF Packet
  <1> DEFINE q == [p EXCEPT !.good = TRUE]
  <1>2. q \in Packet
    BY DEF Packet
  <1>3. [p EXCEPT !.good = TRUE, !.ttl = 0] = [q EXCEPT !.ttl = 0]
    OBVIOUS
  <1> HIDE DEF q
  <1>4. [q EXCEPT !.ttl = 0] \in Packet
    BY <1>2 DEF Packet
  <1> QED
    BY <1>1, <1>3, <1>4

LEMMA ReplyTyped ==
  ASSUME NEW p \in Packet, NEW i \in Interfaces, NEW hop \in Hops
  PROVE  [p EXCEPT !.kind = "reply", !.interface = i, !.hop = hop] \in Arrival
  <1> DEFINE r1 == [p EXCEPT !.kind = "reply"]
             r2 == [r1 EXCEPT !.interface = i]
             r3 == [r2 EXCEPT !.hop = hop]
  <1>1. r1 \in Packet
    BY DEF Packet
  <1>2. r2 \in Packet /\ r2.kind = "reply"
    BY <1>1 DEF Packet
  <1>3. r3 \in Packet /\ r3.kind = "reply" /\ r3.hop \in Hops
    BY <1>2 DEF Packet
  <1>4. [p EXCEPT !.kind = "reply", !.interface = i, !.hop = hop] = r3
    OBVIOUS
  <1> QED
    BY <1>3, <1>4 DEF Arrival

LEMMA NothingTyped == Nothing \in Packet
  <1>1. <<0, 0>> \in Address
    BY RouteTableAssumption DEF Address
  <1> QED
    BY <1>1, RouterAssumption DEF Nothing, Packet

\* Types are kept by the handling of a frame.
LEMMA FrameTyped ==
  ASSUME TypeInv, HandleFrame
  PROVE  TypeInv'
  <1> PICK i \in Interfaces : \E p \in Range(inbox[i]) :
             HandleIP(p) \/ HandleEcho(p) \/ HandleRequest(p) \/ Ignore(p) \/ HandleReply(p)
    BY DEF HandleFrame
  <1> PICK p \in Range(inbox[i]) :
             HandleIP(p) \/ HandleEcho(p) \/ HandleRequest(p) \/ Ignore(p) \/ HandleReply(p)
    OBVIOUS
  <1>1. GetPacket(p) /\ frame' \in Overwritten
    BY DEF HandleIP, HandleEcho, HandleRequest, Ignore, HandleReply
  <1>2. /\ p \in Arrival /\ p \in Packet
        /\ inbox' \in [Interfaces -> Seq(Arrival)]
        /\ pc = "receive"
        /\ UNCHANGED <<rtable, pending, asked, silent>>
    BY <1>1, GetPacketTyped
  <1>3. frame' \in Packet
    <2>1. frame \in Packet
      BY DEF TypeInv
    <2> QED
      BY <1>1, <2>1, DamagedTyped DEF Overwritten
  <1>4. CASE HandleIP(p)
    <2>1. Check(p, FALSE) /\ UNCHANGED <<arp_table, waiting>>
      BY <1>4 DEF HandleIP
    <2> QED
      BY <1>2, <1>3, <2>1, CheckTyped DEF TypeInv
  <1>5. CASE HandleEcho(p) \/ HandleRequest(p)
    <2>1. p.interface \in Interfaces
      BY <1>2 DEF Packet
    <2>2. Output("local", p, p.interface, NoHop) /\ UNCHANGED <<arp_table, waiting, alive, pc, search>>
      BY <1>5 DEF HandleEcho, HandleRequest, send_icmp
    <2>3. /\ out' \in Seq(Sent)
          /\ \A k \in DOMAIN out' : out'[k].kind = "forward" => out'[k].ttl > 0
      BY <1>2, <2>1, <2>2, OutputTyped
    <2> QED
      BY <1>2, <1>3, <2>2, <2>3 DEF TypeInv, search
  <1>6. CASE Ignore(p)
    BY <1>2, <1>3, <1>6 DEF Ignore, TypeInv, search
  <1>7. CASE HandleReply(p)
    <2>1. p.hop \in Hops /\ arp_table' = Append(arp_table, p.hop) /\ Release(p.hop, frame')
      BY <1>2, <1>7 DEF HandleReply, Arrival
    <2>2. arp_table' \in Seq(Hops)
      BY <2>1 DEF TypeInv
    <2>3. CASE UNCHANGED <<waiting, alive, pc, search, out>>
      BY <1>2, <1>3, <2>2, <2>3 DEF TypeInv, search
    <2>4. CASE waiting # 0 /\ waiting' = waiting - 1 /\ Check(frame', TRUE)
      <3>1. waiting' \in Nat
        BY <2>4 DEF TypeInv
      <3> QED
        BY <1>2, <1>3, <2>2, <2>4, <3>1, CheckTyped DEF TypeInv
    <2> QED
      BY <2>1, <2>3, <2>4 DEF Release, queue_empty, queue_deq
  <1> QED
    BY <1>4, <1>5, <1>6, <1>7

\* The entry in the middle is one of the table.
LEMMA MidTyped ==
  ASSUME TypeInv, start <= end
  PROVE  /\ mid \in start .. end /\ mid \in DOMAIN rtable
         /\ best_route \in Entry /\ best_route.next_hop \in Hops
         /\ best_route.interface \in Interfaces
  <1>1. /\ rtable \in Seq(Entry) /\ Len(rtable) \in Nat
        /\ start \in 1 .. Len(rtable) + 1 /\ end \in 0 .. Len(rtable)
    BY DEF TypeInv
  <1>2. mid \in start .. end /\ mid \in DOMAIN rtable
    BY <1>1 DEF mid
  <1>3. best_route \in Entry
    BY <1>1, <1>2 DEF best_route
  <1> QED
    BY <1>2, <1>3 DEF Entry

\* Types are kept by the search and its ends.
LEMMA SearchTyped ==
  ASSUME TypeInv, get_best_route
  PROVE  TypeInv'
  <1>1. /\ pc = "search" /\ LivesOn(m) /\ m \in Packet
        /\ UNCHANGED <<rtable, arp_table, m, released, inbox, pending, silent>>
    BY DEF get_best_route, GoLeft, GoRight, Unreachable, Forward, WriteFails, Wait, Found,
           Searching, TypeInv
  <1>2. Lowered(m) \in Packet /\ Lowered(m).ttl > 0
    BY <1>1, LoweredTyped
  <1>3. CASE GoLeft \/ GoRight
    <2>1. /\ start <= end /\ UNCHANGED <<queue, alive, asked, pc, out>>
          /\ (start' = start /\ end' = mid - 1) \/ (start' = mid + 1 /\ end' = end)
      BY <1>3 DEF GoLeft, GoRight
    <2>2. mid \in start .. end
      BY <2>1, MidTyped
    <2>3. start' \in 1 .. Len(rtable') + 1 /\ end' \in 0 .. Len(rtable')
      BY <1>1, <2>1, <2>2 DEF TypeInv
    <2> QED
      BY <1>1, <2>1, <2>3 DEF TypeInv, queue
  <1>4. CASE Unreachable
    <2>1. /\ send_icmp_error("unreachable", m, released) /\ pc' = "receive"
          /\ UNCHANGED <<start, end, waiting, frame, asked>>
      BY <1>4 DEF Unreachable, Return, queue
    <2>2. released \in BOOLEAN
      BY DEF TypeInv
    <2>3. /\ out' \in Seq(Sent) /\ alive' \in BOOLEAN
          /\ \A k \in DOMAIN out' : out'[k].kind = "forward" => out'[k].ttl > 0
      BY <1>1, <2>1, <2>2, ErrorTyped
    <2> QED
      BY <1>1, <2>1, <2>3 DEF TypeInv
  <1>5. CASE Forward
    <2>1. /\ start <= end /\ pc' = "receive" /\ UNCHANGED <<start, end, waiting, alive, asked>>
          /\ Output("forward", Lowered(m), best_route.interface, best_route.next_hop)
          /\ frame' = IF released THEN Lowered(m) ELSE frame
      BY <1>5 DEF Forward, Found, Return
    <2>2. best_route.interface \in Interfaces /\ best_route.next_hop \in Hops
      BY <2>1, MidTyped
    <2>3. /\ out' \in Seq(Sent)
          /\ \A k \in DOMAIN out' : out'[k].kind = "forward" => out'[k].ttl > 0
      BY <1>2, <2>1, <2>2, OutputTyped
    <2>4. frame' \in Packet
      BY <1>2, <2>1 DEF TypeInv
    <2> QED
      BY <1>1, <2>1, <2>3, <2>4 DEF TypeInv
  <1>6. CASE WriteFails
    BY <1>1, <1>6 DEF WriteFails, Found, Return, TypeInv, queue
  <1>7. CASE Wait
    <2>1. /\ start <= end /\ pc' = "receive" /\ UNCHANGED <<start, end, alive, out>>
          /\ waiting' = waiting + 1 /\ frame' = Lowered(m)
          /\ asked' = [asked EXCEPT ![<<best_route.next_hop, best_route.interface>>] = @ + 1]
      BY <1>7 DEF Wait, Found, Return, queue_enq, send_arp
    <2>2. <<best_route.next_hop, best_route.interface>> \in Links
      BY <2>1, MidTyped DEF Links
    <2>3. asked' \in [Links -> Nat]
      BY <2>1, <2>2 DEF TypeInv
    <2> QED
      BY <1>1, <1>2, <2>1, <2>3 DEF TypeInv
  <1> QED
    BY <1>3, <1>4, <1>5, <1>6, <1>7 DEF get_best_route

\* Types are kept by the network.
LEMMA NetworkTyped ==
  ASSUME TypeInv, Arrive \/ Answer
  PROVE  TypeInv'
  <1>1. CASE Arrive
    <2>1. PICK p \in pending :
             /\ pending' = pending \ {p}
             /\ inbox' = [inbox EXCEPT ![p.interface] = Append(@, p)]
             /\ UNCHANGED <<rtable, arp_table, queue, alive, pc, search, asked, silent, out>>
      BY <1>1 DEF Arrive
    <2>2. p \in Arrival /\ p.interface \in Interfaces
      BY RouterAssumption DEF TypeInv, Arrival, Packet
    <2>3. inbox' \in [Interfaces -> Seq(Arrival)]
      BY <2>1, <2>2 DEF TypeInv
    <2> QED
      BY <2>1, <2>3 DEF TypeInv, queue, search
  <1>2. CASE Answer
    <2>1. PICK l \in Links :
             /\ asked[l] > 0 /\ asked' = [asked EXCEPT ![l] = @ - 1]
             /\ inbox' = [inbox EXCEPT ![l[2]] =
                  Append(@, [Nothing EXCEPT !.kind = "reply", !.interface = l[2], !.hop = l[1]])]
             /\ UNCHANGED <<rtable, arp_table, queue, alive, pc, search, pending, silent, out>>
      BY <1>2 DEF Answer
    <2> DEFINE reply == [Nothing EXCEPT !.kind = "reply", !.interface = l[2], !.hop = l[1]]
    <2>2. l[1] \in Hops /\ l[2] \in Interfaces
      BY DEF Links
    <2>5. reply \in Arrival
      BY <2>2, NothingTyped, ReplyTyped
    <2> HIDE DEF reply
    <2>6. inbox' \in [Interfaces -> Seq(Arrival)]
      BY <2>1, <2>2, <2>5 DEF TypeInv, reply
    <2>7. asked' \in [Links -> Nat]
      BY <2>1 DEF TypeInv
    <2> QED
      BY <2>1, <2>6, <2>7 DEF TypeInv, queue, search
  <1> QED
    BY <1>1, <1>2

LEMMA InitTyped == Init => TypeInv
  <1> SUFFICES ASSUME Init PROVE TypeInv
    OBVIOUS
  <1>1. PICK file \in Tables : rtable \in TablesOf(file)
    BY DEF Init
  <1>2. rtable \in Seq(Entry) /\ Len(rtable) \in Nat
    BY <1>1, TablesSorted
  <1>5. inbox \in [Interfaces -> Seq(Arrival)] /\ asked \in [Links -> Nat]
    BY DEF Init
  <1>6. pending \subseteq UNION Arrivals /\ silent \subseteq Hops
    BY DEF Init
  <1>7. /\ waiting \in Nat /\ alive \in BOOLEAN /\ pc = "receive" /\ released \in BOOLEAN
        /\ start \in 1 .. Len(rtable) + 1 /\ end \in 0 .. Len(rtable)
    <2>1. /\ waiting = 0 /\ alive = TRUE /\ pc = "receive" /\ released = FALSE
          /\ start = 1 /\ end = 0
      BY DEF Init
    <2>2. alive \in BOOLEAN /\ released \in BOOLEAN
      BY <2>1
    <2>3. waiting \in Nat /\ start \in 1 .. Len(rtable) + 1 /\ end \in 0 .. Len(rtable)
      BY <1>2, <2>1
    <2> QED
      BY <2>1, <2>2, <2>3
  <1>8. frame \in Packet /\ m \in Packet
    BY NothingTyped DEF Init
  <1>9. /\ arp_table \in Seq(Hops) /\ out \in Seq(Sent)
        /\ \A k \in DOMAIN out : out[k].kind = "forward" => out[k].ttl > 0
    BY DEF Init
  <1> QED
    BY <1>2, <1>5, <1>6, <1>7, <1>8, <1>9 DEF TypeInv

LEMMA TypesKept == TypeInv /\ [Next]_vars => TypeInv'
  <1>1. CASE UNCHANGED vars
    BY <1>1 DEF vars, queue, search, network, TypeInv
  <1> QED
    BY <1>1, FrameTyped, SearchTyped, NetworkTyped DEF Next, RouterStep

\* The state of the router is well typed, the search stays inside the table, and
\* nothing is forwarded with TTL 0.
THEOREM TypeCorrect == Spec => []TypeOK
  <1>1. Init => TypeInv
    BY InitTyped
  <1>2. TypeInv /\ [Next]_vars => TypeInv'
    BY TypesKept
  <1>3. TypeInv => TypeOK
    <2> SUFFICES ASSUME TypeInv PROVE TypeOK
      OBVIOUS
    <2>1. Range(rtable) \subseteq Entry /\ Range(out) \subseteq Sent
      BY RangeOfSeq DEF TypeInv
    <2>2. \A i \in Interfaces : Range(inbox[i]) \subseteq Packet
      <3> TAKE i \in Interfaces
      <3>1. Range(inbox[i]) \subseteq Arrival
        BY RangeOfSeq DEF TypeInv
      <3> QED
        BY <3>1 DEF Arrival
    <2> QED
      BY <2>1, <2>2 DEF TypeInv, TypeOK
  <1> QED
    BY <1>1, <1>2, <1>3, PTL DEF Spec

-----------------------------------------------------------------------------
(* What goes out.                                                            *)

Right(t, f) ==
    /\ f.kind = "forward" =>
          \E r \in Range(t) : /\ Matches(f.dest, r)
                              /\ r.next_hop = f.hop /\ r.interface = f.interface
    /\ /\ f.kind = "unreachable" /\ \A i, j \in DOMAIN t : t[i].mask = t[j].mask
       /\ \A i \in DOMAIN t : 2 * Key(t[i]) < WordSize
       => ~\E r \in Range(t) : Matches(f.dest, r)

LEMMA RightIs == RoutedRightly <=> \A k \in DOMAIN out : Right(rtable, out[k])
BY DEF RoutedRightly, Right, OneMask, Narrow

LEMMA OutputOf ==
    ASSUME NEW kind, NEW p, NEW i, NEW hop, Output(kind, p, i, hop)
    PROVE  \E f : out' = Append(out, f) /\ f.kind = kind
<1> DEFINE f == [kind |-> kind, id |-> p.id, dest |-> p.dest, ttl |-> p.ttl,
                 interface |-> i, hop |-> hop]
<1>1. out' = Append(out, f)
  BY DEF Output
<1>2. f.kind = kind
  OBVIOUS
<1> HIDE DEF f
<1> QED
  BY <1>1, <1>2

\* What the handling of a frame sends is no packet that is forwarded, and says of none
\* that it is unreachable.
LEMMA FrameSends ==
    ASSUME HandleFrame
    PROVE  out' = out \/ \E f : out' = Append(out, f) /\ f.kind \in {"exceeded", "local"}
<1>1. PICK p : HandleIP(p) \/ HandleEcho(p) \/ HandleRequest(p) \/ Ignore(p) \/ HandleReply(p)
  BY DEF HandleFrame
<1>2. ASSUME NEW q, NEW waited, Check(q, waited)
      PROVE  out' = out \/ \E f : out' = Append(out, f) /\ f.kind \in {"exceeded", "local"}
  <2>1. CASE send_icmp_error("exceeded", q, waited)
    <3>1. ASSUME NEW i \in Interfaces, Output("exceeded", q, i, NoHop)
          PROVE  \E f : out' = Append(out, f) /\ f.kind \in {"exceeded", "local"}
      BY <3>1, OutputOf
    <3> QED
      BY <2>1, <3>1 DEF send_icmp_error
  <2> QED
    BY <1>2, <2>1 DEF Check
<1>3. CASE HandleIP(p)
  BY <1>2, <1>3 DEF HandleIP
<1>4. CASE HandleEcho(p) \/ HandleRequest(p)
  BY <1>4, OutputOf DEF HandleEcho, HandleRequest, send_icmp
<1>5. CASE Ignore(p)
  BY <1>5 DEF Ignore
<1>6. CASE HandleReply(p)
  BY <1>2, <1>6 DEF HandleReply, Release
<1> QED
  BY <1>1, <1>3, <1>4, <1>5, <1>6

LEMMA RightAppend ==
    ASSUME TypeInv, RoutedRightly, rtable' = rtable, NEW f, Right(rtable, f),
           out' = out \/ out' = Append(out, f)
    PROVE  RoutedRightly'
<1>2. \A k \in DOMAIN out : Right(rtable, out[k])
  BY RightIs
<1>3. \A k \in DOMAIN out' : Right(rtable, out'[k])
  <2>1. out \in Seq(Sent)
    BY DEF TypeInv
  <2>2. CASE out' = out
    BY <1>2, <2>2
  <2>3. CASE out' = Append(out, f)
    <3> SUFFICES ASSUME NEW k \in DOMAIN out' PROVE Right(rtable, out'[k])
      OBVIOUS
    <3>1. Len(out) \in Nat /\ DOMAIN out = 1 .. Len(out) /\ DOMAIN out' = 1 .. Len(out) + 1
      BY <2>1, <2>3
    <3>2. k = Len(out) + 1 => out'[k] = f
      BY <2>1, <2>3
    <3>3. k # Len(out) + 1 => k \in DOMAIN out /\ out'[k] = out[k]
      BY <2>1, <2>3, <3>1
    <3> QED
      BY <1>2, <3>2, <3>3
  <2> QED
    BY <2>2, <2>3
<1>4. \A k \in DOMAIN out' : Right(rtable', out'[k])
  BY <1>3
<1> QED
  BY <1>4 DEF RoutedRightly, Right, OneMask, Narrow

LEMMA RoutedKept == TypeInv /\ SearchInv /\ RoutedRightly /\ [Next]_vars => RoutedRightly'
<1> SUFFICES ASSUME TypeInv, SearchInv, RoutedRightly, [Next]_vars PROVE RoutedRightly'
  OBVIOUS
<1>1. CASE Arrive \/ Answer \/ UNCHANGED vars
  <2>1. rtable' = rtable /\ out' = out
    BY <1>1 DEF Arrive, Answer, vars
  <2> QED
    BY <2>1 DEF RoutedRightly, OneMask, Narrow
<1>2. CASE HandleFrame
  <2>1. rtable' = rtable
    BY <1>2 DEF HandleFrame, HandleIP, HandleEcho, HandleRequest, Ignore, HandleReply, GetPacket
  <2>2. PICK f : f.kind \in {"exceeded", "local"} /\ (out' = out \/ out' = Append(out, f))
    <3>1. CASE out' = out
      <4>1. PICK f : f = [kind |-> "local"]
        OBVIOUS
      <4>2. f.kind \in {"exceeded", "local"}
        BY <4>1
      <4> QED
        BY <3>1, <4>2
    <3> QED
      BY <1>2, <3>1, FrameSends
  <2>3. Right(rtable, f)
    BY <2>2 DEF Right
  <2> QED
    BY <2>1, <2>2, <2>3, RightAppend
<1>3. CASE get_best_route
  <2>1. rtable' = rtable /\ pc = "search"
    BY <1>3 DEF get_best_route, GoLeft, GoRight, Unreachable, Forward, WriteFails, Wait, Found,
           Searching
  <2>2. CASE GoLeft \/ GoRight \/ WriteFails \/ Wait
    <3>1. out' = out
      BY <2>2 DEF GoLeft, GoRight, WriteFails, Wait
    <3> QED
      BY <2>1, <3>1 DEF RoutedRightly, OneMask, Narrow
  <2>3. CASE Unreachable
    <3> SUFFICES ASSUME NEW i \in Interfaces, Output("unreachable", m, i, NoHop)
                 PROVE  RoutedRightly'
      BY <2>1, <2>3 DEF Unreachable, send_icmp_error, RoutedRightly, OneMask, Narrow
    <3> DEFINE f == [kind |-> "unreachable", id |-> m.id, dest |-> m.dest, ttl |-> m.ttl,
                     interface |-> i, hop |-> NoHop]
    <3>2. out' = Append(out, f) /\ f.kind = "unreachable" /\ f.dest = m.dest
      BY DEF Output
    <3> HIDE DEF f
    <3>3. OneMask /\ Narrow => ~\E r \in Range(rtable) : Matches(m.dest, r)
      <4> SUFFICES ASSUME OneMask, Narrow, NEW k \in DOMAIN rtable, Matches(m.dest, rtable[k])
                   PROVE  FALSE
        BY DEF Range
      <4>1. start > end /\ start \in Nat /\ end \in Nat
        BY <2>1, <2>3 DEF Unreachable, SearchInv, Bounded
      <4>2. \E j \in start .. end : TRUE
        BY <2>1 DEF SearchInv, SearchKeepsRoute
      <4> QED
        BY <4>1, <4>2
    <3>4. Right(rtable, f)
      BY <3>2, <3>3 DEF Right, OneMask, Narrow
    <3> QED
      BY <2>1, <3>2, <3>4, RightAppend
  <2>4. CASE Forward
    <3>1. /\ Output("forward", Lowered(m), best_route.interface, best_route.next_hop)
          /\ start <= end /\ Matches(m.dest, best_route)
      BY <2>4 DEF Forward, Found
    <3> DEFINE f == [kind |-> "forward", id |-> Lowered(m).id, dest |-> Lowered(m).dest,
                     ttl |-> Lowered(m).ttl, interface |-> best_route.interface,
                     hop |-> best_route.next_hop]
    <3>2. Lowered(m).dest = m.dest
      BY DEF Lowered, TypeInv, Packet
    <3>3. out' = Append(out, f) /\ f.kind = "forward" /\ f.dest = m.dest
          /\ f.interface = best_route.interface /\ f.hop = best_route.next_hop
      BY <3>1, <3>2 DEF Output
    <3> HIDE DEF f
    <3>4. best_route \in Range(rtable)
      BY <3>1, MidTyped DEF best_route, Range
    <3>5. Right(rtable, f)
      BY <3>1, <3>3, <3>4 DEF Right
    <3> QED
      BY <2>1, <3>3, <3>5, RightAppend
  <2> QED
    BY <1>3, <2>2, <2>3, <2>4 DEF get_best_route
<1> QED
  BY <1>1, <1>2, <1>3 DEF Next, RouterStep

\* RoutedRightly holds in every reachable state: whatever reply releases a packet, it
\* goes where a route of the table leads, and none is called unreachable that has one.
THEOREM RoutesFollowed == Spec => []RoutedRightly
<1>1. Init => TypeInv /\ SearchInv /\ RoutedRightly
  <2>1. Init => RoutedRightly
    BY DEF Init, RoutedRightly
  <2> QED
    BY <2>1, InitTyped, InitSearch
<1>2. TypeInv /\ SearchInv /\ RoutedRightly /\ [Next]_vars
         => (TypeInv /\ SearchInv /\ RoutedRightly)'
  BY TypesKept, SearchInvStep, RoutedKept
<1> QED
  BY <1>1, <1>2, PTL DEF Spec

-----------------------------------------------------------------------------
(* What waits, and the replies it waits for.                                 *)

Replies == {p \in Arrival : p.kind = "reply"}

\* How many replies a network owes, and how many are in the interfaces.
DueIn(requests) == Cardinality(Pairs(Links, [l \in Links |-> 1 .. requests[l]]))
UnreadIn(box) == Cardinality(Pairs(Interfaces, [i \in Interfaces |-> PlacesIn(box[i], Replies)]))

LEMMA LinksFinite == IsFiniteSet(Links) /\ IsFiniteSet(Interfaces)
BY RouterAssumption, FS_Product DEF Links

LEMMA Counts ==
    ASSUME NEW requests \in [Links -> Nat], NEW box \in [Interfaces -> Seq(Arrival)]
    PROVE  /\ DueIn(requests) = Cardinality(UNION {{l} \X (1 .. requests[l]) : l \in Links})
           /\ UnreadIn(box) = Cardinality(UNION
                {{i} \X {k \in 1 .. Len(box[i]) : box[i][k].kind = "reply"} : i \in Interfaces})
           /\ DueIn(requests) \in Nat /\ UnreadIn(box) \in Nat
<1> PICK g : g = [l \in Links |-> 1 .. requests[l]]
  OBVIOUS
<1> PICK h : h = [i \in Interfaces |-> PlacesIn(box[i], Replies)]
  OBVIOUS
<1>1. Pairs(Links, g) = UNION {{l} \X (1 .. requests[l]) : l \in Links}
  BY DEF Pairs
<1>2. ASSUME NEW i \in Interfaces
      PROVE  /\ h[i] = {k \in 1 .. Len(box[i]) : box[i][k].kind = "reply"}
             /\ IsFiniteSet(h[i])
  <2>1. box[i] \in Seq(Arrival)
    OBVIOUS
  <2>2. \A k \in 1 .. Len(box[i]) : box[i][k] \in Arrival
    BY <2>1
  <2>3. IsFiniteSet(PlacesIn(box[i], Replies))
    BY <2>1, NumberIsNat
  <2> QED
    BY <2>2, <2>3 DEF PlacesIn, Replies
<1>3. Pairs(Interfaces, h)
        = UNION {{i} \X {k \in 1 .. Len(box[i]) : box[i][k].kind = "reply"} : i \in Interfaces}
  BY <1>2 DEF Pairs
<1>4. \A l \in Links : IsFiniteSet(g[l])
  BY FirstNumbers
<1>5. IsFiniteSet(Pairs(Links, g)) /\ Cardinality(Pairs(Links, g)) \in Nat
  BY <1>4, LinksFinite, PairsFinite, FS_CardinalityType
<1>6. IsFiniteSet(Pairs(Interfaces, h)) /\ Cardinality(Pairs(Interfaces, h)) \in Nat
  BY <1>2, LinksFinite, PairsFinite, FS_CardinalityType
<1> QED
  BY <1>1, <1>3, <1>5, <1>6 DEF DueIn, UnreadIn

LEMMA DueChanges ==
    ASSUME NEW before \in [Links -> Nat], NEW after \in [Links -> Nat], NEW l \in Links,
           Elsewhere(Links, before, after, l),
           NEW d \in Int, Differ(after[l], before[l], d)
    PROVE  DueIn(before) \in Nat /\ Differ(DueIn(after), DueIn(before), d)
<1> PICK g : g = [j \in Links |-> 1 .. before[j]]
  OBVIOUS
<1> PICK h : h = [j \in Links |-> 1 .. after[j]]
  OBVIOUS
<1>1. \A j \in Links : g[j] = 1 .. before[j] /\ h[j] = 1 .. after[j]
  OBVIOUS
<1>2. ASSUME NEW n \in Nat PROVE IsFiniteSet(1 .. n) /\ Cardinality(1 .. n) = n
  BY FirstNumbers
<1>3. AllFinite(Links, g) /\ AllFinite(Links, h)
  BY <1>1, <1>2 DEF AllFinite
<1>4. Elsewhere(Links, g, h, l)
  BY <1>1 DEF Elsewhere
<1>5. Cardinality(g[l]) = before[l] /\ Cardinality(h[l]) = after[l]
  BY <1>1, <1>2
<1>6. Differ(Cardinality(h[l]), Cardinality(g[l]), d)
  BY <1>5
<1>7. /\ Cardinality(Pairs(Links, g)) \in Nat
      /\ Differ(Cardinality(Pairs(Links, h)), Cardinality(Pairs(Links, g)), d)
  BY <1>3, <1>4, <1>6, LinksFinite, PairsChange
<1> QED
  BY <1>7 DEF DueIn

LEMMA UnreadChanges ==
    ASSUME NEW before \in [Interfaces -> Seq(Arrival)], NEW after \in [Interfaces -> Seq(Arrival)],
           NEW i \in Interfaces, Elsewhere(Interfaces, before, after, i),
           NEW d \in Int, Differ(NumberOf(after[i], Replies), NumberOf(before[i], Replies), d)
    PROVE  UnreadIn(before) \in Nat /\ Differ(UnreadIn(after), UnreadIn(before), d)
<1> PICK g : g = [j \in Interfaces |-> PlacesIn(before[j], Replies)]
  OBVIOUS
<1> PICK h : h = [j \in Interfaces |-> PlacesIn(after[j], Replies)]
  OBVIOUS
<1>1. \A j \in Interfaces : g[j] = PlacesIn(before[j], Replies) /\ h[j] = PlacesIn(after[j], Replies)
  OBVIOUS
<1>3. AllFinite(Interfaces, g) /\ AllFinite(Interfaces, h)
  <2> SUFFICES ASSUME NEW j \in Interfaces PROVE IsFiniteSet(g[j]) /\ IsFiniteSet(h[j])
    BY DEF AllFinite
  <2>1. before[j] \in Seq(Arrival) /\ after[j] \in Seq(Arrival)
    OBVIOUS
  <2>2. IsFiniteSet(PlacesIn(before[j], Replies)) /\ IsFiniteSet(PlacesIn(after[j], Replies))
    BY <2>1, NumberIsNat
  <2> QED
    BY <1>1, <2>2
<1>4. Elsewhere(Interfaces, g, h, i)
  BY <1>1 DEF Elsewhere
<1>6. Differ(Cardinality(h[i]), Cardinality(g[i]), d)
  BY <1>1 DEF NumberOf
<1>7. /\ Cardinality(Pairs(Interfaces, g)) \in Nat
      /\ Differ(Cardinality(Pairs(Interfaces, h)), Cardinality(Pairs(Interfaces, g)), d)
  BY <1>3, <1>4, <1>6, LinksFinite, PairsChange
<1> QED
  BY <1>7 DEF UnreadIn

\* A frame more in one interface, or one less.
Longer(after, before, i, p) == after = [before EXCEPT ![i] = Append(@, p)]
Shorter(after, before, i) == after = [before EXCEPT ![i] = Tail(@)]
IsReply(p) == IF p.kind = "reply" THEN 1 ELSE 0

LEMMA UnreadAppend ==
    ASSUME NEW before \in [Interfaces -> Seq(Arrival)], NEW i \in Interfaces, NEW p \in Arrival,
           NEW after, Longer(after, before, i, p)
    PROVE  Differ(UnreadIn(after), UnreadIn(before), IsReply(p))
<1>1. after \in [Interfaces -> Seq(Arrival)] /\ after[i] = Append(before[i], p)
      /\ before[i] \in Seq(Arrival) /\ Elsewhere(Interfaces, before, after, i)
  BY DEF Elsewhere, Longer
<1>2. p \in Replies <=> p.kind = "reply"
  BY DEF Replies
<1>3. NumberOf(after[i], Replies)
         = NumberOf(before[i], Replies) + (IF p.kind = "reply" THEN 1 ELSE 0)
  BY <1>1, <1>2, NumberOfAppend
<1> PICK d \in Int : d = (IF p.kind = "reply" THEN 1 ELSE 0)
  OBVIOUS
<1>4. Differ(NumberOf(after[i], Replies), NumberOf(before[i], Replies), d)
  BY <1>3 DEF Differ
<1>5. UnreadIn(before) \in Nat /\ Differ(UnreadIn(after), UnreadIn(before), d)
  BY <1>1, <1>4, UnreadChanges
<1> QED
  BY <1>5 DEF Differ, IsReply

LEMMA UnreadTail ==
    ASSUME NEW before \in [Interfaces -> Seq(Arrival)], NEW i \in Interfaces, before[i] # <<>>,
           NEW p \in Arrival, p = Head(before[i]),
           NEW after, Shorter(after, before, i)
    PROVE  Differ(UnreadIn(before), UnreadIn(after), IsReply(p))
<1>1. before[i] \in Seq(Arrival)
  OBVIOUS
<1>2. Tail(before[i]) \in Seq(Arrival)
  BY <1>1, TailElements
<1>3. after \in [Interfaces -> Seq(Arrival)] /\ after[i] = Tail(before[i])
      /\ Elsewhere(Interfaces, after, before, i)
  BY <1>2 DEF Elsewhere, Shorter
<1>4. p \in Replies <=> p.kind = "reply"
  BY DEF Replies
<1>5. NumberOf(before[i], Replies)
         = NumberOf(after[i], Replies) + (IF p.kind = "reply" THEN 1 ELSE 0)
  BY <1>1, <1>3, <1>4, NumberOfTail
<1> PICK d \in Int : d = (IF p.kind = "reply" THEN 1 ELSE 0)
  OBVIOUS
<1>6. Differ(NumberOf(before[i], Replies), NumberOf(after[i], Replies), d)
  BY <1>5 DEF Differ
<1>7. UnreadIn(after) \in Nat /\ Differ(UnreadIn(before), UnreadIn(after), d)
  BY <1>3, <1>6, UnreadChanges
<1> QED
  BY <1>7 DEF Differ, IsReply

LEMMA RepliesKept == TypeInv /\ NoneWaitsInVain /\ [Next]_vars => NoneWaitsInVain'
<1> SUFFICES ASSUME TypeInv, NoneWaitsInVain, [Next]_vars PROVE NoneWaitsInVain'
  OBVIOUS
<1>1. TypeInv'
  BY TypesKept
<1>2. /\ waiting \in Nat /\ asked \in [Links -> Nat] /\ inbox \in [Interfaces -> Seq(Arrival)]
      /\ asked' \in [Links -> Nat] /\ inbox' \in [Interfaces -> Seq(Arrival)]
  BY <1>1 DEF TypeInv
<1>3. waiting <= DueIn(asked) + UnreadIn(inbox)
  BY <1>2, Counts DEF NoneWaitsInVain, Due, Unread
<1>4. /\ DueIn(asked) \in Nat /\ UnreadIn(inbox) \in Nat
      /\ DueIn(asked') \in Nat /\ UnreadIn(inbox') \in Nat
  BY <1>2, Counts
<1> SUFFICES waiting' <= DueIn(asked') + UnreadIn(inbox')
  BY <1>2, Counts DEF NoneWaitsInVain, Due, Unread
<1>5. CASE waiting' = waiting /\ asked' = asked /\ inbox' = inbox
  BY <1>3, <1>5
<1>6. CASE Arrive
  <2>1. PICK p \in pending :
           /\ inbox' = [inbox EXCEPT ![p.interface] = Append(@, p)]
           /\ waiting' = waiting /\ asked' = asked
    BY <1>6 DEF Arrive, queue
  <2>2. p \in Arrival /\ p.interface \in Interfaces
    BY RouterAssumption DEF TypeInv, Arrival, Packet
  <2>3. Longer(inbox', inbox, p.interface, p)
    BY <2>1 DEF Longer
  <2>6. Differ(UnreadIn(inbox'), UnreadIn(inbox), IsReply(p))
    BY <1>2, <2>2, <2>3, UnreadAppend
  <2>4. UnreadIn(inbox') >= UnreadIn(inbox)
    BY <1>4, <2>6 DEF Differ, IsReply
  <2>5. DueIn(asked') = DueIn(asked)
    BY <2>1
  <2> QED
    BY <1>2, <1>3, <1>4, <2>1, <2>4, <2>5
<1>7. CASE Answer
  <2>1. PICK l \in Links :
           /\ asked[l] > 0 /\ asked' = [asked EXCEPT ![l] = @ - 1]
           /\ inbox' = [inbox EXCEPT ![l[2]] =
                Append(@, [Nothing EXCEPT !.kind = "reply", !.interface = l[2], !.hop = l[1]])]
           /\ waiting' = waiting
    BY <1>7 DEF Answer, queue
  <2>2. l[1] \in Hops /\ l[2] \in Interfaces
    BY DEF Links
  <2> PICK p : p = [Nothing EXCEPT !.kind = "reply", !.interface = l[2], !.hop = l[1]]
    OBVIOUS
  <2>3. p \in Arrival
    BY <2>2, NothingTyped, ReplyTyped
  <2>4. p.kind = "reply"
    BY DEF Nothing
  <2>5. Longer(inbox', inbox, l[2], p)
    BY <2>1 DEF Longer
  <2>6. Differ(UnreadIn(inbox'), UnreadIn(inbox), IsReply(p))
    BY <1>2, <2>2, <2>3, <2>5, UnreadAppend
  <2>7. UnreadIn(inbox') = UnreadIn(inbox) + 1
    BY <2>4, <2>6 DEF Differ, IsReply
  <2>8. DueIn(asked') = DueIn(asked) - 1
    <3> PICK d \in Int : d = -1
      OBVIOUS
    <3>1. Elsewhere(Links, asked, asked', l) /\ Differ(asked'[l], asked[l], d)
      BY <1>2, <2>1 DEF Elsewhere, Differ
    <3>2. Differ(DueIn(asked'), DueIn(asked), d)
      BY <1>2, <3>1, DueChanges
    <3> QED
      BY <1>4, <3>2 DEF Differ
  <2> QED
    BY <1>2, <1>3, <1>4, <2>1, <2>7, <2>8
<1>8. CASE HandleFrame
  <2>1. PICK i \in Interfaces : \E p \in Range(inbox[i]) :
           HandleIP(p) \/ HandleEcho(p) \/ HandleRequest(p) \/ Ignore(p) \/ HandleReply(p)
    BY <1>8 DEF HandleFrame
  <2>2. PICK p \in Range(inbox[i]) :
           HandleIP(p) \/ HandleEcho(p) \/ HandleRequest(p) \/ Ignore(p) \/ HandleReply(p)
    BY <2>1
  <2>3. /\ GetPacket(p)
        /\ \/ waiting' = waiting /\ p.kind # "reply"
           \/ p.kind = "reply" /\ waiting = 0 /\ waiting' = waiting
           \/ p.kind = "reply" /\ waiting # 0 /\ waiting' = waiting - 1
    BY <2>2 DEF HandleIP, HandleEcho, HandleRequest, Ignore, HandleReply, Release, queue_empty,
           queue_deq
  <2>4. p \in Arrival /\ p.interface \in Interfaces /\ asked' = asked
    BY <2>3, GetPacketTyped DEF Packet, network
  <2>5. p = Head(inbox[p.interface]) /\ inbox' = [inbox EXCEPT ![p.interface] = Tail(@)]
    BY <2>3 DEF GetPacket
  <2>6. DueIn(asked') = DueIn(asked)
    BY <2>4
  <2>7. CASE inbox[p.interface] = <<>>
    <3>1. Tail(<<>>) = <<>>
      OBVIOUS
    <3>2. inbox' = inbox
      BY <1>2, <2>4, <2>5, <2>7, <3>1
    <3> QED
      BY <1>2, <1>3, <1>4, <2>3, <2>6, <3>2
  <2>8. CASE inbox[p.interface] # <<>>
    <3>1. Shorter(inbox', inbox, p.interface) /\ p = Head(inbox[p.interface])
      BY <2>5 DEF Shorter
    <3>2. Differ(UnreadIn(inbox), UnreadIn(inbox'), IsReply(p))
      BY <1>2, <2>4, <2>8, <3>1, UnreadTail
    <3> QED
      BY <1>2, <1>3, <1>4, <2>3, <2>6, <3>2 DEF Differ, IsReply
  <2> QED
    BY <2>7, <2>8
<1>9. CASE Wait
  <2>1. /\ start <= end /\ waiting' = waiting + 1 /\ inbox' = inbox
        /\ asked' = [asked EXCEPT ![<<best_route.next_hop, best_route.interface>>] = @ + 1]
    BY <1>9 DEF Wait, Found, Searching, queue_enq, send_arp
  <2> PICK l : l = <<best_route.next_hop, best_route.interface>>
    OBVIOUS
  <2>2. l \in Links
    BY <2>1, MidTyped DEF Links
  <2>3. asked' = [asked EXCEPT ![l] = @ + 1]
    BY <2>1
  <2> PICK d \in Int : d = 1
    OBVIOUS
  <2>4. Elsewhere(Links, asked, asked', l) /\ Differ(asked'[l], asked[l], d)
    BY <1>2, <2>2, <2>3 DEF Elsewhere, Differ
  <2>5. Differ(DueIn(asked'), DueIn(asked), d)
    BY <1>2, <2>2, <2>4, DueChanges
  <2>6. UnreadIn(inbox') = UnreadIn(inbox)
    BY <2>1
  <2> QED
    BY <1>2, <1>3, <1>4, <2>1, <2>5, <2>6 DEF Differ
<1>10. CASE GoLeft \/ GoRight \/ Unreachable \/ Forward \/ WriteFails
  <2>1. waiting' = waiting /\ asked' = asked /\ inbox' = inbox
    BY <1>10 DEF GoLeft, GoRight, Unreachable, Forward, WriteFails, Found, Searching, queue
  <2> QED
    BY <1>5, <2>1
<1>11. CASE UNCHANGED vars
  <2>1. waiting' = waiting /\ asked' = asked /\ inbox' = inbox
    BY <1>11 DEF vars, queue, network
  <2> QED
    BY <1>5, <2>1
<1> QED
  BY <1>6, <1>7, <1>8, <1>9, <1>10, <1>11 DEF Next, RouterStep, get_best_route

\* NoneWaitsInVain holds in every reachable state, whatever the hops are and however
\* often a packet goes back to the queue: no packet waits for a reply that is not due.
THEOREM RepliesSuffice == Spec => []NoneWaitsInVain
<1>1. Init => TypeInv /\ NoneWaitsInVain
  <2> SUFFICES ASSUME Init PROVE TypeInv /\ NoneWaitsInVain
    OBVIOUS
  <2>1. TypeInv /\ waiting = 0
    BY InitTyped DEF Init
  <2>2. DueIn(asked) \in Nat /\ UnreadIn(inbox) \in Nat
    BY <2>1, Counts DEF TypeInv
  <2>3. Cardinality(Due) \in Nat /\ Cardinality(Unread) \in Nat
    BY <2>1, <2>2, Counts DEF TypeInv, Due, Unread
  <2> QED
    BY <2>1, <2>3 DEF NoneWaitsInVain
<1>2. TypeInv /\ NoneWaitsInVain /\ [Next]_vars => (TypeInv /\ NoneWaitsInVain)'
  BY TypesKept, RepliesKept
<1> QED
  BY <1>1, <1>2, PTL DEF Spec
=============================================================================
