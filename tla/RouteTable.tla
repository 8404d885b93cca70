----------------------------- MODULE RouteTable -----------------------------
(***************************************************************************)
(* The routing table of tema1 (parser.c and router.c): what a file of      *)
(* routes becomes, how it is sorted, and one comparison of the search.     *)
(*                                                                         *)
(* An address has two octets below Octet.  It is compared as the unsigned  *)
(* word that a little-endian machine loads, in which the first octet is    *)
(* the lowest.  A mask keeps the first octets.                             *)
(***************************************************************************)
EXTENDS Integers, Sequences, FiniteSets, Functions

CONSTANTS Octet, Hops, Interfaces

ASSUME RouteTableAssumption ==
    /\ Octet \in Nat /\ Octet > 1
    /\ Interfaces \subseteq Nat

Address == (0 .. Octet - 1) \X (0 .. Octet - 1)
WordSize == Octet * Octet

\* A line of the file.
Entry == [prefix : Address, mask : 0 .. 2, next_hop : Hops, interface : Interfaces]

\* address & mask.
And(a, octets) ==
    (IF octets > 0 THEN a[1] ELSE 0) + (IF octets > 1 THEN Octet * a[2] ELSE 0)

Key(r) == And(r.prefix, r.mask)

Matches(dest_ip, r) == And(dest_ip, r.mask) = Key(r)

\* Mutant of compar: the smaller word first.
comparAscending(r1, r2) == Key(r1) - Key(r2)

\* An unsigned difference, returned as an int.
compar(r1, r2) ==
    LET d == (Key(r2) - Key(r1)) % WordSize
    IN  IF 2 * d < WordSize THEN d ELSE d - WordSize

Transitive(R) ==
    \A a, b, c \in R : compar(a, b) <= 0 /\ compar(b, c) <= 0 => compar(a, c) <= 0

\* What qsort leaves.  Where compar is no order, only neighbours were compared.
Sorted(t) ==
    \A i, j \in DOMAIN t :
        i < j /\ (Transitive(Range(t)) \/ j = i + 1) => compar(t[i], t[j]) <= 0

\* read_rtable and sort_rtable.
TablesOf(file) == {t \in [1 .. Cardinality(file) -> file] : Range(t) = file /\ Sorted(t)}
=============================================================================
