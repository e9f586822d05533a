------------------------------- MODULE IfAddr -------------------------------
(* get_ip.c: the address of this machine, or of its partner, found in the     *)
(* list of interfaces and moved by an offset.  An interface is a record       *)
(* [name, family, addr]; one without an address has the family "NONE".        *)
EXTENDS Integers, Sequences

CONSTANTS
    AddrSpace,   \* 2^32
    NoAddr,      \* NULL
    Crash        \* the process ends on a null pointer

\* The test of the loop.  Mutant: the family is not looked at.
AnyFamily(i, ifname) == i.name = ifname
Matches(i, ifname) == i.name = ifname /\ i.family = "INET"

\* Mutants: the first interface is skipped; the last match is taken.
SkipsFirst(ifaddrs) == 2..(Len(ifaddrs) - 1)
LastOf(ifaddrs, ifname, n) ==
    /\ Matches(ifaddrs[n], ifname)
    /\ \A m \in (n + 1)..Len(ifaddrs) : ~Matches(ifaddrs[m], ifname)

\* The loop tests whether there is a next interface after it has stepped to this
\* one, so the last is looked at only when it is the first.
Examined(ifaddrs) == {1} \cup 1..(Len(ifaddrs) - 1)

\* The first that is looked at and matches, unless an interface of that name
\* without an address comes before it.
FirstOf(ifaddrs, ifname, n) ==
    /\ Matches(ifaddrs[n], ifname)
    /\ \A m \in 1..(n - 1) : ~Matches(ifaddrs[m], ifname)
Dereferenced(ifaddrs, ifname, n) ==
    \A m \in 1..n : ~(ifaddrs[m].name = ifname /\ ifaddrs[m].family = "NONE")

offset_addr(ifaddrs, ifname, offset) ==
    IF \E n \in Examined(ifaddrs) :
         FirstOf(ifaddrs, ifname, n) /\ Dereferenced(ifaddrs, ifname, n)
    THEN LET n == CHOOSE n \in Examined(ifaddrs) : FirstOf(ifaddrs, ifname, n)
         IN  (ifaddrs[n].addr + offset) % AddrSpace
    ELSE IF Len(ifaddrs) = 1 \/ \E n \in Examined(ifaddrs) : ~Dereferenced(ifaddrs, ifname, n)
    THEN Crash
    ELSE NoAddr

\* find_addr has a fixed offset for each use; for any other the offset is not
\* initialised.
OffsetOf(is_host) ==
    CASE is_host = -2 -> 2 [] is_host = -1 -> 0 [] is_host = 0 -> -100 [] is_host = 1 -> 100

find_addr(ifaddrs, ifname, is_host) == offset_addr(ifaddrs, ifname, OffsetOf(is_host))
=============================================================================
