-------------------------- MODULE MCDBFNetworkPath --------------------------
(* Three links of different length, all objectives up to 12 ticks, of      *)
(* which 6 ticks are the least the path takes, three that are refused, and *)
(* FIBs that are right, wrong in either direction, incomplete or negative. *)
EXTENDS DBFNetworkPath

MCLinkTime == [n \in 0 .. 2 |-> <<2, 1, 3>>[n + 1]]

MCSlo ==
  {s \in [dMin : 0 .. 12, dMax : 0 .. 12] : s.dMin <= s.dMax \/ s.dMax = 0}
    \cup {[dMin |-> 2, dMax |-> 1], [dMin |-> -1, dMax |-> 5], [dMin |-> 0, dMax |-> -1]}

Line(ip, hops, lDelay, toDelay) ==
  [ip |-> ip, entry |-> [hops |-> hops, lDelay |-> lDelay, toDelay |-> toDelay]]

(* Node n knows the link to it and the rest of the way, up to an error. *)
Lines(n, hops, linkError, restError) ==
  <<Line("source", n, <<0, 1, 0>>[n + 1] + linkError, 0),
    Line("destination", hops, 0, <<3, 2, 2>>[n + 1] + restError)>>

Files(lines(_)) == [n \in Node |-> IF n = Hops THEN <<>> ELSE lines(n)]

Exact(n) == Lines(n, 3 - n, 0, 0)
Optimistic(n) == Lines(n, 3 - n, IF n = 1 THEN -1 ELSE 0, -1)
Pessimistic(n) == Lines(n, 3 - n, 1, 1)
(* Every node takes itself for the last; the delays make up for it. *)
Greedy(n) == Lines(n, 1, 0, 2 - n)
(* The file lists an end twice; the second entry is not the right one. *)
Duplicate(n) == Exact(n) \o Lines(n, 9, 5, 5)
NoSource(n) == IF n = 1 THEN Tail(Exact(n)) ELSE Exact(n)
NoHops(n) == IF n = 2 THEN Lines(n, 0, 0, 1) ELSE Exact(n)
NegativeHops(n) == IF n = 1 THEN Lines(n, -2, -2, 9) ELSE Exact(n)

MCFibFiles ==
  {Files(Exact), Files(Optimistic), Files(Pessimistic), Files(Greedy),
   Files(Duplicate), Files(NoSource), Files(NoHops), Files(NegativeHops)}
=============================================================================
