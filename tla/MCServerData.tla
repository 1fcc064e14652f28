----------------------------- MODULE MCServerData -----------------------------
(* Instances of ServerData for TLC.                                          *)
EXTENDS ServerData, TLC

CONSTANTS u1, u2, c1, c2, s1, s2, t1, srv, j1, j2

MCSecond == 0..1

MCContent == Tables

Symmetry == Permutations(User) \cup Permutations(Call) \cup Permutations(AuthSecret)
 \cup Permutations(Job)
===============================================================================
