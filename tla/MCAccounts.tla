----------------------------- MODULE MCAccounts -----------------------------
(* A real user and a demo with two albums each, and two evictions at the same *)
(* time, in a storage that holds one album.                                   *)
EXTENDS Accounts

CONSTANTS r, d, r1, r2, d1, d2, e1, e2

MCUsers == {r, d}
MCDemos == {d}
MCAlbums == {r1, r2, d1, d2}
MCOwner == [a \in Albums |-> IF a \in {r1, r2} THEN r ELSE d]
MCEvictions == {e1, e2}

Symmetry ==
  Permutations(Evictions) \cup Permutations({r1, r2}) \cup Permutations({d1, d2})
=============================================================================
