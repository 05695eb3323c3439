---------------------------- MODULE PagePacking ----------------------------
(***************************************************************************)
(* How a step's photos are packed into pages: logic/layout/builder.py.     *)
(* A photo is a model value or a number; what matters is how many there    *)
(* are and in which order.                                                 *)
(***************************************************************************)
EXTENDS Integers, Sequences, SequencesExt

Ceil(n, size) == (n + size - 1) \div size

PortraitPageCount(n) == Ceil(n, 3)

LandscapePageCount(n) == IF n = 2 THEN 2 ELSE Ceil(n, 4)

\* -n % 4: how many pages of three make the rest divisible by four.
ThreePageCount(n) == (4 - (n % 4)) % 4

BadPageCount(p, l) ==
    (IF p % 3 = 1 THEN 1 ELSE 0) + (IF l >= 3 /\ l # 5 THEN ThreePageCount(l) ELSE 0)

\* The number of pages of one portrait and two landscapes: the first that needs
\* the fewest pages, then the fewest bad ones, and none unless it saves any.
OptimalMixedCount(p, l) ==
    LET most == IF p < l \div 2 THEN p ELSE l \div 2
        total(b) == b + PortraitPageCount(p - b) + LandscapePageCount(l - 2 * b)
        bad(b) == BadPageCount(p - b, l - 2 * b)
        saves(b) == total(b) < p + l \/ (total(b) = p + l /\ bad(b) < p + l)
        better(b, c) == \/ total(b) < total(c)
                        \/ total(b) = total(c) /\ bad(b) < bad(c)
                        \/ total(b) = total(c) /\ bad(b) = bad(c) /\ b < c
        best == {b \in 0 .. most : saves(b) /\ \A c \in 0 .. most : b = c \/ better(b, c)}
    IN  IF best = {} THEN 0 ELSE CHOOSE b \in best : TRUE

\* Mutant: a page that would not be full is dropped.
PagesOf_FullOnly(items, size) ==
    [k \in 1 .. Len(items) \div size |-> SubSeq(items, (k - 1) * size + 1, k * size)]

PagesOf(items, size) ==
    [k \in 1 .. Ceil(Len(items), size) |->
        SubSeq(items, (k - 1) * size + 1,
               IF k * size < Len(items) THEN k * size ELSE Len(items))]

LandscapePages(items) ==
    LET n == Len(items)
        cut == n - 3 * ThreePageCount(n)
    IN  CASE n < 3 -> [i \in 1 .. n |-> <<items[i]>>]
          [] n = 5 -> <<SubSeq(items, 1, 4), <<items[5]>>>>
          [] OTHER -> PagesOf(SubSeq(items, 1, cut), 4) \o PagesOf(SubSeq(items, cut + 1, n), 3)

\* Standalone portraits, then mixed pages, then the landscapes that are left.
BuildPages(portraits, landscapes) ==
    LET mixed == OptimalMixedCount(Len(portraits), Len(landscapes))
    IN  PagesOf(SubSeq(portraits, mixed + 1, Len(portraits)), 3)
        \o [i \in 1 .. mixed |-> <<portraits[i], landscapes[2 * i - 1], landscapes[2 * i]>>]
        \o LandscapePages(SubSeq(landscapes, 2 * mixed + 1, Len(landscapes)))
=============================================================================
