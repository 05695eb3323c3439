------------------------- MODULE MCAlbumProcessing -------------------------
(* Instances of AlbumProcessing for TLC: three steps, three photos. *)
EXTENDS AlbumProcessing

File(name, shape) == [name |-> name, shape |-> shape]

\* A first export with a photo that two steps share, and one that lacks a step
\* and a photo, has another step, and has other pixels under a known name.
First == [cover |-> 2, steps |-> 1 :> {File(1, "l"), File(2, "l")} @@ 2 :> {File(2, "l")}]
Second == [cover |-> 9, steps |-> 1 :> {File(2, "pano")} @@ 3 :> {File(3, "p")}]

MCExports == <<First, Second>>
SmallExports == <<[cover |-> 1, steps |-> 1 :> {File(1, "l")} @@ 2 :> {File(2, "p")}]>>
=============================================================================
