---------------------------- MODULE MCAlbumPhoto ----------------------------
(* Instances of AlbumPhoto for TLC: two pictures, at most two requests. *)
EXTENDS AlbumPhoto, TLC

CONSTANTS p1, p2, r1, r2

TwoPictures == {p1, p2}
OneRequest  == {r1}
TwoRequests == {r1, r2}
=============================================================================
