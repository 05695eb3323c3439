----------------------------- MODULE AlbumSwap -----------------------------
(***************************************************************************)
(* What replace_folder_once promises for one album folder: the album that  *)
(* is in place, or would be put back after a crash, changes at single      *)
(* instants from one complete content to an uploaded one.  There is no     *)
(* moment with neither, an upload arrives at most once, and nothing        *)
(* replaced comes back.                                                    *)
(***************************************************************************)
CONSTANTS Uploads,  \* the uploads that bring a new content
          First     \* the content before any of them, or its absence

VARIABLES live,     \* the content in place, or to be put back
          arrived   \* the uploads whose content has been in place

Init == live = First /\ arrived = {}

Switch(u) ==
  /\ u \notin arrived
  /\ live' = u
  /\ arrived' = arrived \cup {u}

Next == \E u \in Uploads : Switch(u)

Spec == Init /\ [][Next]_<<live, arrived>>
=============================================================================
