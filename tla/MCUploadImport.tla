--------------------------- MODULE MCUploadImport ---------------------------
(* Instances of UploadImport for TLC: one or two uploads, one or two requests *)
(* handled at the same time, and a workspace that holds one upload.           *)
EXTENDS UploadImport, TLC

CONSTANTS u1, u2, r1, r2

OneUpload   == {u1}
TwoUploads  == {u1, u2}
OneRequest  == {r1}
TwoRequests == {r1, r2}

UnitSize == [u \in Uploads |-> 1]

RequestSymmetry == Permutations(Requests)
Symmetry == Permutations(Requests) \cup Permutations(Uploads)

(* For the admission: what happens before a selection is offered, and        *)
(* without the expiry loop, whose rows do not count any more.                 *)
BeforeTheChoice == sweep = NoSweep /\ \A u \in Uploads : ~row[u].choices
=============================================================================
