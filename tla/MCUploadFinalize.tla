-------------------------- MODULE MCUploadFinalize --------------------------
(* Instances of UploadFinalize for TLC: uploads that share a trip. *)
EXTENDS UploadFinalize, TLC

CONSTANTS a, b, c

TwoUploads == {a, b}
ThreeUploads == {a, b, c}
=============================================================================
