---------------------------- MODULE MCProcessing ----------------------------
(* The instance of Processing for TLC: three operations, one stream.          *)
EXTENDS Processing

CONSTANTS o1, o2, o3, c1

ThreeOps  == {o1, o2, o3}
OneClient == {c1}
=============================================================================
