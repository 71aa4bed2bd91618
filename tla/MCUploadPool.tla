---------------------------- MODULE MCUploadPool ----------------------------
(* Instances of UploadPool for TLC. *)
EXTENDS UploadPool

CONSTANTS w1, w2
=============================================================================
