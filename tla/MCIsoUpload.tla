----------------------------- MODULE MCIsoUpload -----------------------------
(* Two uploads compete for one name; two chunks make a first and a last one. *)
EXTENDS IsoUpload

CONSTANTS u1, u2

TwoUploads == {u1, u2}
=============================================================================
