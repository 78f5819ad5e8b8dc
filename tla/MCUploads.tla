------------------------------ MODULE MCUploads -----------------------------
(* Files of no bytes up to those of some pieces and a bit. *)
EXTENDS Uploads

SomeSizes == 0..12
SomeChunks == 1..4
=============================================================================
