--------------------------- MODULE MCMediaLibrary ---------------------------
(* One file key and the output of one job, which is a key too.               *)
EXTENDS MediaLibrary
=============================================================================
