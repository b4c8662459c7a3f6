----------------------------- MODULE MCStorage -----------------------------
(* The constants are plain values: storage.cfg gives them.                 *)
EXTENDS StorageProps
=============================================================================
