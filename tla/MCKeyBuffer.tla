---------------------------- MODULE MCKeyBuffer -----------------------------
(* Small instances of KeyBuffer: a ring of two or three slots and two or   *)
(* three distinguishable characters, so that the ring fills, wraps around  *)
(* and is read while it is written.                                        *)
EXTENDS KeyBuffer, TLC
=============================================================================
