---------------------------- MODULE MCWriterLock ----------------------------
(* Two writers on hosts one second apart, short TTL, every fault.          *)
EXTENDS WriterLock, TLC

CONSTANTS w1, w2

MCWriters == {w1, w2}
MCOffset == w1 :> 0 @@ w2 :> 1
=============================================================================
