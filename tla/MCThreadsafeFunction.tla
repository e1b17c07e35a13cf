----------------------- MODULE MCThreadsafeFunction -----------------------
(* Small instances of ThreadsafeFunction: two or three threads and a queue *)
(* of one call, so that every call can find the queue full.                *)
EXTENDS ThreadsafeFunction

CONSTANTS t1, t2, t3
============================================================================
