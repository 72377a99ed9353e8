------------------------------ MODULE MCLocalCache ------------------------------
(***************************************************************************)
(* Model checking of LocalCache: a server with two clients, and a process  *)
(* of the same node with the same shared cache.                            *)
(***************************************************************************)
EXTENDS LocalCache, TLC

CONSTANTS server, client, u1, u2, u3, ms, mc, shm, a, b, r1, r2, r3

MCTop == (server :> ms) @@ (client :> mc)
MCNext == (ms :> shm) @@ (mc :> shm) @@ (shm :> Disk)
MCProc == (u1 :> server) @@ (u2 :> server) @@ (u3 :> client)
MCFile == (a :> "f") @@ (b :> "f")
MCUser == (r1 :> u1) @@ (r2 :> u2) @@ (r3 :> u3)
MCBlock == (r1 :> a) @@ (r2 :> a) @@ (r3 :> b)
===============================================================================
