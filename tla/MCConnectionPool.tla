---------------------------- MODULE MCConnectionPool ----------------------------
(* Small instances of ConnectionPool: two servers with a socket each, the  *)
(* default of Config.h, and one or two calls that open the same file.      *)
EXTENDS ConnectionPool, TLC

CONSTANTS x1, x2, s1, s2, f1, o1, o2

TwoServers == x1 :> s1 @@ x2 :> s2

OneFile  == o1 :> f1 @@ o2 :> f1
OneOpen  == o1 :> f1

(* The two calls open the same file and may be exchanged, and so may the   *)
(* two servers with their sockets.                                         *)
SwapServers == s1 :> s2 @@ s2 :> s1 @@ x1 :> x2 @@ x2 :> x1
Symmetry == Permutations(Openers) \cup {SwapServers @@ f : f \in Permutations(Openers)}
===============================================================================
