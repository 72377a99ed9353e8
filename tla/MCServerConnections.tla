------------------------- MODULE MCServerConnections -------------------------
(***************************************************************************)
(* Model checking of ServerConnections, with the sockets of one client, or *)
(* of several, and of ClientCleanup.  The two have nothing in common: one  *)
(* of them runs and the other stays as it is.                              *)
(***************************************************************************)
EXTENDS ServerConnections, ClientCleanup

CONSTANTS k1, k2, s1, s2, s3

OneClient  == [s \in Sockets |-> k1]
TwoClients == [s \in Sockets |-> IF s = s3 THEN k2 ELSE k1]

MCInit == Init /\ CleanupInit

MCNext ==
  \/ CleanupInit /\ Next /\ UNCHANGED cleanupVars
  \/ Init /\ CleanupNext /\ UNCHANGED vars

MCSpec == MCInit /\ [][MCNext]_<<vars, cleanupVars>> /\ Fairness /\ CleanupFair
===============================================================================
