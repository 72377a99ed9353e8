------------------------------- MODULE MCFileCache -------------------------------
(***************************************************************************)
(* Model checking of FileCache: instances and properties.                  *)
(***************************************************************************)
EXTENDS FileCache, TLC

CONSTANTS p1, p2, p3, n1, n2, r1, r2, r3, r4, a, b

(* Two processes share a node, the third is alone.                         *)
MCProcs == {p1, p2, p3}
MCNode == (p1 :> n1) @@ (p2 :> n1) @@ (p3 :> n2)
MCReqs == {r1, r2, r3, r4}
MCProc == (r1 :> p1) @@ (r2 :> p2) @@ (r3 :> p3) @@ (r4 :> p1)
MCBlock == (r1 :> a) @@ (r2 :> b) @@ (r3 :> a) @@ (r4 :> a)
BothKinds == {"fcntl", "link"}

(* The requests of a behaviour: one of each process, or two of a process   *)
(* and one of another for the same block, while nobody dies.  Who asks for *)
(* nothing is not started.                                                 *)
VARIABLE asked
MCInit == Init /\ asked \in {{r1, r2, r3}, {r1, r4, r3}}
MCNext == /\ Next /\ UNCHANGED asked
          /\ \A r \in Reqs \ asked : req'[r] = req[r] \/ req'[r].pc = "gone"
          /\ r4 \in asked => crashes' = 0
          /\ \A p \in Procs : start'[p] = "off" \/ Of(p) \cap asked # {}
MCSpec == MCInit /\ [][MCNext]_<<vars, asked>> /\ Fairness
===============================================================================
