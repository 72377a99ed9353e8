------------------------------ MODULE MCClientFiles ------------------------------
(***************************************************************************)
(* Four parts of the client library that meet in an open file, checked one *)
(* at a time: the tables through which three threads, two of them with     *)
(* streams that get one FILE pointer after the other, find a file and a    *)
(* position; what the calls on one position copy; how the file gets its    *)
(* index in the memory that processes share; and how its blocks come if it *)
(* is a URL.                                                               *)
(***************************************************************************)
EXTENDS ClientFiles, ReadPath, SharedMemory, UrlFiles, TLC

CONSTANTS t1, t2, t3, m1, m2

Symmetry == Permutations(Streaming) \cup Permutations(Metas)

MCInit == FilesInit /\ ReadInit /\ SharedInit /\ UrlInit

NotShared == once = [p \in Processes |-> Unused] /\ kills = 0
NoUrls == user = [u \in UrlUsers |-> Away] /\ ~curl.started /\ ~onStart

MCNext ==
  \/ /\ source = Closed /\ NotShared /\ NoUrls /\ FilesNext
     /\ UNCHANGED <<readVars, sharedVars, urlVars>>
  \/ /\ opens = 0 /\ NotShared /\ NoUrls /\ ReadNext
     /\ UNCHANGED <<filesVars, sharedVars, urlVars>>
  \/ /\ opens = 0 /\ source = Closed /\ NoUrls /\ SharedNext
     /\ UNCHANGED <<filesVars, readVars, urlVars>>
  \/ /\ opens = 0 /\ source = Closed /\ NotShared /\ UrlNext
     /\ UNCHANGED <<filesVars, readVars, sharedVars>>

MCSpec == MCInit /\ [][MCNext]_<<filesVars, readVars, sharedVars, urlVars>>
===============================================================================
