----------------------------- MODULE MCBlockCache -----------------------------
(* Small instances of BlockCache.  Two client processes, each with its own *)
(* memory cache, over one cache in shared memory, over the network; or two *)
(* processes directly on one shared cache.                                 *)
EXTENDS BlockCache, TLC

CONSTANTS p1, p2, t1, t2, m1, m2, shm

MCProc == t1 :> p1 @@ t2 :> p2
ThreeReq == {<<p1, 1>>, <<p1, 2>>, <<p2, 1>>}
FourReq  == {p1, p2} \X {1, 2}

MCBin  == [c \in Caches |-> [b \in Blocks |-> CHOOSE i \in Bins : TRUE]]

TwoLevelTop  == t1 :> m1 @@ t2 :> m2
TwoLevelNext == m1 :> shm @@ m2 :> shm @@ shm :> Net

OneLevelTop  == t1 :> shm @@ t2 :> shm
OneLevelNext == shm :> Net

Symmetry == Permutations(Blocks)

(* The bounded execution is over: every request was released, forgotten by *)
(* the prefetcher or never needed, or its process ended.                   *)
Done == /\ \A r \in Reqs : req[r].pc \in {"unused", "deleted", "forgotten"} \/ ~Live(r)
        /\ UNCHANGED vars

MCSpec == Init /\ [][Next \/ Done]_vars

(* Both readers have just been called for all the blocks: the state after  *)
(* the two StartRead steps, from where they collide on every block.        *)
CollidingInit == /\ Init!1 /\ Init!2 /\ Init!3 /\ Init!4
                 /\ todo = [t \in Readers |-> Blocks]
                 /\ Init!6

(* No poll times out before some process has ended: the reads must not     *)
(* need it.  Afterwards a poll that waits long enough does.                *)
LateTimeout(t) == /\ \E p \in Procs : halted[p] # "no"
                  /\ \E r \in Mine(t) : PollTimeout(r)

CollidingNext == \/ \E t \in Readers : ReaderThread(t) \/ LateTimeout(t)
                 \/ \E p \in Procs : TransferPool(p) \/ WritePool(p)

CollidingSpec == /\ CollidingInit /\ [][CollidingNext]_vars /\ Progress
                 /\ \A t \in Readers : WF_vars(LateTimeout(t))
===============================================================================
