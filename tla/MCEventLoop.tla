----------------------------- MODULE MCEventLoop ----------------------------
(***************************************************************************)
(* A finite instance of EventLoop for TLC: two processes, of which a probe *)
(* looks after one, with a call and an attempt in each.                    *)
(***************************************************************************)
EXTENDS EventLoop, TLC

CONSTANTS c1, c2, a1, a2, p1, p2, r1, r2, alice, bob

Home == c1 :> p1 @@ a1 :> p1 @@ c2 :> p2 @@ a2 :> p2

\* Bounds: alice submits every request before bob's first call; c1 approves both
\* and c2 any call; a bulk call names no id twice; a process ends only with its loop
\* blocked; no request grows old before calls and attempts are over.
Bounds ==
    /\ \A r \in Request : requests'[r].requester # bob
    /\ \A c \in Call :
          /\ job'[c].by # alice
          /\ pc[c] = "idle" /\ pc'[c] # "idle" =>
                /\ \A r \in Request : requests[r].requester = alice
                /\ c = c1 => job'[c].op = "approve" /\ job'[c].todo = <<r1, r2>>
                /\ job'[c].bulk => job'[c].todo[1] # job'[c].todo[2]
    /\ lost' # lost => \E p \in Process : blocks[p] # Free /\ blocks'[p] = Free
    /\ aged' # aged => /\ \A c \in Call : pc[c] = "done"
                       /\ \A a \in Attempt : stage[a] = "done"

BoundedSpec == LoopInit /\ [][LoopNext /\ Bounds]_allVars

MCSpec == BoundedSpec /\ LoopFairness
==============================================================================
