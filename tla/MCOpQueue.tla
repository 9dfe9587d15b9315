----------------------------- MODULE MCOpQueue -----------------------------
(* Instances of OpQueue for TLC.  The ids are hashes, so any ranking is    *)
(* possible; the second message of r1 ranks first here.                    *)
EXTENDS OpQueue

CONSTANTS r1, r2

QueueOfOne == {r1}
QueueOfTwo == {r1, r2}

IdByReverseNonce == [m \in QueuedMessage |-> QueueLength - m[2]]
IdSpread == [m \in QueuedMessage |-> IF m[1] = r1 THEN 2 * (QueueLength - m[2])
                                                  ELSE 2 * m[2] + 3]
=============================================================================
