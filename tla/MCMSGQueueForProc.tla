-------------------------- MODULE MCMSGQueueForProc --------------------------
(* Two processes of the same program are interchangeable.                    *)
EXTENDS MSGQueueForProc, TLC

MCSymmetry == Permutations(Proc)
=============================================================================
