------------------------- MODULE MCPublishPipeline -------------------------
(* Small instances of PublishPipeline: two posts p1 and p2, of which p1 has *)
(* the targets, and p2 is the ID a duplicate of p1 gets.                    *)
EXTENDS PublishPipeline, TLC

CONSTANTS p1, p2, t1, t2, a1, a2, instagram, unknown

OneTargetPost == [t \in {t1} |-> p1]
OneTargetAccount == [t \in {t1} |-> a1]
OneTargetPlatform == [t \in {t1} |-> instagram]

TwoTargetsPost == [t \in {t1, t2} |-> p1]
TwoTargetsAccount == [t \in {t1, t2} |-> IF t = t1 THEN a1 ELSE a2]
TwoTargetsPlatform == [t \in {t1, t2} |-> IF t = t1 THEN instagram ELSE unknown]

\* The code treats all tasks alike.
TaskSymmetry == Permutations(JobIds)
=============================================================================
