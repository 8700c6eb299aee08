---------------------------- MODULE MCNovelTasks ----------------------------
(* Instances of NovelTasks for TLC.                                        *)
EXTENDS NovelTasks, TLC

CONSTANTS o1, o2
=============================================================================
