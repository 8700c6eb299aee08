-------------------------- MODULE MCNovelTransfers --------------------------
(* Instances of NovelTransfers for TLC.                                    *)
EXTENDS NovelTransfers, TLC

CONSTANTS c1, c2

\* One file of the target project is replaced, one is created.
TwoFiles == <<"characters", "world">>
OneOld   == {"characters"}

=============================================================================
