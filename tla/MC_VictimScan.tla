---------------------------- MODULE MC_VictimScan ----------------------------
(* Instances of VictimScan for TLC.                                        *)
EXTENDS VictimScan

TwoScores == {1, 2}

===============================================================================
