------------------------------ MODULE MCDeploy ------------------------------
(***************************************************************************)
(* Two of the four tools, one backup kept, a clock that may go back, and   *)
(* two runs of the scripts with three failures.                            *)
(***************************************************************************)
EXTENDS Deploy, TLC

CONSTANTS ctl, containerctl

MCTool == {ctl, containerctl}
Symmetry == Permutations(MCTool)
=============================================================================
