------------------------- MODULE MCReconfigureServer -------------------------
(* Two goals, two profiles and three postures: one that fits both, one     *)
(* that fits the second profile only and one on the way that fits neither. *)
EXTENDS ReconfigureServer

TwoGoals   == 1..2
TwoProfiles == {"home", "carry"}
ThreePostures == {"folded", "spread", "between"}
FitsProfile == [p \in TwoProfiles |->
                  IF p = "home" THEN {"folded"} ELSE {"folded", "spread"}]

(* MoveIt and the joint states are both late, or both prompt; or the       *)
(* joint states are prompt and only MoveIt is late.                        *)
LateOrPrompt == {[late |-> TRUE, lags |-> TRUE], [late |-> FALSE, lags |-> FALSE]}
LateMoveIt == {[late |-> TRUE, lags |-> FALSE]}
PromptWorld == {[late |-> FALSE, lags |-> FALSE]}
=============================================================================
