---------------------------- MODULE MCInterface ----------------------------
(***************************************************************************)
(* Three parts of the terminal interface that share no state: the tree of  *)
(* profiles, the manual routing rules and the choice of the routing        *)
(* source.  Each is explored while the others rest in one initial state.   *)
(***************************************************************************)
EXTENDS AppTree, RoutingRules, RoutingSource

VARIABLE part

Twice == [s \in Scenes |-> IF s = "reorder" THEN 2 ELSE 1]
Steps == [s \in Scenes |-> Twice[s] + 1]
Drops == [s \in Scenes |-> IF s = "details" THEN 1 ELSE 0]

Init ==
  /\ part \in {"tree", "rules", "source"}
  /\ TreeInit /\ RulesInit /\ SourceInit
  /\ part = "tree" \/ scene = "fold"
  /\ part = "rules" \/ stored = [g \in Gids |-> None]
Next == \/ part = "tree" /\ TreeNext /\ UNCHANGED <<part, ruleVars, sourceVars>>
        \/ part = "rules" /\ RulesNext /\ UNCHANGED <<part, treeVars, sourceVars>>
        \/ part = "source" /\ SourceNext /\ UNCHANGED <<part, treeVars, ruleVars>>
Spec == Init /\ [][Next]_<<part, treeVars, ruleVars, sourceVars>>
=============================================================================
