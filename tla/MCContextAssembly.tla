-------------------------- MODULE MCContextAssembly -------------------------
(* An episode, a consolidation that merged it, and another episode.        *)
EXTENDS ContextAssembly

MCObjects == {"e1", "e2", "con"}
MCSources == [r \in MCObjects |-> IF r = "con" THEN {"e1"} ELSE {}]
MCTokens == [r \in MCObjects |-> IF r = "con" THEN 3 ELSE 1]

Ask(maxTokens, reserved, segments, shown) ==
  [maxTokens |-> maxTokens, reservedTokens |-> reserved, budgetSegments |-> segments,
   constraintSegments |-> Unset, shown |-> shown, mustInclude |-> {"e2"}]

\* No bound that binds; a bound on tokens; on segments; one token left unreserved.
\* More reserved than there is, and a budget of no segments: not valid, but answered.
MCRequests == {
  Ask(9, 0, Unset, {"disputed", "superseded", "tombstoned"}),
  Ask(4, 1, Unset, {}),
  [Ask(9, 0, 2, {}) EXCEPT !.constraintSegments = 3],
  Ask(2, 1, Unset, {"superseded"}),
  Ask(2, 4, Unset, {"disputed"}),
  [Ask(9, 0, 0, {}) EXCEPT !.constraintSegments = 2]}
=============================================================================
