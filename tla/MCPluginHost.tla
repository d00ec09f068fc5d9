---------------------------- MODULE MCPluginHost ----------------------------
(* Plugins of one kind, one of them with "::" in its name, one invalid, and *)
(* one of another kind; a batch that repeats a key.                         *)
EXTENDS PluginHost

CONSTANTS ranker, colons, invalid, embedder, l1, l2

MCKeys == {ranker, colons, invalid, embedder}
MCKind == [k \in MCKeys |-> IF k = embedder THEN "embedder" ELSE "ranker"]
MCParsed == [k \in MCKeys |-> IF k = colons THEN NoKey ELSE k]
MCFault == [k \in MCKeys |-> IF k = invalid THEN "config" ELSE "none"]
MCBatches == {<<ranker, ranker>>, <<ranker, embedder>>, <<embedder, invalid>>}

ListenerSymmetry == Permutations({l1, l2})
=============================================================================
