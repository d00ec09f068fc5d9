----------------------------- MODULE MCSqlStores ----------------------------
(* An episode and an atom of a session, and the namespace around it.       *)
EXTENDS SqlStores

Namespace == [space |-> "n", session |-> "*"]
Session == [space |-> "n", session |-> "s"]
MCScopes == {Namespace, Session}
MCIngestScopes == {Session}

MCRefs == {[id |-> "e1", type |-> "episode", scope |-> Session],
           [id |-> "a1", type |-> "atom", scope |-> Session]}
=============================================================================
