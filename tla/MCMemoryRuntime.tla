--------------------------- MODULE MCMemoryRuntime --------------------------
(* Constants for model-checking MemoryRuntime on small instances.          *)
EXTENDS MemoryRuntime, TLC

CONSTANTS e1, e2, a1, c1

\* A namespace and one session of it, which requests to the namespace also see.
Namespace == [space |-> "n", agent |-> "*", session |-> "*"]
Session == [space |-> "n", agent |-> "*", session |-> "s"]

Ref(id, type, scope) == [id |-> id, type |-> type, scope |-> scope]
In(scope, episodes, atoms, cons) ==
  {Ref(x, "episode", scope) : x \in episodes}
  \cup {Ref(x, "atom", scope) : x \in atoms}
  \cup {Ref(x, "consolidation", scope) : x \in cons}

OneScope == {Namespace}
TwoScopes == {Namespace, Session}

RefsTiny == In(Namespace, {e1}, {a1}, {c1})
RefsSmall == In(Namespace, {e1, e2}, {a1}, {c1})
RefsNested == In(Session, {e1, e2}, {a1}, {}) \cup In(Namespace, {}, {}, {c1})

NoContradiction == {}
Contradictions ==
  {<<Ref(x, "episode", Namespace), Ref(c1, "consolidation", Namespace)>> : x \in {e1, e2}}

DefaultFilters == {{}}
AllFilters == SUBSET {"tombstoned", "disputed", "superseded"}

\* Ids of one type and scope are interchangeable.
IdSymmetry == Permutations({e1, e2})
=============================================================================
