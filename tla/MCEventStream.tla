---------------------------- MODULE MCEventStream ---------------------------
(* Three events of a scope, one of another, and a reader of each kind.     *)
EXTENDS EventStream

Event(name, scope, type) == [name |-> name, scope |-> scope, type |-> type]
MCEvents == {
  Event("i1", "n", "episode.ingested"), Event("i2", "n", "episode.ingested"),
  Event("t1", "n", "memory.tombstoned"), Event("i3", "s", "episode.ingested")}

MCReaders == {"all", "ingested", "session"}
MCScope == [r \in MCReaders |-> IF r = "session" THEN "s" ELSE "n"]
MCTypes == [r \in MCReaders |-> IF r = "ingested" THEN {"episode.ingested"} ELSE {}]
=============================================================================
