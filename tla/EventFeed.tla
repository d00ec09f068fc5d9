------------------------------ MODULE EventFeed -----------------------------
(***************************************************************************)
(* What docs/architecture/consistency.md (77-80) promises a reader of      *)
(* lifecycle events: each answer leaves it with every event published so   *)
(* far of its scope and types.  A restart of a runtime without a database  *)
(* forgets the events and what was delivered of them.                      *)
(*                                                                         *)
(* Line 80 also wants an error for a cursor that is not known.  The code   *)
(* gives none: in memory it answers with the whole stream, over Postgres   *)
(* with nothing.  So a feed here has no errors.                            *)
(***************************************************************************)
CONSTANTS
  Events,         \* the events ever published
  Readers,
  Wants(_, _)     \* does a reader ask for an event's scope and type?

VARIABLES
  published,      \* the events published
  delivered       \* the events each reader has been given

FeedInit ==
  /\ published = {}
  /\ delivered = [r \in Readers |-> {}]

Publish(e) ==
  /\ e \notin published
  /\ published' = published \cup {e}
  /\ UNCHANGED delivered

Deliver(r) ==
  /\ delivered' = [delivered EXCEPT ![r] = {e \in published : Wants(r, e)}]
  /\ UNCHANGED published

Forget == published' = {} /\ delivered' = [r \in Readers |-> {}]

FeedNext ==
  \/ \E e \in Events : Publish(e)
  \/ \E r \in Readers : Deliver(r)
  \/ Forget

FeedSpec == FeedInit /\ [][FeedNext]_<<published, delivered>>
=============================================================================
