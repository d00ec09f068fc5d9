-------------------------- MODULE ContextAssembly ---------------------------
(***************************************************************************)
(* MemoryRuntimeService.assembleContext (service.ts 283-390), with the     *)
(* query and hydrate it runs.  Between its awaits other calls write the    *)
(* statuses it goes on to read.  What they may write is what MemoryRuntime *)
(* lets them: no status but a first one is ever "active", and provenance   *)
(* names objects that exist and never changes.                             *)
(***************************************************************************)
EXTENDS Integers, Sequences, SequencesExt, FiniteSets

CONSTANTS
  Objects,          \* the refs of the objects the scope sees
  sources,          \* provenance.sourceRefs of each object
  tokens,           \* estimateTokens of each object's content
  AssembleRequests, \* the requests made
  Unset,            \* a field the request leaves out
  MaxWritten        \* objects other calls write during one call

VARIABLES
  status,           \* object store: the status of each object
  request,          \* the request in progress, or the last one
  call,             \* the locals of assembleContext
  written           \* the objects other calls wrote since the call began

vars == <<status, request, call, written>>

Statuses == {"active", "disputed", "superseded", "tombstoned", "pending"}

\* reservedTokens is 0 if it is left out.
ASSUME AssemblyAssumption ==
  /\ IsFiniteSet(Objects)
  /\ sources \in [Objects -> SUBSET Objects]
  /\ tokens \in [Objects -> Nat \ {0}]
  /\ Unset \notin Nat \cup Objects
  /\ AssembleRequests \subseteq
       [maxTokens : Nat, reservedTokens : Nat, budgetSegments : Nat \cup {Unset},
        constraintSegments : Nat \cup {Unset}, shown : SUBSET Statuses,
        mustInclude : SUBSET Objects]
  /\ MaxWritten \in Nat

\* validateAssembleContextRequest, which assembleContext does not call: it takes any
\* request with a scope.
validateAssembleContextRequest(q) ==
  /\ q.maxTokens > 0 /\ q.reservedTokens < q.maxTokens
  /\ q.budgetSegments # 0 /\ q.constraintSegments # 0

\* A warning about an object, or about the whole context.
Warning == [code : {"disputed_memory_included", "superseded_memory_included",
                    "stale_consolidation", "required_ref_omitted"}, ref : Objects]
             \cup [code : {"empty_context", "truncated"}, ref : {Unset}]

NoCall == [pc |-> "idle", candidates |-> {}, refs |-> <<>>, at |-> 0,
           held |-> [r \in {} |-> "active"], toCheck |-> {}, segments |-> <<>>,
           tokenEstimate |-> 0, truncated |-> FALSE, warnings |-> {}]

\* What hydrate returned, by ref.
Held == UNION {[S -> Statuses] : S \in SUBSET Objects}

Call == [pc : {"idle", "read", "hydrate", "next", "sources", "finish", "done"},
         candidates : SUBSET Objects, refs : Seq(Objects), held : Held, at : Nat,
         toCheck : SUBSET Objects, segments : Seq(Objects), tokenEstimate : Nat,
         truncated : BOOLEAN, warnings : SUBSET Warning]

TypeOK ==
  /\ status \in [Objects -> Statuses]
  /\ request \in AssembleRequests
  /\ written \subseteq Objects
  /\ call \in Call
  /\ call.at \in 0 .. Len(call.refs) /\ (call.pc = "sources" => call.at > 0)

Init ==
  /\ status \in [Objects -> Statuses]
  /\ request \in AssembleRequests
  /\ call = NoCall
  /\ written = {}

tokenLimit ==
  IF request.reservedTokens > request.maxTokens THEN 0
  ELSE request.maxTokens - request.reservedTokens

limit(q) ==
  IF q.constraintSegments # Unset THEN q.constraintSegments
  ELSE IF q.budgetSegments # Unset THEN q.budgetSegments ELSE 25

isVisibleForRead(r) == status[r] \in {"active", "pending"} \cup request.shown

-----------------------------------------------------------------------------
\* search: the index may be ahead of the statuses or behind them.
SearchIndex(q) ==
  /\ call.pc \in {"idle", "done"}
  /\ request' = q /\ written' = {}
  /\ \E found \in SUBSET Objects :
       /\ Cardinality(found) <= limit(q)
       /\ call' = [NoCall EXCEPT !.pc = "read", !.candidates = found]
  /\ UNCHANGED status

\* getMany and the filters of query, then the ranker, which orders what is left.
ReadCandidates ==
  /\ call.pc = "read"
  /\ \E refs \in SetToSeqs({r \in call.candidates : isVisibleForRead(r)}) :
       call' = [call EXCEPT !.pc = "hydrate", !.refs = refs, !.candidates = {}]
  /\ UNCHANGED <<status, request, written>>

\* Mutant: what is tombstoned is held too.
HydrateAll ==
  /\ call.pc = "hydrate"
  /\ call' = [call EXCEPT !.pc = "next", !.held = [r \in ToSet(call.refs) |-> status[r]]]
  /\ UNCHANGED <<status, request, written>>

\* Mutant: a ref that is not returned is held as a gap.
HydrateMissing ==
  /\ call.pc = "hydrate"
  /\ call' = [call EXCEPT !.pc = "next",
       !.held = [r \in ToSet(call.refs) |->
                   IF status[r] = "tombstoned" THEN "missing" ELSE status[r]]]
  /\ UNCHANGED <<status, request, written>>

Hydrate ==
  /\ call.pc = "hydrate"
  /\ call' = [call EXCEPT !.pc = "next",
       !.held = [r \in {x \in ToSet(call.refs) : status[x] # "tombstoned"} |-> status[r]]]
  /\ UNCHANGED <<status, request, written>>

warn(code, r) == {[code |-> code, ref |-> r]}

\* The next ref: passed over if hydrate did not return it.
TakeRef ==
  /\ call.pc = "next" /\ call.at < Len(call.refs)
  /\ LET r == call.refs[call.at + 1]
     IN call' = IF r \notin DOMAIN call.held THEN [call EXCEPT !.at = @ + 1]
                ELSE [call EXCEPT !.at = @ + 1, !.pc = "sources", !.toCheck = sources[r],
                        !.warnings = @ \cup
                          CASE call.held[r] = "disputed" -> warn("disputed_memory_included", r)
                            [] call.held[r] = "superseded" -> warn("superseded_memory_included", r)
                            [] OTHER -> {}]
  /\ UNCHANGED <<status, request, written>>

\* Mutant: a source is looked up among the hits only.
CheckSourceHeld ==
  /\ call.pc = "sources"
  /\ \E s \in call.toCheck :
       LET seen == IF s \in DOMAIN call.held THEN call.held[s] ELSE "active"
       IN call' = [call EXCEPT !.toCheck = @ \ {s},
            !.warnings = @ \cup IF seen \in {"tombstoned", "pending"}
                                THEN warn("stale_consolidation", s) ELSE {}]
  /\ UNCHANGED <<status, request, written>>

\* A source that was not hydrated is read now.
CheckSource ==
  /\ call.pc = "sources"
  /\ \E s \in call.toCheck :
       LET seen == IF s \in DOMAIN call.held THEN call.held[s] ELSE status[s]
       IN call' = [call EXCEPT !.toCheck = @ \ {s},
            !.warnings = @ \cup IF seen \in {"tombstoned", "pending"}
                                THEN warn("stale_consolidation", s) ELSE {}]
  /\ UNCHANGED <<status, request, written>>

\* Mutant: the end of the budget is not reported.
OverflowsSilently(r) == call' = [call EXCEPT !.pc = "finish"]
Overflows(r) == call' = [call EXCEPT !.pc = "finish", !.truncated = TRUE]

\* The segment is taken; with as many as the budget allows, the loop ends.  A budget of
\* no segments is none.
Takes(r) ==
  LET n == Len(call.segments) + 1
      full == request.budgetSegments \notin {Unset, 0} /\ n >= request.budgetSegments
  IN call' = [call EXCEPT
       !.segments = Append(@, r), !.tokenEstimate = @ + tokens[r],
       !.pc = IF full THEN "finish" ELSE "next",
       !.truncated = IF full THEN Len(call.refs) > n ELSE @]

\* Mutant: the reserved tokens are spent.
FitsReserved(r) == call.segments = <<>> \/ call.tokenEstimate + tokens[r] <= request.maxTokens
\* The first segment always fits.
Fits(r) == call.segments = <<>> \/ call.tokenEstimate + tokens[r] <= tokenLimit

AddSegment ==
  /\ call.pc = "sources" /\ call.toCheck = {}
  /\ LET r == call.refs[call.at]
     IN IF Fits(r) THEN Takes(r) ELSE Overflows(r)
  /\ UNCHANGED <<status, request, written>>

omitted == request.mustInclude \ ToSet(call.segments)

\* Mutant: an empty context is reported as truncated is, and else not.
FinishEmptySilently ==
  /\ call.pc = "finish" \/ (call.pc = "next" /\ call.at = Len(call.refs))
  /\ call' = [call EXCEPT !.pc = "done",
       !.warnings = @ \cup IF call.truncated THEN warn("truncated", Unset) ELSE {}]
  /\ UNCHANGED <<status, request, written>>

\* The warnings that need the whole context, and the answer.
Finish ==
  /\ call.pc = "finish" \/ (call.pc = "next" /\ call.at = Len(call.refs))
  /\ call' = [call EXCEPT !.pc = "done",
       !.warnings = @
         \cup (IF call.segments = <<>> THEN warn("empty_context", Unset) ELSE {})
         \cup (IF call.truncated THEN warn("truncated", Unset) ELSE {})
         \cup UNION {warn("required_ref_omitted", r) : r \in omitted}]
  /\ UNCHANGED <<status, request, written>>

AssembleStep ==
  \/ ReadCandidates
  \/ Hydrate
  \/ TakeRef
  \/ CheckSource
  \/ AddSegment
  \/ Finish

\* Another call disputes, supersedes, marks or deletes an object.
OtherCall ==
  /\ call.pc \notin {"idle", "done"}
  /\ \E r \in Objects, s \in Statuses \ {"active"} :
       status[r] # s /\ status' = [status EXCEPT ![r] = s] /\ written' = written \cup {r}
  /\ Cardinality(written') <= MaxWritten
  /\ UNCHANGED <<request, call>>

StartAssembly == \E q \in AssembleRequests : SearchIndex(q)

Next == StartAssembly \/ AssembleStep \/ OtherCall

Spec == Init /\ [][Next]_vars

-----------------------------------------------------------------------------
held(r) == r \in DOMAIN call.held
included == ToSet(call.segments)

\* The context fits what the caller left unreserved, but for a first segment that
\* alone does not (service.ts 339).
FitsBudget ==
  /\ Len(call.segments) <= 1 \/ call.tokenEstimate <= tokenLimit
  /\ request.budgetSegments \notin {Unset, 0} => Len(call.segments) <= request.budgetSegments

tokensOf(segments) ==
  LET upTo[i \in 0 .. Len(segments)] ==
        IF i = 0 THEN 0 ELSE upTo[i - 1] + tokens[segments[i]]
  IN upTo[Len(segments)]

\* And it counts what it holds (context-assembly.v0.md 76).
BudgetKept == FitsBudget /\ call.tokenEstimate = tokensOf(call.segments)

\* A context that is not truncated holds every hit that was hydrated
\* (context-assembly.v0.md 77).
TruncationReported ==
  call.pc = "done" /\ ~call.truncated => DOMAIN call.held \subseteq included

warned(code) == \E w \in call.warnings : w.code = code

\* assertContextConformance, of what a context may get wrong here.
assertContextConformance ==
  /\ request.budgetSegments # Unset => Len(call.segments) <= request.budgetSegments
  /\ omitted # {} => warned("required_ref_omitted")
  /\ call.segments = <<>> => warned("empty_context")
  /\ call.truncated => warned("truncated")

\* The answer to a request that the validator accepts passes the conformance check of
\* core-types, whatever was written meanwhile; of one that it does not accept, with a
\* budget of 0 segments, it need not (conformance.ts 131, service.ts 353).
ContextConforms ==
  call.pc = "done" /\ validateAssembleContextRequest(request) => assertContextConformance

\* Of what nobody wrote meanwhile, a disputed or superseded segment is reported and
\* so is a source that is deleted or stale, hit or not (consistency.md 31).
ConcernsReported ==
  \A r \in included \ written :
    /\ status[r] = "disputed" =>
         warn("disputed_memory_included", r) \subseteq call.warnings
    /\ status[r] = "superseded" =>
         warn("superseded_memory_included", r) \subseteq call.warnings
    /\ \A s \in sources[r] \ written : status[s] \in {"tombstoned", "pending"} =>
         warn("stale_consolidation", s) \subseteq call.warnings

\* What was deleted before the call began is not assembled, whatever the filters.
DeletedNotAssembled == \A r \in included \ written : status[r] # "tombstoned"
=============================================================================
