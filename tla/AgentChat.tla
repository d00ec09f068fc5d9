------------------------------ MODULE AgentChat -----------------------------
(***************************************************************************)
(* The chat of examples/agent-chat: each turn it recalls memory, lets a    *)
(* model complete, stores the two messages and every few turns asks for a  *)
(* consolidation, each a call of the SDK over HTTP.  main.ts catches       *)
(* nothing: a call that throws ends the process, and the user starts it    *)
(* anew.  A request whose client is gone may still be served later.        *)
(*                                                                         *)
(* An operation is one step here (Ingest, Query and Consolidate have its   *)
(* steps), and a message stands for the refs stored for it.  What others   *)
(* do to those refs meanwhile, the consolidations that the chat queued     *)
(* included, is to delete them, or to read one and later write it back.    *)
(***************************************************************************)
EXTENDS HttpApi, Integers, Sequences, FiniteSets

CONSTANTS
  Nothing,
  Keys,               \* the keys a chat may be started with
  PlanSizes,          \* how many queries a task makes
  QueryLimit,         \* 8
  Enough,             \* 12
  MaxSegments,        \* 16
  MaxScore,
  consolidateEveryTurns,
  MaxTurns,           \* bounds of the model: the turns,
  Disturbed           \* and the messages others delete or write back

ASSUME LimitsAssumption ==
  {QueryLimit, Enough, MaxSegments, MaxScore, MaxTurns} \subseteq Nat
ASSUME KeysAssumption == Nothing \notin Keys
ASSUME PlanAssumption == PlanSizes \subseteq Nat
ASSUME NothingAssumption ==
  Nothing \notin [op : {"query", "hydrate", "user", "assistant", "consolidate"},
                 turn : Nat, left : Int, key : Keys \cup {Nothing}]
ASSUME EveryAssumption == consolidateEveryTurns \in Nat

VARIABLES
  chat,       \* the process: where it is in the turn, its turnCount and its key
              \* "down", "input", "complete" and "finish" await no request; the others
              \* are named for the one they do
  turn,       \* the turn, counted over all processes
  recall,     \* recallForTask: queries left, refs with scores merged, segments
  call,       \* the request awaited, or Nothing
  flight,     \* the requests sent and not served
  response,   \* the response to the request awaited, or Nothing
  error,      \* what ended the last process, and its request
  stored,     \* the messages stored, in order
  hidden,     \* those a query does not find: superseded, disputed or unindexed
  tombstoned, \* those whose status is tombstoned
  rewriting,  \* those that some call has read and is yet to write back
  deleted,    \* those whose deletion by another client was answered
  overtaken,  \* those of them deleted between such a read and its write
  jobs,       \* how many consolidations were queued
  finished,   \* the turns whose messages were both answered
  rejected    \* the messages whose ingest was answered as rejected

client == <<chat, turn, recall, error, finished, rejected>>
network == <<call, flight, response>>
others == <<hidden, tombstoned, rewriting, deleted, overtaken>>
server == <<stored, others, jobs>>
vars == <<client, network, server>>

Roles == {"user", "assistant"}
Messages == [role : Roles, turn : 1 .. MaxTurns]

ASSUME DisturbedAssumption == Disturbed \subseteq Messages

NoRecall == [left |-> 0, merged |-> << >>, segments |-> {}, gone |-> {}]

Init ==
  /\ chat = [pc |-> "down", turnCount |-> 0, key |-> Nothing]
  /\ turn = 0
  /\ recall = NoRecall
  /\ call = Nothing /\ flight = {} /\ response = Nothing
  /\ error = Nothing
  /\ stored = << >> /\ jobs = 0
  /\ hidden = {} /\ tombstoned = {} /\ rewriting = {} /\ deleted = {} /\ overtaken = {}
  /\ finished = {} /\ rejected = {}

-----------------------------------------------------------------------------
(* The chat.                                                               *)

goto(pc) == chat' = [chat EXCEPT !.pc = pc]

request == [op |-> chat.pc, turn |-> turn, left |-> recall.left, key |-> chat.key]
route(q) == IF q.op \in Roles THEN "ingest" ELSE q.op
message(q) == [role |-> q.op, turn |-> q.turn]

Send ==
  /\ call = Nothing /\ response = Nothing
  /\ call' = request /\ flight' = flight \cup {request}
  /\ UNCHANGED response

Start(key) ==
  /\ chat.pc = "down"
  /\ chat' = [pc |-> "input", turnCount |-> 0, key |-> key]
  /\ error' = Nothing
  /\ UNCHANGED <<turn, recall, finished, rejected, network, server>>

ReadInput ==
  /\ chat.pc = "input" /\ turn < MaxTurns
  /\ turn' = turn + 1
  /\ \E size \in PlanSizes : recall' = [NoRecall EXCEPT !.left = size]
  /\ goto("query")
  /\ UNCHANGED <<error, finished, rejected, network, server>>

\* recallForTask: the next query, as long as there is one and too little was found ...
MoreQueries == recall.left > 0 /\ Cardinality(DOMAIN recall.merged) < Enough

SendQuery ==
  /\ chat.pc = "query" /\ MoreQueries
  /\ Send
  /\ UNCHANGED <<client, server>>

\* ... then what was found is hydrated, if anything was.
EndQueries ==
  /\ chat.pc = "query" /\ call = Nothing /\ ~MoreQueries
  /\ goto(IF DOMAIN recall.merged = {} THEN "complete" ELSE "hydrate")
  /\ UNCHANGED <<turn, recall, error, finished, rejected, network, server>>

SendHydrate ==
  /\ chat.pc = "hydrate"
  /\ Send
  /\ recall' = [recall EXCEPT !.gone = deleted]
  /\ UNCHANGED <<chat, turn, error, finished, rejected, server>>

\* The model answers a prompt with the segments; nothing later in the turn looks at them.
Complete ==
  /\ chat.pc = "complete"
  /\ goto("user") /\ recall' = NoRecall
  /\ UNCHANGED <<turn, error, finished, rejected, network, server>>

SendMessage ==
  /\ chat.pc \in Roles
  /\ Send
  /\ UNCHANGED <<client, server>>

\* Mutant: tests turnCount before it counts.
FinishTurnEarly ==
  /\ chat.pc = "finish"
  /\ LET due == consolidateEveryTurns > 0 /\ chat.turnCount % consolidateEveryTurns = 0
     IN chat' = [chat EXCEPT !.turnCount = @ + 1, !.pc = IF due THEN "consolidate" ELSE "input"]
  /\ UNCHANGED <<turn, recall, error, finished, rejected, network, server>>

\* completeTurn counts before it calls; x % 0 is NaN, which is not 0.
FinishTurn ==
  /\ chat.pc = "finish"
  /\ LET count == chat.turnCount + 1
         due == consolidateEveryTurns > 0 /\ count % consolidateEveryTurns = 0
     IN chat' = [chat EXCEPT !.turnCount = count, !.pc = IF due THEN "consolidate" ELSE "input"]
  /\ UNCHANGED <<turn, recall, error, finished, rejected, network, server>>

SendConsolidate ==
  /\ chat.pc = "consolidate"
  /\ Send
  /\ UNCHANGED <<client, server>>

-----------------------------------------------------------------------------
(* The chat takes a response.                                              *)

Answered(op) == chat.pc = op /\ response # Nothing /\ response.ok
Received == call' = Nothing /\ response' = Nothing /\ UNCHANGED flight

\* A ref met before keeps the score it had.
TakeHits ==
  /\ Answered("query")
  /\ LET hits == response.payload
     IN recall' = [recall EXCEPT !.left = @ - 1,
          !.merged = [m \in DOMAIN @ \cup DOMAIN hits |-> IF m \in DOMAIN @ THEN @[m] ELSE hits[m]]]
  /\ Received
  /\ UNCHANGED <<chat, turn, error, finished, rejected, server>>

\* The best of the merged refs that were hydrated.
TakeObjects ==
  /\ Answered("hydrate")
  /\ \E best \in SUBSET response.payload :
       /\ Cardinality(best) <= MaxSegments
       /\ best # response.payload => Cardinality(best) = MaxSegments
       /\ \A m \in best, x \in response.payload \ best : recall.merged[m] >= recall.merged[x]
       /\ recall' = [recall EXCEPT !.segments = best]
  /\ goto("complete")
  /\ Received
  /\ UNCHANGED <<turn, error, finished, rejected, server>>

\* rememberUserMessage and rememberAssistantMessage do not look at the results.
TakeStored ==
  /\ chat.pc \in Roles /\ Answered(chat.pc)
  /\ rejected' = IF response.payload = "rejected" THEN rejected \cup {message(call)} ELSE rejected
  /\ finished' = IF chat.pc = "assistant" THEN finished \cup {turn} ELSE finished
  /\ goto(IF chat.pc = "user" THEN "assistant" ELSE "finish")
  /\ Received
  /\ UNCHANGED <<turn, recall, error, server>>

TakeQueued ==
  /\ Answered("consolidate")
  /\ goto("input")
  /\ Received
  /\ UNCHANGED <<turn, recall, error, finished, rejected, server>>

\* The process ends, with what the SDK threw if it did.  What it asked for may still be
\* served, and is forgotten here if it only reads.
Exit(thrown) ==
  /\ chat' = [pc |-> "down", turnCount |-> 0, key |-> Nothing]
  /\ error' = thrown
  /\ recall' = NoRecall
  /\ call' = Nothing /\ response' = Nothing
  /\ flight' = {q \in flight : q.op \notin {"query", "hydrate"}}
  /\ UNCHANGED <<turn, finished, rejected, server>>

ApiFails ==
  /\ response # Nothing /\ ~response.ok
  /\ Exit([parsed |-> parseMemoryApiError(response), request |-> call])

\* Mutant: sends the request again.
FetchRetries ==
  /\ call # Nothing
  /\ flight' = flight \cup {call} /\ response' = Nothing
  /\ UNCHANGED <<call, client, server>>

\* fetch throws, whether the request was lost, the response was lost or the server is
\* still at work; a proxy may answer in its place.
FetchFails ==
  /\ call # Nothing
  /\ \E thrown \in {Nothing, [parsed |-> parseMemoryApiError(gatewayText), request |-> call]} :
       Exit(thrown)

\* The user leaves, or the model throws.
Quit == chat.pc \in {"input", "complete"} /\ Exit(Nothing)

-----------------------------------------------------------------------------
(* The server.                                                             *)

isStored(m) == \E i \in DOMAIN stored : stored[i] = m
Kept == {stored[i] : i \in DOMAIN stored}

\* The response reaches the process that awaits it, if it is still there.
reply(q, answer) ==
  /\ flight' = flight \ {q}
  /\ response' = IF q = call THEN respond(route(q), q.key, answer) ELSE response
  /\ UNCHANGED <<call, client>>

ServeQuery(q) ==
  /\ q.op = "query" /\ authorizeRequest(q.key)
  /\ \E S \in SUBSET (Kept \ hidden) : \E hits \in [S -> 1 .. MaxScore] :
       Cardinality(S) <= QueryLimit /\ reply(q, json(hits))
  /\ UNCHANGED server

\* Disputed, superseded and stale memory is hydrated, whatever the query found it as.
ServeHydrate(q) ==
  /\ q.op = "hydrate" /\ authorizeRequest(q.key)
  /\ reply(q, json((DOMAIN recall.merged \cap Kept) \ tombstoned))
  /\ UNCHANGED server

\* Mutant: what throws for an episode leaves the operation.
ServeIngestUncaught(q) ==
  /\ q.op \in Roles /\ authorizeRequest(q.key)
  /\ \/ stored' = Append(stored, message(q)) /\ reply(q, json("created"))
     \/ stored' \in {stored, Append(stored, message(q))}
        /\ reply(q, toHttpError("internal_error"))
  /\ UNCHANGED <<others, jobs>>

\* What throws for an episode, before or after it was stored, is answered in its result.
ServeIngest(q) ==
  /\ q.op \in Roles /\ authorizeRequest(q.key)
  /\ \/ stored' = Append(stored, message(q)) /\ reply(q, json("created"))
     \/ stored' \in {stored, Append(stored, message(q))} /\ reply(q, json("rejected"))
  /\ UNCHANGED <<others, jobs>>

\* The job is stored.  What it does to messages once a batch takes it is ReadToRewrite and
\* WriteBack.
ServeConsolidate(q) ==
  /\ q.op = "consolidate" /\ authorizeRequest(q.key)
  /\ jobs' = jobs + 1
  /\ reply(q, json("queued"))
  /\ UNCHANGED <<stored, others>>

\* The first statement of an operation throws, or the token is wrong.
ServeRefused(q) ==
  /\ \E code \in {"internal_error", "unsupported_consistency"} : reply(q, toHttpError(code))
  /\ UNCHANGED server

-----------------------------------------------------------------------------
(* Other calls: of other clients, and of the job runner.                   *)

OthersOnly == UNCHANGED <<client, network, stored, jobs>>

\* A deletion: its write and the removal from the index.
Delete(m) ==
  /\ isStored(m) /\ m \notin tombstoned
  /\ tombstoned' = tombstoned \cup {m} /\ hidden' = hidden \cup {m}
  /\ deleted' = deleted \cup {m}
  /\ overtaken' = overtaken \cup ({m} \cap rewriting)
  /\ UNCHANGED rewriting /\ OthersOnly

\* Mutant: the status is not looked at.
ReadToRewriteAny(m) ==
  /\ isStored(m) /\ m \notin rewriting
  /\ rewriting' = rewriting \cup {m}
  /\ UNCHANGED <<hidden, tombstoned, deleted, overtaken>> /\ OthersOnly

\* A consolidation about to supersede the message, a link that disputes it or a cascade
\* that marks it stale reads it, and goes on only if it is not tombstoned.
ReadToRewrite(m) ==
  /\ isStored(m) /\ m \notin rewriting \cup tombstoned
  /\ rewriting' = rewriting \cup {m}
  /\ UNCHANGED <<hidden, tombstoned, deleted, overtaken>> /\ OthersOnly

\* It writes {...object, status}, whatever the status is by now: superseded or disputed, which
\* hides the message, or pending, which leaves it in the index if it still is there.
WriteBack(m) ==
  /\ m \in rewriting
  /\ rewriting' = rewriting \ {m} /\ tombstoned' = tombstoned \ {m}
  /\ hidden' \in {hidden, hidden \cup {m}}
  /\ UNCHANGED <<deleted, overtaken>> /\ OthersOnly

-----------------------------------------------------------------------------
ChatStep ==
  \/ \E key \in Keys : Start(key)
  \/ ReadInput \/ SendQuery \/ EndQueries \/ SendHydrate \/ Complete
  \/ SendMessage \/ FinishTurn \/ SendConsolidate
  \/ TakeHits \/ TakeObjects \/ TakeStored \/ TakeQueued
  \/ ApiFails \/ FetchFails \/ Quit

ServerStep ==
  \/ \E q \in flight :
       ServeQuery(q) \/ ServeHydrate(q) \/ ServeIngest(q) \/ ServeConsolidate(q) \/ ServeRefused(q)

OtherStep == \E m \in Disturbed : Delete(m) \/ ReadToRewrite(m) \/ WriteBack(m)

Next == ChatStep \/ ServerStep \/ OtherStep

Spec == Init /\ [][Next]_vars

-----------------------------------------------------------------------------
\* However calls fail, processes end and requests arrive late, the messages of a turn are
\* stored at most once, the user's first; and one that a finished turn lacks is one whose
\* ingest was answered, with status 200, as rejected (main.ts 97-99, memorySession.ts
\* 75-101, service.ts 208).
TranscriptKept ==
  /\ \A i, j \in DOMAIN stored : i < j /\ stored[i].turn = stored[j].turn =>
       stored[i].role = "user" /\ stored[j].role = "assistant"
  /\ \A t \in 1 .. turn :
       LET user == [role |-> "user", turn |-> t]
           assistant == [role |-> "assistant", turn |-> t]
       IN /\ user \notin rejected /\ isStored(assistant) => isStored(user)
          /\ t \in finished => \A m \in {user, assistant} \ rejected : isStored(m)

\* There are never more consolidations queued than the finished turns make periods of
\* consolidateEveryTurns: neither a restart, which forgets the count, nor a lost response
\* adds one (memorySession.ts 196-205).  How far apart two of them are served is not said.
ConsolidationsPaced == jobs * consolidateEveryTurns <= Cardinality(finished)

\* Memory that was deleted before the recall hydrated what it had found is in the prompt only
\* if a call that had read it before the deletion could still write it back: a consolidation,
\* of those the chat queued or another, a dispute or a cascade (memorySession.ts 151-175,
\* service.ts 276, 734-737, 698-703, 769-773).
RecalledOnlyIfOvertaken == recall.segments \cap recall.gone \subseteq overtaken

\* A chat that an error with a code of the API ended has not stored the message it was
\* about to: sending it again is safe.  After an error of the network nobody knows
\* (http.ts 80-85, runtime errors.ts 59-82, service.ts 202).
ErrorsLeaveNoTrace ==
  error # Nothing /\ error.parsed.code # "http_error" /\ error.request.op \in Roles =>
    \A i \in DOMAIN stored : stored[i] # message(error.request)
=============================================================================
