--------------------------- MODULE AgentChatProofs --------------------------
(***************************************************************************)
(* Proofs about the chat, for any keys, limits and number of turns, with   *)
(* processes that end at any call and requests that are served late.       *)
(***************************************************************************)
EXTENDS AgentChat, FiniteSetTheorems, TLAPS

-----------------------------------------------------------------------------
(* The inductive invariant.  First, the types.                             *)

Ops == {"query", "hydrate", "user", "assistant", "consolidate"}
Requests == [op : Ops, turn : Nat, left : Int, key : Keys \cup {Nothing}]
Stored == [role : Roles, turn : Nat]

ChatTyped ==
  /\ chat \in [pc : Ops \cup {"down", "input", "complete", "finish"}, turnCount : Nat,
               key : Keys \cup {Nothing}]
  /\ turn \in Nat
  /\ DOMAIN recall = {"left", "merged", "segments", "gone"} /\ recall.left \in Int
  /\ call \in Requests \cup {Nothing} /\ flight \subseteq Requests
  /\ stored \in Seq(Stored)

\* The request awaited is the one of the step the process is at.
Awaits ==
  /\ call # Nothing => call.op = chat.pc /\ call.turn = turn
  /\ response # Nothing => call # Nothing

\* A message is yet to be sent, then on its way, then stored or lost for good.
OnItsWay(m) == \E q \in flight : q.op \in Roles /\ message(q) = m
Ahead(m) ==
  \/ m.turn > turn
  \/ /\ m.turn = turn
     /\ \/ chat.pc \in {"query", "hydrate", "complete"}
        \/ chat.pc = "user" /\ (m.role = "assistant" \/ call = Nothing)
        \/ chat.pc = "assistant" /\ m.role = "assistant" /\ call = Nothing
Lost(m) == ~isStored(m) /\ ~OnItsWay(m) /\ ~Ahead(m)

SentOnce ==
  /\ \A m \in Stored : Ahead(m) => ~OnItsWay(m) /\ ~isStored(m)
  /\ \A m \in Stored : OnItsWay(m) => ~isStored(m)
  /\ \A q, r \in flight : q.op \in Roles /\ r.op \in Roles /\ message(q) = message(r) => q = r
  /\ \A i, j \in DOMAIN stored : stored[i] = stored[j] => i = j

\* What an error says of the message it is about.
ErrorsMean ==
  /\ response # Nothing /\ call.op \in Roles /\ ~response.ok => Lost(message(call))
  /\ error # Nothing /\ error.parsed.code # "http_error" /\ error.request.op \in Roles =>
       error.request \in Requests /\ Lost(message(error.request))

\* A message deleted and tombstoned no more is one whose deletion was overtaken, and so is a
\* deleted one that a call is yet to write back: what read it once it was tombstoned let it be.
DeletionsLast ==
  /\ deleted \subseteq tombstoned \cup overtaken
  /\ rewriting \cap deleted \subseteq overtaken

\* Of what was deleted before the hydrate, only that is in an answer to it.
RecallHides ==
  /\ recall.gone \subseteq deleted
  /\ recall.segments \cap recall.gone \subseteq overtaken
  /\ recall.segments # {} => chat.pc = "complete"
  /\ chat.pc = "hydrate" /\ response # Nothing /\ response.ok =>
       response.payload \cap recall.gone \subseteq overtaken

\* A message is told stored or rejected before the next is sent; it will not be stored after.
Told(m) == (isStored(m) \/ m \in rejected) /\ ~OnItsWay(m) /\ ~Ahead(m)
userOf(t) == [role |-> "user", turn |-> t]
assistantOf(t) == [role |-> "assistant", turn |-> t]

Answers ==
  /\ response # Nothing /\ call.op \in Roles /\ response.ok =>
       response.payload = "rejected" \/ isStored(message(call))
  /\ response # Nothing /\ call.op \in Roles => ~OnItsWay(message(call))
  /\ chat.pc = "assistant" => Told(userOf(turn))

UserFirst ==
  /\ \A q \in flight : q.op = "assistant" => Told(userOf(q.turn))
  /\ \A j \in DOMAIN stored : stored[j].role = "assistant" =>
       /\ Told(userOf(stored[j].turn))
       /\ \A i \in DOMAIN stored : stored[i] = userOf(stored[j].turn) => i < j
  /\ \A t \in finished : Told(userOf(t)) /\ Told(assistantOf(t))

TurnsFinish ==
  /\ finished \subseteq 1 .. turn
  /\ chat.pc \notin {"down", "input"} => turn > 0
  /\ turn \in finished => chat.pc \in {"down", "input", "finish", "consolidate"}

ChatInv ==
  /\ ChatTyped /\ Awaits /\ SentOnce /\ ErrorsMean /\ DeletionsLast /\ RecallHides
  /\ Answers /\ UserFirst /\ TurnsFinish

-----------------------------------------------------------------------------
(* What the classes of steps keep.                                         *)

\* A step that stores nothing and sends no message.
LEMMA NothingSent ==
  ASSUME ChatInv, UNCHANGED stored,
         \A q \in flight' : q.op \in Roles => q \in flight,
         \A m \in Stored : Ahead(m)' => Ahead(m)
  PROVE  /\ SentOnce'
         /\ \A m \in Stored : Lost(m) => Lost(m)'
         /\ \A m : isStored(m)' <=> isStored(m)
         /\ \A m : OnItsWay(m)' => OnItsWay(m)
<1>1. \A m : isStored(m)' <=> isStored(m)
  BY DEF isStored
<1>2. \A m : OnItsWay(m)' => OnItsWay(m)
  BY DEF OnItsWay, message
<1>3. SentOnce'
  BY <1>1, <1>2 DEF ChatInv, SentOnce, message
<1> QED
  BY <1>1, <1>2, <1>3 DEF Lost

\* What is told stays told, if no step sends it again.
LEMMA UserStaysFirst ==
  ASSUME ChatInv, UNCHANGED stored, rejected \subseteq rejected',
         \A m \in Stored : OnItsWay(m)' => OnItsWay(m) \/ Ahead(m),
         \A m \in Stored : Ahead(m)' => Ahead(m),
         \A q \in flight' : q.op = "assistant" =>
           q \in flight \/ (q.turn = turn /\ Told(userOf(turn))),
         \A t \in finished' : t \in finished \/ (Told(userOf(t))' /\ Told(assistantOf(t))')
  PROVE  UserFirst' /\ \A m \in Stored : Told(m) => Told(m)'
<1>1. \A m \in Stored : Told(m) => Told(m)'
  BY DEF Told, isStored
<1>2. \A t \in Nat : userOf(t) \in Stored /\ assistantOf(t) \in Stored
  BY DEF userOf, assistantOf, Stored, Roles
<1>3. \A t : userOf(t)' = userOf(t) /\ assistantOf(t)' = assistantOf(t)
  BY DEF userOf, assistantOf
<1>4. /\ turn \in Nat /\ finished \subseteq Nat /\ \A q \in flight : q.turn \in Nat
      /\ \A j \in DOMAIN stored : stored[j].turn \in Nat
  <2>1. \A j \in DOMAIN stored : stored[j] \in Stored
    BY DEF ChatInv, ChatTyped
  <2>2. turn \in Nat /\ finished \subseteq Nat /\ \A q \in flight : q.turn \in Nat
    BY DEF ChatInv, ChatTyped, Requests, TurnsFinish
  <2> QED
    BY <2>1, <2>2 DEF Stored
<1>5. \A q \in flight' : q.op = "assistant" => Told(userOf(q.turn))'
  BY <1>1, <1>2, <1>4 DEF ChatInv, UserFirst, userOf
<1>6. \A j \in DOMAIN stored : stored[j].role = "assistant" =>
        /\ Told(userOf(stored[j].turn))'
        /\ \A i \in DOMAIN stored : stored[i] = userOf(stored[j].turn) => i < j
  BY <1>1, <1>2, <1>4 DEF ChatInv, UserFirst, userOf
<1>7. \A t \in finished' : Told(userOf(t))' /\ Told(assistantOf(t))'
  BY <1>1, <1>2, <1>4 DEF ChatInv, UserFirst, userOf, assistantOf
<1> QED
  BY <1>1, <1>3, <1>5, <1>6, <1>7 DEF UserFirst, userOf, assistantOf

\* A message of a request is one that may be stored.
LEMMA MessageType ==
  \A q \in Requests : q.op \in Roles => message(q) \in Stored /\ message(q).turn = q.turn
                                         /\ message(q).role = q.op
BY DEF Requests, Stored, message

-----------------------------------------------------------------------------
(* The process moves on without a request.                                 *)

Moves ==
  (\E key \in Keys : Start(key)) \/ ReadInput \/ EndQueries \/ Complete \/ FinishTurn

LEMMA MovesKeep == ChatInv /\ Moves => ChatInv'
<1> SUFFICES ASSUME ChatInv, Moves PROVE ChatInv'
  OBVIOUS
<1>0. ChatTyped /\ Awaits /\ SentOnce /\ ErrorsMean /\ DeletionsLast /\ RecallHides
      /\ Answers /\ UserFirst /\ TurnsFinish
  BY DEF ChatInv
<1>1. UNCHANGED <<call, flight, response, stored, others, finished, rejected>>
  BY DEF Moves, Start, ReadInput, EndQueries, Complete, FinishTurn, network, server
<1>2. /\ chat.pc \in {"down", "input", "query", "complete", "finish"}
      /\ call = Nothing /\ response = Nothing
  <2>1. chat.pc \in {"down", "input", "query", "complete", "finish"}
        /\ (chat.pc = "query" => call = Nothing)
    BY DEF Moves, Start, ReadInput, EndQueries, Complete, FinishTurn
  <2> QED
    BY <1>0, <2>1 DEF Awaits, ChatTyped, Requests, Ops
<1>3. ChatTyped'
  <2>1. CASE \E key \in Keys : Start(key)
    BY <1>0, <1>1, <2>1 DEF Start, ChatTyped
  <2>2. CASE ReadInput
    BY <1>0, <1>1, <2>2, PlanAssumption DEF ReadInput, goto, NoRecall, ChatTyped, Ops
  <2>3. CASE EndQueries
    BY <1>0, <1>1, <2>3 DEF EndQueries, goto, ChatTyped, Ops
  <2>4. CASE Complete
    BY <1>0, <1>1, <2>4 DEF Complete, goto, NoRecall, ChatTyped, Ops
  <2>5. CASE FinishTurn
    <3>1. PICK pc \in {"consolidate", "input"} :
            chat' = [chat EXCEPT !.turnCount = chat.turnCount + 1, !.pc = pc]
      BY <2>5 DEF FinishTurn
    <3>2. chat.turnCount + 1 \in Nat
      BY <1>0 DEF ChatTyped
    <3>3. UNCHANGED <<turn, recall>>
      BY <2>5 DEF FinishTurn
    <3> QED
      BY <1>0, <1>1, <3>1, <3>2, <3>3 DEF ChatTyped, Ops
  <2> QED
    BY <2>1, <2>2, <2>3, <2>4, <2>5 DEF Moves
<1>4. /\ chat'.pc # "assistant"
      /\ \A m \in Stored : Ahead(m)' => Ahead(m)
  <2>1. CASE \E key \in Keys : Start(key)
    BY <1>0, <2>1 DEF Start, ChatTyped, Ahead, Stored
  <2>2. CASE ReadInput
    BY <1>0, <2>2 DEF ReadInput, goto, ChatTyped, Ahead, Stored
  <2>3. CASE EndQueries
    BY <1>0, <2>3 DEF EndQueries, goto, ChatTyped, Ahead, Stored
  <2>4. CASE Complete
    BY <1>0, <2>4 DEF Complete, goto, ChatTyped, Ahead, Stored
  <2>5. CASE FinishTurn
    BY <1>0, <2>5 DEF FinishTurn, ChatTyped, Ahead, Stored
  <2> QED
    BY <2>1, <2>2, <2>3, <2>4, <2>5 DEF Moves
<1>5. /\ SentOnce' /\ (\A m \in Stored : Lost(m) => Lost(m)')
      /\ \A m : (isStored(m)' <=> isStored(m)) /\ (OnItsWay(m)' => OnItsWay(m))
  BY <1>1, <1>4, NothingSent
<1>6. Awaits'
  BY <1>1, <1>2 DEF Awaits
<1>7. ErrorsMean'
  <2>1. error' \in {error, Nothing}
    BY DEF Moves, Start, ReadInput, EndQueries, Complete, FinishTurn
  <2>2. error' # Nothing => error' = error
    BY <2>1
  <2> QED
    BY <1>0, <1>1, <1>2, <1>5, <2>2, MessageType DEF ErrorsMean
<1>8. RecallHides'
  <2>1. recall' = recall \/ (recall'.gone = {} /\ recall'.segments = {})
    BY DEF Moves, Start, ReadInput, EndQueries, Complete, FinishTurn, NoRecall
  <2>2. recall.segments # {} => recall'.segments = {}
    <3>1. CASE Complete
      BY <3>1 DEF Complete, NoRecall
    <3>2. CASE ~Complete
      BY <1>0, <3>2 DEF RecallHides, Moves, Start, ReadInput, EndQueries, FinishTurn
    <3> QED
      BY <3>1, <3>2
  <2> QED
    BY <1>0, <1>1, <1>2, <1>3, <2>1, <2>2 DEF RecallHides, others
<1>9. UserFirst' /\ Answers'
  BY <1>1, <1>2, <1>4, <1>5, UserStaysFirst DEF Answers
<1>10. TurnsFinish'
  <2>1. CASE ReadInput
    BY <1>0, <1>1, <2>1 DEF ReadInput, ChatTyped, TurnsFinish
  <2>2. CASE EndQueries \/ Complete
    BY <1>0, <1>1, <2>2 DEF EndQueries, Complete, TurnsFinish
  <2>3. CASE FinishTurn
    <3>1. PICK pc \in {"consolidate", "input"} :
            chat' = [chat EXCEPT !.turnCount = chat.turnCount + 1, !.pc = pc]
      BY <2>3 DEF FinishTurn
    <3>2. chat'.pc = pc /\ turn' = turn /\ chat.pc = "finish"
      BY <1>0, <2>3, <3>1 DEF ChatTyped, FinishTurn
    <3> QED
      BY <1>0, <1>1, <3>2 DEF TurnsFinish
  <2>4. CASE \E key \in Keys : Start(key)
    BY <1>0, <1>1, <2>4 DEF Start, TurnsFinish
  <2> QED
    BY <2>1, <2>2, <2>3, <2>4 DEF Moves
<1>11. DeletionsLast'
  BY <1>0, <1>1 DEF DeletionsLast, others
<1> QED
  BY <1>3, <1>5, <1>6, <1>7, <1>8, <1>9, <1>10, <1>11 DEF ChatInv

-----------------------------------------------------------------------------
(* The process sends a request.                                            *)

Sends == SendQuery \/ SendHydrate \/ SendMessage \/ SendConsolidate

LEMMA SendsKeep == ChatInv /\ Sends => ChatInv'
<1> SUFFICES ASSUME ChatInv, Sends PROVE ChatInv'
  OBVIOUS
<1>0. ChatTyped /\ Awaits /\ SentOnce /\ ErrorsMean /\ DeletionsLast /\ RecallHides
      /\ Answers /\ UserFirst /\ TurnsFinish
  BY DEF ChatInv
<1>1. /\ UNCHANGED <<chat, turn, response, error, stored, others, finished, rejected>>
      /\ call = Nothing /\ response = Nothing
      /\ call' = request /\ flight' = flight \cup {request}
      /\ chat.pc \in Ops
  BY DEF Sends, SendQuery, SendHydrate, SendMessage, SendConsolidate, Send, client, server, Ops, Roles
<1>2. /\ request \in Requests /\ request.op = chat.pc /\ request.turn = turn
      /\ request # Nothing
  <2>1. request \in Requests /\ request.op = chat.pc /\ request.turn = turn
    <3>1. chat.pc \in Ops /\ turn \in Nat /\ recall.left \in Int /\ chat.key \in Keys \cup {Nothing}
      BY <1>0, <1>1 DEF ChatTyped
    <3> QED
      BY <3>1 DEF request, Requests
  <2>2. Nothing \notin Requests
    BY NothingAssumption DEF Requests, Ops
  <2> QED
    BY <2>1, <2>2
<1>3. /\ recall'.left = recall.left /\ DOMAIN recall' = DOMAIN recall
      /\ recall'.segments = recall.segments
      /\ recall' = recall \/ (recall'.gone = deleted /\ chat.pc = "hydrate")
  <2>1. CASE SendHydrate
    <3>1. recall' = [recall EXCEPT !.gone = deleted] /\ chat.pc = "hydrate"
      BY <2>1 DEF SendHydrate
    <3>2. DOMAIN recall = {"left", "merged", "segments", "gone"}
      BY <1>0 DEF ChatTyped
    <3> QED
      BY <3>1, <3>2
  <2>2. CASE recall' = recall
    BY <2>2
  <2> QED
    BY <2>1, <2>2 DEF Sends, SendQuery, SendMessage, SendConsolidate, client
<1>4. ChatTyped'
  BY <1>0, <1>1, <1>2, <1>3 DEF ChatTyped
<1>5. Awaits'
  BY <1>1, <1>2 DEF Awaits
<1>8. TurnsFinish' /\ DeletionsLast'
  BY <1>0, <1>1 DEF TurnsFinish, DeletionsLast, others
<1>6. CASE chat.pc \notin Roles
  <2>1. /\ \A q \in flight' : q.op \in Roles => q \in flight
        /\ \A m \in Stored : Ahead(m)' => Ahead(m)
    BY <1>1, <1>2, <1>6 DEF Ahead, Roles
  <2>2. /\ SentOnce' /\ (\A m \in Stored : Lost(m) => Lost(m)')
        /\ \A m : (isStored(m)' <=> isStored(m)) /\ (OnItsWay(m)' => OnItsWay(m))
    BY <1>1, <2>1, NothingSent
  <2>3. ErrorsMean'
    BY <1>0, <1>1, <2>2, MessageType DEF ErrorsMean
  <2>4. UserFirst' /\ Answers'
    BY <1>1, <1>6, <2>1, <2>2, UserStaysFirst DEF Answers, Roles
  <2>5. RecallHides'
    BY <1>0, <1>1, <1>3 DEF RecallHides, others
  <2> QED
    BY <1>4, <1>5, <1>8, <2>2, <2>3, <2>4, <2>5 DEF ChatInv
<1>7. CASE chat.pc \in Roles
  <2> DEFINE sent == message(request)
  <2>1. sent \in Stored /\ sent.turn = turn /\ sent.role = chat.pc /\ request.op \in Roles
    BY <1>2, <1>7, MessageType
  <2>2. Ahead(sent)
    BY <1>1, <1>7, <2>1 DEF Ahead, Roles
  <2>3. \A m : isStored(m)' <=> isStored(m)
    BY <1>1 DEF isStored
  <2>4. \A m : OnItsWay(m)' <=> OnItsWay(m) \/ m = sent
    BY <1>1, <2>1 DEF OnItsWay, message
  <2>5. \A m \in Stored : Ahead(m)' => Ahead(m) /\ m # sent
    BY <1>1, <1>2, <1>7, <2>1 DEF Ahead, Roles, Stored
  <2>6. \A q \in flight : q.op \in Roles => message(q) # sent
    BY <1>0, <2>1, <2>2 DEF SentOnce, OnItsWay
  <2>7. SentOnce'
    <3>1. \A m \in Stored : Ahead(m)' => ~OnItsWay(m)' /\ ~isStored(m)'
      BY <1>0, <2>3, <2>4, <2>5 DEF SentOnce
    <3>2. \A m \in Stored : OnItsWay(m)' => ~isStored(m)'
      BY <1>0, <2>1, <2>2, <2>3, <2>4 DEF SentOnce
    <3>3. \A q, r \in flight' : q.op \in Roles /\ r.op \in Roles /\ message(q) = message(r) => q = r
      BY <1>0, <1>1, <2>6 DEF SentOnce
    <3>4. \A q : message(q)' = message(q)
      BY DEF message
    <3> QED
      BY <1>0, <1>1, <3>1, <3>2, <3>3 DEF SentOnce, message
  <2>8. \A m \in Stored : Lost(m) => Lost(m)'
    BY <2>2, <2>3, <2>4, <2>5 DEF Lost
  <2>9. ErrorsMean'
    BY <1>0, <1>1, <2>8, MessageType DEF ErrorsMean
  <2>10. UserFirst' /\ Answers'
    <3>1. chat.pc = "assistant" => Told(userOf(turn)) /\ userOf(turn) \in Stored
      BY <1>0 DEF Answers, ChatTyped, userOf, Stored, Roles
    <3>2. UserFirst' /\ \A m \in Stored : Told(m) => Told(m)'
      BY <1>0, <1>1, <1>2, <2>2, <2>4, <2>5, <3>1, UserStaysFirst
    <3> QED
      BY <1>1, <3>1, <3>2 DEF Answers, userOf
  <2>11. RecallHides'
    BY <1>0, <1>1, <1>3, <1>7 DEF RecallHides, Roles, others
  <2> QED
    BY <1>4, <1>5, <1>8, <2>7, <2>9, <2>10, <2>11 DEF ChatInv
<1> QED
  BY <1>6, <1>7

-----------------------------------------------------------------------------
(* The process takes a response.                                           *)

Takes == TakeHits \/ TakeObjects \/ TakeStored \/ TakeQueued

LEMMA TakesKeep == ChatInv /\ Takes => ChatInv'
<1> SUFFICES ASSUME ChatInv, Takes PROVE ChatInv'
  OBVIOUS
<1>0. ChatTyped /\ Awaits /\ SentOnce /\ ErrorsMean /\ DeletionsLast /\ RecallHides
      /\ Answers /\ UserFirst /\ TurnsFinish
  BY DEF ChatInv
<1>1. /\ UNCHANGED <<turn, error, stored, others, flight>>
      /\ call' = Nothing /\ response' = Nothing
      /\ response # Nothing /\ response.ok /\ chat.pc \in Ops
  BY DEF Takes, TakeHits, TakeObjects, TakeStored, TakeQueued, Received, Answered, server, Ops, Roles
<1>2. PICK pc \in Ops \cup {"input", "complete", "finish"} :
        /\ chat' = [chat EXCEPT !.pc = pc]
        /\ pc = IF chat.pc = "query" THEN "query" ELSE IF chat.pc = "hydrate" THEN "complete"
                ELSE IF chat.pc = "user" THEN "assistant"
                ELSE IF chat.pc = "assistant" THEN "finish" ELSE "input"
  <2>1. CASE TakeHits
    BY <1>0, <2>1 DEF TakeHits, Answered, ChatTyped, Ops
  <2>2. CASE ~TakeHits
    BY <2>2 DEF Takes, TakeObjects, TakeStored, TakeQueued, Answered, goto, Ops, Roles
  <2> QED
    BY <2>1, <2>2
<1>3. /\ chat'.pc = pc /\ chat' \in [pc : Ops \cup {"down", "input", "complete", "finish"},
                                    turnCount : Nat, key : Keys \cup {Nothing}]
  BY <1>0, <1>2 DEF ChatTyped, Ops
<1>4. /\ DOMAIN recall' = DOMAIN recall /\ recall'.left \in Int /\ recall'.gone = recall.gone
      /\ \/ recall'.segments = recall.segments
         \/ chat.pc = "hydrate" /\ recall'.segments \subseteq response.payload
  <2>0. DOMAIN recall = {"left", "merged", "segments", "gone"} /\ recall.left \in Int
    BY <1>0 DEF ChatTyped
  <2>1. CASE TakeHits
    <3>1. PICK merged : recall' = [recall EXCEPT !.left = @ - 1, !.merged = merged]
      BY <2>1 DEF TakeHits
    <3>2. recall.left - 1 \in Int
      BY <2>0
    <3> QED
      BY <2>0, <3>1, <3>2
  <2>2. CASE TakeObjects
    <3>1. PICK best \in SUBSET response.payload : recall' = [recall EXCEPT !.segments = best]
      BY <2>2 DEF TakeObjects
    <3>2. chat.pc = "hydrate"
      BY <2>2 DEF TakeObjects, Answered
    <3> QED
      BY <2>0, <3>1, <3>2
  <2>3. CASE TakeStored \/ TakeQueued
    BY <2>0, <2>3 DEF TakeStored, TakeQueued
  <2> QED
    BY <2>1, <2>2, <2>3 DEF Takes
<1>5. ChatTyped' /\ Awaits'
  BY <1>0, <1>1, <1>3, <1>4 DEF ChatTyped, Awaits
<1>6. \A m \in Stored : Ahead(m)' => Ahead(m)
  BY <1>1, <1>2, <1>3 DEF Ahead, Stored, Roles, Ops
<1>7. /\ SentOnce' /\ (\A m \in Stored : Lost(m) => Lost(m)')
      /\ \A m : (isStored(m)' <=> isStored(m)) /\ (OnItsWay(m)' => OnItsWay(m))
  BY <1>1, <1>6, NothingSent
<1>8. ErrorsMean'
  BY <1>0, <1>1, <1>7, MessageType DEF ErrorsMean, message
<1>9. RecallHides'
  <2>1. chat.pc # "hydrate" => recall'.segments = {}
    BY <1>0, <1>1, <1>4 DEF RecallHides, Ops
  <2>2. chat.pc = "hydrate" =>
          chat'.pc = "complete" /\ recall'.segments \cap recall.gone \subseteq overtaken
    <3>1. chat.pc = "hydrate" => chat'.pc = "complete"
      BY <1>2, <1>3
    <3>2. chat.pc = "hydrate" =>
            recall.segments = {} /\ response.payload \cap recall.gone \subseteq overtaken
      BY <1>0, <1>1 DEF RecallHides
    <3> QED
      BY <1>4, <3>1, <3>2
  <2> QED
    BY <1>0, <1>1, <1>4, <2>1, <2>2 DEF RecallHides, others
<1>10. UserFirst' /\ Answers' /\ TurnsFinish'
  <2>1. CASE chat.pc \notin Roles
    <3>1. UNCHANGED <<rejected, finished>>
      BY <2>1 DEF Takes, TakeHits, TakeObjects, TakeStored, TakeQueued
    <3>2. UserFirst'
      BY <1>1, <1>6, <1>7, <3>1, UserStaysFirst
    <3>3. Answers' /\ TurnsFinish'
      BY <1>0, <1>1, <1>2, <1>3, <2>1, <3>1 DEF Answers, TurnsFinish, Roles, Ops
    <3> QED
      BY <3>2, <3>3
  <2>2. CASE chat.pc \in Roles
    <3>1. TakeStored
      BY <2>2 DEF Takes, TakeHits, TakeObjects, TakeQueued, Answered, Roles
    <3>2. /\ rejected' = IF response.payload = "rejected" THEN rejected \cup {message(call)} ELSE rejected
          /\ finished' = IF chat.pc = "assistant" THEN finished \cup {turn} ELSE finished
      BY <3>1 DEF TakeStored
    <3>0. PICK m : m = [role |-> chat.pc, turn |-> turn]
      OBVIOUS
    <3>3. /\ message(call) = m /\ call.op \in Roles
          /\ m \in Stored /\ userOf(turn) \in Stored
      BY <1>0, <1>1, <2>2, <3>0 DEF Awaits, message, ChatTyped, Stored, userOf, Roles
    <3>4. isStored(m) \/ m \in rejected'
      BY <1>0, <1>1, <3>2, <3>3 DEF Answers
    <3>5. ~OnItsWay(m) /\ ~Ahead(m)
      <4>1. call # Nothing /\ ~(turn > turn)
        BY <1>0, <1>1 DEF Awaits, ChatTyped
      <4> QED
        BY <1>0, <1>1, <2>2, <3>0, <3>3, <4>1 DEF Answers, Ahead, Roles
    <3>6. Told(m)'
      BY <1>6, <1>7, <3>3, <3>4, <3>5 DEF Told
    <3>7. \A x \in Stored : Told(x) => Told(x)'
      BY <1>6, <1>7, <3>2 DEF Told
    <3>8. /\ chat.pc = "user" => Told(userOf(turn))'
          /\ chat.pc = "assistant" => Told(userOf(turn))' /\ Told(assistantOf(turn))'
      <4>1. chat.pc = "user" => m = userOf(turn)
        BY <3>0 DEF userOf
      <4>2. chat.pc = "assistant" => m = assistantOf(turn) /\ Told(userOf(turn))
        BY <1>0, <3>0 DEF assistantOf, Answers
      <4>3. ASSUME NEW u, u = userOf(turn) PROVE u = userOf(turn)'
        BY <1>1, <4>3 DEF userOf
      <4>4. ASSUME NEW u, u = assistantOf(turn) PROVE u = assistantOf(turn)'
        BY <1>1, <4>4 DEF assistantOf
      <4>5. ASSUME NEW u, u = userOf(turn), Told(u)' PROVE Told(userOf(turn))'
        BY <4>3, <4>5 DEF Told
      <4>6. ASSUME NEW u, u = assistantOf(turn), Told(u)' PROVE Told(assistantOf(turn))'
        BY <4>4, <4>6 DEF Told
      <4> QED
        BY <3>3, <3>6, <3>7, <4>1, <4>2, <4>5, <4>6
    <3>9. UserFirst'
      <4>1. \A t \in finished' : t \in finished \/ (t = turn /\ chat.pc = "assistant")
        BY <3>2
      <4>2. \A t \in finished' : t \in finished \/ (Told(userOf(t))' /\ Told(assistantOf(t))')
        BY <1>1, <3>8, <4>1 DEF userOf, assistantOf
      <4>3. rejected \subseteq rejected'
        BY <3>2
      <4> QED
        BY <1>1, <1>6, <1>7, <4>2, <4>3, UserStaysFirst
    <3>10. Answers'
      BY <1>1, <1>2, <1>3, <2>2, <3>8 DEF Answers, Roles
    <3>11. TurnsFinish'
      <4>1. turn \in Nat /\ turn > 0
        BY <1>0, <2>2 DEF TurnsFinish, ChatTyped, Roles
      <4> QED
        BY <1>0, <1>1, <1>2, <1>3, <2>2, <3>2, <4>1 DEF TurnsFinish, Roles
    <3> QED
      BY <3>9, <3>10, <3>11
  <2> QED
    BY <2>1, <2>2
<1>11. DeletionsLast'
  BY <1>0, <1>1 DEF DeletionsLast, others
<1> QED
  BY <1>5, <1>7, <1>8, <1>9, <1>10, <1>11 DEF ChatInv

-----------------------------------------------------------------------------
(* The process ends.                                                       *)

LEMMA ExitKeeps ==
  ASSUME ChatInv, NEW thrown, Exit(thrown),
         thrown # Nothing /\ thrown.parsed.code # "http_error" /\ thrown.request.op \in Roles =>
           thrown.request \in Requests /\ Lost(message(thrown.request))
  PROVE  ChatInv'
<1>0. ChatTyped /\ Awaits /\ SentOnce /\ ErrorsMean /\ DeletionsLast /\ RecallHides
      /\ Answers /\ UserFirst /\ TurnsFinish
  BY DEF ChatInv
<1>1. /\ UNCHANGED <<turn, finished, rejected, stored, others>>
      /\ chat' = [pc |-> "down", turnCount |-> 0, key |-> Nothing]
      /\ error' = thrown /\ call' = Nothing /\ response' = Nothing
      /\ recall' = NoRecall /\ flight' \subseteq flight
  BY DEF Exit, server
<1>2. ChatTyped' /\ Awaits' /\ DeletionsLast' /\ RecallHides'
  BY <1>0, <1>1 DEF ChatTyped, Awaits, DeletionsLast, RecallHides, NoRecall, others
<1>3. \A m \in Stored : Ahead(m)' => Ahead(m)
  BY <1>1 DEF Ahead
<1>4. /\ SentOnce' /\ (\A m \in Stored : Lost(m) => Lost(m)')
      /\ \A m : (isStored(m)' <=> isStored(m)) /\ (OnItsWay(m)' => OnItsWay(m))
  BY <1>1, <1>3, NothingSent
<1>5. ErrorsMean'
  BY <1>1, <1>4, MessageType DEF ErrorsMean
<1>6. UserFirst' /\ Answers' /\ TurnsFinish'
  <2>1. UserFirst'
    BY <1>1, <1>3, <1>4, UserStaysFirst
  <2> QED
    BY <1>0, <1>1, <2>1 DEF Answers, TurnsFinish
<1> QED
  BY <1>2, <1>4, <1>5, <1>6 DEF ChatInv

LEMMA ExitsKeep == ChatInv /\ (ApiFails \/ FetchFails \/ Quit) => ChatInv'
<1> SUFFICES ASSUME ChatInv, ApiFails \/ FetchFails \/ Quit PROVE ChatInv'
  OBVIOUS
<1>1. CASE ApiFails
  <2> DEFINE thrown == [parsed |-> parseMemoryApiError(response), request |-> call]
  <2>1. Exit(thrown) /\ response # Nothing /\ ~response.ok
    BY <1>1 DEF ApiFails
  <2>2. thrown.request = call
    OBVIOUS
  <2>3. call \in Requests
    BY <2>1 DEF ChatInv, Awaits, ChatTyped
  <2>4. call.op \in Roles => Lost(message(call))
    BY <2>1 DEF ChatInv, ErrorsMean
  <2> HIDE DEF thrown
  <2> QED
    BY <2>1, <2>2, <2>3, <2>4, ExitKeeps
<1>2. CASE FetchFails
  <2>1. PICK thrown \in {Nothing, [parsed |-> parseMemoryApiError(gatewayText), request |-> call]} :
          Exit(thrown)
    BY <1>2 DEF FetchFails
  <2>2. parseMemoryApiError(gatewayText).code = "http_error"
    BY DEF parseMemoryApiError, gatewayText
  <2>3. thrown # Nothing => thrown.parsed.code = "http_error"
    BY <2>1, <2>2
  <2> QED
    BY <2>1, <2>3, ExitKeeps
<1>3. CASE Quit
  BY <1>3, ExitKeeps DEF Quit
<1> QED
  BY <1>1, <1>2, <1>3

-----------------------------------------------------------------------------
(* The server.                                                             *)

LEMMA Responses ==
  /\ \A op, key, code : ~respond(op, key, toHttpError(code)).ok
  /\ \A op, key, payload : op \in Routes /\ authorizeRequest(key) =>
       respond(op, key, json(payload)) = json(payload)
  /\ \A payload : json(payload).ok /\ json(payload).payload = payload
<1>1. \A op, key, code : ~respond(op, key, toHttpError(code)).ok
  BY DEF respond, toHttpError, unauthorized, failure
<1>2. \A op, key, payload : op \in Routes /\ authorizeRequest(key) =>
       respond(op, key, json(payload)) = json(payload)
  BY DEF respond
<1> QED
  BY <1>1, <1>2 DEF json

\* A request is served and nothing is stored.
LEMMA ServesNothing ==
  ASSUME ChatInv, NEW q \in flight, NEW answer, reply(q, answer), UNCHANGED <<stored, others>>,
         LET response_q == respond(route(q), q.key, answer)
         IN /\ q.op \in Roles /\ response_q.ok => response_q.payload = "rejected"
            /\ q.op = "hydrate" /\ response_q.ok => response_q.payload \cap tombstoned = {}
  PROVE  ChatInv'
<1> DEFINE given == respond(route(q), q.key, answer)
<1>0. ChatTyped /\ Awaits /\ SentOnce /\ ErrorsMean /\ DeletionsLast /\ RecallHides
      /\ Answers /\ UserFirst /\ TurnsFinish
  BY DEF ChatInv
<1>1. /\ UNCHANGED <<chat, turn, recall, error, finished, rejected, call, others>>
      /\ flight' = flight \ {q}
      /\ response' = IF q = call THEN given ELSE response
      /\ q.op \in Roles /\ given.ok => given.payload = "rejected"
      /\ q.op = "hydrate" /\ given.ok => given.payload \cap tombstoned = {}
  BY DEF reply, client
<1> HIDE DEF given
<1>2. q \in Requests /\ q # Nothing
  BY <1>0, NothingAssumption DEF ChatTyped, Requests, Ops
<1>3. ChatTyped' /\ Awaits'
  BY <1>0, <1>1, <1>2 DEF ChatTyped, Awaits
<1>4. \A m \in Stored : Ahead(m)' => Ahead(m)
  BY <1>1 DEF Ahead
<1>5. /\ SentOnce' /\ (\A m \in Stored : Lost(m) => Lost(m)')
      /\ \A m : (isStored(m)' <=> isStored(m)) /\ (OnItsWay(m)' => OnItsWay(m))
  BY <1>1, <1>4, NothingSent
<1>6. q.op \in Roles => Lost(message(q))'
  <2> SUFFICES ASSUME q.op \in Roles PROVE Lost(message(q))'
    OBVIOUS
  <2>1. message(q) \in Stored /\ OnItsWay(message(q))
    BY <1>2, MessageType DEF OnItsWay
  <2>2. ~isStored(message(q)) /\ ~Ahead(message(q))
    BY <1>0, <2>1 DEF SentOnce
  <2>3. \A r \in flight' : r.op \in Roles => message(r) # message(q)
    BY <1>0, <1>1 DEF SentOnce
  <2>4. message(q)' = message(q)
    BY DEF message
  <2>5. ~OnItsWay(message(q))'
    BY <2>3, <2>4 DEF OnItsWay, message
  <2> QED
    BY <1>4, <1>5, <2>1, <2>2, <2>5 DEF Lost, message
<1>7. ErrorsMean'
  <2>1. response' # Nothing /\ call.op \in Roles /\ ~response'.ok => Lost(message(call))'
    <3>1. CASE q = call
      BY <1>1, <1>6, <3>1 DEF message
    <3>2. CASE q # call
      <4>1. response # Nothing => call \in Requests
        BY <1>0 DEF Awaits, ChatTyped
      <4> QED
        BY <1>0, <1>1, <1>5, <3>2, <4>1, MessageType DEF ErrorsMean
    <3> QED
      BY <3>1, <3>2
  <2> QED
    BY <1>0, <1>1, <1>5, <2>1, MessageType DEF ErrorsMean, message
<1>8. DeletionsLast' /\ RecallHides'
  BY <1>0, <1>1, <1>2 DEF DeletionsLast, RecallHides, Awaits, others
<1>9. UserFirst' /\ \A m \in Stored : Told(m) => Told(m)'
  BY <1>1, <1>4, <1>5, UserStaysFirst
<1>10. Answers'
  <2>1. response' # Nothing /\ call.op \in Roles /\ response'.ok =>
          response'.payload = "rejected" \/ isStored(message(call))'
    BY <1>0, <1>1, <1>5 DEF Answers
  <2>2. response' # Nothing /\ call.op \in Roles => ~OnItsWay(message(call))'
    <3>1. CASE q = call
      BY <1>1, <1>6, <3>1 DEF Lost, message
    <3>2. CASE q # call
      BY <1>0, <1>1, <1>5, <3>2 DEF Answers, message
    <3> QED
      BY <3>1, <3>2
  <2>3. userOf(turn) \in Stored
    BY <1>0 DEF ChatTyped, userOf, Stored, Roles
  <2> QED
    BY <1>0, <1>1, <1>9, <2>1, <2>2, <2>3 DEF Answers, message, userOf
<1>11. TurnsFinish'
  BY <1>0, <1>1 DEF TurnsFinish
<1> QED
  BY <1>3, <1>5, <1>7, <1>8, <1>9, <1>10, <1>11 DEF ChatInv

\* A message is stored, whatever its result says.
LEMMA ServesMessage ==
  ASSUME ChatInv, NEW q \in flight, q.op \in Roles, NEW payload, reply(q, json(payload)),
         authorizeRequest(q.key),
         stored' = Append(stored, message(q)), UNCHANGED others
  PROVE  ChatInv'
<1> DEFINE m == message(q)
           n == Len(stored)
<1>0. ChatTyped /\ Awaits /\ SentOnce /\ ErrorsMean /\ DeletionsLast /\ RecallHides
      /\ Answers /\ UserFirst /\ TurnsFinish
  BY DEF ChatInv
<1>1. /\ UNCHANGED <<chat, turn, recall, error, finished, rejected, call, others>>
      /\ flight' = flight \ {q}
      /\ response' = IF q = call THEN json(payload) ELSE response
      /\ json(payload).ok
  <2>1. route(q) \in Routes
    BY DEF route, Routes
  <2> QED
    BY <2>1, Responses DEF reply, client
<1>2. q \in Requests /\ q # Nothing
  BY <1>0, NothingAssumption DEF ChatTyped, Requests, Ops
<1>3. m \in Stored /\ m.role = q.op /\ m.turn = q.turn /\ OnItsWay(m)
  BY <1>2, MessageType DEF OnItsWay
<1>4. ~isStored(m) /\ ~Ahead(m)
  BY <1>0, <1>3 DEF SentOnce
<1> HIDE DEF m
<1>5. /\ stored \in Seq(Stored) /\ stored' = Append(stored, m)
      /\ n \in Nat /\ DOMAIN stored = 1 .. n /\ DOMAIN stored' = 1 .. n + 1
      /\ stored'[n + 1] = m /\ \A i \in 1 .. n : stored'[i] = stored[i]
      /\ stored' \in Seq(Stored)
  BY <1>0, <1>3 DEF ChatTyped, m
<1> HIDE DEF n
<1>6. \A x : isStored(x)' <=> isStored(x) \/ x = m
  BY <1>5 DEF isStored
<1>7. \A x : OnItsWay(x)' <=> OnItsWay(x) /\ x # m
  BY <1>0, <1>1 DEF SentOnce, OnItsWay, message, m
<1>8. \A x : Ahead(x)' <=> Ahead(x)
  BY <1>1 DEF Ahead
<1>9. \A x \in Stored : Lost(x) => Lost(x)'
  BY <1>3, <1>6, <1>7, <1>8 DEF Lost
<1>10. ChatTyped' /\ Awaits'
  BY <1>0, <1>1, <1>2, <1>5 DEF ChatTyped, Awaits
<1>11. SentOnce'
  <2>1. \A x \in Stored : Ahead(x)' => ~OnItsWay(x)' /\ ~isStored(x)'
    BY <1>0, <1>4, <1>6, <1>7, <1>8 DEF SentOnce
  <2>2. \A x \in Stored : OnItsWay(x)' => ~isStored(x)'
    BY <1>0, <1>6, <1>7 DEF SentOnce
  <2>3. \A i, j \in DOMAIN stored' : stored'[i] = stored'[j] => i = j
    <3>1. \A i \in 1 .. n : stored[i] # m
      BY <1>4, <1>5 DEF isStored
    <3> QED
      BY <1>0, <1>5, <3>1 DEF SentOnce
  <2> QED
    BY <1>0, <1>1, <2>1, <2>2, <2>3 DEF SentOnce, message
<1>12. ErrorsMean'
  <2>1. response # Nothing => call \in Requests
    BY <1>0 DEF Awaits, ChatTyped
  <2>2. response' # Nothing /\ ~response'.ok => response' = response
    BY <1>1
  <2> QED
    BY <1>0, <1>1, <1>9, <2>1, <2>2, MessageType DEF ErrorsMean, message
<1>13. DeletionsLast' /\ RecallHides'
  BY <1>0, <1>1, <1>2 DEF DeletionsLast, RecallHides, Awaits, Roles, others
<1>14. \A x \in Stored : Told(x) => Told(x)'
  BY <1>1, <1>6, <1>7, <1>8 DEF Told
<1>15. Answers' /\ TurnsFinish'
  <2>1. response' # Nothing /\ call.op \in Roles =>
          /\ response'.ok => response'.payload = "rejected" \/ isStored(message(call))'
          /\ ~OnItsWay(message(call))'
    <3>1. CASE q = call
      BY <1>1, <1>6, <1>7, <3>1 DEF m, message
    <3>2. CASE q # call
      BY <1>0, <1>1, <1>6, <1>7, <3>2 DEF Answers, message
    <3> QED
      BY <3>1, <3>2
  <2>2. userOf(turn) \in Stored
    BY <1>0 DEF ChatTyped, userOf, Stored, Roles
  <2> QED
    BY <1>0, <1>1, <1>14, <2>1, <2>2 DEF Answers, TurnsFinish, message, userOf
<1>16. UserFirst'
  <2>1. \A t \in Nat : userOf(t) \in Stored /\ assistantOf(t) \in Stored
    BY DEF userOf, assistantOf, Stored, Roles
  <2>2. m.role = "assistant" => Told(userOf(m.turn)) /\ m.turn \in Nat
    BY <1>0, <1>2, <1>3 DEF UserFirst, Requests
  <2>3. ASSUME NEW j \in DOMAIN stored', stored'[j].role = "assistant",
               NEW t, t = stored'[j].turn
        PROVE  /\ Told(userOf(t))'
               /\ \A i \in DOMAIN stored' : stored'[i] = userOf(t) => i < j
    <3>1. CASE j = n + 1
      <4>1. t = m.turn /\ m.role = "assistant" /\ userOf(t) # m
        BY <1>5, <2>3, <3>1 DEF userOf
      <4>2. Told(userOf(t)) /\ userOf(t) \in Stored
        BY <2>1, <2>2, <4>1
      <4>3. \A i \in DOMAIN stored' : stored'[i] = userOf(t) => i < j
        BY <1>5, <3>1, <4>1
      <4> QED
        BY <1>14, <4>2, <4>3 DEF userOf
    <3>2. CASE j \in 1 .. n
      <4>1. stored[j] \in Stored /\ stored'[j] = stored[j]
        BY <1>5, <3>2
      <4>2. t \in Nat /\ stored[j].role = "assistant" /\ t = stored[j].turn
        BY <2>3, <4>1 DEF Stored
      <4>3. Told(userOf(t)) /\ userOf(t) # m
        BY <1>0, <1>3, <1>5, <3>2, <4>2 DEF UserFirst, Told
      <4>4. \A i \in DOMAIN stored' : stored'[i] = userOf(t) => i < j
        BY <1>0, <1>5, <3>2, <4>2, <4>3 DEF UserFirst
      <4> QED
        BY <1>14, <2>1, <4>2, <4>3, <4>4 DEF userOf
    <3> QED
      BY <1>5, <3>1, <3>2
  <2>4. \A x \in flight' : x.op = "assistant" => Told(userOf(x.turn))'
    BY <1>0, <1>1, <1>14, <2>1 DEF UserFirst, ChatTyped, Requests, userOf
  <2>5. \A t \in finished : Told(userOf(t))' /\ Told(assistantOf(t))'
    <3>1. finished \subseteq Nat
      BY <1>0 DEF TurnsFinish, ChatTyped
    <3> QED
      BY <1>0, <1>14, <2>1, <3>1 DEF UserFirst, userOf, assistantOf
  <2>6. \A t : userOf(t)' = userOf(t) /\ assistantOf(t)' = assistantOf(t)
    BY DEF userOf, assistantOf
  <2> QED
    BY <1>1, <2>3, <2>4, <2>5, <2>6 DEF UserFirst, userOf, assistantOf
<1> QED
  BY <1>10, <1>11, <1>12, <1>13, <1>15, <1>16 DEF ChatInv

\* What others do to the messages changes nothing else for the chat.
LEMMA OthersKeep ==
  ASSUME ChatInv, deleted \subseteq deleted', overtaken \subseteq overtaken', DeletionsLast',
         UNCHANGED <<chat, turn, recall, error, finished, rejected, call, flight, response, stored>>
  PROVE  ChatInv'
<1>1. /\ \A m : (Ahead(m)' <=> Ahead(m)) /\ (OnItsWay(m)' <=> OnItsWay(m))
      /\ \A m : isStored(m)' <=> isStored(m)
  BY DEF Ahead, OnItsWay, isStored, message
<1>2. ChatTyped' /\ Awaits' /\ RecallHides'
  BY DEF ChatInv, ChatTyped, Awaits, RecallHides
<1>3. SentOnce'
  BY <1>1 DEF ChatInv, SentOnce, message
<1>4. ErrorsMean'
  BY <1>1 DEF ChatInv, ErrorsMean, Lost, message
<1>5. UserFirst' /\ Answers' /\ TurnsFinish'
  BY <1>1 DEF ChatInv, UserFirst, Answers, TurnsFinish, Told, message, userOf, assistantOf
<1> QED
  BY <1>2, <1>3, <1>4, <1>5 DEF ChatInv

LEMMA ServesKeep == ChatInv /\ ServerStep => ChatInv'
<1> SUFFICES ASSUME ChatInv, ServerStep PROVE ChatInv'
  OBVIOUS
<1>1. ASSUME NEW q \in flight, ServeQuery(q)
      PROVE  ChatInv'
  <2>1. PICK hits : reply(q, json(hits))
    BY <1>1 DEF ServeQuery
  <2> QED
    BY <1>1, <2>1, ServesNothing DEF ServeQuery, server, Roles
<1>2. ASSUME NEW q \in flight, ServeHydrate(q)
      PROVE  ChatInv'
  <2> DEFINE objects == (DOMAIN recall.merged \cap Kept) \ tombstoned
  <2>1. q.op = "hydrate" /\ authorizeRequest(q.key) /\ reply(q, json(objects))
        /\ UNCHANGED <<stored, others>>
    BY <1>2 DEF ServeHydrate, server
  <2>2. objects \cap tombstoned = {}
    OBVIOUS
  <2>3. route(q) \in Routes
    BY <2>1 DEF route, Routes, Roles
  <2> HIDE DEF objects
  <2>4. respond(route(q), q.key, json(objects)).payload = objects
    BY <2>1, <2>3, Responses
  <2> QED
    BY <2>1, <2>2, <2>4, ServesNothing DEF Roles
<1>3. ASSUME NEW q \in flight, ServeIngest(q)
      PROVE  ChatInv'
  <2>1. q.op \in Roles /\ authorizeRequest(q.key) /\ UNCHANGED others
    BY <1>3 DEF ServeIngest
  <2>2. \/ \E payload : stored' = Append(stored, message(q)) /\ reply(q, json(payload))
        \/ UNCHANGED stored /\ reply(q, json("rejected"))
    BY <1>3 DEF ServeIngest
  <2>3. CASE UNCHANGED stored /\ reply(q, json("rejected"))
    <3>1. route(q) \in Routes /\ q.op # "hydrate"
      BY <2>1 DEF route, Routes, Roles
    <3>2. respond(route(q), q.key, json("rejected")).payload = "rejected"
      BY <2>1, <3>1, Responses
    <3> QED
      BY <2>1, <2>3, <3>1, <3>2, ServesNothing
  <2> QED
    BY <2>1, <2>2, <2>3, ServesMessage
<1>4. ASSUME NEW q \in flight, ServeConsolidate(q)
      PROVE  ChatInv'
  BY <1>4, ServesNothing DEF ServeConsolidate, Roles
<1>5. ASSUME NEW q \in flight, ServeRefused(q)
      PROVE  ChatInv'
  <2>1. PICK code : reply(q, toHttpError(code))
    BY <1>5 DEF ServeRefused
  <2>2. ~respond(route(q), q.key, toHttpError(code)).ok
    BY Responses
  <2> QED
    BY <1>5, <2>1, <2>2, ServesNothing DEF ServeRefused, server
<1> QED
  BY <1>1, <1>2, <1>3, <1>4, <1>5 DEF ServerStep

LEMMA OtherStepKeeps == ChatInv /\ OtherStep => ChatInv'
<1> SUFFICES ASSUME ChatInv, NEW m \in Disturbed, Delete(m) \/ ReadToRewrite(m) \/ WriteBack(m)
             PROVE  ChatInv'
  BY DEF OtherStep
<1>0. deleted \subseteq tombstoned \cup overtaken /\ rewriting \cap deleted \subseteq overtaken
  BY DEF ChatInv, DeletionsLast
<1>1. OthersOnly /\ deleted \subseteq deleted' /\ overtaken \subseteq overtaken'
  BY DEF Delete, ReadToRewrite, WriteBack
<1>2. DeletionsLast'
  <2>1. CASE Delete(m)
    BY <1>0, <2>1 DEF Delete, DeletionsLast
  <2>2. CASE ReadToRewrite(m)
    BY <1>0, <2>2 DEF ReadToRewrite, DeletionsLast
  <2>3. CASE WriteBack(m)
    BY <1>0, <2>3 DEF WriteBack, DeletionsLast
  <2> QED
    BY <2>1, <2>2, <2>3
<1> QED
  BY <1>1, <1>2, OthersKeep DEF OthersOnly, client, network

-----------------------------------------------------------------------------
(* Every step preserves the invariant.                                     *)

LEMMA ChatInvInit == Init => ChatInv
<1> SUFFICES ASSUME Init PROVE ChatInv
  OBVIOUS
<1>1. /\ chat = [pc |-> "down", turnCount |-> 0, key |-> Nothing] /\ turn = 0
      /\ recall = [left |-> 0, merged |-> << >>, segments |-> {}, gone |-> {}]
      /\ call = Nothing /\ flight = {} /\ response = Nothing /\ error = Nothing
      /\ stored = << >> /\ deleted = {} /\ rewriting = {} /\ finished = {}
  BY DEF Init, NoRecall
<1>2. ChatTyped /\ Awaits
  BY <1>1 DEF ChatTyped, Awaits
<1>3. SentOnce /\ ErrorsMean /\ DeletionsLast /\ RecallHides /\ Answers /\ UserFirst /\ TurnsFinish
  BY <1>1
  DEF SentOnce, ErrorsMean, DeletionsLast, RecallHides, Answers, UserFirst, TurnsFinish, OnItsWay, isStored,
      Ahead
<1> QED
  BY <1>2, <1>3 DEF ChatInv

LEMMA ChatInvNext == ChatInv /\ [Next]_vars => ChatInv'
<1>1. ChatInv /\ ChatStep => ChatInv'
  BY MovesKeep, SendsKeep, TakesKeep, ExitsKeep DEF ChatStep, Moves, Sends, Takes
<1>2. ChatInv /\ UNCHANGED vars => ChatInv'
  <2> SUFFICES ASSUME ChatInv, UNCHANGED vars PROVE ChatInv'
    OBVIOUS
  <2>1. UNCHANGED <<client, network, stored, others>>
    BY DEF vars, server
  <2>2. DeletionsLast'
    BY <2>1 DEF ChatInv, DeletionsLast, others
  <2> QED
    BY <2>1, <2>2, OthersKeep DEF client, network, others
<1> QED
  BY <1>1, <1>2, ServesKeep, OtherStepKeeps DEF Next

\* The invariant holds in every reachable state, with no assumption but that Nothing is
\* not a request.
THEOREM ChatStaysConsistent == Spec => []ChatInv
BY ChatInvInit, ChatInvNext, PTL DEF Spec

-----------------------------------------------------------------------------
(* What it says of the chat.                                               *)

\* Of what was deleted before the recall hydrated what it found, only that is in a prompt
\* which a call had read before its deletion and was yet to write back, however late deletions,
\* writes and responses come (memorySession.ts 151-175, service.ts 276, 734-737).
THEOREM RecallOnlyFromOvertaken == Spec => []RecalledOnlyIfOvertaken
<1>1. ChatInv => RecalledOnlyIfOvertaken
  BY DEF ChatInv, RecallHides, RecalledOnlyIfOvertaken
<1> QED
  BY <1>1, ChatStaysConsistent, PTL

\* A message about which the API answered with an error of its own is never stored, not
\* even later (http.ts 80-85, service.ts 202).
THEOREM ErrorsAreFinal == Spec => []ErrorsLeaveNoTrace
<1>1. ChatInv => ErrorsLeaveNoTrace
  BY DEF ChatInv, ErrorsMean, Lost, isStored, ErrorsLeaveNoTrace
<1> QED
  BY <1>1, ChatStaysConsistent, PTL

\* However calls fail, processes end and requests are served late, a turn's messages are
\* stored once and in order, and a finished turn lacks only what was answered as rejected
\* (main.ts 97-99, memorySession.ts 75-101).
THEOREM TranscriptStaysKept == Spec => []TranscriptKept
<1>1. ChatInv => TranscriptKept
  <2> SUFFICES ASSUME ChatInv PROVE TranscriptKept
    OBVIOUS
  <2>0. /\ DOMAIN stored = 1 .. Len(stored) /\ Len(stored) \in Nat
        /\ \A i \in DOMAIN stored : stored[i] \in Stored
        /\ turn \in Nat
    BY DEF ChatInv, ChatTyped
  <2>1. ASSUME NEW i \in DOMAIN stored, NEW j \in DOMAIN stored,
               i < j, stored[i].turn = stored[j].turn
        PROVE  stored[i].role = "user" /\ stored[j].role = "assistant"
    <3>1. stored[i] # stored[j]
      BY <2>0, <2>1 DEF ChatInv, SentOnce
    <3>2. stored[i].role # stored[j].role
      BY <2>0, <2>1, <3>1 DEF Stored
    <3>3. CASE stored[i].role = "assistant"
      <4>1. stored[j] = userOf(stored[i].turn)
        BY <2>0, <2>1, <3>2, <3>3 DEF Stored, Roles, userOf
      <4>2. j < i
        BY <3>3, <4>1 DEF ChatInv, UserFirst
      <4> QED
        BY <2>0, <2>1, <4>2
    <3> QED
      BY <2>0, <3>2, <3>3 DEF Stored, Roles
  <2>2. ASSUME NEW t \in 1 .. turn, userOf(t) \notin rejected, isStored(assistantOf(t))
        PROVE  isStored(userOf(t))
    BY <2>2 DEF ChatInv, UserFirst, Told, isStored, assistantOf
  <2>3. \A t \in finished : \A m \in {userOf(t), assistantOf(t)} \ rejected : isStored(m)
    BY DEF ChatInv, UserFirst, Told
  <2> QED
    BY <2>1, <2>2, <2>3 DEF TranscriptKept, userOf, assistantOf
<1> QED
  BY <1>1, ChatStaysConsistent, PTL

-----------------------------------------------------------------------------
(* Consolidations.  Each queued, asked for or due is paid for by a period  *)
(* of finished turns, and those that a process has counted since are more. *)

every == consolidateEveryTurns
Asked == {q \in flight : q.op = "consolidate"}
due == IF chat.pc = "consolidate" /\ call = Nothing THEN 1 ELSE 0
uncounted == IF chat.pc = "finish" THEN 1 ELSE 0
spent == jobs + Cardinality(Asked) + due

PaceInv ==
  /\ jobs \in Nat /\ IsFiniteSet(Asked)
  /\ every > 0 =>
       spent * every + (chat.turnCount % every) + uncounted <= Cardinality(finished)

LEMMA Quotient ==
  ASSUME NEW n \in Nat, NEW e \in Nat, e > 0
  PROVE  n \div e \in Nat /\ n % e \in 0 .. e - 1 /\ n = e * (n \div e) + (n % e)
OBVIOUS

LEMMA Scale ==
  ASSUME NEW a \in Nat, NEW b \in Nat, NEW e \in Nat, b <= a
  PROVE  a * e \in Nat /\ b * e \in Nat /\ b * e <= a * e
<1>1. a - b \in Nat
  OBVIOUS
<1>2. (a - b) * e \in Nat /\ a * e = b * e + (a - b) * e
  BY <1>1
<1> QED
  BY <1>2

\* What is spent on fewer consolidations is no more.
LEMMA Spend ==
  ASSUME NEW a \in Nat, NEW b \in Nat, NEW e \in Nat, NEW r \in Nat, NEW c \in Nat,
         b <= a, a * e + r <= c
  PROVE  b * e + r <= c
<1>1. a * e \in Nat /\ b * e \in Nat /\ b * e <= a * e
  BY Scale
<1> QED
  BY <1>1

LEMMA ZeroMod == ASSUME NEW e \in Nat, e > 0 PROVE 0 % e = 0
<1>1. PICK q \in Nat, r \in 0 .. e - 1 : 0 % e = r /\ 0 = e * q + r
  BY Quotient, 0 \in Nat
<1>2. e * q \in Nat
  BY <1>1
<1> QED
  BY <1>1, <1>2

LEMMA CountOneMore ==
  ASSUME NEW n \in Nat, NEW e \in Nat, e > 0
  PROVE  IF (n + 1) % e = 0 THEN n % e = e - 1 ELSE (n + 1) % e = (n % e) + 1
<1>1. PICK q \in Nat, r \in 0 .. e - 1 : n % e = r /\ n = e * q + r
  BY Quotient
<1>2. PICK p \in Nat, s \in 0 .. e - 1 : (n + 1) % e = s /\ n + 1 = e * p + s
  BY Quotient, n + 1 \in Nat
<1>3. e * p + s = e * q + r + 1
  BY <1>1, <1>2
<1>4. p = q \/ p = q + 1
  <2>1. ASSUME p >= q + 2 PROVE FALSE
    <3>1. e * p - e * q >= 2 * e
      BY <2>1
    <3> QED
      BY <1>3, <3>1
  <2>2. ASSUME p <= q - 1 PROVE FALSE
    <3>1. e * q - e * p >= e
      BY <2>2
    <3> QED
      BY <1>3, <3>1
  <2> QED
    BY <2>1, <2>2
<1>5. CASE p = q
  BY <1>1, <1>2, <1>3, <1>5
<1>6. CASE p = q + 1
  <2>1. e * p = e * q + e
    BY <1>6
  <2>2. r = e - 1 /\ s = 0
    BY <1>3, <2>1
  <2> QED
    BY <1>1, <1>2, <2>2
<1> QED
  BY <1>4, <1>5, <1>6

LEMMA PaceFacts ==
  ASSUME ChatInv, PaceInv
  PROVE  /\ every \in Nat /\ jobs \in Nat /\ chat.turnCount \in Nat
         /\ every > 0 => (chat.turnCount % every) \in Nat
         /\ IsFiniteSet(Asked) /\ Cardinality(Asked) \in Nat
         /\ IsFiniteSet(finished) /\ Cardinality(finished) \in Nat
         /\ due \in {0, 1} /\ uncounted \in {0, 1} /\ spent \in Nat
<1>1. every \in Nat /\ jobs \in Nat /\ chat.turnCount \in Nat
  BY EveryAssumption DEF every, PaceInv, ChatInv, ChatTyped
<1>2. every > 0 => (chat.turnCount % every) \in Nat
  BY <1>1, Quotient
<1>3. IsFiniteSet(Asked) /\ Cardinality(Asked) \in Nat
  BY FS_CardinalityType DEF PaceInv
<1>4. IsFiniteSet(finished) /\ Cardinality(finished) \in Nat
  <2>1. finished \subseteq 1 .. turn /\ turn \in Nat
    BY DEF ChatInv, TurnsFinish, ChatTyped
  <2>2. IsFiniteSet(1 .. turn)
    BY <2>1, FS_Interval
  <2>3. IsFiniteSet(finished)
    BY <2>1, <2>2, FS_Subset
  <2> QED
    BY <2>3, FS_CardinalityType
<1>5. due \in {0, 1} /\ uncounted \in {0, 1}
  BY DEF due, uncounted
<1> QED
  BY <1>1, <1>2, <1>3, <1>4, <1>5 DEF spent

\* A step that finishes no turn and makes no consolidation due.
LEMMA PaceStep ==
  ASSUME ChatInv, PaceInv, UNCHANGED finished, jobs' \in Nat, IsFiniteSet(Asked'),
         spent' \in Nat, spent' <= spent, chat'.turnCount \in {chat.turnCount, 0},
         uncounted' \in {0, uncounted}
  PROVE  PaceInv'
<1> SUFFICES ASSUME every > 0
             PROVE  spent' * every + (chat'.turnCount % every) + uncounted'
                      <= Cardinality(finished)
  BY DEF PaceInv, every
<1>1. PICK e \in Nat, a \in Nat, b \in Nat, r \in Nat, c \in Nat, u \in Nat :
        /\ e = every /\ a = spent /\ b = spent' /\ r = chat.turnCount % every
        /\ c = Cardinality(finished) /\ u = uncounted
  BY PaceFacts
<1>2. a * e + r + u <= c
  BY <1>1 DEF PaceInv
<1>3. a * e \in Nat /\ b * e \in Nat /\ b * e <= a * e
  BY <1>1, Scale
<1>4. (chat'.turnCount % every) \in {r, 0}
  <2>1. 0 % every = 0
    BY PaceFacts, ZeroMod
  <2> QED
    BY <1>1, <2>1
<1> QED
  BY <1>1, <1>2, <1>3, <1>4

LEMMA PaceInit == Init => PaceInv
<1> SUFFICES ASSUME Init PROVE PaceInv
  OBVIOUS
<1>1. /\ chat.turnCount = 0 /\ chat.pc = "down" /\ flight = {} /\ jobs = 0 /\ finished = {}
  BY DEF Init
<1>2. Asked = {} /\ IsFiniteSet(Asked) /\ Cardinality(Asked) = 0 /\ Cardinality(finished) = 0
  BY <1>1, FS_EmptySet DEF Asked
<1>3. due = 0 /\ uncounted = 0 /\ spent = 0
  BY <1>1, <1>2 DEF due, uncounted, spent
<1>4. ASSUME every > 0
      PROVE  spent * every + (chat.turnCount % every) + uncounted <= Cardinality(finished)
  <2>1. every \in Nat
    BY EveryAssumption DEF every
  <2>2. 0 % every = 0
    BY <1>4, <2>1, ZeroMod
  <2> QED
    BY <1>1, <1>2, <1>3, <2>1, <2>2
<1> QED
  BY <1>1, <1>2, <1>4 DEF PaceInv

LEMMA PaceMoves == ASSUME ChatInv, PaceInv, Moves PROVE PaceInv'
<1>1. /\ UNCHANGED <<jobs, finished, call, flight>> /\ Asked' = Asked
  BY DEF Moves, Start, ReadInput, EndQueries, Complete, FinishTurn, network, server, Asked
<1>2. CASE ~FinishTurn
  <2>1. /\ chat'.turnCount \in {chat.turnCount, 0}
        /\ chat'.pc \in {"input", "query", "complete", "hydrate", "user"}
    BY <1>2 DEF Moves, Start, ReadInput, EndQueries, Complete, goto, ChatInv, ChatTyped
  <2>2. due' = 0 /\ uncounted' = 0
    BY <2>1 DEF due, uncounted
  <2>3. spent' \in Nat /\ spent' <= spent
    BY <1>1, <2>2, PaceFacts DEF spent
  <2> QED
    BY <1>1, <2>1, <2>2, <2>3, PaceStep, PaceFacts
<1>3. CASE FinishTurn
  <2> DEFINE count == chat.turnCount + 1
             isDue == every > 0 /\ count % every = 0
  <2>1. /\ chat.pc = "finish" /\ uncounted = 1 /\ due = 0
        /\ chat'.turnCount = count
        /\ chat'.pc = IF isDue THEN "consolidate" ELSE "input"
    BY <1>3 DEF FinishTurn, uncounted, due, ChatInv, ChatTyped, every
  <2>2. uncounted' = 0 /\ due' = IF isDue THEN 1 ELSE 0
    <3>1. call = Nothing
      BY <2>1 DEF ChatInv, Awaits, ChatTyped, Requests, Ops
    <3> QED
      BY <1>1, <2>1, <3>1 DEF uncounted, due
  <2>3. spent' = spent + due' /\ spent \in Nat
    BY <1>1, <2>1, <2>2, PaceFacts DEF spent
  <2>4. ASSUME every > 0
        PROVE  spent' * every + (count % every) + uncounted' <= Cardinality(finished)
    <3>1. PICK e \in Nat, a \in Nat, n \in Nat, c \in Nat :
            e = every /\ a = spent /\ n = chat.turnCount /\ c = Cardinality(finished)
      BY PaceFacts
    <3>2. a * e + (n % e) + 1 <= c
      BY <2>1, <2>4, <3>1 DEF PaceInv
    <3>3. IF (n + 1) % e = 0 THEN n % e = e - 1 ELSE (n + 1) % e = (n % e) + 1
      BY <2>4, <3>1, CountOneMore
    <3>4. n % e \in Nat
      BY <2>4, <3>1, Quotient
    <3>5. CASE (n + 1) % e = 0
      <4>1. spent' = a + 1 /\ uncounted' = 0 /\ count % every = 0
        BY <2>2, <2>3, <2>4, <3>1, <3>5
      <4>2. (a + 1) * e = a * e + e
        OBVIOUS
      <4>3. (a + 1) * e <= c
        BY <3>2, <3>3, <3>5, <4>2
      <4> QED
        BY <3>1, <4>1, <4>3
    <3>6. CASE (n + 1) % e # 0
      <4>1. spent' = a /\ uncounted' = 0 /\ count % every = (n % e) + 1
        BY <2>2, <2>3, <3>1, <3>3, <3>6
      <4> QED
        BY <3>1, <3>2, <3>4, <4>1
    <3> QED
      BY <3>5, <3>6
  <2> QED
    BY <1>1, <2>1, <2>4, PaceFacts DEF PaceInv, every
<1> QED
  BY <1>2, <1>3

LEMMA PaceSends == ASSUME ChatInv, PaceInv, Sends PROVE PaceInv'
<1>1. /\ UNCHANGED <<chat, jobs, finished>> /\ call = Nothing /\ call' = request
      /\ flight' = flight \cup {request} /\ request.op = chat.pc /\ chat.pc \in Ops
  BY DEF Sends, SendQuery, SendHydrate, SendMessage, SendConsolidate, Send, client, server,
         request, Ops, Roles
<1>2. uncounted' = uncounted
  BY <1>1 DEF uncounted
<1>3. IsFiniteSet(Asked') /\ spent' \in Nat /\ spent' <= spent
  <2>1. CASE chat.pc # "consolidate"
    <3>1. Asked' = Asked /\ due' = 0
      BY <1>1, <2>1 DEF Asked, due
    <3> QED
      BY <1>1, <3>1, PaceFacts DEF spent
  <2>2. CASE chat.pc = "consolidate"
    <3>1. Asked' = Asked \cup {request} /\ due = 1
      BY <1>1, <2>2 DEF Asked, due
    <3>2. due' = 0
      <4>1. request \in Requests
        BY <1>1 DEF request, Requests, ChatInv, ChatTyped
      <4>2. request # Nothing
        BY <4>1, NothingAssumption DEF Requests, Ops
      <4> QED
        BY <1>1, <4>2 DEF due
    <3>3. IsFiniteSet(Asked') /\ Cardinality(Asked') \in Nat
          /\ Cardinality(Asked') <= Cardinality(Asked) + 1
      <4>1. /\ IsFiniteSet(Asked \cup {request})
            /\ \/ Cardinality(Asked \cup {request}) = Cardinality(Asked)
               \/ Cardinality(Asked \cup {request}) = Cardinality(Asked) + 1
        BY PaceFacts, FS_AddElement
      <4> QED
        BY <3>1, <4>1, PaceFacts
    <3> QED
      BY <1>1, <3>1, <3>2, <3>3, PaceFacts DEF spent
  <2> QED
    BY <2>1, <2>2
<1> QED
  BY <1>1, <1>2, <1>3, PaceStep, PaceFacts

LEMMA PaceTakes == ASSUME ChatInv, PaceInv, Takes PROVE PaceInv'
<1>1. /\ UNCHANGED <<jobs, flight, turn>> /\ call' = Nothing /\ Asked' = Asked
      /\ chat'.turnCount = chat.turnCount /\ chat.pc # "finish"
      /\ chat'.pc \in {"query", "complete", "assistant", "finish", "input"}
      /\ chat'.pc = "finish" <=> chat.pc = "assistant"
      /\ finished' = IF chat.pc = "assistant" THEN finished \cup {turn} ELSE finished
  <2>1. chat \in [pc : Ops \cup {"down", "input", "complete", "finish"}, turnCount : Nat,
                  key : Keys \cup {Nothing}]
    BY DEF ChatInv, ChatTyped
  <2>2. CASE TakeHits
    BY <2>1, <2>2 DEF TakeHits, Answered, Received, server, Asked
  <2>3. CASE TakeObjects
    BY <2>1, <2>3 DEF TakeObjects, Answered, Received, server, Asked, goto
  <2>4. CASE TakeStored
    BY <2>1, <2>4 DEF TakeStored, Answered, Received, server, Asked, goto, Roles
  <2>5. CASE TakeQueued
    BY <2>1, <2>5 DEF TakeQueued, Answered, Received, server, Asked, goto
  <2> QED
    BY <2>2, <2>3, <2>4, <2>5 DEF Takes
<1>2. due' = 0 /\ uncounted = 0 /\ (chat.pc # "assistant" => uncounted' = 0)
      /\ (chat.pc = "assistant" => uncounted' = 1)
  BY <1>1 DEF due, uncounted
<1>3. spent' \in Nat /\ spent' <= spent /\ jobs' \in Nat /\ IsFiniteSet(Asked')
  BY <1>1, <1>2, PaceFacts DEF spent
<1>4. CASE chat.pc # "assistant"
  BY <1>1, <1>2, <1>3, <1>4, PaceStep
<1>5. CASE chat.pc = "assistant"
  <2>1. turn \notin finished
    BY <1>5 DEF ChatInv, TurnsFinish
  <2>2. Cardinality(finished') = Cardinality(finished) + 1
    BY <1>1, <1>5, <2>1, PaceFacts, FS_AddElement
  <2>3. every > 0 =>
          spent' * every + (chat.turnCount % every) + 1 <= Cardinality(finished) + 1
    <3> HAVE every > 0
    <3> SUFFICES spent' * every + (chat.turnCount % every) <= Cardinality(finished)
      <4>1. every \in Nat /\ (chat.turnCount % every) \in Nat /\ Cardinality(finished) \in Nat
        BY PaceFacts
      <4>2. \A b, e \in Nat : b * e \in Nat
        OBVIOUS
      <4>3. spent' * every \in Nat
        BY <1>3, <4>1, <4>2
      <4> QED
        BY <4>1, <4>3
    <3>1. PICK e \in Nat, a \in Nat, b \in Nat, r \in Nat, c \in Nat :
            /\ e = every /\ a = spent /\ b = spent' /\ r = chat.turnCount % every
            /\ c = Cardinality(finished)
      BY <1>3, PaceFacts
    <3>2. a * e \in Nat
      BY <3>1
    <3>3. a * e + r <= c
      BY <1>2, <3>1, <3>2 DEF PaceInv
    <3>4. b * e + r <= c
      BY <1>3, <3>1, <3>3, Spend
    <3> QED
      BY <3>1, <3>4
  <2> QED
    BY <1>1, <1>2, <1>3, <1>5, <2>2, <2>3 DEF PaceInv, every
<1> QED
  BY <1>4, <1>5

LEMMA PaceExits == ASSUME ChatInv, PaceInv, ApiFails \/ FetchFails \/ Quit PROVE PaceInv'
<1>1. PICK thrown : Exit(thrown)
  BY DEF ApiFails, FetchFails, Quit
<1>2. /\ UNCHANGED <<jobs, finished>> /\ Asked' = Asked
      /\ chat'.turnCount = 0 /\ chat'.pc = "down"
  BY <1>1 DEF Exit, server, Asked
<1>3. due' = 0 /\ uncounted' = 0
  BY <1>2 DEF due, uncounted
<1>4. spent' \in Nat /\ spent' <= spent
  BY <1>2, <1>3, PaceFacts DEF spent
<1> QED
  BY <1>2, <1>3, <1>4, PaceStep, PaceFacts

LEMMA PaceServes == ASSUME ChatInv, PaceInv, ServerStep PROVE PaceInv'
<1>1. UNCHANGED <<chat, call, finished>>
  BY DEF ServerStep, ServeQuery, ServeHydrate, ServeIngest, ServeConsolidate, ServeRefused,
     reply, client, network
<1>2. due' = due /\ uncounted' = uncounted
  BY <1>1 DEF due, uncounted
<1>3. CASE \E q \in flight : ServeConsolidate(q)
  <2>1. PICK q \in flight : ServeConsolidate(q)
    BY <1>3
  <2>2. q \in Asked /\ Asked' = Asked \ {q} /\ jobs' = jobs + 1
    BY <2>1 DEF ServeConsolidate, reply, Asked
  <2>3. IsFiniteSet(Asked') /\ Cardinality(Asked') = Cardinality(Asked) - 1
    BY <2>2, PaceFacts, FS_RemoveElement
  <2>4. Cardinality(Asked') \in Nat
    BY <2>3, FS_CardinalityType
  <2>5. spent' \in Nat /\ spent' <= spent /\ jobs' \in Nat
    BY <1>2, <2>2, <2>3, <2>4, PaceFacts DEF spent
  <2> QED
    BY <1>1, <1>2, <2>3, <2>5, PaceStep
<1>4. CASE ~\E q \in flight : ServeConsolidate(q)
  <2>1. jobs' = jobs /\ Asked' \subseteq Asked
    BY <1>4 DEF ServerStep, ServeQuery, ServeHydrate, ServeIngest, ServeRefused, reply,
       network, server, Asked
  <2>2. /\ IsFiniteSet(Asked') /\ Cardinality(Asked') \in Nat
        /\ Cardinality(Asked') <= Cardinality(Asked)
    BY <2>1, PaceFacts, FS_Subset, FS_CardinalityType
  <2>3. spent' \in Nat /\ spent' <= spent /\ jobs' \in Nat
    BY <1>2, <2>1, <2>2, PaceFacts DEF spent
  <2> QED
    BY <1>1, <1>2, <2>2, <2>3, PaceStep
<1> QED
  BY <1>3, <1>4

LEMMA PaceNext == ChatInv /\ PaceInv /\ [Next]_vars => PaceInv'
<1> SUFFICES ASSUME ChatInv, PaceInv, [Next]_vars PROVE PaceInv'
  OBVIOUS
<1>1. CASE ChatStep
  BY <1>1, PaceMoves, PaceSends, PaceTakes, PaceExits DEF ChatStep, Moves, Sends, Takes
<1>2. CASE UNCHANGED vars
  BY <1>2 DEF vars, client, network, server, PaceInv, spent, due, uncounted, Asked
<1>3. CASE OtherStep
  <2>1. OthersOnly
    BY <1>3 DEF OtherStep, Delete, ReadToRewrite, WriteBack
  <2> QED
    BY <2>1 DEF OthersOnly, client, network, PaceInv, spent, due, uncounted, Asked
<1> QED
  BY <1>1, <1>2, <1>3, PaceServes DEF Next

\* There are at most as many consolidations queued as the finished turns make periods, although
\* a process that ends forgets its count and a request it left may be served after that
\* (memorySession.ts 196-205).
THEOREM ConsolidationsStayPaced == Spec => []ConsolidationsPaced
<1>1. ChatInv /\ PaceInv => ConsolidationsPaced
  <2> SUFFICES ASSUME ChatInv, PaceInv PROVE ConsolidationsPaced
    OBVIOUS
  <2>1. /\ every \in Nat /\ spent \in Nat /\ jobs \in Nat /\ Cardinality(finished) \in Nat
        /\ uncounted \in Nat /\ chat.turnCount \in Nat
    BY PaceFacts
  <2>2. jobs <= spent
    BY PaceFacts DEF spent
  <2>3. jobs * every <= Cardinality(finished)
    <3>1. PICK e \in Nat, a \in Nat, j \in Nat, c \in Nat :
            e = every /\ a = spent /\ j = jobs /\ c = Cardinality(finished)
      BY <2>1
    <3>2. CASE e = 0
      BY <3>1, <3>2
    <3>3. CASE e > 0
      <4>1. chat.turnCount % every \in Nat
        BY <2>1, <3>1, <3>3, Quotient
      <4>2. a * e \in Nat /\ j * e \in Nat /\ j * e <= a * e
        BY <2>2, <3>1, Scale
      <4>3. a * e + (chat.turnCount % every) + uncounted <= c
        BY <3>1, <3>3 DEF PaceInv
      <4> QED
        BY <2>1, <3>1, <4>1, <4>2, <4>3
    <3> QED
      BY <3>1, <3>2, <3>3
  <2> QED
    BY <2>3 DEF ConsolidationsPaced, every
<1>2. Spec => []PaceInv
  BY PaceInit, PaceNext, ChatStaysConsistent, PTL DEF Spec
<1> QED
  BY <1>1, <1>2, ChatStaysConsistent, PTL
=============================================================================
