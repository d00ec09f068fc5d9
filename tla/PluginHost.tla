----------------------------- MODULE PluginHost ----------------------------
(***************************************************************************)
(* The plugin host (packages/plugin-host/src/pluginHost.ts): its registry, *)
(* a map by key with a second one by kind, and the events it emits.        *)
(*                                                                         *)
(* emit calls the listeners one by one, inside the call that changed the   *)
(* registry; a listener may itself call the host before it returns.  The   *)
(* calls in progress form a stack, topmost first.                          *)
(***************************************************************************)
EXTENDS Naturals, SequencesExt, FiniteSetsExt

CONSTANTS
  Keys,        \* plugin keys, kind::name::version
  NoKey,
  kindOf,      \* the kind of each
  parsed,      \* the key that clear reads out of a key: another one if a name holds "::"
  fault,       \* what is wrong with the plugin given for a key, or "none"
  Listeners,
  NoListener,
  Batches,     \* the registrations given to registerMany at once
  MaxEvents, MaxDepth, MaxAdded, MaxRuns   \* bounds of the model

Faults == {"none", "descriptor", "spec_version", "config"}

ASSUME KeysAssumption == NoKey \notin Keys /\ fault \in [Keys -> Faults]
ASSUME ParsedAssumption == parsed \in [Keys -> Keys \cup {NoKey}]
ASSUME ListenersAssumption == NoListener \notin Listeners
ASSUME BatchesAssumption == Batches \subseteq Seq(Keys)

VARIABLES
  byKey,       \* pluginsByKey, in the order of insertion
  byKind,      \* pluginsByKind
  place,       \* the place of each listener in the set of listeners, 0 if it is not in it
  added,       \* the places given out
  stack,       \* the calls in progress
  runs,        \* the runs awaited: how many of each plugin
  emitted,     \* the events emitted so far
  heard        \* the events each listener was called with

registry == <<byKey, byKind>>
listeners == <<place, added>>
vars == <<registry, listeners, stack, runs, emitted, heard>>

Kinds == {kindOf[k] : k \in Keys}
Types == {"plugin_registered", "plugin_unregistered", "plugin_executed"}

Frame == [call : {"emit", "registerMany", "clear"}, event : Nat, at : Nat,
          running : Listeners \cup {NoListener}, rest : Seq(Keys \cup {NoKey})]
emitFrame(n) ==
  [call |-> "emit", event |-> n, at |-> 0, running |-> NoListener, rest |-> <<>>]
loopFrame(call, rest) ==
  [call |-> call, event |-> 0, at |-> 0, running |-> NoListener, rest |-> rest]

TypeOK ==
  /\ byKey \in Seq({k \in Keys : fault[k] = "none"}) /\ IsInjective(byKey)
  /\ byKind \in [Kinds -> Seq(Keys)]
  /\ place \in [Listeners -> 0 .. added] /\ added \in Nat
  /\ stack \in Seq(Frame)
  /\ runs \in [Keys -> Nat]
  /\ emitted \in Seq([type : Types, key : Keys])
  /\ heard \in [Listeners -> Seq(1 .. Len(emitted))]

Init ==
  /\ byKey = <<>>
  /\ byKind = [kind \in Kinds |-> <<>>]
  /\ place = [l \in Listeners |-> 0] /\ added = 0
  /\ stack = <<>>
  /\ runs = [k \in Keys |-> 0]
  /\ emitted = <<>>
  /\ heard = [l \in Listeners |-> <<>>]

-----------------------------------------------------------------------------
has(k) == k \in ToSet(byKey)

\* Map.delete, and filter by another key.
without(s, k) ==
  LET kept[i \in 0 .. Len(s)] ==
        IF i = 0 THEN <<>> ELSE IF s[i] = k THEN kept[i - 1] ELSE Append(kept[i - 1], s[i])
  IN kept[Len(s)]

\* The program calls the host when no call is in progress, or from a listener.
MayCall == IF stack = <<>> THEN TRUE
           ELSE Len(stack) < MaxDepth /\ Head(stack).running # NoListener

\* The event is emitted on top of the calls in base.
emit(type, k, base) ==
  /\ Len(emitted) < MaxEvents
  /\ emitted' = Append(emitted, [type |-> type, key |-> k])
  /\ stack' = <<emitFrame(Len(emitted) + 1)>> \o base

\* Mutant: validates the key only.
acceptsAny(k) == ~has(k)

\* validateDescriptor, then the spec version, the keys in use and validateConfig.
accepts(k) == fault[k] = "none" /\ ~has(k)

\* Map.set of a key in use keeps its place; the list of the kind grows in any case.
store(k) ==
  /\ byKey' = IF has(k) THEN byKey ELSE Append(byKey, k)
  /\ byKind' = [byKind EXCEPT ![kindOf[k]] = Append(@, k)]

persistRegistration(k, base) ==
  /\ store(k)
  /\ emit("plugin_registered", k, base)

\* Mutant: takes the first registration found out of the list.
unregisterFirst(k, base) ==
  /\ byKey' = without(byKey, k)
  /\ byKind' = [byKind EXCEPT ![kindOf[k]] =
       LET first == CHOOSE i \in DOMAIN @ : @[i] = k /\ \A j \in 1 .. i - 1 : @[j] # k
       IN RemoveAt(@, first)]
  /\ emit("plugin_unregistered", k, base)

\* unregister of a key in use; for others it returns false.
unregister(k, base) ==
  /\ byKey' = without(byKey, k)
  /\ byKind' = [byKind EXCEPT ![kindOf[k]] = without(@, k)]
  /\ emit("plugin_unregistered", k, base)

-----------------------------------------------------------------------------
(* Calls of the host.                                                      *)

Register(k) ==
  /\ MayCall /\ accepts(k)
  /\ persistRegistration(k, stack)
  /\ UNCHANGED <<listeners, runs, heard>>

Unregister(k) ==
  /\ MayCall /\ has(k)
  /\ unregister(k, stack)
  /\ UNCHANGED <<listeners, runs, heard>>

\* The whole batch is validated before any of it is stored.
RegisterMany(batch) ==
  /\ MayCall /\ Len(emitted) < MaxEvents
  /\ \A k \in ToSet(batch) : accepts(k)
  /\ stack' = <<loopFrame("registerMany", batch)>> \o stack
  /\ UNCHANGED <<registry, listeners, runs, emitted, heard>>

\* Its loop, one registration at a time; the key may be in use by now.
PersistNext ==
  /\ stack # <<>> /\ Head(stack).call = "registerMany" /\ Head(stack).rest # <<>>
  /\ persistRegistration(Head(Head(stack).rest),
       <<loopFrame("registerMany", Tail(Head(stack).rest))>> \o Tail(stack))
  /\ UNCHANGED <<listeners, runs, heard>>

\* Mutant: empties the maps, without a word to the listeners.
ClearSilently ==
  /\ MayCall /\ byKey # <<>> /\ Len(emitted) < MaxEvents
  /\ byKey' = <<>> /\ byKind' = [kind \in Kinds |-> <<>>]
  /\ UNCHANGED <<listeners, stack, runs, emitted, heard>>

\* clear takes the keys in use and splits each at "::".
Clear ==
  /\ MayCall /\ byKey # <<>> /\ Len(emitted) < MaxEvents
  /\ stack' = <<loopFrame("clear", [i \in DOMAIN byKey |-> parsed[byKey[i]]])>> \o stack
  /\ UNCHANGED <<registry, listeners, runs, emitted, heard>>

ClearNext ==
  /\ stack # <<>> /\ Head(stack).call = "clear" /\ Head(stack).rest # <<>>
  /\ LET k == Head(Head(stack).rest)
         base == <<loopFrame("clear", Tail(Head(stack).rest))>> \o Tail(stack)
     IN \/ has(k) /\ unregister(k, base)
        \/ ~has(k) /\ stack' = base /\ UNCHANGED <<registry, emitted>>
  /\ UNCHANGED <<listeners, runs, heard>>

\* A loop that is through returns.
EndLoop ==
  /\ stack # <<>> /\ Head(stack).call # "emit" /\ Head(stack).rest = <<>>
  /\ stack' = Tail(stack)
  /\ UNCHANGED <<registry, listeners, runs, emitted, heard>>

\* A listener added again after unsubscribe comes last in the set.
Subscribe(l) ==
  /\ MayCall /\ place[l] = 0 /\ added < MaxAdded
  /\ added' = added + 1
  /\ place' = [place EXCEPT ![l] = added + 1]
  /\ UNCHANGED <<registry, stack, runs, emitted, heard>>

Unsubscribe(l) ==
  /\ MayCall /\ place[l] > 0
  /\ place' = [place EXCEPT ![l] = 0]
  /\ UNCHANGED <<registry, added, stack, runs, emitted, heard>>

\* runRequest looks the plugin up, awaits its run ...
StartRun(k) ==
  /\ MayCall /\ has(k) /\ runs[k] < MaxRuns
  /\ runs' = [runs EXCEPT ![k] = @ + 1]
  /\ UNCHANGED <<registry, listeners, stack, emitted, heard>>

\* ... and emits, registered still or not, from the event loop; unless it throws.
FinishRun(k) ==
  /\ stack = <<>> /\ runs[k] > 0
  /\ runs' = [runs EXCEPT ![k] = @ - 1]
  /\ emit("plugin_executed", k, stack)
  /\ UNCHANGED <<registry, listeners, heard>>

FailRun(k) ==
  /\ stack = <<>> /\ runs[k] > 0
  /\ runs' = [runs EXCEPT ![k] = @ - 1]
  /\ UNCHANGED <<registry, listeners, stack, emitted, heard>>

-----------------------------------------------------------------------------
(* emit: the loop over the set of listeners as it changes.                 *)

Emitting == IF stack = <<>> THEN FALSE
            ELSE Head(stack).call = "emit" /\ Head(stack).running = NoListener
after(at) == {l \in Listeners : place[l] > at}

CallListener ==
  /\ Emitting
  /\ \E l \in after(Head(stack).at) :
       /\ \A x \in after(Head(stack).at) : place[l] <= place[x]
       /\ stack' = [stack EXCEPT ![1].running = l, ![1].at = place[l]]
       /\ heard' = [heard EXCEPT ![l] = Append(@, Head(stack).event)]
  /\ UNCHANGED <<registry, listeners, runs, emitted>>

EndEmit ==
  /\ Emitting /\ after(Head(stack).at) = {}
  /\ stack' = Tail(stack)
  /\ UNCHANGED <<registry, listeners, runs, emitted, heard>>

InListener == IF stack = <<>> THEN FALSE ELSE Head(stack).running # NoListener

\* The listener returns, or throws and onEventListenerError takes note.
ListenerReturns ==
  /\ InListener
  /\ stack' = [stack EXCEPT ![1].running = NoListener]
  /\ UNCHANGED <<registry, listeners, runs, emitted, heard>>

\* The listener throws and so does onEventListenerError: the exception ends this emit
\* and the calls below, up to the listener that made them or out of the host.
HookThrows ==
  /\ InListener
  /\ LET callers == {i \in 2 .. Len(stack) : stack[i].running # NoListener}
     IN stack' = IF callers = {} THEN <<>> ELSE SubSeq(stack, Min(callers), Len(stack))
  /\ UNCHANGED <<registry, listeners, runs, emitted, heard>>

-----------------------------------------------------------------------------
Next ==
  \/ \E k \in Keys :
       Register(k) \/ Unregister(k) \/ StartRun(k) \/ FinishRun(k) \/ FailRun(k)
  \/ \E batch \in Batches : RegisterMany(batch)
  \/ Clear
  \/ \E l \in Listeners : Subscribe(l) \/ Unsubscribe(l)
  \/ PersistNext \/ ClearNext \/ EndLoop
  \/ CallListener \/ EndEmit \/ ListenerReturns \/ HookThrows

Spec == Init /\ [][Next]_vars

-----------------------------------------------------------------------------
\* listByKind and get agree on what is registered, whatever batches, listeners and
\* exceptions came between (pluginHost.ts 132-175): a plugin in the list of a kind can
\* be run, and one that can be run is in its list.
KindsAgree ==
  \A kind \in Kinds : ToSet(byKind[kind]) = {k \in ToSet(byKey) : kindOf[k] = kind}

\* The n-th event is about the registration of k.
tells(n, k) == emitted[n].key = k /\ emitted[n].type # "plugin_executed"

\* The last thing the listener heard of it is at place i.
lastHeard(l, k, i) ==
  /\ i \in DOMAIN heard[l] /\ tells(heard[l][i], k)
  /\ \A j \in DOMAIN heard[l] : j > i => ~tells(heard[l][j], k)

\* What a listener that was first to subscribe, and stayed, last heard of a plugin's
\* registration is so once the host is at rest (plugin-host.md 55): an exception keeps
\* events from those after it only.
OldestKnowsRegistry ==
  stack = <<>> =>
    \A l \in Listeners, k \in Keys : place[l] = 1 =>
      \A i \in DOMAIN heard[l] : lastHeard(l, k, i) =>
        (has(k) <=> emitted[heard[l][i]].type = "plugin_registered")
=============================================================================
