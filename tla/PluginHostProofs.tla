-------------------------- MODULE PluginHostProofs --------------------------
(***************************************************************************)
(* Proofs about the plugin host, for any plugins, batches and listeners,   *)
(* however deep their calls go and whatever they throw.                    *)
(*                                                                         *)
(* They need that a filter takes out what it should, which is an induction *)
(* over its recursion, and that the smallest of a set of places exists.    *)
(***************************************************************************)
EXTENDS PluginHost, SequenceTheorems, WellFoundedInduction, TLAPS

-----------------------------------------------------------------------------
(* The inductive invariant.                                                *)

Valid == {k \in Keys : fault[k] = "none"}

\* A frame when n events have been emitted: a listener runs only inside emit and after
\* the loop has taken its place, and what a batch still stores was validated.
FrameOK(f, n) ==
  /\ f \in Frame
  /\ f.call = "emit" => f.event \in 1 .. n
  /\ f.call = "registerMany" => ToSet(f.rest) \subseteq Valid
  /\ f.running # NoListener => f.call = "emit" /\ f.at > 0

\* A call that waits for the one above it.
Waits(f) == f.call = "emit" => f.at > 0

StackOK(st, n) ==
  /\ st \in Seq(Frame)
  /\ \A i \in DOMAIN st : FrameOK(st[i], n)
  /\ \A i \in 2 .. Len(st) : Waits(st[i])

\* The last event emitted has reached no listener yet.
Pending(st) == st # <<>> /\ st[1].call = "emit" /\ st[1].at = 0

Placed ==
  /\ \A l, x \in Listeners : place[l] = place[x] /\ place[l] > 0 => l = x
  /\ added = 0 => \A l \in Listeners : heard[l] = <<>>

\* What an event says of the registry is so, until a later one says otherwise.
Says(n, k) == tells(n, k) => (has(k) <=> emitted[n].type = "plugin_registered")

PendingSays ==
  Pending(stack) =>
    /\ stack[1].event = Len(emitted)
    /\ \A k \in Keys : Says(Len(emitted), k)

OldestSays ==
  \A l \in Listeners, k \in Keys : place[l] = 1 =>
    \/ Pending(stack) /\ tells(Len(emitted), k)
    \/ \A i \in DOMAIN heard[l] : lastHeard(l, k, i) => Says(heard[l][i], k)

HostInv ==
  TypeOK /\ KindsAgree /\ StackOK(stack, Len(emitted)) /\ Placed /\ PendingSays /\ OldestSays

-----------------------------------------------------------------------------
(* Induction over the natural numbers, as a fact about sets of them.       *)

LEMMA Least ==
  ASSUME NEW S \in SUBSET Nat, S # {}
  PROVE  \E m \in S : \A n \in S : m <= n
<1> DEFINE less == OpToRel(<, Nat)
<1>1. IsWellFoundedOn(less, Nat) /\ \A m, n \in Nat : n < m => <<n, m>> \in less
  BY NatLessThanWellFounded DEF OpToRel
<1> HIDE DEF less
<1>2. PICK m \in S : \A n \in S : ~(<<n, m>> \in less)
  BY <1>1, WFMin
<1>3. \A n \in S : ~(n < m)
  BY <1>1, <1>2
<1> QED
  BY <1>2, <1>3

LEMMA Induct ==
  ASSUME NEW S, 0 \in S, \A n \in Nat : n \in S => n + 1 \in S
  PROVE  Nat \subseteq S
<1> SUFFICES ASSUME Nat \ S # {} PROVE FALSE
  OBVIOUS
<1>1. PICK m \in Nat \ S : \A n \in Nat \ S : m <= n
  BY Least
<1>2. m # 0 /\ m - 1 \in Nat /\ m - 1 \in S
  BY <1>1
<1> QED
  BY <1>1, <1>2

\* One more element.
LEMMA Appended ==
  ASSUME NEW S, NEW s \in Seq(S), NEW e \in S
  PROVE  /\ Append(s, e) \in Seq(S)
         /\ ToSet(Append(s, e)) = ToSet(s) \cup {e}
         /\ IsInjective(s) /\ e \notin ToSet(s) => IsInjective(Append(s, e))
<1> DEFINE n == Len(s)
           t == Append(s, e)
<1>1. /\ t \in Seq(S) /\ n \in Nat /\ DOMAIN s = 1 .. n /\ DOMAIN t = 1 .. n + 1
      /\ t[n + 1] = e /\ \A i \in 1 .. n : t[i] = s[i]
  OBVIOUS
<1> HIDE DEF t, n
<1>2. \A i \in DOMAIN t : i = n + 1 \/ i \in DOMAIN s
  BY <1>1
<1>3. DOMAIN s \subseteq DOMAIN t /\ n + 1 \in DOMAIN t
  BY <1>1
<1>4. ToSet(t) = ToSet(s) \cup {e}
  BY <1>1, <1>2, <1>3 DEF ToSet
<1>5. IsInjective(s) /\ e \notin ToSet(s) => IsInjective(t)
  BY <1>1, <1>2 DEF IsInjective, ToSet
<1> QED
  BY <1>1, <1>4, <1>5 DEF t

\* The recursion of without is well founded.
Keeps(h, s, k, n) ==
  h = [i \in 0 .. n |->
         IF i = 0 THEN <<>> ELSE IF s[i] = k THEN h[i - 1] ELSE Append(h[i - 1], s[i])]

LEMMA KeepsSteps ==
  ASSUME NEW h, NEW s, NEW k, NEW n \in Nat, Keeps(h, s, k, n)
  PROVE  /\ h[0] = <<>>
         /\ \A i \in 1 .. n : h[i] = IF s[i] = k THEN h[i - 1] ELSE Append(h[i - 1], s[i])
<1> DEFINE step(i) ==
             IF i = 0 THEN <<>> ELSE IF s[i] = k THEN h[i - 1] ELSE Append(h[i - 1], s[i])
<1>1. h = [i \in 0 .. n |-> step(i)]
  BY DEF Keeps
<1>2. step(0) = <<>>
  OBVIOUS
<1>3. ASSUME NEW i \in 1 .. n
      PROVE  step(i) = IF s[i] = k THEN h[i - 1] ELSE Append(h[i - 1], s[i])
  <2>1. i # 0
    OBVIOUS
  <2> QED
    BY <2>1
<1> HIDE DEF step
<1>4. h[0] = step(0) /\ \A i \in 1 .. n : h[i] = step(i)
  BY <1>1
<1> QED
  BY <1>2, <1>3, <1>4

LEMMA KeepsExists == \A s, k : \A n \in Nat : \E h : Keeps(h, s, k, n)
<1> TAKE s, k
<1> DEFINE T == {n \in Nat : \E h : Keeps(h, s, k, n)}
<1>1. 0 \in T
  <2> DEFINE h == [i \in 0 .. 0 |-> <<>>]
  <2>1. Keeps(h, s, k, 0)
    BY DEF Keeps
  <2> QED
    BY <2>1
<1>2. ASSUME NEW n \in Nat, n \in T
      PROVE  n + 1 \in T
  <2>1. PICK h : Keeps(h, s, k, n)
    BY <1>2
  <2>2. /\ h[0] = <<>>
        /\ \A i \in 1 .. n : h[i] = IF s[i] = k THEN h[i - 1] ELSE Append(h[i - 1], s[i])
    BY <2>1, KeepsSteps
  <2> DEFINE last == IF s[n + 1] = k THEN h[n] ELSE Append(h[n], s[n + 1])
             g == [i \in 0 .. n + 1 |-> IF i = n + 1 THEN last ELSE h[i]]
  <2>3. /\ g[n + 1] = last /\ g[n] = h[n]
        /\ \A i \in 0 .. n : g[i] = h[i]
    OBVIOUS
  <2>4. ASSUME NEW i \in 0 .. n + 1
        PROVE  g[i] = IF i = 0 THEN <<>> ELSE IF s[i] = k THEN g[i - 1] ELSE Append(g[i - 1], s[i])
    <3>1. CASE i = n + 1
      <4>1. i # 0 /\ i - 1 = n
        BY <3>1
      <4> QED
        BY <2>3, <3>1, <4>1
    <3>2. CASE i \in 1 .. n
      <4>1. i - 1 \in 0 .. n /\ i \in 0 .. n /\ i # 0
        BY <3>2
      <4> HIDE DEF g
      <4> QED
        BY <2>2, <2>3, <3>2, <4>1
    <3>3. CASE i = 0
      BY <2>2, <3>3
    <3> QED
      BY <3>1, <3>2, <3>3
  <2>5. g = [i \in 0 .. n + 1 |-> g[i]]
    OBVIOUS
  <2> HIDE DEF g
  <2>6. Keeps(g, s, k, n + 1)
    BY <2>4, <2>5 DEF Keeps
  <2> QED
    BY <2>6
<1>3. Nat \subseteq T
  <2> HIDE DEF T
  <2> QED
    BY <1>1, <1>2, Induct
<1> QED
  BY <1>3

LEMMA Without ==
  ASSUME NEW S, NEW s \in Seq(S), NEW k
  PROVE  /\ without(s, k) \in Seq(S)
         /\ ToSet(without(s, k)) = ToSet(s) \ {k}
         /\ IsInjective(s) => IsInjective(without(s, k))
<1> DEFINE n == Len(s)
<1>1. n \in Nat /\ DOMAIN s = 1 .. n /\ \A i \in 1 .. n : s[i] \in S
  OBVIOUS
<1>2. PICK h : Keeps(h, s, k, n) /\ without(s, k) = h[n]
  <2>1. \E h : Keeps(h, s, k, n)
    BY <1>1, KeepsExists
  <2>2. \E h : h = (CHOOSE g : Keeps(g, s, k, n))
    OBVIOUS
  <2>3. without(s, k) = (CHOOSE g : Keeps(g, s, k, n))[n]
    BY DEF without, Keeps
  <2> QED
    BY <2>1, <2>3
<1> HIDE DEF n
<1>3. /\ h[0] = <<>>
      /\ \A i \in 1 .. n : h[i] = IF s[i] = k THEN h[i - 1] ELSE Append(h[i - 1], s[i])
  BY <1>1, <1>2, KeepsSteps
<1> DEFINE upTo(i) == {s[j] : j \in 1 .. i}
           Good(i) == /\ h[i] \in Seq(S)
                      /\ ToSet(h[i]) = upTo(i) \ {k}
                      /\ IsInjective(s) => IsInjective(h[i])
           T == {i \in Nat : i <= n => Good(i)}
<1>4. 0 \in T
  <2>1. <<>> \in Seq(S) /\ ToSet(<<>>) = {} /\ IsInjective(<<>>)
    BY DEF ToSet, IsInjective
  <2>2. upTo(0) = {}
    OBVIOUS
  <2> QED
    BY <1>3, <2>1, <2>2
<1>5. ASSUME NEW i \in Nat, i \in T
      PROVE  i + 1 \in T
  <2> SUFFICES ASSUME i + 1 <= n PROVE Good(i + 1)
    BY <1>5
  <2>1. Good(i) /\ i + 1 \in 1 .. n
    BY <1>1, <1>5
  <2>2. upTo(i + 1) = upTo(i) \cup {s[i + 1]}
    <3>1. 1 .. i + 1 = (1 .. i) \cup {i + 1}
      OBVIOUS
    <3> QED
      BY <3>1
  <2>3. IsInjective(s) => s[i + 1] \notin upTo(i)
    BY <1>1, <2>1 DEF IsInjective
  <2> HIDE DEF upTo
  <2>4. i + 1 - 1 = i
    OBVIOUS
  <2>5. h[i + 1] = IF s[i + 1] = k THEN h[i] ELSE Append(h[i], s[i + 1])
    BY <1>3, <2>1, <2>4
  <2>6. s[i + 1] \in S
    BY <1>1, <2>1
  <2>7. CASE s[i + 1] = k
    BY <2>1, <2>2, <2>5, <2>7
  <2>8. CASE s[i + 1] # k
    <3>1. /\ Append(h[i], s[i + 1]) \in Seq(S)
          /\ ToSet(Append(h[i], s[i + 1])) = ToSet(h[i]) \cup {s[i + 1]}
          /\ IsInjective(h[i]) /\ s[i + 1] \notin ToSet(h[i]) =>
               IsInjective(Append(h[i], s[i + 1]))
      BY <2>1, <2>6, Appended
    <3> QED
      BY <2>1, <2>2, <2>3, <2>5, <2>8, <3>1
  <2> QED
    BY <2>7, <2>8
<1>6. Nat \subseteq T
  <2> HIDE DEF T
  <2> QED
    BY <1>4, <1>5, Induct
<1>7. Good(n)
  <2> HIDE DEF T
  <2>1. n \in T /\ n <= n
    BY <1>1, <1>6
  <2> HIDE DEF Good
  <2> QED
    BY <2>1 DEF T
<1>8. upTo(n) = ToSet(s)
  BY <1>1 DEF ToSet
<1> QED
  BY <1>2, <1>7, <1>8
-----------------------------------------------------------------------------
(* The stack.                                                              *)

AllWait(st) == \A i \in DOMAIN st : Waits(st[i])

LEMMA StackPush ==
  ASSUME NEW n \in Nat, NEW m \in Nat, n <= m, NEW base, StackOK(base, n), AllWait(base),
         NEW f, FrameOK(f, m)
  PROVE  StackOK(<<f>> \o base, m) /\ <<f>> \o base # <<>> /\ (<<f>> \o base)[1] = f
<1> DEFINE st == <<f>> \o base
<1>1. base \in Seq(Frame) /\ f \in Frame
  BY DEF StackOK, FrameOK
<1>2. /\ st \in Seq(Frame) /\ st # <<>> /\ st[1] = f
      /\ Len(base) \in Nat /\ DOMAIN base = 1 .. Len(base) /\ DOMAIN st = 1 .. Len(base) + 1
      /\ \A i \in 2 .. Len(base) + 1 : st[i] = base[i - 1]
      /\ Len(st) = Len(base) + 1
  BY <1>1
<1> HIDE DEF st
<1>3. \A i \in DOMAIN st : i = 1 \/ (i \in 2 .. Len(base) + 1 /\ i - 1 \in DOMAIN base)
  BY <1>2
<1>4. \A i \in DOMAIN base : FrameOK(base[i], m)
  BY <1>2 DEF StackOK, FrameOK
<1> QED
  BY <1>2, <1>3, <1>4 DEF StackOK, AllWait, st

LEMMA StackPop ==
  ASSUME NEW n, NEW st, StackOK(st, n), st # <<>>
  PROVE  /\ StackOK(Tail(st), n) /\ AllWait(Tail(st)) /\ ~Pending(Tail(st))
         /\ Head(st) = st[1] /\ FrameOK(st[1], n) /\ Len(st) \in Nat \ {0}
<1> DEFINE t == Tail(st)
<1>1. st \in Seq(Frame)
  BY DEF StackOK
<1>2. /\ t \in Seq(Frame) /\ Head(st) = st[1]
      /\ Len(st) \in Nat \ {0} /\ DOMAIN st = 1 .. Len(st)
      /\ Len(t) = Len(st) - 1 /\ DOMAIN t = 1 .. Len(st) - 1
      /\ \A i \in 1 .. Len(st) - 1 : t[i] = st[i + 1]
  BY <1>1
<1>3. t = <<>> \/ 1 \in DOMAIN t
  BY <1>2
<1> HIDE DEF t
<1>4. \A i \in DOMAIN t : i + 1 \in DOMAIN st /\ i + 1 \in 2 .. Len(st) /\ t[i] = st[i + 1]
  BY <1>2
<1>5. StackOK(t, n) /\ AllWait(t)
  BY <1>2, <1>4 DEF StackOK, AllWait
<1>6. ~Pending(t)
  <2>1. CASE 1 \in DOMAIN t
    <3>1. Waits(t[1])
      BY <1>5, <2>1 DEF AllWait
    <3> QED
      BY <3>1 DEF Pending, Waits
  <2> QED
    BY <1>3, <2>1 DEF Pending
<1>7. FrameOK(st[1], n)
  BY <1>2 DEF StackOK
<1> QED
  BY <1>2, <1>5, <1>6, <1>7 DEF t

\* The host may be called only when all calls in progress wait.
LEMMA CallersWait ==
  ASSUME NEW n, StackOK(stack, n), MayCall
  PROVE  AllWait(stack) /\ ~Pending(stack)
<1>1. CASE stack = <<>>
  BY <1>1 DEF AllWait, Pending
<1>2. CASE stack # <<>>
  <2>1. Head(stack) = stack[1] /\ FrameOK(stack[1], n) /\ Len(stack) \in Nat \ {0}
    BY <1>2, StackPop
  <2>2. stack[1].running # NoListener
    BY <1>2, <2>1 DEF MayCall
  <2>3. Waits(stack[1]) /\ stack[1].at # 0
    BY <2>1, <2>2 DEF FrameOK, Waits
  <2>4. \A i \in DOMAIN stack : i = 1 \/ i \in 2 .. Len(stack)
    BY <2>1 DEF StackOK
  <2> QED
    BY <2>3, <2>4 DEF StackOK, AllWait, Pending
<1> QED
  BY <1>1, <1>2

LEMMA Frames ==
  /\ \A n \in Nat \ {0} : FrameOK(emitFrame(n), n) /\ emitFrame(n).call = "emit"
                          /\ emitFrame(n).at = 0 /\ emitFrame(n).event = n
  /\ \A n \in Nat, rest \in Seq(Keys \cup {NoKey}) :
       /\ FrameOK(loopFrame("clear", rest), n) /\ Waits(loopFrame("clear", rest))
       /\ ToSet(rest) \subseteq Valid =>
            FrameOK(loopFrame("registerMany", rest), n) /\ Waits(loopFrame("registerMany", rest))
<1>1. \A n \in Nat : emitFrame(n) \in Frame
  <2>1. <<>> \in Seq(Keys \cup {NoKey})
    OBVIOUS
  <2> QED
    BY <2>1 DEF emitFrame, Frame
<1>2. \A call \in {"registerMany", "clear"}, rest \in Seq(Keys \cup {NoKey}) :
        loopFrame(call, rest) \in Frame
  BY DEF loopFrame, Frame
<1>3. \A n \in Nat \ {0} : n \in 1 .. n
  OBVIOUS
<1>4. \A n \in Nat \ {0} : FrameOK(emitFrame(n), n)
  BY <1>1, <1>3 DEF FrameOK, emitFrame
<1>5. \A n \in Nat, rest \in Seq(Keys \cup {NoKey}) :
        /\ FrameOK(loopFrame("clear", rest), n) /\ Waits(loopFrame("clear", rest))
        /\ ToSet(rest) \subseteq Valid =>
             FrameOK(loopFrame("registerMany", rest), n) /\ Waits(loopFrame("registerMany", rest))
  BY <1>2 DEF FrameOK, Waits, loopFrame
<1> QED
  BY <1>4, <1>5 DEF emitFrame

-----------------------------------------------------------------------------
(* The registry.                                                           *)

Registry == /\ byKey \in Seq(Valid) /\ IsInjective(byKey)
            /\ byKind \in [Kinds -> Seq(Keys)]

LEMMA StoreKeeps ==
  ASSUME Registry, KindsAgree, NEW k \in Valid, store(k)
  PROVE  /\ Registry' /\ KindsAgree'
         /\ \A x : has(x)' <=> has(x) \/ x = k
<1>0. k \in Keys /\ kindOf[k] \in Kinds
  BY DEF Valid, Kinds
<1>1. /\ byKey' \in Seq(Valid) /\ IsInjective(byKey') /\ ToSet(byKey') = ToSet(byKey) \cup {k}
  <2>1. CASE has(k)
    BY <2>1 DEF store, Registry, has
  <2>2. CASE ~has(k)
    BY <2>2, Appended DEF store, Registry, has
  <2> QED
    BY <2>1, <2>2 DEF Registry
<1>2. /\ byKind' \in [Kinds -> Seq(Keys)]
      /\ \A kind \in Kinds : ToSet(byKind'[kind]) =
           IF kind = kindOf[k] THEN ToSet(byKind[kind]) \cup {k} ELSE ToSet(byKind[kind])
  <2>1. /\ Append(byKind[kindOf[k]], k) \in Seq(Keys)
        /\ ToSet(Append(byKind[kindOf[k]], k)) = ToSet(byKind[kindOf[k]]) \cup {k}
    BY <1>0, Appended DEF Registry
  <2>2. byKind' = [byKind EXCEPT ![kindOf[k]] = Append(byKind[kindOf[k]], k)]
    BY DEF store
  <2> QED
    BY <1>0, <2>1, <2>2 DEF Registry
<1>3. KindsAgree'
  BY <1>1, <1>2 DEF KindsAgree
<1> QED
  BY <1>1, <1>2, <1>3 DEF Registry, has

LEMMA UnregisterKeeps ==
  ASSUME Registry, KindsAgree, NEW k \in Keys, byKey' = without(byKey, k),
         byKind' = [byKind EXCEPT ![kindOf[k]] = without(byKind[kindOf[k]], k)]
  PROVE  /\ Registry' /\ KindsAgree'
         /\ \A x : has(x)' <=> has(x) /\ x # k
<1>0. kindOf[k] \in Kinds
  BY DEF Kinds
<1>1. byKey' \in Seq(Valid) /\ IsInjective(byKey') /\ ToSet(byKey') = ToSet(byKey) \ {k}
  BY Without DEF Registry
<1>2. /\ byKind' \in [Kinds -> Seq(Keys)]
      /\ \A kind \in Kinds : ToSet(byKind'[kind]) =
           IF kind = kindOf[k] THEN ToSet(byKind[kind]) \ {k} ELSE ToSet(byKind[kind])
  <2>1. /\ without(byKind[kindOf[k]], k) \in Seq(Keys)
        /\ ToSet(without(byKind[kindOf[k]], k)) = ToSet(byKind[kindOf[k]]) \ {k}
    BY <1>0, Without DEF Registry
  <2> QED
    BY <1>0, <2>1 DEF Registry
<1>3. KindsAgree'
  BY <1>1, <1>2 DEF KindsAgree
<1> QED
  BY <1>1, <1>2, <1>3 DEF Registry, has

-----------------------------------------------------------------------------
(* Steps that emit, and steps that do not.                                 *)

LEMMA EmitStep ==
  ASSUME HostInv, NEW type \in Types, NEW k \in Keys, NEW base, emit(type, k, base),
         StackOK(base, Len(emitted)), AllWait(base), ~Pending(stack),
         UNCHANGED <<place, added, heard>>, runs' \in [Keys -> Nat],
         Registry', KindsAgree',
         \A x \in Keys : x # k \/ type = "plugin_executed" => (has(x)' <=> has(x)),
         type # "plugin_executed" => (has(k)' <=> type = "plugin_registered")
  PROVE  HostInv'
<1> DEFINE e == [type |-> type, key |-> k]
<1>0. PICK n \in Nat : n = Len(emitted)
  BY DEF HostInv, TypeOK
<1>1. /\ n \in Nat /\ Len(emitted') = n + 1
      /\ emitted' \in Seq([type : Types, key : Keys])
      /\ emitted'[n + 1] = e /\ \A i \in 1 .. n : emitted'[i] = emitted[i]
  BY <1>0 DEF emit, HostInv, TypeOK
<1>2. /\ StackOK(stack', n + 1) /\ stack' # <<>> /\ stack'[1] = emitFrame(n + 1)
      /\ stack'[1].call = "emit" /\ stack'[1].at = 0 /\ stack'[1].event = n + 1
  <2>1. n + 1 \in Nat \ {0} /\ n <= n + 1
    BY <1>1
  <2>2. FrameOK(emitFrame(n + 1), n + 1) /\ stack' = <<emitFrame(n + 1)>> \o base
    BY <1>0, <2>1, Frames DEF emit
  <2> QED
    BY <1>0, <1>1, <2>1, <2>2, StackPush, Frames
<1>3. heard \in [Listeners -> Seq(1 .. n)] /\ 1 .. n \subseteq 1 .. n + 1
  BY <1>0 DEF HostInv, TypeOK
<1>4. TypeOK'
  <2>1. heard' \in [Listeners -> Seq(1 .. n + 1)]
    BY <1>3
  <2> QED
    BY <1>1, <1>2, <2>1 DEF TypeOK, HostInv, Registry, Valid, StackOK
<1>5. Placed'
  BY DEF HostInv, Placed
<1>6. \A x \in Keys : /\ tells(n + 1, x)' <=> x = k /\ type # "plugin_executed"
                      /\ Says(n + 1, x)'
  BY <1>1 DEF tells, Says
<1>7. PendingSays'
  BY <1>1, <1>2, <1>6 DEF PendingSays
<1>8. ASSUME NEW l \in Listeners, NEW x \in Keys, place'[l] = 1, ~tells(n + 1, x)'
      PROVE  \A i \in DOMAIN heard'[l] : lastHeard(l, x, i)' => Says(heard[l][i], x)'
  <2> SUFFICES ASSUME NEW i \in DOMAIN heard[l], lastHeard(l, x, i)'
               PROVE  Says(heard[l][i], x)'
    OBVIOUS
  <2>1. \A j \in DOMAIN heard[l] : heard[l][j] \in 1 .. n
    BY <1>3
  <2>2. \A j \in DOMAIN heard[l] : tells(heard[l][j], x)' <=> tells(heard[l][j], x)
    BY <1>1, <2>1 DEF tells
  <2>3. lastHeard(l, x, i)
    BY <2>2 DEF lastHeard
  <2>4. Says(heard[l][i], x)
    BY <1>8, <2>3 DEF HostInv, OldestSays
  <2>5. has(x)' <=> has(x)
    BY <1>6, <1>8
  <2> QED
    BY <1>1, <2>1, <2>2, <2>4, <2>5 DEF Says
<1>9. OldestSays'
  BY <1>1, <1>2, <1>8 DEF OldestSays, Pending
<1> QED
  BY <1>1, <1>2, <1>4, <1>5, <1>7, <1>9 DEF HostInv

LEMMA QuietStep ==
  ASSUME HostInv, UNCHANGED <<byKey, byKind, emitted, heard, place, added>>,
         runs' \in [Keys -> Nat], StackOK(stack', Len(emitted)), ~Pending(stack'),
         Pending(stack) => \A l \in Listeners : place[l] # 1
  PROVE  HostInv'
<1>1. TypeOK' /\ KindsAgree' /\ Placed'
  BY DEF HostInv, TypeOK, KindsAgree, Placed, StackOK
<1>2. PendingSays'
  BY DEF PendingSays
<1>3. OldestSays'
  BY DEF HostInv, OldestSays, lastHeard, tells, Says, has
<1> QED
  BY <1>1, <1>2, <1>3 DEF HostInv

-----------------------------------------------------------------------------
(* Each action keeps the invariant.                                        *)

LEMMA HostFacts ==
  ASSUME HostInv
  PROVE  /\ Registry /\ KindsAgree /\ StackOK(stack, Len(emitted)) /\ Len(emitted) \in Nat
         /\ runs \in [Keys -> Nat]
BY DEF HostInv, TypeOK, Registry, Valid

LEMMA RegisterStep ==
  ASSUME HostInv, NEW k \in Valid, NEW base, persistRegistration(k, base),
         StackOK(base, Len(emitted)), AllWait(base), ~Pending(stack),
         UNCHANGED <<listeners, runs, heard>>
  PROVE  HostInv'
<1>1. Registry' /\ KindsAgree' /\ \A x : has(x)' <=> has(x) \/ x = k
  BY HostFacts, StoreKeeps DEF persistRegistration
<1>2. k \in Keys /\ "plugin_registered" \in Types
  BY DEF Valid, Types
<1> QED
  BY <1>1, <1>2, HostFacts, EmitStep DEF persistRegistration, listeners

LEMMA UnregisterStep ==
  ASSUME HostInv, NEW k \in Keys, NEW base, unregister(k, base),
         StackOK(base, Len(emitted)), AllWait(base), ~Pending(stack),
         UNCHANGED <<listeners, runs, heard>>
  PROVE  HostInv'
<1>1. Registry' /\ KindsAgree' /\ \A x : has(x)' <=> has(x) /\ x # k
  BY HostFacts, UnregisterKeeps DEF unregister
<1>2. "plugin_unregistered" \in Types
  BY DEF Types
<1> QED
  BY <1>1, <1>2, HostFacts, EmitStep DEF unregister, listeners

LEMMA RegisterKeeps ==
  ASSUME HostInv, NEW k \in Keys, Register(k) \/ Unregister(k)
  PROVE  HostInv'
<1>1. StackOK(stack, Len(emitted)) /\ AllWait(stack) /\ ~Pending(stack)
  BY HostFacts, CallersWait DEF Register, Unregister
<1>2. CASE Register(k)
  <2>1. k \in Valid
    BY <1>2 DEF Register, accepts, Valid
  <2> QED
    BY <1>1, <1>2, <2>1, RegisterStep DEF Register
<1>3. CASE Unregister(k)
  BY <1>1, <1>3, UnregisterStep DEF Unregister
<1> QED
  BY <1>2, <1>3

\* The loops of registerMany and clear, pushed and taken one further.
LEMMA LoopStarts ==
  ASSUME HostInv, MayCall, UNCHANGED <<registry, listeners, runs, emitted, heard>>,
         NEW call \in {"registerMany", "clear"}, NEW rest \in Seq(Keys \cup {NoKey}),
         call = "registerMany" => ToSet(rest) \subseteq Valid,
         stack' = <<loopFrame(call, rest)>> \o stack
  PROVE  HostInv'
<1>1. StackOK(stack, Len(emitted)) /\ AllWait(stack) /\ ~Pending(stack)
  BY HostFacts, CallersWait
<1>2. FrameOK(loopFrame(call, rest), Len(emitted))
  BY HostFacts, Frames
<1>3. StackOK(stack', Len(emitted)) /\ stack'[1] = loopFrame(call, rest)
  BY <1>1, <1>2, HostFacts, StackPush
<1>4. ~Pending(stack')
  BY <1>3 DEF Pending, loopFrame
<1> QED
  BY <1>1, <1>3, <1>4, HostFacts, QuietStep DEF registry, listeners

LEMMA RegisterManyKeeps ==
  ASSUME HostInv, NEW batch \in Batches, RegisterMany(batch)
  PROVE  HostInv'
<1>1. batch \in Seq(Keys \cup {NoKey})
  BY BatchesAssumption
<1>2. ToSet(batch) \subseteq Valid
  <2>1. ToSet(batch) \subseteq Keys
    BY BatchesAssumption DEF ToSet
  <2> QED
    BY <2>1 DEF RegisterMany, accepts, Valid
<1> QED
  BY <1>1, <1>2, LoopStarts DEF RegisterMany

LEMMA ClearKeeps ==
  ASSUME HostInv, Clear
  PROVE  HostInv'
<1> DEFINE rest == [i \in DOMAIN byKey |-> parsed[byKey[i]]]
<1>1. byKey \in Seq(Keys)
  BY DEF HostInv, TypeOK
<1>2. rest \in Seq(Keys \cup {NoKey})
  BY <1>1, ParsedAssumption
<1> QED
  BY <1>2, LoopStarts DEF Clear

LEMMA LoopGoesOn ==
  ASSUME HostInv, stack # <<>>, NEW call \in {"registerMany", "clear"},
         Head(stack).call = call, Head(stack).rest # <<>>
  PROVE  LET base == <<loopFrame(call, Tail(Head(stack).rest))>> \o Tail(stack)
         IN /\ StackOK(base, Len(emitted)) /\ AllWait(base)
            /\ ~Pending(stack) /\ ~Pending(base)
            /\ Head(Head(stack).rest) \in Keys \cup {NoKey}
            /\ call = "registerMany" => Head(Head(stack).rest) \in Valid
<1> DEFINE rest == Head(stack).rest
           f == loopFrame(call, Tail(rest))
           base == <<f>> \o Tail(stack)
           n == Len(emitted)
<1>1. /\ n \in Nat /\ StackOK(Tail(stack), n) /\ AllWait(Tail(stack))
      /\ Head(stack) = stack[1] /\ FrameOK(stack[1], n)
  BY HostFacts, StackPop
<1>2. /\ rest \in Seq(Keys \cup {NoKey}) /\ Tail(rest) \in Seq(Keys \cup {NoKey})
      /\ Head(rest) \in Keys \cup {NoKey}
      /\ Head(rest) \in ToSet(rest) /\ ToSet(Tail(rest)) \subseteq ToSet(rest)
  <2>1. rest \in Seq(Keys \cup {NoKey})
    BY <1>1 DEF FrameOK, Frame
  <2> QED
    BY <2>1 DEF ToSet
<1>3. call = "registerMany" => ToSet(rest) \subseteq Valid
  BY <1>1 DEF FrameOK
<1>4. FrameOK(f, n) /\ Waits(f) /\ f.call = call
  BY <1>1, <1>2, <1>3, Frames DEF loopFrame
<1>5. StackOK(base, n) /\ base[1] = f
  BY <1>1, <1>4, StackPush
<1>6. AllWait(base) /\ ~Pending(base)
  <2>1. DOMAIN base = 1 .. Len(base) /\ \A i \in DOMAIN base : i = 1 \/ i \in 2 .. Len(base)
    BY <1>5 DEF StackOK
  <2> QED
    BY <1>4, <1>5, <2>1 DEF AllWait, StackOK, Pending
<1>7. ~Pending(stack)
  BY <1>1 DEF Pending
<1> QED
  BY <1>2, <1>3, <1>5, <1>6, <1>7

LEMMA PersistNextKeeps ==
  ASSUME HostInv, PersistNext
  PROVE  HostInv'
<1> DEFINE base == <<loopFrame("registerMany", Tail(Head(stack).rest))>> \o Tail(stack)
           k == Head(Head(stack).rest)
<1>1. StackOK(base, Len(emitted)) /\ AllWait(base) /\ ~Pending(stack) /\ k \in Valid
  BY LoopGoesOn DEF PersistNext
<1>2. persistRegistration(k, base) /\ UNCHANGED <<listeners, runs, heard>>
  BY DEF PersistNext
<1> HIDE DEF base, k
<1> QED
  BY <1>1, <1>2, RegisterStep

LEMMA ClearNextKeeps ==
  ASSUME HostInv, ClearNext
  PROVE  HostInv'
<1> DEFINE base == <<loopFrame("clear", Tail(Head(stack).rest))>> \o Tail(stack)
           k == Head(Head(stack).rest)
<1>1. /\ StackOK(base, Len(emitted)) /\ AllWait(base) /\ ~Pending(stack) /\ ~Pending(base)
  BY LoopGoesOn DEF ClearNext
<1>2. \/ has(k) /\ unregister(k, base)
      \/ ~has(k) /\ stack' = base /\ UNCHANGED <<registry, emitted>>
  BY DEF ClearNext
<1>3. UNCHANGED <<listeners, runs, heard>>
  BY DEF ClearNext
<1>4. has(k) => k \in Keys
  BY DEF has, ToSet, HostInv, TypeOK
<1> HIDE DEF base, k
<1>5. CASE has(k) /\ unregister(k, base)
  BY <1>1, <1>3, <1>4, <1>5, UnregisterStep
<1>6. CASE stack' = base /\ UNCHANGED <<registry, emitted>>
  BY <1>1, <1>3, <1>6, HostFacts, QuietStep DEF registry, listeners
<1> QED
  BY <1>2, <1>5, <1>6

LEMMA EndKeeps ==
  ASSUME HostInv, EndLoop \/ EndEmit
  PROVE  HostInv'
<1>1. /\ stack # <<>> /\ stack' = Tail(stack)
      /\ UNCHANGED <<registry, listeners, runs, emitted, heard>>
  BY DEF EndLoop, EndEmit, Emitting
<1>2. StackOK(stack', Len(emitted)) /\ ~Pending(stack') /\ Head(stack) = stack[1]
  BY <1>1, HostFacts, StackPop
<1>3. Pending(stack) => \A l \in Listeners : place[l] # 1
  BY <1>2 DEF EndLoop, EndEmit, Pending, after
<1> QED
  BY <1>1, <1>2, <1>3, HostFacts, QuietStep DEF registry, listeners

LEMMA RunKeeps ==
  ASSUME HostInv, NEW k \in Keys, StartRun(k) \/ FinishRun(k) \/ FailRun(k)
  PROVE  HostInv'
<1>1. runs' \in [Keys -> Nat] /\ UNCHANGED <<registry, listeners, heard>>
  <2>1. runs \in [Keys -> Nat]
    BY HostFacts
  <2>2. CASE StartRun(k)
    BY <2>1, <2>2 DEF StartRun
  <2>3. CASE FinishRun(k) \/ FailRun(k)
    <3>1. runs[k] \in Nat /\ runs[k] > 0 /\ runs' = [runs EXCEPT ![k] = runs[k] - 1]
      BY <2>1, <2>3 DEF FinishRun, FailRun
    <3>2. runs[k] - 1 \in Nat
      BY <3>1
    <3> QED
      BY <2>1, <2>3, <3>1, <3>2 DEF FinishRun, FailRun
  <2> QED
    BY <2>2, <2>3
<1>2. CASE StartRun(k) \/ FailRun(k)
  <2>1. ~Pending(stack) /\ StackOK(stack, Len(emitted))
    BY <1>2, HostFacts, CallersWait DEF StartRun, FailRun, MayCall
  <2> QED
    BY <1>1, <1>2, <2>1, QuietStep DEF StartRun, FailRun, registry, listeners
<1>3. CASE FinishRun(k)
  <2>1. StackOK(stack, Len(emitted)) /\ AllWait(stack) /\ ~Pending(stack)
    BY <1>3, HostFacts, CallersWait DEF FinishRun, MayCall
  <2>2. Registry' /\ KindsAgree' /\ \A x : has(x)' <=> has(x)
    BY <1>1, HostFacts DEF Registry, KindsAgree, has, registry
  <2>3. "plugin_executed" \in Types /\ emit("plugin_executed", k, stack)
    BY <1>3 DEF Types, FinishRun
  <2> QED
    BY <1>1, <2>1, <2>2, <2>3, EmitStep DEF listeners
<1> QED
  BY <1>2, <1>3

LEMMA SubscribeKeeps ==
  ASSUME HostInv, NEW l \in Listeners, Subscribe(l) \/ Unsubscribe(l)
  PROVE  HostInv'
<1>1. /\ UNCHANGED <<byKey, byKind, stack, runs, emitted, heard>>
      /\ added \in Nat /\ place \in [Listeners -> 0 .. added]
      /\ ~Pending(stack)
  BY HostFacts, CallersWait DEF Subscribe, Unsubscribe, HostInv, TypeOK, registry
<1>2. CASE Subscribe(l)
  <2>1. /\ added' = added + 1 /\ place' = [place EXCEPT ![l] = added + 1]
        /\ place[l] = 0
    BY <1>2 DEF Subscribe
  <2>2. place' \in [Listeners -> 0 .. added'] /\ added' \in Nat
    BY <1>1, <2>1
  <2>3. \A x \in Listeners : place'[x] = IF x = l THEN added + 1 ELSE place[x]
    BY <1>1, <2>1
  <2>4. Placed'
    BY <1>1, <2>1, <2>3 DEF HostInv, Placed
  <2>5. TypeOK' /\ KindsAgree' /\ StackOK(stack, Len(emitted))' /\ PendingSays'
    BY <1>1, <2>2 DEF HostInv, TypeOK, KindsAgree, PendingSays
  <2>6. \A x \in Listeners : place'[x] = 1 => place[x] = 1 \/ heard[x] = <<>>
    BY <1>1, <2>3 DEF HostInv, Placed
  <2>7. OldestSays'
    BY <1>1, <2>6 DEF HostInv, OldestSays, lastHeard, tells, Says, has
  <2> QED
    BY <2>4, <2>5, <2>7 DEF HostInv
<1>3. CASE Unsubscribe(l)
  <2>1. added' = added /\ place' = [place EXCEPT ![l] = 0]
    BY <1>3 DEF Unsubscribe
  <2>2. place' \in [Listeners -> 0 .. added']
    BY <1>1, <2>1
  <2>3. \A x \in Listeners : place'[x] = IF x = l THEN 0 ELSE place[x]
    BY <1>1, <2>1
  <2>4. Placed'
    BY <1>1, <2>1, <2>3 DEF HostInv, Placed
  <2>5. TypeOK' /\ KindsAgree' /\ StackOK(stack, Len(emitted))' /\ PendingSays'
    BY <1>1, <2>1, <2>2 DEF HostInv, TypeOK, KindsAgree, PendingSays
  <2>6. \A x \in Listeners : place'[x] = 1 => place[x] = 1
    BY <1>1, <2>3
  <2>7. OldestSays'
    BY <1>1, <2>6 DEF HostInv, OldestSays, lastHeard, tells, Says, has
  <2> QED
    BY <2>4, <2>5, <2>7 DEF HostInv
<1> QED
  BY <1>2, <1>3

-----------------------------------------------------------------------------
(* The emit on top of the stack.                                           *)

LEMMA TopChanges ==
  ASSUME NEW n, StackOK(stack, n), stack # <<>>, NEW f, FrameOK(f, n),
         stack' = [stack EXCEPT ![1] = f]
  PROVE  StackOK(stack', n) /\ stack'[1] = f
<1>1. stack \in Seq(Frame) /\ f \in Frame
  BY DEF StackOK, FrameOK
<1>2. /\ stack' \in Seq(Frame) /\ 1 \in DOMAIN stack /\ DOMAIN stack' = DOMAIN stack
      /\ Len(stack') = Len(stack)
      /\ stack'[1] = f /\ \A i \in DOMAIN stack : i # 1 => stack'[i] = stack[i]
      /\ \A i \in 2 .. Len(stack) : i \in DOMAIN stack /\ i # 1
  BY <1>1
<1> QED
  BY <1>2 DEF StackOK

LEMMA CallListenerKeeps ==
  ASSUME HostInv, CallListener
  PROVE  HostInv'
<1> DEFINE n == Len(emitted)
           top == stack[1]
<1>1. /\ stack # <<>> /\ Head(stack) = top /\ top.call = "emit"
      /\ UNCHANGED <<byKey, byKind, place, added, runs, emitted>>
  BY HostFacts, StackPop DEF CallListener, Emitting, registry, listeners
<1>2. PICK l \in after(top.at) :
        /\ \A x \in after(top.at) : place[l] <= place[x]
        /\ stack' = [stack EXCEPT ![1].running = l, ![1].at = place[l]]
        /\ heard' = [heard EXCEPT ![l] = Append(heard[l], top.event)]
  BY <1>1 DEF CallListener
<1>3. /\ n \in Nat /\ StackOK(stack, n) /\ FrameOK(top, n) /\ top \in Frame
      /\ top.event \in 1 .. n /\ top.at \in Nat
  BY <1>1, HostFacts, StackPop DEF FrameOK, Frame
<1>4. /\ place \in [Listeners -> Nat] /\ heard \in [Listeners -> Seq(1 .. n)]
      /\ l \in Listeners /\ place[l] > top.at /\ place[l] > 0 /\ added # 0
  <2>1. /\ added \in Nat /\ place \in [Listeners -> 0 .. added]
        /\ heard \in [Listeners -> Seq(1 .. n)]
    BY DEF HostInv, TypeOK
  <2>2. l \in Listeners /\ place[l] > top.at
    BY <1>2 DEF after
  <2>3. place[l] \in 0 .. added /\ 0 .. added \subseteq Nat
    BY <2>1, <2>2
  <2>4. place[l] > 0 /\ added # 0
    BY <1>3, <2>1, <2>2, <2>3
  <2> QED
    BY <2>1, <2>2, <2>3, <2>4
<1> DEFINE f == [top EXCEPT !.running = l, !.at = place[l]]
<1>5. f \in Frame /\ f.call = "emit" /\ f.at = place[l] /\ f.event = top.event
  BY <1>1, <1>3, <1>4 DEF Frame
<1>6. FrameOK(f, n)
  BY <1>3, <1>4, <1>5 DEF FrameOK
<1>7. stack' = [stack EXCEPT ![1] = f]
  <2>1. 1 \in DOMAIN stack
    BY <1>1, <1>3 DEF StackOK
  <2> QED
    BY <1>2, <2>1
<1>8. StackOK(stack', n) /\ stack'[1] = f /\ ~Pending(stack')
  <2> HIDE DEF f, n
  <2>1. StackOK(stack', n) /\ stack'[1] = f
    BY <1>1, <1>3, <1>6, <1>7, TopChanges
  <2> QED
    BY <1>4, <1>5, <2>1 DEF Pending
<1> HIDE DEF f
<1> DEFINE h == heard[l]
<1>9. /\ heard' \in [Listeners -> Seq(1 .. n)]
      /\ \A x \in Listeners : x # l => heard'[x] = heard[x]
      /\ Len(h) \in Nat /\ DOMAIN h = 1 .. Len(h) /\ DOMAIN heard'[l] = 1 .. Len(h) + 1
      /\ heard'[l][Len(h) + 1] = top.event
      /\ \A i \in DOMAIN h : heard'[l][i] = h[i]
  <2>1. /\ h \in Seq(1 .. n)
        /\ Append(h, top.event) \in Seq(1 .. n)
        /\ heard' = [heard EXCEPT ![l] = Append(h, top.event)]
    BY <1>2, <1>3, <1>4
  <2>2. heard'[l] = Append(h, top.event)
    BY <1>4, <2>1
  <2> HIDE DEF h
  <2>3. /\ Len(h) \in Nat /\ DOMAIN h = 1 .. Len(h)
        /\ DOMAIN Append(h, top.event) = 1 .. Len(h) + 1
        /\ Append(h, top.event)[Len(h) + 1] = top.event
        /\ \A i \in DOMAIN h : Append(h, top.event)[i] = h[i]
    BY <2>1
  <2> QED
    BY <1>4, <2>1, <2>2, <2>3
<1> HIDE DEF h
<1>10. TypeOK' /\ KindsAgree' /\ Placed' /\ PendingSays'
  BY <1>1, <1>4, <1>8, <1>9 DEF HostInv, TypeOK, KindsAgree, Placed, PendingSays, StackOK
<1>11. ASSUME NEW x \in Listeners, NEW k \in Keys, place[x] = 1,
              NEW i \in DOMAIN heard'[x], lastHeard(x, k, i)'
       PROVE  Says(heard[x][i], k)'
  <2>1. Pending(stack) => x = l
    <3>1. Pending(stack) => x \in after(top.at)
      BY <1>11 DEF Pending, after
    <3>2. Pending(stack) => place[l] = place[x]
      BY <1>2, <1>4, <1>11, <3>1
    <3> QED
      BY <1>4, <1>11, <3>2 DEF HostInv, Placed
  <2>2. ~Pending(stack) => x # l
    BY <1>1, <1>3, <1>4, <1>11 DEF Pending
  <2>3. \A m \in 1 .. n : Says(m, k)' <=> Says(m, k)
    BY <1>1 DEF Says, tells, has
  <2>4. heard'[x][i] \in 1 .. n
    BY <1>9
  <2>5. CASE ~Pending(stack)
    <3>1. heard'[x] = heard[x]
      BY <1>9, <2>2, <2>5
    <3>2. lastHeard(x, k, i)
      BY <1>1, <1>11, <3>1 DEF lastHeard, tells
    <3> QED
      BY <1>11, <2>3, <2>4, <2>5, <3>1, <3>2 DEF HostInv, OldestSays
  <2>6. CASE Pending(stack)
    <3>1. top.event = n /\ Says(n, k) /\ heard'[x][Len(h) + 1] = n
      BY <1>9, <2>1, <2>6 DEF HostInv, PendingSays
    <3>2. CASE i = Len(h) + 1
      BY <1>3, <2>3, <2>4, <3>1, <3>2
    <3>3. CASE i # Len(h) + 1
      <4>1. i \in DOMAIN h /\ Len(h) + 1 > i /\ Len(h) + 1 \in DOMAIN heard'[x]
        BY <1>9, <1>11, <2>1, <2>6, <3>3
      <4>2. ~tells(n, k)
        BY <1>1, <1>11, <3>1, <4>1 DEF lastHeard, tells
      <4>3. lastHeard(x, k, i)
        <5>1. \A j \in DOMAIN h : j \in DOMAIN heard'[x] /\ heard'[x][j] = heard[x][j]
          BY <1>9, <2>1, <2>6 DEF h
        <5> QED
          BY <1>1, <1>11, <2>1, <2>6, <4>1, <5>1 DEF lastHeard, tells, h
      <4>4. Says(heard[x][i], k) /\ heard'[x][i] = heard[x][i]
        BY <1>9, <1>11, <2>1, <2>6, <4>1, <4>2, <4>3 DEF HostInv, OldestSays, h
      <4> QED
        BY <2>3, <2>4, <4>4
    <3> QED
      BY <3>2, <3>3
  <2> QED
    BY <2>5, <2>6
<1>12. OldestSays'
  BY <1>1, <1>11 DEF OldestSays
<1> QED
  BY <1>1, <1>8, <1>10, <1>12 DEF HostInv

LEMMA ListenerReturnsKeeps ==
  ASSUME HostInv, ListenerReturns
  PROVE  HostInv'
<1> DEFINE n == Len(emitted)
           f == [stack[1] EXCEPT !.running = NoListener]
<1>1. /\ stack # <<>> /\ FrameOK(stack[1], n) /\ StackOK(stack, n)
      /\ stack[1].running # NoListener
      /\ stack' = [stack EXCEPT ![1].running = NoListener]
      /\ UNCHANGED <<registry, listeners, runs, emitted, heard>>
  BY HostFacts, StackPop DEF ListenerReturns, InListener
<1>2. f \in Frame /\ f.call = "emit" /\ f.at = stack[1].at /\ f.event = stack[1].event
      /\ f.running = NoListener /\ stack[1].call = "emit" /\ stack[1].at > 0
      /\ stack[1].at \in Nat
  BY <1>1 DEF FrameOK, Frame
<1>3. FrameOK(f, n)
  BY <1>1, <1>2 DEF FrameOK
<1>4. stack' = [stack EXCEPT ![1] = f]
  <2>1. 1 \in DOMAIN stack
    BY <1>1 DEF StackOK
  <2> QED
    BY <1>1, <2>1
<1> HIDE DEF f, n
<1>5. StackOK(stack', n) /\ stack'[1] = f
  BY <1>1, <1>3, <1>4, TopChanges
<1>6. ~Pending(stack) /\ ~Pending(stack')
  BY <1>2, <1>5 DEF Pending
<1> QED
  BY <1>1, <1>5, <1>6, HostFacts, QuietStep DEF registry, listeners, n

LEMMA HookThrowsKeeps ==
  ASSUME HostInv, HookThrows
  PROVE  HostInv'
<1> DEFINE n == Len(emitted)
           callers == {i \in 2 .. Len(stack) : stack[i].running # NoListener}
<1>1. /\ stack # <<>> /\ FrameOK(stack[1], n) /\ StackOK(stack, n)
      /\ stack[1].running # NoListener
      /\ stack' = IF callers = {} THEN <<>> ELSE SubSeq(stack, Min(callers), Len(stack))
      /\ UNCHANGED <<registry, listeners, runs, emitted, heard>>
  BY HostFacts, StackPop DEF HookThrows, InListener
<1>2. ~Pending(stack)
  BY <1>1 DEF Pending, FrameOK
<1>3. StackOK(stack', n) /\ ~Pending(stack')
  <2>1. CASE callers = {}
    BY <1>1, <2>1 DEF StackOK, Pending
  <2>2. CASE callers # {}
    <3>1. stack \in Seq(Frame) /\ Len(stack) \in Nat
      BY <1>1 DEF StackOK
    <3>2. callers \subseteq Nat
      BY <3>1
    <3>3. PICK m \in callers : \A i \in callers : m <= i
      <4> HIDE DEF callers
      <4> QED
        BY <2>2, <3>2, Least
    <3>4. Min(callers) \in callers
      <4> HIDE DEF callers
      <4> QED
        BY <3>3 DEF Min
    <3>5. PICK c \in Nat :
            c = Min(callers) /\ c \in 2 .. Len(stack) /\ stack[c].running # NoListener
      BY <3>2, <3>4
    <3> DEFINE t == SubSeq(stack, c, Len(stack))
    <3>6. /\ t \in Seq(Frame) /\ Len(t) = Len(stack) - c + 1 /\ DOMAIN t = 1 .. Len(t)
          /\ \A i \in 1 .. Len(t) : t[i] = stack[c + i - 1]
      <4>1. /\ c \in Int /\ Len(stack) \in Int /\ c <= Len(stack)
            /\ \A i \in c .. Len(stack) : stack[i] \in Frame
        <5> HIDE DEF callers
        <5>1. c \in Nat /\ Len(stack) \in Nat /\ c \in 2 .. Len(stack)
          BY <3>1, <3>5
        <5>2. \A i \in c .. Len(stack) : i \in 1 .. Len(stack)
          BY <5>1
        <5>3. \A i \in 1 .. Len(stack) : stack[i] \in Frame
          BY <3>1
        <5> QED
          BY <5>1, <5>2, <5>3
      <4>2. /\ t \in Seq(Frame) /\ Len(t) = Len(stack) - c + 1
            /\ \A i \in 1 .. Len(stack) - c + 1 : t[i] = stack[c + i - 1]
        BY <4>1, SubSeqProperties
      <4> HIDE DEF t
      <4> QED
        BY <4>2
    <3> HIDE DEF t
    <3>7. \A i \in 1 .. Len(t) : c + i - 1 \in 2 .. Len(stack) /\ c + i - 1 \in DOMAIN stack
      BY <3>1, <3>5, <3>6
    <3>8. StackOK(t, n)
      <4>1. \A i \in 2 .. Len(t) : i \in 1 .. Len(t)
        BY <3>1, <3>5, <3>6
      <4> QED
        BY <1>1, <3>6, <3>7, <4>1 DEF StackOK
    <3>9. t[1] = stack[c] /\ FrameOK(stack[c], n)
      <4>1. 1 \in 1 .. Len(t) /\ c + 1 - 1 = c /\ c \in DOMAIN stack
        BY <3>1, <3>5, <3>6
      <4> QED
        BY <1>1, <3>6, <4>1 DEF StackOK
    <3>10. ~Pending(t)
      BY <3>5, <3>9 DEF Pending, FrameOK
    <3>11. stack' = t
      BY <1>1, <2>2, <3>5 DEF t
    <3> QED
      BY <3>8, <3>10, <3>11
  <2> QED
    BY <2>1, <2>2
<1> QED
  BY <1>1, <1>2, <1>3, HostFacts, QuietStep DEF registry, listeners

-----------------------------------------------------------------------------
(* The theorems.                                                           *)

LEMMA InitHolds == Init => HostInv
<1> SUFFICES ASSUME Init PROVE HostInv
  OBVIOUS
<1> USE DEF Init
<1>1. \A S : <<>> \in Seq(S)
  OBVIOUS
<1>2. Len(emitted) = 0 /\ ToSet(<<>>) = {} /\ IsInjective(<<>>)
  BY DEF ToSet, IsInjective
<1>3. TypeOK
  BY <1>1, <1>2 DEF TypeOK
<1>4. KindsAgree
  BY <1>2 DEF KindsAgree
<1>5. StackOK(stack, Len(emitted)) /\ ~Pending(stack)
  BY <1>1 DEF StackOK, Pending
<1>6. Placed
  BY DEF Placed
<1>7. PendingSays /\ OldestSays
  BY <1>5 DEF PendingSays, OldestSays
<1> QED
  BY <1>3, <1>4, <1>5, <1>6, <1>7 DEF HostInv

LEMMA NextKeeps ==
  ASSUME HostInv, [Next]_vars
  PROVE  HostInv'
<1>1. CASE Next
  BY <1>1, RegisterKeeps, RunKeeps, RegisterManyKeeps, ClearKeeps, SubscribeKeeps,
     PersistNextKeeps, ClearNextKeeps, EndKeeps, CallListenerKeeps, ListenerReturnsKeeps,
     HookThrowsKeeps DEF Next
<1>2. CASE UNCHANGED vars
  <2>1. UNCHANGED <<byKey, byKind, place, added, stack, runs, emitted, heard>>
    BY <1>2 DEF vars, registry, listeners
  <2>2. TypeOK' /\ KindsAgree' /\ StackOK(stack, Len(emitted))' /\ Placed'
    BY <2>1 DEF HostInv, TypeOK, KindsAgree, Placed
  <2>3. PendingSays' /\ OldestSays'
    BY <2>1 DEF HostInv, PendingSays, OldestSays, Pending, lastHeard, tells, Says, has
  <2> QED
    BY <2>1, <2>2, <2>3 DEF HostInv
<1> QED
  BY <1>1, <1>2

\* The inductive invariant: the types, KindsAgree, what a call in progress waits for and what
\* its listeners hold of places, and what the event on its way and those the oldest listener
\* heard say of the registry (pluginHost.ts 80-230).
THEOREM HostStaysConsistent == Spec => []HostInv
BY InitHolds, NextKeeps, PTL DEF Spec

\* Nothing but validated plugins is ever registered, each once (pluginHost.ts 92-120).
THEOREM TypeCorrect == Spec => []TypeOK
<1>1. HostInv => TypeOK
  BY DEF HostInv
<1> QED
  BY <1>1, HostStaysConsistent, PTL

\* The two maps of the registry agree, whatever a listener calls back into the host
\* and whatever is thrown between two registrations of a batch (pluginHost.ts 132-175).
THEOREM KindsStayAgreed == Spec => []KindsAgree
<1>1. HostInv => KindsAgree
  BY DEF HostInv
<1> QED
  BY <1>1, HostStaysConsistent, PTL

\* What the oldest listener last heard of a plugin is so when the host is at rest: no
\* event overtakes another on its way to it, and none is lost (plugin-host.md 55).
THEOREM OldestKnows == Spec => []OldestKnowsRegistry
<1>1. ASSUME HostInv, stack = <<>>, NEW l \in Listeners, NEW k \in Keys, place[l] = 1,
             NEW i \in DOMAIN heard[l], lastHeard(l, k, i)
      PROVE  has(k) <=> emitted[heard[l][i]].type = "plugin_registered"
  BY <1>1 DEF HostInv, OldestSays, Pending, lastHeard, Says
<1>2. HostInv => OldestKnowsRegistry
  BY <1>1 DEF OldestKnowsRegistry
<1> QED
  BY <1>2, HostStaysConsistent, PTL
=============================================================================
