------------------------ MODULE ContextAssemblyProofs -----------------------
(***************************************************************************)
(* Theorems about assembleContext, for any objects, requests and writes of *)
(* other calls.                                                            *)
(*                                                                         *)
(* The loop's invariant says what the refs before at have come to (Passed),*)
(* what is left of the budget (Within), and that of what nobody wrote      *)
(* since, the copies held are true (HeldTrue) and the warnings are given   *)
(* (Reported).  That the estimate is the sum of the segments' tokens needs *)
(* an induction over the recursion that adds them up.                      *)
(***************************************************************************)
EXTENDS ContextAssembly, FiniteSetTheorems, WellFoundedInduction, TLAPS

\* Before the loop nothing is held or taken.
Begun ==
  call.pc \in {"idle", "read", "hydrate"} =>
    /\ DOMAIN call.held = {} /\ call.segments = <<>> /\ call.at = 0
    /\ call.tokenEstimate = 0 /\ ~call.truncated

Taken ==
  /\ DOMAIN call.held \subseteq ToSet(call.refs)
  /\ included \subseteq DOMAIN call.held
  /\ Len(call.segments) <= call.at
  /\ call.pc = "sources" => Len(call.segments) < call.at

Passed ==
  /\ call.pc = "next" => \A i \in 1 .. call.at : held(call.refs[i]) => call.refs[i] \in included
  /\ call.pc = "sources" =>
       /\ held(call.refs[call.at])
       /\ \A i \in 1 .. call.at - 1 : held(call.refs[i]) => call.refs[i] \in included
  /\ call.pc \in {"finish", "done"} /\ ~call.truncated => DOMAIN call.held \subseteq included

Within ==
  call.pc \in {"next", "sources"} /\ request.budgetSegments \notin {Unset, 0} =>
    Len(call.segments) < request.budgetSegments

Counted == call.tokenEstimate = tokensOf(call.segments)

HeldTrue ==
  \A r \in DOMAIN call.held :
    call.held[r] # "tombstoned" /\ (r \notin written => call.held[r] = status[r])

Concerned(r) ==
  /\ call.held[r] = "disputed" => warn("disputed_memory_included", r) \subseteq call.warnings
  /\ call.held[r] = "superseded" => warn("superseded_memory_included", r) \subseteq call.warnings

Checked(S) ==
  \A s \in S \ written : status[s] \in {"tombstoned", "pending"} =>
    warn("stale_consolidation", s) \subseteq call.warnings

Reported ==
  /\ \A r \in included : Concerned(r) /\ Checked(sources[r])
  /\ call.pc = "sources" =>
       /\ Concerned(call.refs[call.at])
       /\ Checked(sources[call.refs[call.at]] \ call.toCheck)

Concluded ==
  call.pc = "done" =>
    /\ omitted # {} => warned("required_ref_omitted")
    /\ call.segments = <<>> => warned("empty_context")
    /\ call.truncated => warned("truncated")

AssemblyInv ==
  /\ TypeOK /\ Begun /\ Taken /\ Passed /\ Within /\ FitsBudget /\ Counted
  /\ HeldTrue /\ Reported /\ Concluded

-----------------------------------------------------------------------------
(* Induction over the natural numbers, as a fact about sets of them.       *)

LEMMA Least ==
  ASSUME NEW S \in SUBSET Nat, S # {}
  PROVE  \E m \in S : \A n \in S : m <= n
<1> DEFINE less == OpToRel(<, Nat)
<1>1. IsWellFoundedOn(less, Nat) /\ \A m, n \in Nat : n < m => <<n, m>> \in less
  BY NatLessThanWellFounded DEF OpToRel
<1> HIDE DEF less
<1>2. PICK m \in S : \A n \in S : ~(<<n, m>> \in less)
  BY <1>1, WFMin
<1>3. \A n \in S : ~(n < m)
  BY <1>1, <1>2
<1> QED
  BY <1>2, <1>3

LEMMA Induct ==
  ASSUME NEW S, 0 \in S, \A n \in Nat : n \in S => n + 1 \in S
  PROVE  Nat \subseteq S
<1> SUFFICES ASSUME Nat \ S # {} PROVE FALSE
  OBVIOUS
<1>1. PICK m \in Nat \ S : \A n \in Nat \ S : m <= n
  BY Least
<1>2. m # 0 /\ m - 1 \in Nat /\ m - 1 \in S
  BY <1>1
<1> QED
  BY <1>1, <1>2

\* The recursion of tokensOf is well founded.
Sums(h, s, n) == h = [i \in 0 .. n |-> IF i = 0 THEN 0 ELSE h[i - 1] + tokens[s[i]]]

LEMMA SumsSteps ==
  ASSUME NEW h, NEW s, NEW n \in Nat, Sums(h, s, n)
  PROVE  h[0] = 0 /\ \A i \in 1 .. n : h[i] = h[i - 1] + tokens[s[i]]
<1> DEFINE step(i) == IF i = 0 THEN 0 ELSE h[i - 1] + tokens[s[i]]
<1>1. h = [i \in 0 .. n |-> step(i)]
  BY DEF Sums
<1>2. step(0) = 0 /\ \A i \in 1 .. n : step(i) = h[i - 1] + tokens[s[i]]
  OBVIOUS
<1> HIDE DEF step
<1>3. h[0] = step(0) /\ \A i \in 1 .. n : h[i] = step(i)
  BY <1>1
<1> QED BY <1>2, <1>3

\* One more step on top of a sum.
LEMMA SumsGrow ==
  ASSUME NEW n \in Nat, NEW s, NEW h, Sums(h, s, n), NEW t, \A i \in 1 .. n : t[i] = s[i]
  PROVE  \E g : Sums(g, t, n + 1) /\ g[n] = h[n]
<1>1. h[0] = 0 /\ \A i \in 1 .. n : h[i] = h[i - 1] + tokens[s[i]]
  BY SumsSteps
<1> DEFINE last == h[n] + tokens[t[n + 1]]
           g == [i \in 0 .. n + 1 |-> IF i = n + 1 THEN last ELSE h[i]]
<1>2. g[n + 1] = last /\ \A i \in 0 .. n : g[i] = h[i]
  OBVIOUS
<1>3. ASSUME NEW i \in 0 .. n + 1
      PROVE  g[i] = IF i = 0 THEN 0 ELSE g[i - 1] + tokens[t[i]]
  <2> HIDE DEF g
  <2>1. CASE i = n + 1
    <3>1. i # 0 /\ i - 1 = n /\ n \in 0 .. n
      BY <2>1
    <3> QED BY <1>2, <2>1, <3>1
  <2>2. CASE i \in 1 .. n
    <3>1. i - 1 \in 0 .. n /\ i \in 0 .. n /\ i # 0
      BY <2>2
    <3> QED BY <1>1, <1>2, <2>2, <3>1
  <2>3. CASE i = 0
    BY <1>1, <1>2, <2>3
  <2> QED BY <2>1, <2>2, <2>3
<1>4. g = [i \in 0 .. n + 1 |-> g[i]]
  OBVIOUS
<1>5. g[n] = h[n]
  OBVIOUS
<1> HIDE DEF g
<1>6. Sums(g, t, n + 1)
  BY <1>3, <1>4 DEF Sums
<1> QED BY <1>5, <1>6

LEMMA SumsExists == \A s : \A n \in Nat : \E h : Sums(h, s, n)
<1> TAKE s
<1> DEFINE T == {n \in Nat : \E h : Sums(h, s, n)}
<1>1. 0 \in T
  <2>1. Sums([i \in 0 .. 0 |-> 0], s, 0)
    BY DEF Sums
  <2> QED BY <2>1
<1>2. ASSUME NEW n \in Nat, n \in T PROVE n + 1 \in T
  BY <1>2, SumsGrow
<1>3. Nat \subseteq T
  <2> HIDE DEF T
  <2> QED BY <1>1, <1>2, Induct
<1> QED BY <1>3

\* There is one sum only.
LEMMA SumsUnique ==
  ASSUME NEW n \in Nat, NEW s, NEW t, NEW h, NEW g, Sums(h, s, n), NEW m \in Nat, n <= m,
         Sums(g, t, m), \A i \in 1 .. n : t[i] = s[i]
  PROVE  h[n] = g[n]
<1>1. h[0] = 0 /\ \A i \in 1 .. n : h[i] = h[i - 1] + tokens[s[i]]
  BY SumsSteps
<1>2. g[0] = 0 /\ \A i \in 1 .. m : g[i] = g[i - 1] + tokens[t[i]]
  BY SumsSteps
<1> DEFINE T == {i \in Nat : i <= n => h[i] = g[i]}
<1>3. 0 \in T
  BY <1>1, <1>2
<1>4. ASSUME NEW i \in Nat, i \in T PROVE i + 1 \in T
  <2> SUFFICES ASSUME i + 1 <= n PROVE h[i + 1] = g[i + 1]
    OBVIOUS
  <2>1. h[i] = g[i] /\ i + 1 \in 1 .. n /\ i + 1 \in 1 .. m /\ i + 1 - 1 = i
    BY <1>4
  <2> QED BY <1>1, <1>2, <2>1
<1>5. Nat \subseteq T
  <2> HIDE DEF T
  <2> QED BY <1>3, <1>4, Induct
<1> QED BY <1>5

LEMMA TokensOfIs ==
  ASSUME NEW s \in Seq(Objects)
  PROVE  \E h : Sums(h, s, Len(s)) /\ tokensOf(s) = h[Len(s)]
<1>1. Len(s) \in Nat
  OBVIOUS
<1>2. \E h : Sums(h, s, Len(s))
  BY <1>1, SumsExists
<1>3. tokensOf(s) = (CHOOSE h : Sums(h, s, Len(s)))[Len(s)]
  BY DEF tokensOf, Sums
<1> QED BY <1>2, <1>3

LEMMA TokensAdd ==
  /\ tokensOf(<<>>) = 0
  /\ \A s \in Seq(Objects), e \in Objects : tokensOf(Append(s, e)) = tokensOf(s) + tokens[e]
<1>1. tokensOf(<<>>) = 0
  <2>1. <<>> \in Seq(Objects) /\ Len(<<>>) = 0
    OBVIOUS
  <2>2. PICK h : Sums(h, <<>>, 0) /\ tokensOf(<<>>) = h[0]
    BY <2>1, TokensOfIs
  <2> QED BY <2>2, SumsSteps
<1>2. ASSUME NEW s \in Seq(Objects), NEW e \in Objects
      PROVE  tokensOf(Append(s, e)) = tokensOf(s) + tokens[e]
  <2> DEFINE t == Append(s, e)
  <2>1. PICK n \in Nat : n = Len(s)
    OBVIOUS
  <2>2. /\ t \in Seq(Objects) /\ Len(t) = n + 1
        /\ t[n + 1] = e /\ \A i \in 1 .. n : t[i] = s[i]
    BY <2>1
  <2> HIDE DEF t
  <2>3. PICK h : Sums(h, s, n) /\ tokensOf(s) = h[n]
    BY <2>1, TokensOfIs
  <2>4. PICK g : Sums(g, t, n + 1) /\ tokensOf(t) = g[n + 1]
    BY <2>2, TokensOfIs
  <2>5. g[n + 1] = g[n] + tokens[e]
    <3>1. n + 1 \in Nat /\ n + 1 \in 1 .. n + 1 /\ n + 1 - 1 = n
      OBVIOUS
    <3> QED BY <2>2, <2>4, <3>1, SumsSteps
  <2>6. h[n] = g[n]
    <3>1. n + 1 \in Nat /\ n <= n + 1
      OBVIOUS
    <3> QED BY <2>2, <2>3, <2>4, <3>1, SumsUnique
  <2> QED BY <2>3, <2>4, <2>5, <2>6 DEF t
<1> QED BY <1>1, <1>2

-----------------------------------------------------------------------------
\* One more element.
LEMMA ToSetAppend ==
  ASSUME NEW S, NEW s \in Seq(S), NEW e \in S
  PROVE  /\ Append(s, e) \in Seq(S) /\ Append(s, e) # <<>>
         /\ Len(Append(s, e)) = Len(s) + 1
         /\ ToSet(Append(s, e)) = ToSet(s) \cup {e}
<1>1. \A i \in 1 .. Len(s) : Append(s, e)[i] = s[i]
  OBVIOUS
<1>2. Append(s, e)[Len(s) + 1] = e
  OBVIOUS
<1> QED BY <1>1, <1>2 DEF ToSet

\* The ranker's order of a finite set is a sequence of its elements.
LEMMA Ranked ==
  ASSUME NEW S, IsFiniteSet(S), NEW f \in SetToSeqs(S)
  PROVE  f \in Seq(S)
<1>1. Cardinality(S) \in Nat
  BY FS_CardinalityType
<1>2. f \in [1 .. Cardinality(S) -> S]
  BY DEF SetToSeqs
<1> QED BY <1>1, <1>2

LEMMA InitAssemblyInv == Init => AssemblyInv
<1> SUFFICES ASSUME Init PROVE AssemblyInv OBVIOUS
<1> USE AssemblyAssumption DEF Init, NoCall
<1>1. call \in Call
  <2>1. [r \in {} |-> "active"] \in [{} -> Statuses]
    OBVIOUS
  <2>2. call.held \in Held
    BY <2>1 DEF Held
  <2> QED BY <2>2 DEF Call
<1>2. included = {}
  BY DEF included, ToSet
<1> QED
  BY <1>1, <1>2, TokensAdd
  DEF AssemblyInv, TypeOK, Begun, Taken, Passed, Within, FitsBudget,
      HeldTrue, Counted, Reported, Concluded, Checked

-----------------------------------------------------------------------------
\* A new call starts from nothing, whatever the last one left.
LEMMA SearchStep ==
  ASSUME AssemblyInv, NEW q \in AssembleRequests, SearchIndex(q)
  PROVE  AssemblyInv'
<1>1. PICK found \in SUBSET Objects :
        call' = [NoCall EXCEPT !.pc = "read", !.candidates = found]
  BY DEF SearchIndex
<1>2. call' = [pc |-> "read", candidates |-> found, refs |-> <<>>, at |-> 0,
               held |-> [r \in {} |-> "active"], toCheck |-> {}, segments |-> <<>>,
               tokenEstimate |-> 0, truncated |-> FALSE, warnings |-> {}]
  BY <1>1 DEF NoCall
<1>3. call' \in Call
  <2>1. [r \in {} |-> "active"] \in [{} -> Statuses]
    OBVIOUS
  <2>2. call'.held \in Held
    BY <1>2, <2>1 DEF Held
  <2> QED BY <1>2, <2>2 DEF Call
<1>4. included' = {}
  BY <1>2 DEF included, ToSet
<1>5. /\ call'.pc = "read" /\ call'.refs = <<>> /\ call'.at = 0 /\ DOMAIN call'.held = {}
      /\ call'.segments = <<>> /\ call'.tokenEstimate = 0 /\ call'.truncated = FALSE
  BY <1>2
<1>6. TypeOK'
  BY <1>3, <1>5 DEF SearchIndex, AssemblyInv, TypeOK
<1>7. FitsBudget' /\ Within'
  BY <1>5, AssemblyAssumption DEF SearchIndex, FitsBudget, Within
<1> QED
  BY <1>4, <1>5, <1>6, <1>7, TokensAdd
  DEF AssemblyInv, Begun, Taken, Passed, HeldTrue, Counted, Reported, Concluded

LEMMA ReadStep == ASSUME AssemblyInv, ReadCandidates PROVE AssemblyInv'
<1> DEFINE seen == {r \in call.candidates : isVisibleForRead(r)}
<1>1. PICK refs \in SetToSeqs(seen) :
        call' = [call EXCEPT !.pc = "hydrate", !.refs = refs, !.candidates = {}]
  BY DEF ReadCandidates
<1>2. refs \in Seq(Objects)
  <2>1. seen \subseteq Objects
    BY DEF AssemblyInv, TypeOK, Call
  <2>2. IsFiniteSet(seen)
    BY <2>1, FS_Subset, AssemblyAssumption
  <2>3. refs \in Seq(seen)
    BY <2>2, Ranked
  <2> QED BY <2>1, <2>3
<1>3. call' \in Call
  BY <1>1, <1>2 DEF AssemblyInv, TypeOK, Call
<1>4. /\ call'.pc = "hydrate" /\ call'.refs = refs
      /\ UNCHANGED <<call.held, call.at, call.segments, call.tokenEstimate, call.truncated,
                     call.warnings>>
  BY <1>1 DEF AssemblyInv, TypeOK, Call
<1>5. DOMAIN call.held = {} /\ call.segments = <<>> /\ call.at = 0 /\ ~call.truncated
      /\ call.tokenEstimate = 0
  BY DEF AssemblyInv, Begun, ReadCandidates
<1>6. included' = {}
  BY <1>4, <1>5 DEF included, ToSet
<1> QED
  BY <1>2, <1>3, <1>4, <1>5, <1>6, AssemblyAssumption, TokensAdd
  DEF ReadCandidates, AssemblyInv, TypeOK, Begun, Taken, Passed, Within, FitsBudget,
      HeldTrue, Counted, Reported, Concluded, Checked

LEMMA HydrateStep == ASSUME AssemblyInv, Hydrate PROVE AssemblyInv'
<1> DEFINE S == {x \in ToSet(call.refs) : status[x] # "tombstoned"}
           h == [r \in S |-> status[r]]
<1>1. call' = [call EXCEPT !.pc = "next", !.held = h]
  BY DEF Hydrate
<1>2. S \subseteq Objects
  BY DEF AssemblyInv, TypeOK, Call, ToSet
<1>3. h \in Held
  <2>1. h \in [S -> Statuses]
    BY <1>2 DEF AssemblyInv, TypeOK
  <2> QED BY <1>2, <2>1 DEF Held
<1>4. call' \in Call
  BY <1>1, <1>3 DEF AssemblyInv, TypeOK, Call
<1>5. /\ call'.pc = "next" /\ call'.held = h
      /\ UNCHANGED <<call.refs, call.at, call.segments, call.tokenEstimate, call.truncated,
                     call.warnings>>
  BY <1>1 DEF AssemblyInv, TypeOK, Call
<1>6. DOMAIN h = S /\ \A r \in S : h[r] = status[r]
  OBVIOUS
<1>7. call.segments = <<>> /\ call.at = 0 /\ ~call.truncated /\ call.tokenEstimate = 0
  BY DEF AssemblyInv, Begun, Hydrate
<1>8. included' = {}
  BY <1>5, <1>7 DEF included, ToSet
<1> HIDE DEF h
<1> QED
  BY <1>4, <1>5, <1>6, <1>7, <1>8, AssemblyAssumption, TokensAdd
  DEF Hydrate, AssemblyInv, TypeOK, Begun, Taken, Passed, Within, FitsBudget,
      HeldTrue, Counted, Reported, Concluded, Checked

-----------------------------------------------------------------------------
\* Warnings are only added.
LEMMA TakeRefStep == ASSUME AssemblyInv, TakeRef PROVE AssemblyInv'
<1> DEFINE r == call.refs[call.at + 1]
<1> USE DEF AssemblyInv, TypeOK
<1>0. call.at \in Nat /\ Len(call.refs) \in Nat /\ Len(call.segments) \in Nat
  BY DEF Call
<1>1. call.pc = "next" /\ call.at + 1 \in 1 .. Len(call.refs) /\ r \in Objects
  BY DEF TakeRef, Call
<1>2. \A i \in 1 .. call.at + 1 : i \in 1 .. call.at \/ i = call.at + 1
  BY DEF Call
<1>3. CASE ~held(r)
  <2>1. call' = [call EXCEPT !.at = @ + 1]
    BY <1>3 DEF TakeRef, held
  <2>2. call'.at = call.at + 1
        /\ UNCHANGED <<call.pc, call.refs, call.held, call.segments, call.tokenEstimate,
                       call.truncated, call.warnings>>
    BY <2>1 DEF Call
  <2>4. call' \in Call
    <3>1. call.at + 1 \in Nat
      BY DEF Call
    <3> QED BY <2>1, <3>1 DEF Call
  <2>3. included' = included
    BY <2>2 DEF included
  <2>5. TypeOK' /\ Begun' /\ Taken' /\ Within' /\ Concluded'
    BY <1>0, <1>1, <2>2, <2>3, <2>4 DEF TakeRef, Begun, Taken, Within, Concluded
  <2>6. Passed'
    BY <1>1, <1>2, <1>3, <2>2, <2>3 DEF Passed, held
  <2>7. FitsBudget' /\ HeldTrue' /\ Counted' /\ Reported'
    BY <1>1, <2>2, <2>3
    DEF TakeRef, FitsBudget, HeldTrue, Counted, tokenLimit, Reported, Concerned, Checked
  <2> QED BY <2>5, <2>6, <2>7
<1>4. CASE held(r)
  <2>1. PICK more \in SUBSET Warning :
          /\ call' = [call EXCEPT !.at = @ + 1, !.pc = "sources", !.toCheck = sources[r],
                        !.warnings = @ \cup more]
          /\ call.held[r] = "disputed" => warn("disputed_memory_included", r) \subseteq more
          /\ call.held[r] = "superseded" => warn("superseded_memory_included", r) \subseteq more
    <3>1. \A code \in {"disputed_memory_included", "superseded_memory_included"} :
            warn(code, r) \subseteq Warning
      BY <1>1 DEF warn, Warning
    <3>2. CASE call.held[r] = "disputed"
      BY <1>4, <3>1, <3>2 DEF TakeRef, held
    <3>3. CASE call.held[r] = "superseded"
      BY <1>4, <3>1, <3>3 DEF TakeRef, held
    <3>4. CASE call.held[r] \notin {"disputed", "superseded"}
      BY <1>4, <3>4 DEF TakeRef, held
    <3> QED BY <3>2, <3>3, <3>4
  <2>2. sources[r] \in SUBSET Objects
    BY <1>1, AssemblyAssumption
  <2>7. call' \in Call
    <3>1. call.at + 1 \in Nat /\ call.warnings \cup more \in SUBSET Warning
      BY DEF Call
    <3> QED BY <2>1, <2>2, <3>1 DEF Call
  <2>3. call'.at = call.at + 1 /\ call'.pc = "sources"
        /\ call'.toCheck = sources[r] /\ call'.warnings = call.warnings \cup more
        /\ UNCHANGED <<call.refs, call.held, call.segments, call.tokenEstimate,
                       call.truncated>>
    BY <2>1, <2>2 DEF Call
  <2>4. included' = included /\ call'.refs[call'.at] = r
    BY <2>3 DEF included
  <2>5. TypeOK'
    BY <1>0, <1>1, <1>4, <2>3, <2>7 DEF TakeRef
  <2>10. Begun' /\ Taken' /\ Concluded'
    BY <1>1, <1>4, <2>3, <2>4 DEF Begun, Taken, Concluded, held
  <2>11. Within'
    BY <2>3 DEF TakeRef, Within
  <2>8. Passed'
    BY <1>1, <1>4, <2>3, <2>4 DEF Passed, held, Call
  <2>9. FitsBudget' /\ HeldTrue' /\ Counted'
    BY <2>3 DEF TakeRef, FitsBudget, HeldTrue, Counted, tokenLimit
  <2>6. Reported'
    BY <1>1, <2>1, <2>3, <2>4 DEF TakeRef, Reported, Concerned, Checked
  <2> QED BY <2>5, <2>6, <2>8, <2>9, <2>10, <2>11
<1> QED BY <1>3, <1>4

\* The source is held, and then as it is unless it was written, or read now.
LEMMA CheckSourceStep == ASSUME AssemblyInv, CheckSource PROVE AssemblyInv'
<1> USE DEF AssemblyInv, TypeOK
<1> DEFINE seen(s) == IF s \in DOMAIN call.held THEN call.held[s] ELSE status[s]
<1> DEFINE found(s) == IF seen(s) \in {"tombstoned", "pending"}
                       THEN warn("stale_consolidation", s) ELSE {}
<1>a. PICK s \in call.toCheck :
        call' = [call EXCEPT !.toCheck = @ \ {s}, !.warnings = @ \cup found(s)]
  BY DEF CheckSource
<1>b. s \in Objects
  BY DEF Call
<1>c. found(s) \subseteq Warning
  BY <1>b DEF warn, Warning
<1>d. seen(s) \in {"tombstoned", "pending"} => warn("stale_consolidation", s) \subseteq found(s)
  OBVIOUS
<1> HIDE DEF found
<1>1. PICK more \in SUBSET Warning :
        /\ call' = [call EXCEPT !.toCheck = @ \ {s}, !.warnings = @ \cup more]
        /\ seen(s) \in {"tombstoned", "pending"} => warn("stale_consolidation", s) \subseteq more
  BY <1>a, <1>c, <1>d
<1>2. call' \in Call /\ call'.toCheck = call.toCheck \ {s}
      /\ call'.warnings = call.warnings \cup more
      /\ UNCHANGED <<call.pc, call.refs, call.held, call.at, call.segments,
                     call.tokenEstimate, call.truncated>>
  BY <1>1 DEF Call
<1>3. included' = included /\ call.pc = "sources"
  BY <1>2 DEF included, CheckSource
<1>4. s \notin written /\ status[s] \in {"tombstoned", "pending"} =>
        warn("stale_consolidation", s) \subseteq more
  BY <1>1 DEF HeldTrue
<1>5. TypeOK' /\ Begun' /\ Taken' /\ Passed' /\ Within' /\ FitsBudget' /\ HeldTrue'
      /\ Counted' /\ Concluded'
  BY <1>2, <1>3
  DEF CheckSource, Begun, Taken, Passed, Within, FitsBudget, HeldTrue, Counted, Concluded, held,
      tokenLimit
<1>6. Reported'
  BY <1>2, <1>3, <1>4 DEF CheckSource, Reported, Concerned, Checked
<1> QED BY <1>5, <1>6

-----------------------------------------------------------------------------
\* The loop body's end: the segment is taken or the budget is at its end.
LEMMA AddSegmentStep == ASSUME AssemblyInv, AddSegment PROVE AssemblyInv'
<1> DEFINE r == call.refs[call.at]
           n == Len(call.segments) + 1
           full == request.budgetSegments \notin {Unset, 0} /\ n >= request.budgetSegments
<1> USE DEF AssemblyInv, TypeOK
<1>0. /\ call.at \in Nat /\ Len(call.refs) \in Nat /\ Len(call.segments) \in Nat
      /\ call.tokenEstimate \in Nat /\ call.segments \in Seq(Objects)
  BY DEF Call
<1>1. /\ call.pc = "sources" /\ call.toCheck = {} /\ call.at \in 1 .. Len(call.refs)
      /\ r \in Objects /\ held(r)
  BY DEF AddSegment, Call, Passed
<1>2. tokens[r] \in Nat /\ r \in ToSet(call.refs)
  BY <1>1, AssemblyAssumption DEF ToSet, Call
<1>3. \A i \in 1 .. call.at : i \in 1 .. call.at - 1 \/ i = call.at
  BY <1>0
<1>4. CASE ~Fits(r)
  <2>1. call' = [call EXCEPT !.pc = "finish", !.truncated = TRUE]
    BY <1>4 DEF AddSegment, Overflows
  <2>2. call'.pc = "finish" /\ call'.truncated = TRUE
        /\ UNCHANGED <<call.refs, call.at, call.held, call.segments, call.tokenEstimate,
                       call.warnings>>
    BY <2>1 DEF Call
  <2>3. call' \in Call
    BY <2>1 DEF Call
  <2>4. included' = included
    BY <2>2 DEF included
  <2>5. TypeOK' /\ Begun' /\ Taken' /\ Passed' /\ Within' /\ Concluded'
    BY <1>0, <1>1, <2>2, <2>3, <2>4 DEF AddSegment, Begun, Taken, Passed, Within, Concluded
  <2>6. FitsBudget' /\ HeldTrue' /\ Counted' /\ Reported'
    BY <1>1, <2>2, <2>4
    DEF AddSegment, FitsBudget, HeldTrue, Counted, tokenLimit, Reported, Concerned, Checked
  <2> QED BY <2>5, <2>6
<1>5. CASE Fits(r)
  <2>1. call' = [call EXCEPT
          !.segments = Append(@, r), !.tokenEstimate = @ + tokens[r],
          !.pc = IF full THEN "finish" ELSE "next",
          !.truncated = IF full THEN Len(call.refs) > n ELSE @]
    BY <1>5 DEF AddSegment, Takes
  <2>2. /\ call'.segments = Append(call.segments, r)
        /\ call'.tokenEstimate = call.tokenEstimate + tokens[r]
        /\ call'.pc = IF full THEN "finish" ELSE "next"
        /\ call'.truncated = IF full THEN Len(call.refs) > n ELSE call.truncated
        /\ UNCHANGED <<call.refs, call.at, call.held, call.warnings>>
    BY <2>1 DEF Call
  <2>3. /\ Append(call.segments, r) \in Seq(Objects)
        /\ Len(call'.segments) = n
        /\ included' = included \cup {r}
    BY <1>0, <1>1, <2>2, ToSetAppend DEF included
  <2>4. call' \in Call
    <3>1. call.tokenEstimate + tokens[r] \in Nat
      BY <1>0, <1>2
    <3>2. (IF full THEN Len(call.refs) > n ELSE call.truncated) \in BOOLEAN
      <4>1. call.truncated \in BOOLEAN
        BY DEF Call
      <4>2. CASE full
        BY <4>2
      <4>3. CASE ~full
        BY <4>1, <4>3
      <4> QED BY <4>2, <4>3
    <3>3. PICK pc \in {"finish", "next"}, t \in BOOLEAN, e \in Nat, s \in Seq(Objects) :
            call' = [call EXCEPT !.segments = s, !.tokenEstimate = e, !.pc = pc,
                       !.truncated = t]
      BY <2>1, <2>3, <3>1, <3>2
    <3> QED BY <3>3 DEF Call
  <2>5. TypeOK' /\ Begun' /\ Taken' /\ Concluded'
    BY <1>0, <1>1, <2>2, <2>3, <2>4 DEF AddSegment, Begun, Taken, Concluded, held
  <2>6. Passed'
    <3>1. CASE full
      <4>1. ~(Len(call.refs) > n) => call.at = Len(call.refs)
        BY <1>0, <1>1 DEF Taken
      <4>2. ~(Len(call.refs) > n) => DOMAIN call.held \subseteq included \cup {r}
        BY <1>1, <1>3, <4>1 DEF Taken, Passed, ToSet, held, Call
      <4> QED BY <2>2, <2>3, <3>1, <4>2 DEF Passed
    <3>2. CASE ~full
      BY <1>1, <1>3, <2>2, <2>3, <3>2 DEF Passed, held
    <3> QED BY <3>1, <3>2
  <2>7. Within' /\ FitsBudget'
    <3>1. request.budgetSegments \notin {Unset, 0} => request.budgetSegments \in Nat
      BY AssemblyAssumption
    <3>2. tokenLimit' = tokenLimit /\ request' = request
      BY DEF AddSegment, tokenLimit
    <3>3. Within'
      BY <1>0, <2>2, <2>3, <3>1, <3>2 DEF Within
    <3>4. Len(call'.segments) <= 1 \/ call'.tokenEstimate <= tokenLimit
      <4>1. CASE call.segments = <<>>
        BY <2>3, <4>1
      <4>2. CASE call.tokenEstimate + tokens[r] <= tokenLimit
        BY <2>2, <4>2
      <4> QED BY <1>5, <4>1, <4>2 DEF Fits
    <3>5. request.budgetSegments \notin {Unset, 0} => n <= request.budgetSegments
      BY <1>0, <1>1, <3>1 DEF Within
    <3> QED BY <2>3, <3>2, <3>3, <3>4, <3>5 DEF FitsBudget
  <2>8. HeldTrue' /\ Reported'
    BY <1>1, <2>2, <2>3 DEF AddSegment, HeldTrue, Reported, Concerned, Checked
  <2>9. Counted'
    BY <1>0, <1>1, <2>2, TokensAdd DEF Counted
  <2> QED BY <2>5, <2>6, <2>7, <2>8, <2>9
<1> QED BY <1>4, <1>5

LEMMA FinishStep == ASSUME AssemblyInv, Finish PROVE AssemblyInv'
<1> DEFINE empty == IF call.segments = <<>> THEN warn("empty_context", Unset) ELSE {}
           cut == IF call.truncated THEN warn("truncated", Unset) ELSE {}
           missing == UNION {warn("required_ref_omitted", r) : r \in omitted}
           more == empty \cup cut \cup missing
<1> USE DEF AssemblyInv, TypeOK
<1>0. call.at \in Nat /\ Len(call.refs) \in Nat
  BY DEF Call
<1>1. call' = [call EXCEPT !.pc = "done", !.warnings = @ \cup more]
  BY DEF Finish
<1>2. more \subseteq Warning
  <2>1. omitted \subseteq Objects
    BY AssemblyAssumption DEF omitted
  <2> QED BY <2>1 DEF warn, Warning
<1>3. /\ omitted # {} => \E w \in more : w.code = "required_ref_omitted"
      /\ call.segments = <<>> => \E w \in more : w.code = "empty_context"
      /\ call.truncated => \E w \in more : w.code = "truncated"
  <2>1. ASSUME NEW r \in omitted PROVE \E w \in more : w.code = "required_ref_omitted"
    <3>1. [code |-> "required_ref_omitted", ref |-> r] \in more
      BY DEF warn
    <3> QED BY <3>1
  <2>2. ASSUME call.segments = <<>> PROVE \E w \in more : w.code = "empty_context"
    <3>1. [code |-> "empty_context", ref |-> Unset] \in more
      BY <2>2 DEF warn
    <3> QED BY <3>1
  <2>3. ASSUME call.truncated PROVE \E w \in more : w.code = "truncated"
    <3>1. [code |-> "truncated", ref |-> Unset] \in more
      BY <2>3 DEF warn
    <3> QED BY <3>1
  <2> QED BY <2>1, <2>2, <2>3
<1> HIDE DEF more
<1>4. call' \in Call
  BY <1>1, <1>2 DEF Call
<1>5. call'.pc = "done" /\ call'.warnings = call.warnings \cup more
      /\ UNCHANGED <<call.refs, call.at, call.held, call.segments, call.tokenEstimate,
                     call.truncated>>
  BY <1>1 DEF Call
<1>6. included' = included /\ omitted' = omitted
  BY <1>5 DEF included, omitted, Finish
<1>7. TypeOK' /\ Begun' /\ Taken' /\ Within'
  BY <1>0, <1>4, <1>5, <1>6 DEF Finish, Begun, Taken, Within
<1>8. Passed'
  <2>1. CASE call.pc = "finish"
    BY <1>5, <1>6, <2>1 DEF Passed
  <2>2. CASE call.pc = "next" /\ call.at = Len(call.refs)
    <3>1. DOMAIN call.held \subseteq included
      BY <2>2 DEF Taken, Passed, ToSet, held, Call
    <3> QED BY <1>5, <1>6, <3>1 DEF Passed
  <2> QED BY <2>1, <2>2 DEF Finish
<1>9. FitsBudget' /\ HeldTrue' /\ Counted' /\ Reported'
  BY <1>5, <1>6
  DEF Finish, FitsBudget, tokenLimit, HeldTrue, Counted, Reported, Concerned, Checked
<1>10. Concluded'
  BY <1>3, <1>5, <1>6 DEF Concluded, warned
<1> QED BY <1>7, <1>8, <1>9, <1>10

\* What another call writes is known to be written.
LEMMA OtherStep == ASSUME AssemblyInv, OtherCall PROVE AssemblyInv'
<1> USE DEF AssemblyInv, TypeOK
<1>1. PICK r \in Objects, s \in Statuses \ {"active"} :
        status' = [status EXCEPT ![r] = s] /\ written' = written \cup {r}
  BY DEF OtherCall
<1>2. included' = included /\ UNCHANGED <<request, call>>
  BY DEF OtherCall, included
<1>3. \A x \in Objects \ written' : x \notin written /\ status'[x] = status[x]
  BY <1>1
<1>4. DOMAIN call.held \subseteq Objects /\ \A x \in Objects : sources[x] \subseteq Objects
  BY AssemblyAssumption DEF Call, Held
<1>5. call.pc = "sources" => call.refs[call.at] \in Objects
  BY DEF Call
<1>6. HeldTrue' /\ Counted'
  BY <1>2, <1>3, <1>4 DEF HeldTrue, Counted
<1>7. Reported'
  BY <1>2, <1>3, <1>4, <1>5 DEF Reported, Concerned, Checked, Taken
<1>8. TypeOK'
  BY <1>1, <1>2
<1>9. Begun' /\ Taken' /\ Passed' /\ Within' /\ FitsBudget'
  BY <1>2 DEF Begun, Taken, Passed, Within, FitsBudget, tokenLimit, held
<1>10. Concluded'
  BY <1>2 DEF Concluded, omitted, warned
<1> QED BY <1>6, <1>7, <1>8, <1>9, <1>10

LEMMA NextAssemblyInv == AssemblyInv /\ [Next]_vars => AssemblyInv'
<1> SUFFICES ASSUME AssemblyInv, [Next]_vars PROVE AssemblyInv' OBVIOUS
<1>1. CASE StartAssembly
  BY <1>1, SearchStep DEF StartAssembly
<1>2. CASE AssembleStep
  BY <1>2, ReadStep, HydrateStep, TakeRefStep, CheckSourceStep, AddSegmentStep, FinishStep
  DEF AssembleStep
<1>3. CASE OtherCall
  BY <1>3, OtherStep
<1>4. CASE UNCHANGED vars
  <2>1. UNCHANGED <<status, request, call, written>>
    BY <1>4 DEF vars
  <2> QED
    BY <2>1 DEF AssemblyInv, TypeOK, Begun, Taken, Passed, Within, FitsBudget, tokenLimit,
       HeldTrue, Counted, Reported, Concerned, Checked, Concluded, omitted, warned, included,
       held
<1> QED BY <1>1, <1>2, <1>3, <1>4 DEF Next

-----------------------------------------------------------------------------
\* What the loop of assembleContext keeps, whatever other calls write between its awaits.
THEOREM AssemblyStaysConsistent == Spec => []AssemblyInv
<1>1. Init => AssemblyInv
  BY InitAssemblyInv
<1>2. AssemblyInv /\ [Next]_vars => AssemblyInv'
  BY NextAssemblyInv
<1> QED BY <1>1, <1>2, PTL DEF Spec

\* The locals of assembleContext have their types.
THEOREM TypeCorrect == Spec => []TypeOK
<1>1. AssemblyInv => TypeOK
  BY DEF AssemblyInv
<1> QED BY <1>1, AssemblyStaysConsistent, PTL

\* The estimate is the sum over the segments, more than one of them fit the tokens left
\* unreserved, and there are no more than asked for (service.ts 339-356).
THEOREM BudgetStaysKept == Spec => []BudgetKept
<1>1. AssemblyInv => BudgetKept
  BY DEF AssemblyInv, Counted, BudgetKept
<1> QED BY <1>1, AssemblyStaysConsistent, PTL

\* What an answer not marked as truncated leaves out was gone when it was hydrated.
THEOREM TruncationIsReported == Spec => []TruncationReported
<1>1. AssemblyInv => TruncationReported
  BY DEF AssemblyInv, Passed, TruncationReported
<1> QED BY <1>1, AssemblyStaysConsistent, PTL

\* The answer to a valid request passes the conformance check (conformance.ts 111-180).
THEOREM ContextStaysConformant == Spec => []ContextConforms
<1>1. AssemblyInv => ContextConforms
  <2> SUFFICES ASSUME AssemblyInv, call.pc = "done", validateAssembleContextRequest(request)
               PROVE  assertContextConformance
    BY DEF ContextConforms
  <2>1. request.budgetSegments # Unset => Len(call.segments) <= request.budgetSegments
    BY DEF AssemblyInv, FitsBudget, validateAssembleContextRequest
  <2> QED BY <2>1 DEF AssemblyInv, Concluded, assertContextConformance
<1> QED BY <1>1, AssemblyStaysConsistent, PTL

\* A disputed or superseded segment and an unsound source are reported, unless they became
\* so after they were read.
THEOREM ConcernsAreReported == Spec => []ConcernsReported
<1>1. AssemblyInv => ConcernsReported
  BY DEF AssemblyInv, Taken, HeldTrue, Reported, Concerned, Checked, ConcernsReported
<1> QED BY <1>1, AssemblyStaysConsistent, PTL

\* What was deleted before the call is not in the context.
THEOREM DeletedIsNotAssembled == Spec => []DeletedNotAssembled
<1>1. AssemblyInv => DeletedNotAssembled
  BY DEF AssemblyInv, Taken, HeldTrue, DeletedNotAssembled
<1> QED BY <1>1, AssemblyStaysConsistent, PTL
=============================================================================
