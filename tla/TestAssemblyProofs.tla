------------------------- MODULE TestAssemblyProofs --------------------------
(***************************************************************************)
(* For any command lines, directories, images and filters: images stay     *)
(* loaded exactly as long as they are referred to, and the sequence that   *)
(* is run holds exactly what the command line selects.                     *)
(***************************************************************************)
EXTENDS TestAssembly, FiniteSetTheorems, SequenceTheorems, WellFoundedInduction, TLAPS

AssemblySpec == AssemblyInit /\ [][AssemblyNext]_assemblyVars

-----------------------------------------------------------------------------
(***************************************************************************)
(* The inductive invariant.                                                *)
(***************************************************************************)

ActionShape(x) ==
    /\ x = [path |-> x.path, fixture |-> x.fixture, refs |-> x.refs, testCase |-> x.testCase]
    /\ x.path \in DOMAIN Images /\ x.refs \in Int

\* The fields of the heap.  Names and indexes of test cases are left open.
HeapShape(h) ==
    /\ h = [modules |-> h.modules, actions |-> h.actions, sequence |-> h.sequence,
            collected |-> h.collected, next |-> h.next, context |-> h.context]
    /\ h.modules \in [DOMAIN Images -> Int]
    /\ h.actions \in Seq(Range(h.actions)) /\ \A a \in DOMAIN h.actions : ActionShape(h.actions[a])
    /\ h.sequence = [refs |-> h.sequence.refs, entries |-> h.sequence.entries]
    /\ h.sequence.entries \in Seq(DOMAIN h.actions)
    /\ h.collected \in Seq(DOMAIN h.actions)

ModuleShape(m, h) ==
    /\ m = [path |-> m.path, fixtures |-> m.fixtures, next |-> m.next, pending |-> m.pending]
    /\ m.pending \in (DOMAIN h.actions) \cup {0}

Live(h, p) == {a \in DOMAIN h.actions : h.actions[a].path = p /\ h.actions[a].refs > 0}

\* How many refer to an action: the search, the sequence and the run.
Holders(h, m, a) ==
    One(m.pending = a) + Occurrences(a, h.sequence.entries) + Occurrences(a, h.collected)

\* Who refers to an image, and to an action.
ModulesInv(h, m) ==
    \A p \in DOMAIN Images : h.modules[p] = One(m.path = p) + Cardinality(Live(h, p))

ActionsInv(h, m) ==
    \A a \in DOMAIN h.actions : h.actions[a].refs = Holders(h, m, a)

Counted(h, m) == HeapShape(h) /\ ModuleShape(m, h) /\ ModulesInv(h, m) /\ ActionsInv(h, m)

Phases == {"start", "assemble", "search", "module", "context", "collect", "run", "release",
           "statistics", "delete", "exit"}

\* What there is in each phase.
PhaseInv ==
    /\ phase \in Phases
    /\ IF phase = "module" THEN module.path \in DOMAIN Images ELSE module = NoModule
    /\ phase \in {"start", "assemble", "exit"} => heap.sequence.entries = <<>>
    /\ phase \notin {"collect", "run", "release"} => heap.collected = <<>>
    /\ heap.context = IF phase \in {"collect", "run", "release", "statistics"}
                      THEN [inner |-> 1, sink |-> 1, proxy |-> 1] ELSE NoContext
    /\ phase = "assemble" /\ OwnExecutable => IsType(options.input, "exe")

HeldInv == Counted(heap, module) /\ PhaseInv

-----------------------------------------------------------------------------
(***************************************************************************)
(* Occurrences in a sequence.                                              *)
(***************************************************************************)

At(a, s) == {i \in DOMAIN s : s[i] = a}

\* The places of an entry are finite in number.
LEMMA AtFinite ==
  ASSUME NEW S, NEW s \in Seq(S), NEW a
  PROVE  /\ IsFiniteSet(At(a, s)) /\ Occurrences(a, s) = Cardinality(At(a, s)) /\ Occurrences(a, s) \in Nat
         /\ (\A i \in DOMAIN s : s[i] # a) => Occurrences(a, s) = 0
<1>1. DOMAIN s = 1 .. Len(s) /\ Len(s) \in Nat /\ At(a, s) \subseteq 1 .. Len(s)
  BY DEF At
<1>2. IsFiniteSet(1 .. Len(s))
  BY <1>1, FS_Interval
<1>3. IsFiniteSet(At(a, s))
  BY <1>1, <1>2, FS_Subset
<1>4. Occurrences(a, s) = Cardinality(At(a, s))
  BY DEF Occurrences, At
<1>5. (\A i \in DOMAIN s : s[i] # a) => At(a, s) = {}
  BY DEF At
<1> QED BY <1>3, <1>4, <1>5, FS_CardinalityType, FS_EmptySet

\* An entry is appended.
LEMMA OccurrencesAppend ==
  ASSUME NEW S, NEW s \in Seq(S), NEW x \in S, NEW a
  PROVE  Occurrences(a, Append(s, x)) = Occurrences(a, s) + One(x = a)
<1> DEFINE t == Append(s, x)
           n == Len(s) + 1
<1>1. /\ t \in Seq(S) /\ Len(t) = Len(s) + 1 /\ t[Len(s) + 1] = x
      /\ \A i \in 1 .. Len(s) : t[i] = s[i]
  BY AppendProperties
<1>2. DOMAIN s = 1 .. Len(s) /\ DOMAIN t = (1 .. Len(s)) \cup {n} /\ Len(s) \in Nat /\ n \notin 1 .. Len(s)
  BY <1>1
<1> HIDE DEF t
<1>3. At(a, t) = IF x = a THEN At(a, s) \cup {n} ELSE At(a, s)
  BY <1>1, <1>2 DEF At
<1>4. n \notin At(a, s)
  BY <1>2 DEF At
<1>5. /\ IsFiniteSet(At(a, s)) /\ Occurrences(a, s) = Cardinality(At(a, s)) /\ Occurrences(a, s) \in Nat
      /\ Occurrences(a, t) = Cardinality(At(a, t))
  BY <1>1, AtFinite
<1>6. Cardinality(At(a, s) \cup {n}) = Cardinality(At(a, s)) + 1
  BY <1>4, <1>5, FS_AddElement
<1>7. Occurrences(a, t) = Occurrences(a, s) + One(x = a)
  BY <1>3, <1>5, <1>6 DEF One
<1> QED BY <1>7 DEF t

\* The first entry is taken off.
LEMMA OccurrencesTail ==
  ASSUME NEW S, NEW s \in Seq(S), s # <<>>, NEW a
  PROVE  /\ Tail(s) \in Seq(S) /\ Head(s) \in S
         /\ Occurrences(a, s) = Occurrences(a, Tail(s)) + One(Head(s) = a)
<1> DEFINE t == Tail(s)
<1>1. /\ t \in Seq(S) /\ Len(t) = Len(s) - 1 /\ Head(s) = s[1] /\ Head(s) \in S
      /\ \A i \in 1 .. Len(s) - 1 : t[i] = s[i + 1]
  OBVIOUS
<1>2. DOMAIN s = 1 .. Len(s) /\ Len(s) \in Nat /\ Len(s) # 0 /\ DOMAIN t = 1 .. Len(s) - 1
  BY <1>1
<1> HIDE DEF t
<1> DEFINE R == At(a, s) \ {1}
           f == [i \in At(a, t) |-> i + 1]
<1>3. \A i \in At(a, t) : i \in 1 .. Len(s) - 1 /\ i + 1 \in R
  BY <1>1, <1>2 DEF At
<1>4. \A j \in R : j - 1 \in At(a, t) /\ (j - 1) + 1 = j
  <2> SUFFICES ASSUME NEW j \in R PROVE j - 1 \in At(a, t) /\ (j - 1) + 1 = j
    OBVIOUS
  <2>1. j \in 1 .. Len(s) /\ j # 1 /\ s[j] = a
    BY <1>2 DEF At
  <2>2. j - 1 \in 1 .. Len(s) - 1 /\ (j - 1) + 1 = j
    BY <1>2, <2>1
  <2>3. t[j - 1] = a
    BY <1>1, <2>1, <2>2
  <2> QED BY <1>2, <2>2, <2>3 DEF At
<1>5. f \in Injection(At(a, t), R)
  <2>1. \A i, j \in At(a, t) : i + 1 = j + 1 => i = j
    BY <1>2, <1>3
  <2> HIDE DEF R
  <2> QED BY <1>3, <2>1 DEF Injection, IsInjective
<1>6. f \in Surjection(At(a, t), R)
  <2>1. f \in [At(a, t) -> R]
    BY <1>3
  <2>2. ASSUME NEW j \in R PROVE \E i \in At(a, t) : f[i] = j
    BY <1>4
  <2> HIDE DEF R, f
  <2> QED BY <2>1, <2>2 DEF Surjection
<1>7. /\ IsFiniteSet(At(a, s)) /\ Occurrences(a, s) = Cardinality(At(a, s)) /\ Occurrences(a, s) \in Nat
      /\ Occurrences(a, t) = Cardinality(At(a, t))
  BY <1>1, AtFinite
<1>8. IsFiniteSet(R) /\ Cardinality(R) = IF 1 \in At(a, s) THEN Cardinality(At(a, s)) - 1 ELSE Cardinality(At(a, s))
  BY <1>7, FS_RemoveElement
<1>9. Cardinality(At(a, t)) = Cardinality(R)
  <2> HIDE DEF R, f
  <2> QED BY <1>5, <1>6, <1>8, FS_Injection
<1>10. 1 \in At(a, s) <=> Head(s) = a
  BY <1>1, <1>2 DEF At
<1>11. Occurrences(a, s) = Occurrences(a, t) + One(Head(s) = a)
  <2> HIDE DEF R
  <2> QED BY <1>7, <1>8, <1>9, <1>10 DEF One
<1> QED BY <1>1, <1>11 DEF t

-----------------------------------------------------------------------------
(***************************************************************************)
(* References.                                                             *)
(***************************************************************************)

\* g is h with d references more to the action a.
Counts(g, h, a, d) ==
    /\ HeapShape(g) /\ DOMAIN g.actions = DOMAIN h.actions
    /\ \A b \in DOMAIN h.actions : /\ g.actions[b].path = h.actions[b].path
                                   /\ g.actions[b].fixture = h.actions[b].fixture
                                   /\ g.actions[b].testCase = h.actions[b].testCase
                                   /\ b # a => g.actions[b].refs = h.actions[b].refs
    /\ g.actions[a].refs = h.actions[a].refs + d
    /\ g.sequence = h.sequence /\ g.collected = h.collected /\ g.next = h.next /\ g.context = h.context

\* One action of the heap counts d references more.
LEMMA ShapeFact ==
  ASSUME NEW h, HeapShape(h), NEW a \in DOMAIN h.actions, NEW d \in Int
  PROVE  LET g == [h EXCEPT !.actions[a].refs = @ + d]
         IN  Counts(g, h, a, d) /\ g.modules = h.modules
<1> DEFINE x == [h.actions[a] EXCEPT !.refs = @ + d]
           s == [h.actions EXCEPT ![a] = x]
           g == [h EXCEPT !.actions = s]
<1>1. /\ h.actions \in Seq(Range(h.actions)) /\ \A b \in DOMAIN h.actions : ActionShape(h.actions[b])
      /\ h = [modules |-> h.modules, actions |-> h.actions, sequence |-> h.sequence,
              collected |-> h.collected, next |-> h.next, context |-> h.context]
  BY DEF HeapShape
<1>2. /\ ActionShape(x) /\ x.refs = h.actions[a].refs + d /\ x.path = h.actions[a].path
      /\ x.fixture = h.actions[a].fixture /\ x.testCase = h.actions[a].testCase
  <2> DEFINE y == h.actions[a]
  <2>1. /\ y = [path |-> y.path, fixture |-> y.fixture, refs |-> y.refs, testCase |-> y.testCase]
        /\ y.path \in DOMAIN Images /\ y.refs \in Int
    BY <1>1 DEF ActionShape
  <2> HIDE DEF y
  <2>2. [y EXCEPT !.refs = @ + d] = [path |-> y.path, fixture |-> y.fixture, refs |-> y.refs + d, testCase |-> y.testCase]
    BY <2>1
  <2>3. x = [path |-> y.path, fixture |-> y.fixture, refs |-> y.refs + d, testCase |-> y.testCase]
    BY <2>2 DEF y
  <2> HIDE DEF x
  <2>4. /\ ActionShape(x) /\ x.refs = y.refs + d /\ x.path = y.path
        /\ x.fixture = y.fixture /\ x.testCase = y.testCase
    BY <2>1, <2>3 DEF ActionShape
  <2> QED BY <2>4 DEF y
<1> HIDE DEF x
<1>3. /\ DOMAIN s = DOMAIN h.actions /\ s[a] = x /\ \A b \in DOMAIN s : b # a => s[b] = h.actions[b]
  BY <1>1
<1>4. s \in Seq(Range(s))
  <2>1. DOMAIN h.actions = 1 .. Len(h.actions) /\ Len(h.actions) \in Nat
    BY <1>1
  <2>2. s \in [1 .. Len(h.actions) -> Range(h.actions) \cup {x}]
    BY <1>1, <2>1
  <2>3. \A i \in 1 .. Len(h.actions) : s[i] \in Range(s)
    BY <1>3, <2>1 DEF Range
  <2> HIDE DEF s
  <2>4. s \in [1 .. Len(h.actions) -> Range(s)]
    BY <2>2, <2>3
  <2> QED BY <2>1, <2>4
<1> HIDE DEF s
<1>5. /\ g.modules = h.modules /\ g.actions = s /\ g.sequence = h.sequence
      /\ g.collected = h.collected /\ g.next = h.next /\ g.context = h.context
      /\ g = [modules |-> g.modules, actions |-> g.actions, sequence |-> g.sequence,
              collected |-> g.collected, next |-> g.next, context |-> g.context]
  BY <1>1
<1> HIDE DEF g
<1>6. \A b \in DOMAIN s : ActionShape(s[b])
  BY <1>1, <1>2, <1>3
<1>7. HeapShape(g)
  BY <1>3, <1>4, <1>5, <1>6 DEF HeapShape
<1>8. Counts(g, h, a, d)
  BY <1>2, <1>3, <1>5, <1>7 DEF Counts
<1>9. [h EXCEPT !.actions[a].refs = @ + d] = g
  BY DEF g, s, x
<1> QED BY <1>5, <1>8, <1>9

\* ReferenceAction counts one reference more.
LEMMA ReferenceFact ==
  ASSUME NEW h, HeapShape(h), NEW a \in DOMAIN h.actions
  PROVE  Counts(ReferenceAction(h, a), h, a, 1) /\ ReferenceAction(h, a).modules = h.modules
BY ShapeFact DEF ReferenceAction

\* DereferenceAction counts one less, and the last one frees the module.
LEMMA DereferenceFact ==
  ASSUME NEW h, HeapShape(h), NEW a \in DOMAIN h.actions
  PROVE  LET g == DereferenceAction(h, a)
         IN  /\ Counts(g, h, a, -1)
             /\ \A p \in DOMAIN Images :
                   g.modules[p] = h.modules[p] - One(h.actions[a].refs = 1 /\ h.actions[a].path = p)
<1> DEFINE less == [h EXCEPT !.actions[a].refs = @ - 1]
           q == h.actions[a].path
           g == DereferenceAction(h, a)
<1>1. less = [h EXCEPT !.actions[a].refs = @ + (-1)]
  BY DEF HeapShape, ActionShape
<1>2. Counts(less, h, a, -1) /\ less.modules = h.modules
  BY <1>1, ShapeFact
<1>3. g = IF h.actions[a].refs = 1 THEN DereferenceModule(less, q) ELSE less
  BY DEF DereferenceAction
<1>4. h.modules \in [DOMAIN Images -> Int] /\ q \in DOMAIN Images
  BY DEF HeapShape, ActionShape
<1> HIDE DEF less, g, q
<1>5. CASE h.actions[a].refs = 1
  <2>1. g = [less EXCEPT !.modules = [h.modules EXCEPT ![q] = @ - 1]]
    BY <1>2, <1>3, <1>5 DEF DereferenceModule
  <2> DEFINE m == [h.modules EXCEPT ![q] = @ - 1]
  <2>2. m \in [DOMAIN Images -> Int] /\ \A p \in DOMAIN Images : m[p] = h.modules[p] - One(q = p)
    BY <1>4 DEF One
  <2> HIDE DEF m
  <2>3. HeapShape(less)
    BY <1>2 DEF Counts
  <2>4. less = [modules |-> less.modules, actions |-> less.actions, sequence |-> less.sequence,
                collected |-> less.collected, next |-> less.next, context |-> less.context]
    BY <2>3 DEF HeapShape
  <2>5. /\ g.modules = m /\ g.actions = less.actions /\ g.sequence = less.sequence
        /\ g.collected = less.collected /\ g.next = less.next /\ g.context = less.context
        /\ g = [modules |-> g.modules, actions |-> g.actions, sequence |-> g.sequence,
                collected |-> g.collected, next |-> g.next, context |-> g.context]
    BY <2>1, <2>4 DEF m
  <2>6. HeapShape(g)
    BY <2>2, <2>3, <2>5 DEF HeapShape
  <2>7. Counts(g, h, a, -1)
    BY <1>2, <2>5, <2>6 DEF Counts
  <2> QED BY <1>5, <2>2, <2>5, <2>7 DEF g, q, One
<1>6. CASE h.actions[a].refs # 1
  BY <1>2, <1>3, <1>4, <1>6 DEF g, One
<1> QED BY <1>5, <1>6

\* The live actions of an image are finite in number.
LEMMA LiveFinite ==
  ASSUME NEW h, HeapShape(h), NEW p
  PROVE  IsFiniteSet(Live(h, p)) /\ Cardinality(Live(h, p)) \in Nat /\ IsFiniteSet(DOMAIN h.actions)
<1>1. DOMAIN h.actions = 1 .. Len(h.actions) /\ Len(h.actions) \in Nat
  BY DEF HeapShape
<1>2. IsFiniteSet(1 .. Len(h.actions))
  BY <1>1, FS_Interval
<1>3. Live(h, p) \subseteq 1 .. Len(h.actions)
  BY <1>1 DEF Live
<1> QED BY <1>1, <1>2, <1>3, FS_Subset, FS_CardinalityType

\* A further reference to a live action.
LEMMA LiveRaise ==
  ASSUME NEW h, HeapShape(h), NEW a \in DOMAIN h.actions, h.actions[a].refs > 0, NEW g, Counts(g, h, a, 1), NEW p
  PROVE  Live(g, p) = Live(h, p)
<1>1. h.actions[a].refs \in Int /\ g.actions[a].refs > 0
  BY DEF HeapShape, ActionShape, Counts
<1> QED BY <1>1 DEF Live, Counts

\* A reference less: the action stays live, or there is one live action less.
LEMMA LiveDrop ==
  ASSUME NEW h, HeapShape(h), NEW a \in DOMAIN h.actions, h.actions[a].refs > 0, NEW g, Counts(g, h, a, -1), NEW p
  PROVE  Cardinality(Live(g, p)) = Cardinality(Live(h, p)) - One(h.actions[a].refs = 1 /\ h.actions[a].path = p)
<1>0. h.actions[a].refs \in Int /\ HeapShape(g) /\ g.actions[a].refs = h.actions[a].refs - 1
  BY DEF HeapShape, ActionShape, Counts
<1>f. IsFiniteSet(Live(h, p)) /\ Cardinality(Live(h, p)) \in Nat
  BY LiveFinite
<1>1. CASE h.actions[a].refs = 1 /\ h.actions[a].path = p
  <2>1. Live(g, p) = Live(h, p) \ {a} /\ a \in Live(h, p)
    BY <1>0, <1>1 DEF Live, Counts
  <2> QED BY <1>1, <1>f, <2>1, FS_RemoveElement DEF One
<1>2. CASE ~ (h.actions[a].refs = 1 /\ h.actions[a].path = p)
  <2>1. Live(g, p) = Live(h, p)
    BY <1>0, <1>2 DEF Live, Counts
  <2> QED BY <1>2, <1>f, <2>1 DEF One
<1> QED BY <1>1, <1>2

\* A new action of the image p, referred to once, is live.
LEMMA LiveAdd ==
  ASSUME NEW h, HeapShape(h), NEW x, ActionShape(x), x.refs = 1, NEW g,
         g.actions = Append(h.actions, x), NEW p
  PROVE  Cardinality(Live(g, p)) = Cardinality(Live(h, p)) + One(x.path = p)
<1> DEFINE s == h.actions
           n == Len(s) + 1
<1>1. s \in Seq(Range(s) \cup {x})
  BY DEF HeapShape
<1>2. /\ Len(Append(s, x)) = Len(s) + 1 /\ Append(s, x)[n] = x /\ Append(s, x) \in Seq(Range(s) \cup {x})
      /\ \A i \in 1 .. Len(s) : Append(s, x)[i] = s[i]
  BY <1>1, AppendProperties
<1>3. /\ DOMAIN s = 1 .. Len(s) /\ Len(s) \in Nat /\ n \notin DOMAIN s
      /\ DOMAIN Append(s, x) = (DOMAIN s) \cup {n}
  BY <1>1, <1>2
<1>4. Live(g, p) = IF x.path = p THEN Live(h, p) \cup {n} ELSE Live(h, p)
  BY <1>2, <1>3 DEF Live
<1>5. n \notin Live(h, p)
  BY <1>3 DEF Live
<1>6. IsFiniteSet(Live(h, p)) /\ Cardinality(Live(h, p)) \in Nat
  BY LiveFinite
<1> HIDE DEF n
<1>7. Cardinality(Live(h, p) \cup {n}) = Cardinality(Live(h, p)) + 1
  BY <1>5, <1>6, FS_AddElement
<1> QED BY <1>4, <1>6, <1>7 DEF One

-----------------------------------------------------------------------------
(***************************************************************************)
(* Counted heaps.                                                          *)
(***************************************************************************)

\* The heap of a run has the counts of another one.
SameCounts(g, h) ==
    /\ HeapShape(g) /\ g.modules = h.modules /\ g.actions = h.actions

\* Those who refer to an action can be counted.
LEMMA HoldersType ==
  ASSUME NEW h, HeapShape(h), NEW m, NEW a
  PROVE  /\ Holders(h, m, a) \in Nat /\ One(m.pending = a) \in Nat
         /\ Occurrences(a, h.sequence.entries) \in Nat /\ Occurrences(a, h.collected) \in Nat
<1>1. Occurrences(a, h.sequence.entries) \in Nat /\ Occurrences(a, h.collected) \in Nat
  BY AtFinite DEF HeapShape
<1> QED BY <1>1 DEF Holders, One

\* What the counts do not depend on.
LEMMA SameFact ==
  ASSUME NEW h, NEW m, Counted(h, m), NEW g, SameCounts(g, h), NEW k, ModuleShape(k, h),
         k.path = m.path, \A a \in DOMAIN h.actions : Holders(g, k, a) = Holders(h, m, a)
  PROVE  Counted(g, k)
<1>1. HeapShape(g) /\ ModuleShape(k, g)
  BY DEF SameCounts, ModuleShape
<1>2. ModulesInv(g, k)
  BY DEF Counted, ModulesInv, SameCounts, Live
<1>3. ActionsInv(g, k)
  BY DEF Counted, ActionsInv, SameCounts
<1> QED BY <1>1, <1>2, <1>3 DEF Counted

\* A further holder of a live action, and its reference.
LEMMA AcquireFact ==
  ASSUME NEW h, NEW m, Counted(h, m), NEW a \in DOMAIN h.actions, h.actions[a].refs > 0,
         NEW g, SameCounts(g, ReferenceAction(h, a)),
         \A b \in DOMAIN h.actions : Holders(g, m, b) = Holders(h, m, b) + One(a = b)
  PROVE  Counted(g, m)
<1> DEFINE k == ReferenceAction(h, a)
<1>0. HeapShape(h) /\ ModuleShape(m, h) /\ ModulesInv(h, m) /\ ActionsInv(h, m)
  BY DEF Counted
<1>1. Counts(k, h, a, 1) /\ k.modules = h.modules
  BY <1>0, ReferenceFact
<1>2. HeapShape(g) /\ g.modules = k.modules /\ g.actions = k.actions
  BY DEF SameCounts
<1> HIDE DEF k
<1>3. DOMAIN g.actions = DOMAIN h.actions /\ ModuleShape(m, g)
  BY <1>0, <1>1, <1>2 DEF Counts, ModuleShape
<1>4. ModulesInv(g, m)
  <2>1. \A p : Live(k, p) = Live(h, p)
    BY <1>0, <1>1, LiveRaise
  <2>2. \A p : Live(g, p) = Live(k, p)
    BY <1>2 DEF Live
  <2> QED BY <1>0, <1>1, <1>2, <2>1, <2>2 DEF ModulesInv
<1>5. ActionsInv(g, m)
  <2> SUFFICES ASSUME NEW b \in DOMAIN h.actions PROVE g.actions[b].refs = Holders(g, m, b)
    BY <1>3 DEF ActionsInv
  <2>1. h.actions[b].refs = Holders(h, m, b) /\ Holders(h, m, b) \in Nat
    BY <1>0, HoldersType DEF ActionsInv
  <2>2. g.actions[b].refs = h.actions[b].refs + One(a = b)
    BY <1>1, <1>2, <2>1 DEF Counts, One
  <2> QED BY <2>1, <2>2
<1> QED BY <1>2, <1>3, <1>4, <1>5 DEF Counted

\* A holder less, and its reference is dropped.
LEMMA ReleaseFact ==
  ASSUME NEW h, NEW m, Counted(h, m), NEW a \in DOMAIN h.actions,
         NEW k, SameCounts(k, h), NEW n, ModuleShape(n, h), n.path = m.path,
         \A b \in DOMAIN h.actions : Holders(h, m, b) = Holders(k, n, b) + One(a = b)
  PROVE  Counted(DereferenceAction(k, a), n)
<1> DEFINE g == DereferenceAction(k, a)
<1>0. HeapShape(h) /\ ModuleShape(m, h) /\ ModulesInv(h, m) /\ ActionsInv(h, m)
  BY DEF Counted
<1>1. HeapShape(k) /\ k.modules = h.modules /\ k.actions = h.actions
  BY DEF SameCounts
<1>2. \A b \in DOMAIN h.actions : /\ h.actions[b].refs = Holders(k, n, b) + One(a = b)
                                  /\ Holders(k, n, b) \in Nat
  BY <1>0, <1>1, HoldersType DEF ActionsInv
<1>3. k.actions[a].refs > 0
  BY <1>1, <1>2 DEF One
<1>4. /\ Counts(g, k, a, -1)
      /\ \A p \in DOMAIN Images :
            g.modules[p] = k.modules[p] - One(k.actions[a].refs = 1 /\ k.actions[a].path = p)
  BY <1>1, DereferenceFact
<1> HIDE DEF g
<1>5. HeapShape(g) /\ DOMAIN g.actions = DOMAIN h.actions /\ ModuleShape(n, g)
  BY <1>1, <1>4 DEF Counts, ModuleShape
<1>6. ModulesInv(g, n)
  <2> SUFFICES ASSUME NEW p \in DOMAIN Images PROVE g.modules[p] = One(n.path = p) + Cardinality(Live(g, p))
    BY DEF ModulesInv
  <2>1. Cardinality(Live(g, p)) = Cardinality(Live(k, p)) - One(k.actions[a].refs = 1 /\ k.actions[a].path = p)
    BY <1>1, <1>3, <1>4, LiveDrop
  <2>2. Live(k, p) = Live(h, p)
    BY <1>1 DEF Live
  <2>f. Cardinality(Live(h, p)) \in Nat
    BY <1>0, LiveFinite
  <2>3. h.modules[p] = One(n.path = p) + Cardinality(Live(h, p))
    BY <1>0 DEF ModulesInv
  <2> QED BY <1>1, <1>4, <2>1, <2>2, <2>3, <2>f DEF One
<1>7. ActionsInv(g, n)
  <2> SUFFICES ASSUME NEW b \in DOMAIN h.actions PROVE g.actions[b].refs = Holders(g, n, b)
    BY <1>5 DEF ActionsInv
  <2>1. Holders(g, n, b) = Holders(k, n, b)
    BY <1>4 DEF Counts, Holders
  <2> QED BY <1>1, <1>2, <1>4, <2>1 DEF Counts, One
<1> QED BY <1>5, <1>6, <1>7 DEF Counted, g

SequenceShape(q, S) == q = [refs |-> q.refs, entries |-> q.entries] /\ q.entries \in Seq(S)

Rebuilt(g, h, q, n, c) ==
    g = [modules |-> h.modules, actions |-> h.actions, sequence |-> q,
         collected |-> h.collected, next |-> n, context |-> c]

\* The heap with another sequence, place in the run and context.
LEMMA RebuildFact ==
  ASSUME NEW h, HeapShape(h), NEW q, SequenceShape(q, DOMAIN h.actions), NEW n, NEW c, NEW g,
         Rebuilt(g, h, q, n, c)
  PROVE  SameCounts(g, h) /\ g.sequence = q /\ g.collected = h.collected /\ g.context = c
<1>1. /\ g.modules = h.modules /\ g.actions = h.actions /\ g.sequence = q
      /\ g.collected = h.collected /\ g.next = n /\ g.context = c
  BY DEF Rebuilt
<1>2. g = [modules |-> g.modules, actions |-> g.actions, sequence |-> g.sequence,
           collected |-> g.collected, next |-> g.next, context |-> g.context]
  BY <1>1 DEF Rebuilt
<1>3. HeapShape(g)
  BY <1>1, <1>2 DEF HeapShape, SequenceShape
<1> QED BY <1>1, <1>3 DEF SameCounts

\* The fields that the counts do not depend on.
LEMMA EditFact ==
  ASSUME NEW h, HeapShape(h), NEW v
  PROVE  /\ LET g == [h EXCEPT !.context = v]
            IN  /\ SameCounts(g, h) /\ g.sequence = h.sequence /\ g.collected = h.collected
                /\ g.context = v
         /\ LET g == [h EXCEPT !.next = v]
            IN  /\ SameCounts(g, h) /\ g.sequence = h.sequence /\ g.collected = h.collected
                /\ g.context = h.context
         /\ LET g == [h EXCEPT !.sequence.refs = v]
            IN  /\ SameCounts(g, h) /\ g.sequence.entries = h.sequence.entries
                /\ g.collected = h.collected /\ g.context = h.context
<1>1. /\ h = [modules |-> h.modules, actions |-> h.actions, sequence |-> h.sequence,
              collected |-> h.collected, next |-> h.next, context |-> h.context]
      /\ h.sequence = [refs |-> h.sequence.refs, entries |-> h.sequence.entries]
  BY DEF HeapShape
<1>3. SequenceShape(h.sequence, DOMAIN h.actions)
  BY DEF HeapShape, SequenceShape
<1> DEFINE r == [refs |-> v, entries |-> h.sequence.entries]
<1>4. Rebuilt([h EXCEPT !.context = v], h, h.sequence, h.next, v)
  BY <1>1 DEF Rebuilt
<1>5. Rebuilt([h EXCEPT !.next = v], h, h.sequence, v, h.context)
  BY <1>1 DEF Rebuilt
<1>7. Rebuilt([h EXCEPT !.sequence.refs = v], h, r, h.next, h.context)
  <2>1. [h.sequence EXCEPT !.refs = v] = r
    BY <1>1
  <2>2. [h EXCEPT !.sequence.refs = v] = [h EXCEPT !.sequence = [h.sequence EXCEPT !.refs = v]]
    OBVIOUS
  <2> HIDE DEF r
  <2>3. Rebuilt([h EXCEPT !.sequence = r], h, r, h.next, h.context)
    BY <1>1 DEF Rebuilt
  <2> QED BY <2>1, <2>2, <2>3
<1>9. SequenceShape(r, DOMAIN h.actions) /\ r.entries = h.sequence.entries
  BY <1>3 DEF SequenceShape
<1> HIDE DEF r
<1> DEFINE c == [h EXCEPT !.context = v]
           d == [h EXCEPT !.next = v]
           f == [h EXCEPT !.sequence.refs = v]
<1> HIDE DEF c, d, f
<1>10. /\ SameCounts(c, h) /\ c.sequence = h.sequence /\ c.collected = h.collected /\ c.context = v
  BY <1>3, <1>4, RebuildFact DEF c
<1>11. /\ SameCounts(d, h) /\ d.sequence = h.sequence /\ d.collected = h.collected /\ d.context = h.context
  BY <1>3, <1>5, RebuildFact DEF d
<1>13. /\ SameCounts(f, h) /\ f.sequence = r /\ f.collected = h.collected /\ f.context = h.context
  <2>1. Rebuilt(f, h, r, h.next, h.context)
    BY <1>7 DEF f
  <2> QED BY <1>9, <2>1, RebuildFact
<1>15. LET g == [h EXCEPT !.sequence.refs = v]
       IN  /\ SameCounts(g, h) /\ g.sequence.entries = h.sequence.entries
           /\ g.collected = h.collected /\ g.context = h.context
  BY <1>9, <1>13 DEF f
<1>16. LET g == [h EXCEPT !.context = v]
       IN  /\ SameCounts(g, h) /\ g.sequence = h.sequence /\ g.collected = h.collected
           /\ g.context = v
  BY <1>10 DEF c
<1>17. LET g == [h EXCEPT !.next = v]
       IN  /\ SameCounts(g, h) /\ g.sequence = h.sequence /\ g.collected = h.collected
           /\ g.context = h.context
  BY <1>11 DEF d
<1> QED BY <1>15, <1>16, <1>17

\* Other references of the run or of the sequence to the same actions.
LEMMA EditHolders ==
  ASSUME NEW h, HeapShape(h), NEW s \in Seq(DOMAIN h.actions)
  PROVE  /\ LET g == [h EXCEPT !.collected = s]
            IN  /\ SameCounts(g, h) /\ g.sequence = h.sequence /\ g.collected = s
                /\ g.context = h.context
         /\ LET g == [h EXCEPT !.sequence.entries = s]
            IN  /\ SameCounts(g, h) /\ g.sequence.entries = s /\ g.collected = h.collected
                /\ g.context = h.context
<1>1. /\ h = [modules |-> h.modules, actions |-> h.actions, sequence |-> h.sequence,
              collected |-> h.collected, next |-> h.next, context |-> h.context]
      /\ h.sequence = [refs |-> h.sequence.refs, entries |-> h.sequence.entries]
  BY DEF HeapShape
<1> DEFINE f == [h EXCEPT !.collected = s]
           q == [refs |-> h.sequence.refs, entries |-> s]
           g == [h EXCEPT !.sequence = q]
<1>2. /\ f = [modules |-> h.modules, actions |-> h.actions, sequence |-> h.sequence,
              collected |-> s, next |-> h.next, context |-> h.context]
  BY <1>1
<1>3. q.refs = h.sequence.refs /\ q.entries = s /\ q = [refs |-> q.refs, entries |-> q.entries]
  OBVIOUS
<1>4. [h EXCEPT !.sequence.entries = s] = g
  <2>1. [h.sequence EXCEPT !.entries = s] = q
    BY <1>1
  <2>2. [h EXCEPT !.sequence.entries = s] = [h EXCEPT !.sequence = [h.sequence EXCEPT !.entries = s]]
    OBVIOUS
  <2> HIDE DEF q
  <2> QED BY <2>1, <2>2
<1> HIDE DEF q
<1>5. g = [modules |-> h.modules, actions |-> h.actions, sequence |-> q,
           collected |-> h.collected, next |-> h.next, context |-> h.context]
  BY <1>1
<1> HIDE DEF f, g
<1>6. /\ f.modules = h.modules /\ f.actions = h.actions /\ f.sequence = h.sequence
      /\ f.collected = s /\ f.next = h.next /\ f.context = h.context
  BY <1>2
<1>7. /\ g.modules = h.modules /\ g.actions = h.actions /\ g.sequence = q
      /\ g.collected = h.collected /\ g.next = h.next /\ g.context = h.context
  BY <1>5
<1>8. HeapShape(f)
  BY <1>2, <1>6 DEF HeapShape
<1>9. HeapShape(g)
  BY <1>3, <1>5, <1>7 DEF HeapShape
<1>10. SameCounts(f, h) /\ f.sequence = h.sequence /\ f.collected = s /\ f.context = h.context
  BY <1>6, <1>8 DEF SameCounts
<1>11. SameCounts(g, h) /\ g.sequence.entries = s /\ g.collected = h.collected /\ g.context = h.context
  BY <1>3, <1>7, <1>9 DEF SameCounts
<1> QED BY <1>4, <1>10, <1>11 DEF f

Moves(g, h, p, d) == g = [h EXCEPT !.modules[p] = @ + d]

\* References to an image come and go.
LEMMA ImageFact ==
  ASSUME NEW h, HeapShape(h), NEW p \in DOMAIN Images, NEW d \in Int, NEW g, Moves(g, h, p, d)
  PROVE  /\ HeapShape(g) /\ g.actions = h.actions /\ g.sequence = h.sequence
         /\ g.collected = h.collected /\ g.context = h.context
         /\ \A q \in DOMAIN Images : g.modules[q] = h.modules[q] + (IF p = q THEN d ELSE 0)
<1> DEFINE f == [h.modules EXCEPT ![p] = @ + d]
<1>e. g = [h EXCEPT !.modules = f]
  BY DEF Moves
<1>1. /\ h = [modules |-> h.modules, actions |-> h.actions, sequence |-> h.sequence,
              collected |-> h.collected, next |-> h.next, context |-> h.context]
      /\ h.modules \in [DOMAIN Images -> Int]
  BY DEF HeapShape
<1>2. /\ f \in [DOMAIN Images -> Int]
      /\ \A q \in DOMAIN Images : f[q] = h.modules[q] + (IF p = q THEN d ELSE 0)
  BY <1>1
<1> HIDE DEF f
<1>3. g = [modules |-> f, actions |-> h.actions, sequence |-> h.sequence,
           collected |-> h.collected, next |-> h.next, context |-> h.context]
  BY <1>1, <1>e
<1>5. /\ g.modules = f /\ g.actions = h.actions /\ g.sequence = h.sequence
      /\ g.collected = h.collected /\ g.next = h.next /\ g.context = h.context
  BY <1>3
<1>6. HeapShape(g)
  BY <1>2, <1>3, <1>5 DEF HeapShape
<1> QED BY <1>2, <1>5, <1>6

\* The search takes its reference to an image.
LEMMA TakeFact ==
  ASSUME NEW h, Counted(h, NoModule), NEW p \in DOMAIN Images, NEW m, ModuleShape(m, h),
         m.path = p, m.pending = 0
  PROVE  LET g == [h EXCEPT !.modules[p] = @ + 1]
         IN  /\ Counted(g, m) /\ g.sequence = h.sequence /\ g.collected = h.collected
             /\ g.context = h.context
<1> DEFINE g == [h EXCEPT !.modules[p] = @ + 1]
<1>0. HeapShape(h) /\ ModulesInv(h, NoModule) /\ ActionsInv(h, NoModule)
  BY DEF Counted
<1>1. /\ HeapShape(g) /\ g.actions = h.actions /\ g.sequence = h.sequence
      /\ g.collected = h.collected /\ g.context = h.context
      /\ \A q \in DOMAIN Images : g.modules[q] = h.modules[q] + (IF p = q THEN 1 ELSE 0)
  <2> DEFINE d == 1
  <2>1. Moves(g, h, p, d) /\ d \in Int
    BY DEF Moves
  <2> HIDE DEF g, d
  <2>2. /\ HeapShape(g) /\ g.actions = h.actions /\ g.sequence = h.sequence
        /\ g.collected = h.collected /\ g.context = h.context
        /\ \A q \in DOMAIN Images : g.modules[q] = h.modules[q] + (IF p = q THEN d ELSE 0)
    BY <1>0, <2>1, ImageFact
  <2> QED BY <2>2 DEF d
<1> HIDE DEF g
<1>2. ModuleShape(m, g)
  BY <1>1 DEF ModuleShape
<1>3. ModulesInv(g, m)
  <2> SUFFICES ASSUME NEW q \in DOMAIN Images PROVE g.modules[q] = One(p = q) + Cardinality(Live(g, q))
    BY DEF ModulesInv
  <2>1. Live(g, q) = Live(h, q)
    BY <1>1 DEF Live
  <2>2. Cardinality(Live(h, q)) \in Nat
    BY <1>0, LiveFinite
  <2>3. h.modules[q] = Cardinality(Live(h, q))
    BY <1>0, <2>2, AssemblyAssumption DEF ModulesInv, NoModule, One
  <2> QED BY <1>1, <2>1, <2>2, <2>3 DEF One
<1>4. ActionsInv(g, m)
  BY <1>0, <1>1 DEF ActionsInv, Holders, NoModule
<1> QED BY <1>1, <1>2, <1>3, <1>4 DEF Counted, g

\* The search drops its reference to an image.
LEMMA DropFact ==
  ASSUME NEW h, NEW m, Counted(h, m), m.path \in DOMAIN Images, m.pending = 0
  PROVE  LET g == DereferenceModule(h, m.path)
         IN  /\ Counted(g, NoModule) /\ g.sequence = h.sequence /\ g.collected = h.collected
             /\ g.context = h.context
<1> DEFINE g == DereferenceModule(h, m.path)
<1>0. HeapShape(h) /\ ModulesInv(h, m) /\ ActionsInv(h, m)
  BY DEF Counted
<1> DEFINE d == -1
<1>e. Moves(g, h, m.path, d)
  BY <1>0 DEF DereferenceModule, HeapShape, Moves
<1>i. d \in Int
  OBVIOUS
<1> HIDE DEF g, d
<1>1. /\ HeapShape(g) /\ g.actions = h.actions /\ g.sequence = h.sequence
      /\ g.collected = h.collected /\ g.context = h.context
      /\ \A q \in DOMAIN Images : g.modules[q] = h.modules[q] + (IF m.path = q THEN d ELSE 0)
  BY <1>0, <1>e, <1>i, ImageFact
<1>2. ModuleShape(NoModule, g)
  BY DEF ModuleShape, NoModule
<1>3. ModulesInv(g, NoModule)
  <2> SUFFICES ASSUME NEW q \in DOMAIN Images PROVE g.modules[q] = One(None = q) + Cardinality(Live(g, q))
    BY DEF ModulesInv, NoModule
  <2>1. Live(g, q) = Live(h, q)
    BY <1>1 DEF Live
  <2>2. Cardinality(Live(h, q)) \in Nat
    BY <1>0, LiveFinite
  <2>3. h.modules[q] = One(m.path = q) + Cardinality(Live(h, q)) /\ None # q
    BY <1>0, AssemblyAssumption DEF ModulesInv
  <2> QED BY <1>1, <2>1, <2>2, <2>3 DEF One, d
<1>4. ActionsInv(g, NoModule)
  BY <1>0, <1>1 DEF ActionsInv, Holders, NoModule
<1> QED BY <1>1, <1>2, <1>3, <1>4 DEF Counted, g

Creates(g, h, x, p) == g = [h EXCEPT !.actions = Append(@, x), !.modules[p] = @ + 1]

\* A new action: its creator refers to it, and it refers to the image.
LEMMA CreateFact ==
  ASSUME NEW h, NEW m, Counted(h, m), m.path \in DOMAIN Images, m.pending = 0,
         NEW x, ActionShape(x), x.refs = 1, x.path = m.path,
         NEW g, Creates(g, h, x, m.path),
         NEW k, ModuleShape(k, g), k.path = m.path, k.pending = Len(h.actions) + 1
  PROVE  /\ Counted(g, k) /\ g.sequence = h.sequence /\ g.collected = h.collected
         /\ g.context = h.context
<1> DEFINE s == h.actions
           n == Len(s) + 1
           t == Append(s, x)
           f == [h.modules EXCEPT ![m.path] = @ + 1]
<1>0. HeapShape(h) /\ ModulesInv(h, m) /\ ActionsInv(h, m)
  BY DEF Counted
<1>1. /\ h = [modules |-> h.modules, actions |-> h.actions, sequence |-> h.sequence,
              collected |-> h.collected, next |-> h.next, context |-> h.context]
      /\ h.modules \in [DOMAIN Images -> Int]
      /\ s \in Seq(Range(s)) /\ \A a \in DOMAIN s : ActionShape(s[a])
      /\ h.sequence = [refs |-> h.sequence.refs, entries |-> h.sequence.entries]
      /\ h.sequence.entries \in Seq(DOMAIN s) /\ h.collected \in Seq(DOMAIN s)
  BY <1>0 DEF HeapShape
<1>2. s \in Seq(Range(s) \cup {x})
  BY <1>1
<1>3. /\ Len(t) = Len(s) + 1 /\ t[n] = x /\ t \in Seq(Range(s) \cup {x})
      /\ \A i \in 1 .. Len(s) : t[i] = s[i]
  BY <1>2, AppendProperties
<1>4. /\ DOMAIN s = 1 .. Len(s) /\ Len(s) \in Nat /\ n \notin DOMAIN s /\ n # 0
      /\ DOMAIN t = (DOMAIN s) \cup {n} /\ DOMAIN t = 1 .. Len(t) /\ Len(t) \in Nat
  BY <1>1, <1>3
<1>5. /\ f \in [DOMAIN Images -> Int]
      /\ \A q \in DOMAIN Images : f[q] = h.modules[q] + One(m.path = q)
  BY <1>1 DEF One
<1>7. g = [h EXCEPT !.actions = t, !.modules = f]
  BY <1>1 DEF Creates
<1> HIDE DEF f, t
<1>6. g = [modules |-> f, actions |-> t, sequence |-> h.sequence,
           collected |-> h.collected, next |-> h.next, context |-> h.context]
  <2>1. h = [modules |-> h.modules, actions |-> h.actions, sequence |-> h.sequence,
             collected |-> h.collected, next |-> h.next, context |-> h.context]
    BY <1>1
  <2> HIDE DEF s, n
  <2> DEFINE e == [h EXCEPT !.actions = t]
  <2>2. e = [modules |-> h.modules, actions |-> t, sequence |-> h.sequence,
             collected |-> h.collected, next |-> h.next, context |-> h.context]
    BY <2>1
  <2>3. g = [e EXCEPT !.modules = f]
    BY <1>7
  <2> HIDE DEF e
  <2> QED BY <2>2, <2>3
<1>9. /\ g.modules = f /\ g.actions = t /\ g.sequence = h.sequence
      /\ g.collected = h.collected /\ g.next = h.next /\ g.context = h.context
  BY <1>6
<1>10. t \in Seq(Range(t))
  <2>1. t \in [1 .. Len(t) -> Range(s) \cup {x}]
    BY <1>3, <1>4
  <2>2. \A i \in 1 .. Len(t) : t[i] \in Range(t)
    BY <1>4 DEF Range
  <2>3. t \in [1 .. Len(t) -> Range(t)]
    BY <2>1, <2>2
  <2> QED BY <1>4, <2>3
<1>11. \A a \in DOMAIN t : ActionShape(t[a])
  BY <1>1, <1>3, <1>4
<1>12. h.sequence.entries \in Seq(DOMAIN t) /\ h.collected \in Seq(DOMAIN t)
  BY <1>1, <1>4
<1>13. HeapShape(g)
  <2> HIDE DEF n, s
  <2> QED BY <1>1, <1>5, <1>6, <1>9, <1>10, <1>11, <1>12 DEF HeapShape
<1>15. ModulesInv(g, k)
  <2> SUFFICES ASSUME NEW q \in DOMAIN Images PROVE g.modules[q] = One(m.path = q) + Cardinality(Live(g, q))
    BY DEF ModulesInv
  <2>1. Cardinality(Live(g, q)) = Cardinality(Live(h, q)) + One(x.path = q)
    BY <1>0, <1>9, LiveAdd DEF t
  <2>2. Cardinality(Live(h, q)) \in Nat
    BY <1>0, LiveFinite
  <2>3. h.modules[q] = One(m.path = q) + Cardinality(Live(h, q))
    BY <1>0 DEF ModulesInv
  <2> QED BY <1>5, <1>9, <2>1, <2>2, <2>3 DEF One
<1>16. ActionsInv(g, k)
  <2> SUFFICES ASSUME NEW a \in DOMAIN t PROVE t[a].refs = Holders(g, k, a)
    BY <1>9 DEF ActionsInv
  <2>1. Holders(g, k, a) = One(k.pending = a) + Occurrences(a, h.sequence.entries) + Occurrences(a, h.collected)
    BY <1>9 DEF Holders
  <2>2. CASE a = n
    <3>1. \A i \in DOMAIN h.sequence.entries : h.sequence.entries[i] # a
      BY <1>1, <1>4, <2>2
    <3>2. \A i \in DOMAIN h.collected : h.collected[i] # a
      BY <1>1, <1>4, <2>2
    <3>3. Occurrences(a, h.sequence.entries) = 0 /\ Occurrences(a, h.collected) = 0
      BY <1>1, <3>1, <3>2, AtFinite
    <3> QED BY <1>3, <2>1, <2>2, <3>3 DEF One
  <2>3. CASE a \in DOMAIN s
    <3>1. s[a].refs = Holders(h, m, a) /\ t[a] = s[a] /\ a # n /\ a # 0
      BY <1>0, <1>3, <1>4, <2>3 DEF ActionsInv
    <3>2. Holders(h, m, a) = One(m.pending = a) + Occurrences(a, h.sequence.entries) + Occurrences(a, h.collected)
      BY DEF Holders
    <3> QED BY <2>1, <3>1, <3>2 DEF One
  <2> QED BY <1>4, <2>2, <2>3
<1> QED BY <1>9, <1>13, <1>15, <1>16 DEF Counted

-----------------------------------------------------------------------------
(***************************************************************************)
(* One lemma per action.                                                   *)
(***************************************************************************)

\* The command line.
LEMMA MainStep ==
  ASSUME HeldInv, NEW argv \in CommandLines, Main(argv)
  PROVE  HeldInv'
<1>1. Counted(heap, module)'
  BY DEF HeldInv, Main
<1>2. PhaseInv'
  <2>1. phase = "start" /\ PhaseInv /\ UNCHANGED <<module, heap>> /\ phase' \in {"exit", "assemble"}
    BY DEF HeldInv, Main
  <2>2. phase' = "assemble" => CheckOptions(options')
    BY DEF Main
  <2>3. phase' = "assemble" /\ OwnExecutable' => IsType(options.input, "exe")'
    BY <2>2 DEF CheckOptions, OwnExecutable, IsType
  <2> QED BY <2>1, <2>3 DEF PhaseInv, Phases
<1> QED BY <1>1, <1>2 DEF HeldInv

\* Steps that leave the references alone.
LEMMA FrameSteps ==
  ASSUME HeldInv,
         \/ CreateSequenceFails \/ LeaveDirectory \/ CreateActionFails \/ SearchEnds
         \/ CreateContextFails \/ CollectEnds \/ CollectFails \/ RunEnds \/ ReleaseEnds
  PROVE  HeldInv'
<1>1. UNCHANGED <<heap, module, options>>
  BY DEF CreateSequenceFails, LeaveDirectory, CreateActionFails, SearchEnds, CreateContextFails,
         CollectEnds, CollectFails, RunEnds, ReleaseEnds
<1>2. Counted(heap, module)'
  BY <1>1 DEF HeldInv
<1>3. PhaseInv'
  <2>1. PhaseInv
    BY DEF HeldInv
  <2>2. CASE CreateSequenceFails
    BY <1>1, <2>1, <2>2 DEF CreateSequenceFails, PhaseInv, Phases
  <2>3. CASE LeaveDirectory \/ CreateActionFails
    BY <1>1, <2>1, <2>3 DEF LeaveDirectory, CreateActionFails, PhaseInv, Phases, OwnExecutable
  <2>4. CASE SearchEnds
    <3>1. heap.actions = <<>> => heap.sequence.entries = <<>>
      <4> SUFFICES ASSUME heap.actions = <<>> PROVE heap.sequence.entries = <<>>
        OBVIOUS
      <4>1. heap.sequence.entries \in Seq({})
        BY DEF HeldInv, Counted, HeapShape
      <4> QED BY <4>1
    <3>2. /\ phase = "search" /\ phase' \in {"delete", "exit", "context"}
          /\ phase' = "exit" => heap.actions = <<>>
      BY <2>4 DEF SearchEnds
    <3> QED BY <1>1, <2>1, <3>1, <3>2 DEF PhaseInv, Phases
  <2>5. CASE CreateContextFails
    BY <1>1, <2>1, <2>5 DEF CreateContextFails, PhaseInv, Phases
  <2>6. CASE CollectEnds \/ RunEnds
    BY <1>1, <2>1, <2>6 DEF CollectEnds, RunEnds, PhaseInv, Phases
  <2>7. CASE CollectFails \/ ReleaseEnds
    BY <1>1, <2>1, <2>7 DEF CollectFails, ReleaseEnds, PhaseInv, Phases
  <2> QED BY <2>2, <2>3, <2>4, <2>5, <2>6, <2>7
<1> QED BY <1>2, <1>3 DEF HeldInv

\* A module is loaded, or cannot be.
LEMMA LoadFact ==
  ASSUME NEW h, Counted(h, NoModule), module = NoModule, h.collected = <<>>, h.context = NoContext,
         NEW p \in DOMAIN Images, NEW searched, LoadModule(h, p, searched)
  PROVE  HeldInv'
<1>1. CASE ModuleLoads(p)
  <2>1. /\ module' = [NoModule EXCEPT !.path = p, !.fixtures = LoadFixtures(p)]
        /\ heap' = [h EXCEPT !.modules[p] = @ + 1]
        /\ phase' = "module"
    BY <1>1 DEF LoadModule
  <2>2. /\ module' = [path |-> p, fixtures |-> LoadFixtures(p), next |-> 1, pending |-> 0]
    BY <2>1 DEF NoModule
  <2>3. ModuleShape(module', h) /\ module'.path = p /\ module'.pending = 0
    BY <2>2 DEF ModuleShape
  <2>4. /\ Counted(heap', module') /\ heap'.sequence = h.sequence /\ heap'.collected = h.collected
        /\ heap'.context = h.context
    <3> DEFINE m == module'
               g == [h EXCEPT !.modules[p] = @ + 1]
    <3>1. ModuleShape(m, h) /\ m.path = p /\ m.pending = 0
      BY <2>3
    <3> HIDE DEF m
    <3>2. /\ Counted(g, m) /\ g.sequence = h.sequence /\ g.collected = h.collected
          /\ g.context = h.context
      BY <3>1, TakeFact
    <3> QED BY <2>1, <3>2 DEF m
  <2>5. PhaseInv'
    BY <2>1, <2>3, <2>4 DEF PhaseInv, Phases
  <2> QED BY <2>4, <2>5 DEF HeldInv
<1>2. CASE ~ ModuleLoads(p)
  <2>1. phase' = "search" /\ heap' = h /\ module' = NoModule
    BY <1>2 DEF LoadModule
  <2>2. PhaseInv'
    BY <2>1 DEF PhaseInv, Phases
  <2> QED BY <2>1, <2>2 DEF HeldInv
<1> QED BY <1>1, <1>2

\* A file is visited: only images of the right type are loaded.
LEMMA VisitFact ==
  ASSUME NEW h, Counted(h, NoModule), module = NoModule, h.collected = <<>>, h.context = NoContext,
         NEW p, NEW searched,
         VisitFile(h, p, searched) \/ (phase' = "search" /\ heap' = h /\ UNCHANGED module)
  PROVE  HeldInv'
<1>1. CASE VisitFile(h, p, searched) /\ IsModule(options, p)
  <2>1. p \in DOMAIN Images /\ LoadModule(h, p, searched)
    BY <1>1 DEF VisitFile, IsModule, IsType
  <2> QED BY <2>1, LoadFact
<1>2. CASE phase' = "search" /\ heap' = h /\ UNCHANGED module
  <2>1. PhaseInv'
    BY <1>2 DEF PhaseInv, Phases
  <2> QED BY <1>2, <2>1 DEF HeldInv
<1> QED BY <1>1, <1>2 DEF VisitFile

\* An empty sequence is created.
LEMMA SequenceFact ==
  ASSUME HeldInv, phase = "assemble"
  PROVE  LET h == CreateSequence(heap)
         IN  /\ Counted(h, NoModule) /\ module = NoModule /\ h.sequence.entries = <<>>
             /\ h.collected = <<>> /\ h.context = NoContext
<1> DEFINE h == CreateSequence(heap)
<1>1. /\ Counted(heap, module) /\ HeapShape(heap) /\ module = NoModule /\ heap.sequence.entries = <<>>
      /\ heap.collected = <<>> /\ heap.context = NoContext /\ ModuleShape(module, heap)
  BY DEF HeldInv, PhaseInv, Counted
<1>2. /\ SameCounts(h, heap) /\ h.sequence.entries = <<>> /\ h.collected = heap.collected
      /\ h.context = heap.context
  <2> DEFINE q == [refs |-> 1, entries |-> <<>>]
  <2>1. SequenceShape(q, DOMAIN heap.actions) /\ q.entries = <<>>
    BY DEF SequenceShape
  <2>2. h = [heap EXCEPT !.sequence = q]
    BY DEF CreateSequence
  <2> HIDE DEF q
  <2>3. Rebuilt(h, heap, q, heap.next, heap.context)
    BY <1>1, <2>2 DEF HeapShape, Rebuilt
  <2> HIDE DEF h
  <2> QED BY <1>1, <2>1, <2>3, RebuildFact
<1> HIDE DEF h
<1>3. \A a : Holders(h, module, a) = Holders(heap, module, a)
  BY <1>1, <1>2 DEF Holders
<1>4. Counted(h, module)
  BY <1>1, <1>2, <1>3, SameFact
<1> QED BY <1>1, <1>2, <1>4 DEF h

\* The search begins: with a file, a directory or nothing.
LEMMA StartSearchStep ==
  ASSUME HeldInv, StartSearch
  PROVE  HeldInv'
<1> DEFINE h == CreateSequence(heap)
<1>1. phase = "assemble" /\ Search(h, options.input)
  BY DEF StartSearch
<1>2. /\ Counted(h, NoModule) /\ module = NoModule /\ h.collected = <<>> /\ h.context = NoContext
  BY <1>1, SequenceFact
<1> HIDE DEF h
<1>3. \/ VisitFile(h, options.input, FALSE)
      \/ phase' = "search" /\ heap' = h /\ UNCHANGED module
  <2>1. CASE options.input \in DOMAIN Images
    BY <1>1, <2>1 DEF Search
  <2>2. CASE options.input \notin DOMAIN Images /\ options.input \in DOMAIN Tree
    BY <1>1, <2>2 DEF Search
  <2>3. CASE options.input \notin DOMAIN Images /\ options.input \notin DOMAIN Tree
    BY <1>1, <2>3 DEF Search
  <2> QED BY <2>1, <2>2, <2>3
<1> QED BY <1>2, <1>3, VisitFact

\* The program's own image takes the place of a search.
LEMMA UseOwnExecutableStep ==
  ASSUME HeldInv, UseOwnExecutable
  PROVE  HeldInv'
<1> DEFINE h == CreateSequence(heap)
<1>1. phase = "assemble" /\ OwnExecutable
  BY DEF UseOwnExecutable
<1>2. /\ Counted(h, NoModule) /\ module = NoModule /\ h.collected = <<>> /\ h.context = NoContext
  BY <1>1, SequenceFact
<1>3. options.input \in DOMAIN Images
  BY <1>1 DEF HeldInv, PhaseInv, IsType
<1>4. CASE ModuleLoads(options.input)
  <2>1. LoadModule(h, options.input, FALSE)
    BY <1>4 DEF UseOwnExecutable
  <2> HIDE DEF h
  <2> QED BY <1>2, <1>3, <2>1, LoadFact
<1>5. CASE ~ ModuleLoads(options.input)
  <2>1. phase' = "exit" /\ UNCHANGED <<module, heap>>
    BY <1>5 DEF UseOwnExecutable
  <2>2. Counted(heap, module)'
    BY <2>1 DEF HeldInv
  <2>3. PhaseInv'
    BY <1>1, <2>1 DEF HeldInv, PhaseInv, Phases
  <2> QED BY <2>2, <2>3 DEF HeldInv
<1> QED BY <1>4, <1>5

\* An entry of a directory.
LEMMA NextEntryStep ==
  ASSUME HeldInv, NextEntry
  PROVE  HeldInv'
<1>1. /\ phase = "search" /\ Counted(heap, NoModule) /\ module = NoModule /\ heap.collected = <<>>
      /\ heap.context = NoContext
  BY DEF HeldInv, PhaseInv, NextEntry
<1> DEFINE p == Tree[Here.dir][Here.next].path
<1>2. \/ VisitFile(heap, p, TRUE)
      \/ phase' = "search" /\ heap' = heap /\ UNCHANGED module
  BY <1>1 DEF NextEntry
<1> HIDE DEF p
<1> QED BY <1>1, <1>2, VisitFact

\* A fixture that is not wanted.
LEMMA SkipFixtureStep ==
  ASSUME HeldInv, SkipFixture
  PROVE  HeldInv'
<1>1. /\ Counted(heap, module) /\ ModuleShape(module, heap) /\ PhaseInv /\ HeapShape(heap)
  BY DEF HeldInv, Counted
<1>2. /\ phase = "module" /\ module' = [module EXCEPT !.next = @ + 1] /\ UNCHANGED <<phase, heap>>
  BY DEF SkipFixture, Skip
<1>3. /\ module' = [path |-> module.path, fixtures |-> module.fixtures, next |-> module.next + 1,
                    pending |-> module.pending]
  BY <1>1, <1>2 DEF ModuleShape
<1>4. /\ ModuleShape(module', heap) /\ module'.path = module.path /\ module'.pending = module.pending
  BY <1>1, <1>3 DEF ModuleShape
<1>5. SameCounts(heap, heap) /\ \A a : Holders(heap, module', a) = Holders(heap, module, a)
  BY <1>1, <1>4 DEF SameCounts, Holders
<1>6. Counted(heap, module')
  BY <1>1, <1>4, <1>5, SameFact
<1>7. PhaseInv'
  BY <1>1, <1>2, <1>4 DEF PhaseInv
<1> QED BY <1>2, <1>6, <1>7 DEF HeldInv

\* An action is created for a fixture.
LEMMA CreateActionStep ==
  ASSUME HeldInv, CreateAction
  PROVE  HeldInv'
<1> DEFINE x == NewAction(Current)
           n == Len(heap.actions) + 1
<1>1. /\ Counted(heap, module) /\ ModuleShape(module, heap) /\ PhaseInv /\ HeapShape(heap)
  BY DEF HeldInv, Counted
<1>2. /\ phase = "module" /\ module.pending = 0 /\ module' = [module EXCEPT !.pending = n]
      /\ heap' = [heap EXCEPT !.actions = Append(@, x), !.modules[module.path] = @ + 1]
      /\ UNCHANGED phase
  BY DEF CreateAction
<1>3. module.path \in DOMAIN Images
  BY <1>1, <1>2 DEF PhaseInv
<1>4. ActionShape(x) /\ x.refs = 1 /\ x.path = module.path
  <2>1. x = [path |-> module.path, fixture |-> Current.name, refs |-> 1,
             testCase |-> IF "-d" \in options.flags THEN 0 ELSE Filter(Current).testCase]
    BY DEF NewAction
  <2> HIDE DEF x
  <2> DEFINE c == IF "-d" \in options.flags THEN 0 ELSE Filter(Current).testCase
             f == Current.name
  <2>2. x = [path |-> module.path, fixture |-> f, refs |-> 1, testCase |-> c]
    BY <2>1
  <2> HIDE DEF c, f
  <2> QED BY <1>3, <2>2 DEF ActionShape
<1> HIDE DEF x
<1>5. module' = [path |-> module.path, fixtures |-> module.fixtures, next |-> module.next, pending |-> n]
  BY <1>1, <1>2 DEF ModuleShape
<1> DEFINE k == module'
           g == heap'
<1>6. n \in DOMAIN g.actions
  <2>1. g.actions = Append(heap.actions, x)
    BY <1>1, <1>2 DEF HeapShape
  <2>2. heap.actions \in Seq(Range(heap.actions) \cup {x})
    BY <1>1 DEF HeapShape
  <2>3. /\ Len(Append(heap.actions, x)) = n /\ n \in Nat /\ n # 0
        /\ Append(heap.actions, x) \in Seq(Range(heap.actions) \cup {x})
    BY <2>2, AppendProperties
  <2> HIDE DEF g
  <2> QED BY <2>1, <2>3
<1>7. ModuleShape(k, g) /\ k.path = module.path /\ k.pending = n
  <2> HIDE DEF n
  <2> QED BY <1>5, <1>6 DEF ModuleShape
<1>8. Creates(g, heap, x, module.path)
  BY <1>2 DEF Creates
<1>9. /\ Counted(g, k) /\ g.sequence = heap.sequence /\ g.collected = heap.collected
      /\ g.context = heap.context
  <2> HIDE DEF k, g
  <2> QED BY <1>1, <1>2, <1>3, <1>4, <1>7, <1>8, CreateFact, SMTT(30)
<1>10. PhaseInv'
  BY <1>1, <1>2, <1>7, <1>9 DEF PhaseInv
<1> QED BY <1>9, <1>10 DEF HeldInv

\* The creator's reference becomes one of the sequence.
LEMMA AddEntryStep ==
  ASSUME HeldInv, AddEntrySequenceAction
  PROVE  HeldInv'
<1> DEFINE a == module.pending
           r == ReferenceAction(heap, a)
           s == Append(heap.sequence.entries, a)
           g == [r EXCEPT !.sequence.entries = s]
           m == [path |-> module.path, fixtures |-> module.fixtures, next |-> module.next + 1,
                 pending |-> 0]
<1>1. /\ Counted(heap, module) /\ ModuleShape(module, heap) /\ PhaseInv /\ HeapShape(heap)
      /\ ActionsInv(heap, module)
  BY DEF HeldInv, Counted
<1>2. /\ phase = "module" /\ a # 0 /\ module' = [Skip EXCEPT !.pending = 0] /\ UNCHANGED phase
      /\ heap' = DereferenceAction([r EXCEPT !.sequence.entries = Append(@, a)], a)
  BY DEF AddEntrySequenceAction
<1>3. a \in DOMAIN heap.actions
  BY <1>1, <1>2 DEF ModuleShape
<1>4. module' = m
  <2>1. Skip = [path |-> module.path, fixtures |-> module.fixtures, next |-> module.next + 1,
                pending |-> module.pending]
    BY <1>1 DEF ModuleShape, Skip
  <2> QED BY <1>2, <2>1
<1>5. /\ Counts(r, heap, a, 1) /\ HeapShape(r) /\ DOMAIN r.actions = DOMAIN heap.actions
      /\ r.sequence = heap.sequence /\ r.collected = heap.collected /\ r.context = heap.context
  BY <1>1, <1>3, ReferenceFact DEF Counts
<1>6. heap.sequence.entries \in Seq(DOMAIN heap.actions) /\ s \in Seq(DOMAIN heap.actions)
  BY <1>1, <1>3, AppendProperties DEF HeapShape
<1>7. heap' = DereferenceAction(g, a)
  BY <1>2, <1>5
<1>8. /\ SameCounts(g, r) /\ g.sequence.entries = s /\ g.collected = r.collected
      /\ g.context = r.context
  <2> HIDE DEF r, s
  <2>1. s \in Seq(DOMAIN r.actions)
    BY <1>5, <1>6
  <2> QED BY <1>5, <2>1, EditHolders, ZenonT(30)
<1> HIDE DEF g, m
<1>9. \A b \in DOMAIN heap.actions : Holders(g, module, b) = Holders(heap, module, b) + One(a = b)
  <2> SUFFICES ASSUME NEW b \in DOMAIN heap.actions
               PROVE  Holders(g, module, b) = Holders(heap, module, b) + One(a = b)
    OBVIOUS
  <2>1. Occurrences(b, s) = Occurrences(b, heap.sequence.entries) + One(a = b)
    BY <1>3, <1>6, OccurrencesAppend
  <2>2. /\ Occurrences(b, heap.sequence.entries) \in Nat /\ Occurrences(b, heap.collected) \in Nat
    BY <1>1, HoldersType
  <2> HIDE DEF a, r, s
  <2> QED BY <1>5, <1>8, <2>1, <2>2 DEF Holders, One
<1>10. heap.actions[a].refs > 0
  <2>1. /\ Occurrences(a, heap.sequence.entries) \in Nat /\ Occurrences(a, heap.collected) \in Nat
    BY <1>1, HoldersType
  <2>2. heap.actions[a].refs = Holders(heap, module, a)
    BY <1>1, <1>3 DEF ActionsInv
  <2> QED BY <2>1, <2>2 DEF Holders, One
<1>11. Counted(g, module)
  BY <1>1, <1>3, <1>8, <1>9, <1>10, AcquireFact
<1>12. DOMAIN g.actions = DOMAIN heap.actions /\ HeapShape(g) /\ SameCounts(g, g)
  BY <1>5, <1>8 DEF SameCounts
<1>13. ModuleShape(m, g) /\ m.path = module.path /\ m.pending = 0
  BY DEF m, ModuleShape
<1>14. \A b \in DOMAIN g.actions : Holders(g, module, b) = Holders(g, m, b) + One(a = b)
  <2> SUFFICES ASSUME NEW b \in DOMAIN g.actions
               PROVE  Holders(g, module, b) = Holders(g, m, b) + One(a = b)
    OBVIOUS
  <2>1. /\ Occurrences(b, g.sequence.entries) \in Nat /\ Occurrences(b, g.collected) \in Nat
    BY <1>12, HoldersType
  <2>2. b # 0
    BY <1>1, <1>12 DEF HeapShape
  <2> QED BY <1>13, <2>1, <2>2 DEF Holders, One
<1>15. Counted(DereferenceAction(g, a), m)
  <2> HIDE DEF a
  <2> QED BY <1>3, <1>11, <1>12, <1>13, <1>14, ReleaseFact
<1>16. Counts(DereferenceAction(g, a), g, a, -1)
  BY <1>3, <1>12, DereferenceFact
<1>17. heap'.collected = heap.collected /\ heap'.context = heap.context
  BY <1>5, <1>7, <1>8, <1>16 DEF Counts
<1>18. PhaseInv'
  BY <1>1, <1>2, <1>4, <1>13, <1>17 DEF PhaseInv
<1> QED BY <1>4, <1>7, <1>15, <1>18 DEF HeldInv

\* The entry cannot be added: the action goes, and its reference to the image.
LEMMA AddEntryFailsStep ==
  ASSUME HeldInv, AddEntryFails
  PROVE  HeldInv'
<1> DEFINE a == module.pending
           m == [path |-> module.path, fixtures |-> module.fixtures, next |-> module.next,
                 pending |-> 0]
<1>1. /\ Counted(heap, module) /\ ModuleShape(module, heap) /\ PhaseInv /\ HeapShape(heap)
  BY DEF HeldInv, Counted
<1>2. /\ phase = "module" /\ a # 0 /\ module' = [module EXCEPT !.pending = 0] /\ UNCHANGED phase
      /\ heap' = DereferenceAction(heap, a)
  BY DEF AddEntryFails
<1>3. a \in DOMAIN heap.actions
  BY <1>1, <1>2 DEF ModuleShape
<1>4. module' = m
  BY <1>1, <1>2 DEF ModuleShape
<1> HIDE DEF m
<1>5. ModuleShape(m, heap) /\ m.path = module.path /\ m.pending = 0 /\ SameCounts(heap, heap)
  BY <1>1 DEF m, ModuleShape, SameCounts
<1>6. \A b \in DOMAIN heap.actions : Holders(heap, module, b) = Holders(heap, m, b) + One(a = b)
  <2> SUFFICES ASSUME NEW b \in DOMAIN heap.actions
               PROVE  Holders(heap, module, b) = Holders(heap, m, b) + One(a = b)
    OBVIOUS
  <2>1. /\ Occurrences(b, heap.sequence.entries) \in Nat /\ Occurrences(b, heap.collected) \in Nat
    BY <1>1, HoldersType
  <2>2. b # 0
    BY <1>1 DEF HeapShape
  <2> QED BY <1>5, <2>1, <2>2 DEF Holders, One
<1>7. Counted(DereferenceAction(heap, a), m)
  <2> HIDE DEF a
  <2> QED BY <1>1, <1>3, <1>5, <1>6, ReleaseFact
<1>8. Counts(DereferenceAction(heap, a), heap, a, -1)
  BY <1>1, <1>3, DereferenceFact
<1>9. heap'.collected = heap.collected /\ heap'.context = heap.context
  BY <1>2, <1>8 DEF Counts
<1>10. PhaseInv'
  BY <1>1, <1>2, <1>4, <1>5, <1>9 DEF PhaseInv
<1> QED BY <1>2, <1>4, <1>7, <1>10 DEF HeldInv

\* The search drops its reference to the module.
LEMMA ModuleEndsStep ==
  ASSUME HeldInv, ModuleEnds
  PROVE  HeldInv'
<1> DEFINE g == DereferenceModule(heap, module.path)
<1>1. Counted(heap, module) /\ PhaseInv
  BY DEF HeldInv
<1>2. /\ phase = "module" /\ module.pending = 0 /\ heap' = g /\ module' = NoModule /\ phase' = "search"
  BY DEF ModuleEnds
<1>3. module.path \in DOMAIN Images
  BY <1>1, <1>2 DEF PhaseInv
<1>4. /\ Counted(g, NoModule) /\ g.sequence = heap.sequence /\ g.collected = heap.collected
      /\ g.context = heap.context
  BY <1>1, <1>2, <1>3, DropFact
<1> HIDE DEF g
<1>5. PhaseInv'
  BY <1>1, <1>2, <1>4 DEF PhaseInv, Phases
<1> QED BY <1>2, <1>4, <1>5 DEF HeldInv

\* The context comes and goes, and the run goes on.
LEMMA ContextSteps ==
  ASSUME HeldInv, CreateContext \/ RunAction \/ FinishRun \/ DeleteSequence
  PROVE  HeldInv'
<1>1. /\ Counted(heap, module) /\ ModuleShape(module, heap) /\ PhaseInv /\ HeapShape(heap)
  BY DEF HeldInv, Counted
<1>2. ASSUME SameCounts(heap', heap), heap'.sequence.entries = heap.sequence.entries,
             heap'.collected = heap.collected, UNCHANGED module
      PROVE  Counted(heap, module)'
  <2> DEFINE g == heap'
  <2>1. \A a : Holders(g, module, a) = Holders(heap, module, a)
    BY <1>2 DEF Holders
  <2>2. SameCounts(g, heap)
    BY <1>2
  <2> HIDE DEF g
  <2>3. Counted(g, module)
    BY <1>1, <2>1, <2>2, SameFact
  <2> QED BY <1>2, <2>3 DEF g
<1>3. CASE CreateContext
  <2> DEFINE v == [inner |-> 1, sink |-> 1, proxy |-> 1]
  <2>1. phase = "context" /\ heap' = [heap EXCEPT !.context = v] /\ phase' = "collect" /\ UNCHANGED module
    BY <1>3 DEF CreateContext
  <2>2. /\ SameCounts(heap', heap) /\ heap'.sequence = heap.sequence
        /\ heap'.collected = heap.collected /\ heap'.context = v
    <3> HIDE DEF v
    <3> QED BY <1>1, <2>1, EditFact
  <2>3. PhaseInv'
    BY <1>1, <2>1, <2>2 DEF PhaseInv, Phases
  <2> QED BY <1>2, <2>1, <2>2, <2>3 DEF HeldInv
<1>4. CASE RunAction
  <2>1. /\ phase = "run" /\ UNCHANGED <<phase, module, options>>
        /\ heap' = heap \/ heap' = [heap EXCEPT !.next = heap.next + 1]
    BY <1>4 DEF RunAction
  <2>2. SameCounts(heap, heap)
    BY <1>1 DEF SameCounts
  <2>3. /\ SameCounts(heap', heap) /\ heap'.sequence = heap.sequence
        /\ heap'.collected = heap.collected /\ heap'.context = heap.context
    <3> DEFINE v == heap.next + 1
               h == [heap EXCEPT !.next = v]
    <3> HIDE DEF v
    <3>1. /\ SameCounts(h, heap) /\ h.sequence = heap.sequence /\ h.collected = heap.collected
          /\ h.context = heap.context
      BY <1>1, EditFact
    <3>2. heap' = heap \/ heap' = h
      BY <2>1 DEF v
    <3> HIDE DEF h
    <3> QED BY <2>2, <3>1, <3>2
  <2>4. PhaseInv'
    BY <1>1, <2>1, <2>3 DEF PhaseInv
  <2> QED BY <1>2, <2>1, <2>3, <2>4 DEF HeldInv
<1>5. CASE FinishRun
  <2>1. /\ phase = "statistics" /\ heap' = [heap EXCEPT !.context = NoContext] /\ phase' = "delete"
        /\ UNCHANGED module
    BY <1>5 DEF FinishRun
  <2>2. /\ SameCounts(heap', heap) /\ heap'.sequence = heap.sequence
        /\ heap'.collected = heap.collected /\ heap'.context = NoContext
    BY <1>1, <2>1, EditFact
  <2>3. PhaseInv'
    BY <1>1, <2>1, <2>2 DEF PhaseInv, Phases
  <2> QED BY <1>2, <2>1, <2>2, <2>3 DEF HeldInv
<1>6. CASE DeleteSequence
  <2>1. /\ phase = "delete" /\ heap.sequence.entries = <<>> /\ heap' = [heap EXCEPT !.sequence.refs = 0]
        /\ phase' = "exit" /\ UNCHANGED module
    BY <1>6 DEF DeleteSequence
  <2>2. /\ SameCounts(heap', heap) /\ heap'.sequence.entries = heap.sequence.entries
        /\ heap'.collected = heap.collected /\ heap'.context = heap.context
    BY <1>1, <2>1, EditFact
  <2>3. PhaseInv'
    BY <1>1, <2>1, <2>2 DEF PhaseInv, Phases
  <2> QED BY <1>2, <2>1, <2>2, <2>3 DEF HeldInv
<1> QED BY <1>3, <1>4, <1>5, <1>6

\* The run takes a reference to the next action of the sequence.
LEMMA CollectActionStep ==
  ASSUME HeldInv, CollectAction
  PROVE  HeldInv'
<1> DEFINE i == Len(heap.collected) + 1
           a == heap.sequence.entries[i]
           r == ReferenceAction(heap, a)
           s == Append(heap.collected, a)
           g == [r EXCEPT !.collected = s]
<1>1. /\ Counted(heap, module) /\ PhaseInv /\ HeapShape(heap) /\ ActionsInv(heap, module)
  BY DEF HeldInv, Counted
<1>2. /\ phase = "collect" /\ Len(heap.collected) < Len(heap.sequence.entries)
      /\ heap' = [r EXCEPT !.collected = Append(@, a)] /\ UNCHANGED <<phase, module, options>>
  BY DEF CollectAction
<1>3. /\ heap.sequence.entries \in Seq(DOMAIN heap.actions) /\ heap.collected \in Seq(DOMAIN heap.actions)
  BY <1>1 DEF HeapShape
<1>4. i \in DOMAIN heap.sequence.entries /\ a \in DOMAIN heap.actions
  BY <1>2, <1>3
<1> HIDE DEF i, a
<1>5. /\ Counts(r, heap, a, 1) /\ HeapShape(r) /\ DOMAIN r.actions = DOMAIN heap.actions
      /\ r.sequence = heap.sequence /\ r.collected = heap.collected /\ r.context = heap.context
  BY <1>1, <1>4, ReferenceFact DEF Counts
<1>6. heap' = g
  BY <1>2, <1>5
<1>7. s \in Seq(DOMAIN r.actions)
  BY <1>3, <1>4, <1>5, AppendProperties
<1>8. /\ SameCounts(g, r) /\ g.sequence = r.sequence /\ g.collected = s /\ g.context = r.context
  <2> HIDE DEF r, s
  <2> QED BY <1>5, <1>7, EditHolders, ZenonT(30)
<1> HIDE DEF g
<1>9. \A b \in DOMAIN heap.actions : Holders(g, module, b) = Holders(heap, module, b) + One(a = b)
  <2> SUFFICES ASSUME NEW b \in DOMAIN heap.actions
               PROVE  Holders(g, module, b) = Holders(heap, module, b) + One(a = b)
    OBVIOUS
  <2>1. Occurrences(b, s) = Occurrences(b, heap.collected) + One(a = b)
    BY <1>3, <1>4, OccurrencesAppend
  <2>2. /\ Occurrences(b, heap.sequence.entries) \in Nat /\ Occurrences(b, heap.collected) \in Nat
    BY <1>1, HoldersType
  <2> HIDE DEF r, s
  <2> QED BY <1>5, <1>8, <2>1, <2>2 DEF Holders, One
<1>10. heap.actions[a].refs > 0
  <2>1. /\ Occurrences(a, heap.collected) \in Nat /\ One(module.pending = a) \in Nat
    BY <1>1, HoldersType
  <2>2. IsFiniteSet(At(a, heap.sequence.entries)) /\ Occurrences(a, heap.sequence.entries) = Cardinality(At(a, heap.sequence.entries))
    BY <1>3, AtFinite
  <2>3. i \in At(a, heap.sequence.entries)
    BY <1>4 DEF At, a
  <2>4. Cardinality(At(a, heap.sequence.entries)) \in Nat /\ Cardinality(At(a, heap.sequence.entries)) # 0
    BY <2>2, <2>3, FS_CardinalityType, FS_EmptySet
  <2>5. heap.actions[a].refs = Holders(heap, module, a)
    BY <1>1, <1>4 DEF ActionsInv
  <2> QED BY <2>1, <2>2, <2>4, <2>5 DEF Holders
<1>11. Counted(g, module)
  BY <1>1, <1>4, <1>8, <1>9, <1>10, AcquireFact
<1>12. PhaseInv'
  <2> HIDE DEF r, s
  <2> QED BY <1>1, <1>2, <1>5, <1>6, <1>8 DEF PhaseInv
<1> QED BY <1>2, <1>6, <1>11, <1>12 DEF HeldInv

\* The run drops its first reference.
LEMMA ReleaseActionStep ==
  ASSUME HeldInv, ReleaseAction
  PROVE  HeldInv'
<1> DEFINE s == heap.collected
           a == Head(s)
           t == Tail(s)
           k == [heap EXCEPT !.collected = t]
           g == DereferenceAction(k, a)
<1>1. /\ Counted(heap, module) /\ PhaseInv /\ HeapShape(heap) /\ ModuleShape(module, heap)
  BY DEF HeldInv, Counted
<1>2. phase = "release" /\ s # <<>> /\ heap' = g /\ UNCHANGED <<phase, module, options>>
  BY DEF ReleaseAction
<1>3. s \in Seq(DOMAIN heap.actions)
  BY <1>1 DEF HeapShape
<1>4. /\ t \in Seq(DOMAIN heap.actions) /\ a \in DOMAIN heap.actions
      /\ \A b : Occurrences(b, s) = Occurrences(b, t) + One(a = b)
  <2>0. s # <<>>
    BY <1>2
  <2> DEFINE S == DOMAIN heap.actions
  <2>1. s \in Seq(S)
    BY <1>3
  <2> HIDE DEF s, a, t, k, g, S
  <2>2. Tail(s) \in Seq(S) /\ Head(s) \in S
    BY <2>0, <2>1, OccurrencesTail
  <2>3. ASSUME NEW b PROVE Occurrences(b, s) = Occurrences(b, Tail(s)) + One(Head(s) = b)
    BY <2>0, <2>1, OccurrencesTail
  <2> QED BY <2>2, <2>3 DEF a, t, S
<1> HIDE DEF a, t
<1>5. /\ SameCounts(k, heap) /\ k.sequence = heap.sequence /\ k.collected = t /\ k.context = heap.context
  BY <1>1, <1>4, EditHolders
<1> HIDE DEF k
<1>6. \A b \in DOMAIN heap.actions : Holders(heap, module, b) = Holders(k, module, b) + One(a = b)
  <2> SUFFICES ASSUME NEW b \in DOMAIN heap.actions
               PROVE  Holders(heap, module, b) = Holders(k, module, b) + One(a = b)
    OBVIOUS
  <2>1. /\ Occurrences(b, heap.sequence.entries) \in Nat /\ Occurrences(b, t) \in Nat
    BY <1>1, <1>4, HoldersType, AtFinite
  <2> QED BY <1>4, <1>5, <2>1 DEF Holders, One
<1>7. Counted(g, module)
  BY <1>1, <1>4, <1>5, <1>6, ReleaseFact
<1>8. Counts(g, k, a, -1)
  BY <1>4, <1>5, DereferenceFact DEF SameCounts
<1>9. g.sequence = heap.sequence /\ g.context = heap.context
  BY <1>5, <1>8 DEF Counts
<1> HIDE DEF g
<1>10. PhaseInv'
  BY <1>1, <1>2, <1>9 DEF PhaseInv
<1> QED BY <1>2, <1>7, <1>10 DEF HeldInv

\* The sequence drops its first entry.
LEMMA DeleteEntryStep ==
  ASSUME HeldInv, DeleteEntry
  PROVE  HeldInv'
<1> DEFINE s == heap.sequence.entries
           a == Head(s)
           t == Tail(s)
           k == [heap EXCEPT !.sequence.entries = t]
           g == DereferenceAction(k, a)
<1>1. /\ Counted(heap, module) /\ PhaseInv /\ HeapShape(heap) /\ ModuleShape(module, heap)
  BY DEF HeldInv, Counted
<1>2. phase = "delete" /\ s # <<>> /\ heap' = g /\ UNCHANGED <<phase, module, options>>
  BY DEF DeleteEntry
<1>3. s \in Seq(DOMAIN heap.actions)
  BY <1>1 DEF HeapShape
<1>4. /\ t \in Seq(DOMAIN heap.actions) /\ a \in DOMAIN heap.actions
      /\ \A b : Occurrences(b, s) = Occurrences(b, t) + One(a = b)
  <2>0. s # <<>>
    BY <1>2
  <2> DEFINE S == DOMAIN heap.actions
  <2>1. s \in Seq(S)
    BY <1>3
  <2> HIDE DEF s, a, t, k, g, S
  <2>2. Tail(s) \in Seq(S) /\ Head(s) \in S
    BY <2>0, <2>1, OccurrencesTail
  <2>3. ASSUME NEW b PROVE Occurrences(b, s) = Occurrences(b, Tail(s)) + One(Head(s) = b)
    BY <2>0, <2>1, OccurrencesTail
  <2> QED BY <2>2, <2>3 DEF a, t, S
<1> HIDE DEF a, t
<1>5. /\ SameCounts(k, heap) /\ k.sequence.entries = t /\ k.collected = heap.collected
      /\ k.context = heap.context
  BY <1>1, <1>4, EditHolders
<1> HIDE DEF k
<1>6. \A b \in DOMAIN heap.actions : Holders(heap, module, b) = Holders(k, module, b) + One(a = b)
  <2> SUFFICES ASSUME NEW b \in DOMAIN heap.actions
               PROVE  Holders(heap, module, b) = Holders(k, module, b) + One(a = b)
    OBVIOUS
  <2>1. /\ Occurrences(b, heap.collected) \in Nat /\ Occurrences(b, t) \in Nat
    BY <1>1, <1>4, HoldersType, AtFinite
  <2> QED BY <1>4, <1>5, <2>1 DEF Holders, One
<1>7. Counted(g, module)
  BY <1>1, <1>4, <1>5, <1>6, ReleaseFact
<1>8. Counts(g, k, a, -1)
  BY <1>4, <1>5, DereferenceFact DEF SameCounts
<1>9. g.collected = heap.collected /\ g.context = heap.context
  BY <1>5, <1>8 DEF Counts
<1> HIDE DEF g
<1>10. PhaseInv'
  BY <1>1, <1>2, <1>9 DEF PhaseInv
<1> QED BY <1>2, <1>7, <1>10 DEF HeldInv

\* The first state: nothing is referred to.
LEMMA HeldInit == AssemblyInit => HeldInv
<1> SUFFICES ASSUME AssemblyInit PROVE HeldInv
  OBVIOUS
<1> DEFINE f == [p \in DOMAIN Images |-> 0]
           q == [refs |-> 0, entries |-> <<>>]
<1>1. /\ phase = "start" /\ module = NoModule
      /\ heap = [modules |-> f, actions |-> <<>>, sequence |-> q, collected |-> <<>>, next |-> 1,
                 context |-> NoContext]
  BY DEF AssemblyInit
<1>2. f \in [DOMAIN Images -> Int] /\ \A p \in DOMAIN Images : f[p] = 0
  OBVIOUS
<1>3. q = [refs |-> q.refs, entries |-> q.entries] /\ q.entries = <<>>
  OBVIOUS
<1> HIDE DEF f, q
<1>4. /\ heap.modules = f /\ heap.actions = <<>> /\ heap.sequence = q /\ heap.collected = <<>>
      /\ heap.next = 1 /\ heap.context = NoContext
  BY <1>1
<1>5. /\ heap = [modules |-> heap.modules, actions |-> heap.actions, sequence |-> heap.sequence,
                 collected |-> heap.collected, next |-> heap.next, context |-> heap.context]
  BY <1>1, <1>4
<1>6. DOMAIN heap.actions = {} /\ heap.actions \in Seq(Range(heap.actions)) /\ <<>> \in Seq(DOMAIN heap.actions)
  BY <1>4
<1>7. HeapShape(heap)
  BY <1>2, <1>3, <1>4, <1>5, <1>6 DEF HeapShape
<1>8. ModuleShape(module, heap)
  BY <1>1 DEF ModuleShape, NoModule
<1>9. ModulesInv(heap, module)
  <2>1. \A p : Live(heap, p) = {}
    BY <1>6 DEF Live
  <2>2. Cardinality({}) = 0
    BY FS_EmptySet
  <2>3. \A p \in DOMAIN Images : module.path # p
    BY <1>1, AssemblyAssumption DEF NoModule
  <2> SUFFICES ASSUME NEW p \in DOMAIN Images PROVE f[p] = One(module.path = p) + Cardinality(Live(heap, p))
    BY <1>4 DEF ModulesInv
  <2>4. One(module.path = p) = 0 /\ Cardinality(Live(heap, p)) = 0
    BY <2>1, <2>2, <2>3 DEF One
  <2> QED BY <1>2, <2>4
<1>10. ActionsInv(heap, module)
  BY <1>6 DEF ActionsInv
<1>11. PhaseInv
  BY <1>1, <1>3, <1>4 DEF PhaseInv, Phases
<1> QED BY <1>7, <1>8, <1>9, <1>10, <1>11 DEF HeldInv, Counted

\* Every step keeps the invariant.
LEMMA HeldStep == HeldInv /\ [AssemblyNext]_assemblyVars => HeldInv'
<1> SUFFICES ASSUME HeldInv, [AssemblyNext]_assemblyVars PROVE HeldInv'
  OBVIOUS
<1>1. CASE \E argv \in CommandLines : Main(argv)
  BY <1>1, MainStep
<1>2. CASE StartSearch
  BY <1>2, StartSearchStep
<1>3. CASE UseOwnExecutable
  BY <1>3, UseOwnExecutableStep
<1>4. CASE NextEntry
  BY <1>4, NextEntryStep
<1>5. CASE SkipFixture
  BY <1>5, SkipFixtureStep
<1>6. CASE CreateAction
  BY <1>6, CreateActionStep
<1>7. CASE AddEntrySequenceAction
  BY <1>7, AddEntryStep
<1>8. CASE AddEntryFails
  BY <1>8, AddEntryFailsStep
<1>9. CASE ModuleEnds
  BY <1>9, ModuleEndsStep
<1>10. CASE \/ CreateSequenceFails \/ LeaveDirectory \/ CreateActionFails \/ SearchEnds
            \/ CreateContextFails \/ CollectEnds \/ CollectFails \/ RunEnds \/ ReleaseEnds
  BY <1>10, FrameSteps
<1>11. CASE CreateContext \/ RunAction \/ FinishRun \/ DeleteSequence
  BY <1>11, ContextSteps
<1>12. CASE CollectAction
  BY <1>12, CollectActionStep
<1>13. CASE ReleaseAction
  BY <1>13, ReleaseActionStep
<1>14. CASE DeleteEntry
  BY <1>14, DeleteEntryStep
<1>15. CASE UNCHANGED assemblyVars
  <2>1. UNCHANGED <<phase, options, module, heap>>
    BY <1>15 DEF assemblyVars
  <2>2. Counted(heap, module)'
    BY <2>1 DEF HeldInv
  <2>3. PhaseInv'
    BY <2>1 DEF HeldInv, PhaseInv, OwnExecutable
  <2> QED BY <2>2, <2>3 DEF HeldInv
<1> QED BY <1>1, <1>2, <1>3, <1>4, <1>5, <1>6, <1>7, <1>8, <1>9, <1>10, <1>11, <1>12, <1>13, <1>14,
           <1>15 DEF AssemblyNext

\* What the invariant says of images; at the end no action is live.
LEMMA HeldImplies == HeldInv => ImagesHeld
<1> SUFFICES ASSUME HeldInv PROVE ImagesHeld
  OBVIOUS
<1>1. /\ HeapShape(heap) /\ ModulesInv(heap, module) /\ ActionsInv(heap, module) /\ PhaseInv
  BY DEF HeldInv, Counted
<1>2. \A p \in DOMAIN Images :
          heap.modules[p] = One(module.path = p)
                            + Cardinality({a \in DOMAIN heap.actions :
                                 heap.actions[a].path = p /\ heap.actions[a].refs > 0})
  BY <1>1 DEF ModulesInv, Live
<1>3. \A a \in DOMAIN heap.actions :
          heap.actions[a].refs = One(module.pending = a) + Occurrences(a, heap.sequence.entries)
                                 + Occurrences(a, heap.collected)
  BY <1>1 DEF ActionsInv, Holders
<1>4. phase \in {"collect", "run", "release", "statistics"} <=> heap.context.inner > 0
  BY <1>1 DEF PhaseInv, NoContext
<1>5. ASSUME phase = "exit"
      PROVE  /\ \A p \in DOMAIN Images : heap.modules[p] = 0
             /\ heap.sequence.entries = <<>>
             /\ heap.context = NoContext
  <2>1. /\ module = NoModule /\ heap.sequence.entries = <<>> /\ heap.collected = <<>>
        /\ heap.context = NoContext
    BY <1>1, <1>5 DEF PhaseInv
  <2>2. ASSUME NEW a \in DOMAIN heap.actions PROVE heap.actions[a].refs = 0
    <3>1. Occurrences(a, <<>>) = 0
      <4>1. <<>> \in Seq({}) /\ \A i \in DOMAIN <<>> : <<>>[i] # a
        OBVIOUS
      <4> QED BY <4>1, AtFinite
    <3>2. a # 0
      BY <1>1 DEF HeapShape
    <3>3. module.pending = 0
      BY <2>1 DEF NoModule
    <3> QED BY <1>3, <2>1, <3>1, <3>2, <3>3 DEF One
  <2>3. \A p : Live(heap, p) = {}
    BY <2>2 DEF Live
  <2>4. Cardinality({}) = 0
    BY FS_EmptySet
  <2>5. \A p \in DOMAIN Images : module.path # p
    BY <2>1, AssemblyAssumption DEF NoModule
  <2>6. \A p \in DOMAIN Images : heap.modules[p] = 0
    BY <1>1, <2>3, <2>4, <2>5 DEF ModulesInv, One
  <2> QED BY <2>1, <2>6
<1> QED BY <1>2, <1>3, <1>4, <1>5 DEF ImagesHeld

\* References to images and actions are counted exactly in every state, for any
\* command lines, trees and images.
THEOREM HeldInvariance == AssemblySpec => []HeldInv
<1> QED BY HeldInit, HeldStep, PTL DEF AssemblySpec

\* An image stays loaded exactly as long as the search or an action refers to it,
\* and nothing stays loaded when the program ends, whatever failed before.
THEOREM ImagesHeldHolds == AssemblySpec => []ImagesHeld
<1> QED BY HeldInvariance, HeldImplies, PTL

-----------------------------------------------------------------------------
(***************************************************************************)
(* Sequences that are joined.  What a recursive function computes is       *)
(* proved from the least natural number for which it would not.            *)
(***************************************************************************)

\* A set of natural numbers has a least element.
LEMMA LeastNumber ==
  ASSUME NEW T, T \subseteq Nat, T # {}
  PROVE  \E x \in T : \A y \in T : x <= y
<1>1. IsWellFoundedOn(OpToRel(<, Nat), Nat)
  BY NatLessThanWellFounded
<1>2. PICK x \in T : \A y \in T : ~ (<<y, x>> \in OpToRel(<, Nat))
  BY <1>1, WFMin
<1>3. \A y \in T : ~ (y < x)
  BY <1>2 DEF OpToRel
<1> QED BY <1>3

\* A function on 1 .. n is a sequence.
LEMMA FunctionFact ==
  ASSUME NEW n \in Nat, NEW f, f = [k \in 1 .. n |-> f[k]]
  PROVE  f \in Seq(Range(f)) /\ Len(f) = n /\ DOMAIN f = 1 .. n
<1>1. DOMAIN f = 1 .. n /\ \A k \in 1 .. n : f[k] \in Range(f)
  BY DEF Range
<1>2. f \in [1 .. n -> Range(f)]
  BY <1>1
<1> QED BY <1>1, <1>2

\* What a sequence is.
LEMMA IsSequenceFact ==
  ASSUME NEW s, IsSequence(s)
  PROVE  s \in Seq(Range(s)) /\ Len(s) \in Nat /\ DOMAIN s = 1 .. Len(s)
BY DEF IsSequence

Join(s, t) == s \o t

\* The equation of the function in Joined.
Joins(f, n, g) == g = [k \in 0 .. n |-> IF k = 0 THEN <<>> ELSE Join(g[k - 1], f[k])]

\* It has a solution.
LEMMA JoinsExist ==
  ASSUME NEW f, NEW n \in Nat
  PROVE  \E g : Joins(f, n, g)
<1> DEFINE T == {m \in Nat : ~ \E g : Joins(f, m, g)}
<1> SUFFICES ASSUME T # {} PROVE FALSE
  OBVIOUS
<1>1. PICK m \in T : \A y \in T : m <= y
  BY LeastNumber
<1>2. m # 0
  <2> DEFINE g == [k \in 0 .. 0 |-> <<>>]
  <2>1. Joins(f, 0, g)
    BY DEF Joins
  <2> QED BY <2>1, <1>1
<1>3. m - 1 \in Nat /\ m - 1 \notin T
  BY <1>1, <1>2
<1>4. PICK g : Joins(f, m - 1, g)
  BY <1>3
<1> DEFINE h == [k \in 0 .. m |-> IF k < m THEN g[k] ELSE Join(g[m - 1], f[m])]
<1>5. \A k \in 0 .. m - 1 : g[k] = IF k = 0 THEN <<>> ELSE Join(g[k - 1], f[k])
  BY <1>3, <1>4 DEF Joins
<1>6. \A k \in 0 .. m : h[k] = IF k = 0 THEN <<>> ELSE Join(h[k - 1], f[k])
  <2> SUFFICES ASSUME NEW k \in 0 .. m
               PROVE  h[k] = IF k = 0 THEN <<>> ELSE Join(h[k - 1], f[k])
    OBVIOUS
  <2>1. CASE k = 0
    BY <1>1, <1>2, <1>5, <2>1
  <2>2. CASE k # 0
    <3>1. h[k - 1] = g[k - 1]
      BY <1>1, <2>2
    <3>2. CASE k < m
      BY <1>1, <1>5, <2>2, <3>1, <3>2
    <3>3. CASE k = m
      BY <1>1, <2>2, <3>1, <3>3
    <3> QED BY <1>1, <3>2, <3>3
  <2> QED BY <2>1, <2>2
<1>7. Joins(f, m, h)
  BY <1>6 DEF Joins
<1> QED BY <1>1, <1>7

\* One sequence after the other is joined.
LEMMA JoinedStep ==
  ASSUME NEW f, Len(f) \in Nat
  PROVE  /\ Joined(f)[0] = <<>>
         /\ \A n \in 1 .. Len(f) : Joined(f)[n] = Joined(f)[n - 1] \o f[n]
<1> DEFINE m == Len(f)
           g == CHOOSE h : Joins(f, m, h)
<1>1. Joins(f, m, g)
  BY JoinsExist
<1>2. Joined(f) = g
  BY DEF Joined, Joins, Join
<1> HIDE DEF g
<1>3. \A k \in 0 .. m : g[k] = IF k = 0 THEN <<>> ELSE Join(g[k - 1], f[k])
  <2> HIDE DEF m
  <2> QED BY <1>1 DEF Joins
<1>4. Joined(f)[0] = <<>>
  BY <1>2, <1>3
<1>5. \A n \in 1 .. Len(f) : Joined(f)[n] = Join(Joined(f)[n - 1], f[n])
  BY <1>2, <1>3
<1> QED BY <1>4, <1>5 DEF Join

\* The result consists of what the sequences consist of.
LEMMA JoinedType ==
  ASSUME NEW S, NEW f, Len(f) \in Nat, \A i \in 1 .. Len(f) : f[i] \in Seq(S)
  PROVE  \A n \in 0 .. Len(f) : Joined(f)[n] \in Seq(S)
<1> DEFINE T == {n \in 0 .. Len(f) : Joined(f)[n] \notin Seq(S)}
<1> SUFFICES ASSUME T # {} PROVE FALSE
  OBVIOUS
<1>0. T \subseteq Nat
  OBVIOUS
<1>1. PICK n \in T : \A y \in T : n <= y
  BY <1>0, LeastNumber
<1>2. n # 0
  <2>1. Joined(f)[0] \in Seq(S)
    <3>1. Joined(f)[0] = <<>>
      BY JoinedStep
    <3>2. <<>> \in Seq(S)
      OBVIOUS
    <3> QED BY <3>1, <3>2
  <2> QED BY <1>1, <2>1
<1>3. n \in 1 .. Len(f) /\ n - 1 \in 0 .. Len(f) /\ n - 1 \notin T
  BY <1>1, <1>2
<1>4. Joined(f)[n] = Joined(f)[n - 1] \o f[n] /\ Joined(f)[n - 1] \in Seq(S) /\ f[n] \in Seq(S)
  <2>1. Joined(f)[n] = Joined(f)[n - 1] \o f[n]
    BY <1>3, JoinedStep
  <2> QED BY <1>3, <2>1
<1>5. Joined(f)[n] \in Seq(S)
  BY <1>4, ConcatProperties
<1> QED BY <1>1, <1>5

-----------------------------------------------------------------------------
(***************************************************************************)
(* The fixtures of an image.                                               *)
(***************************************************************************)

Started(x) == [name |-> x.name, routines |-> {}, testCases |-> <<>>, valid |-> x.supported]

\* The equation of the function in Walk.
Walks(x, n, g) == g = [k \in 0 .. n |-> IF k = 0 THEN Started(x) ELSE AddEntry(g[k - 1], x.entries[k])]

\* It has a solution.
LEMMA WalksExist ==
  ASSUME NEW x, NEW n \in Nat
  PROVE  \E g : Walks(x, n, g)
<1> DEFINE T == {m \in Nat : ~ \E g : Walks(x, m, g)}
<1> SUFFICES ASSUME T # {} PROVE FALSE
  OBVIOUS
<1>1. PICK m \in T : \A y \in T : m <= y
  BY LeastNumber
<1>2. m # 0
  <2> DEFINE g == [k \in 0 .. 0 |-> Started(x)]
  <2>1. Walks(x, 0, g)
    BY DEF Walks
  <2> QED BY <2>1, <1>1
<1>3. m - 1 \in Nat /\ m - 1 \notin T
  BY <1>1, <1>2
<1>4. PICK g : Walks(x, m - 1, g)
  BY <1>3
<1> DEFINE h == [k \in 0 .. m |-> IF k < m THEN g[k] ELSE AddEntry(g[m - 1], x.entries[m])]
<1>5. \A k \in 0 .. m - 1 : g[k] = IF k = 0 THEN Started(x) ELSE AddEntry(g[k - 1], x.entries[k])
  BY <1>3, <1>4 DEF Walks
<1>6. \A k \in 0 .. m : h[k] = IF k = 0 THEN Started(x) ELSE AddEntry(h[k - 1], x.entries[k])
  <2> SUFFICES ASSUME NEW k \in 0 .. m
               PROVE  h[k] = IF k = 0 THEN Started(x) ELSE AddEntry(h[k - 1], x.entries[k])
    OBVIOUS
  <2>1. CASE k = 0
    BY <1>1, <1>2, <1>5, <2>1
  <2>2. CASE k # 0
    <3>1. h[k - 1] = g[k - 1]
      BY <1>1, <2>2
    <3>2. CASE k < m
      BY <1>1, <1>5, <2>2, <3>1, <3>2
    <3>3. CASE k = m
      BY <1>1, <2>2, <3>1, <3>3
    <3> QED BY <1>1, <3>2, <3>3
  <2> QED BY <2>1, <2>2
<1>7. Walks(x, m, h)
  BY <1>6 DEF Walks
<1> QED BY <1>1, <1>7

\* One entry after the other is added.
LEMMA WalkStep ==
  ASSUME NEW x, Len(x.entries) \in Nat
  PROVE  /\ Walk(x)[0] = Started(x)
         /\ \A n \in 1 .. Len(x.entries) : Walk(x)[n] = AddEntry(Walk(x)[n - 1], x.entries[n])
<1> DEFINE m == Len(x.entries)
           g == CHOOSE h : Walks(x, m, h)
<1>1. Walks(x, m, g)
  BY WalksExist
<1>2. Walk(x) = g
  BY DEF Walk, Walks, Started
<1> HIDE DEF g
<1>3. \A k \in 0 .. m : g[k] = IF k = 0 THEN Started(x) ELSE AddEntry(g[k - 1], x.entries[k])
  <2> HIDE DEF m
  <2> QED BY <1>1 DEF Walks
<1> QED BY <1>2, <1>3

\* The first n entries can be taken: they are known, and no routine comes twice.
Fine(x, n) ==
    /\ x.supported
    /\ \A j \in 1 .. n : x.entries[j].kind \in RoutineKinds \cup {"testcase"}
    /\ \A j, k \in 1 .. n : x.entries[j].kind = x.entries[k].kind /\ x.entries[j].kind # "testcase" => j = k

\* The test cases among the entries, one by one.
CaseParts(x) ==
    [i \in DOMAIN x.entries |->
       IF x.entries[i].kind = "testcase" THEN <<x.entries[i].name>> ELSE <<>>]

Fields == {"name", "routines", "testCases", "valid"}

\* A fixture after n entries.
Walked(x, n, f) ==
    /\ f \in [Fields -> Range(f)] /\ f.name = x.name
    /\ Fine(x, n) => f.valid = TRUE
    /\ ~ Fine(x, n) => f.valid = FALSE
    /\ Fine(x, n) => /\ f.testCases = Joined(CaseParts(x))[n]
                     /\ f.routines = {x.entries[j].kind : j \in 1 .. n} \ {"testcase"}

\* How the conditions on the entries grow.
LEMMA FineStep ==
  ASSUME NEW x, NEW n \in Nat, n # 0
  PROVE  Fine(x, n) <=> /\ Fine(x, n - 1)
                        /\ \/ x.entries[n].kind = "testcase"
                           \/ /\ x.entries[n].kind \in RoutineKinds
                              /\ x.entries[n].kind \notin {x.entries[j].kind : j \in 1 .. n - 1}
<1>1. 1 .. n = (1 .. n - 1) \cup {n} /\ n \notin 1 .. n - 1
  OBVIOUS
<1>2. "testcase" \notin RoutineKinds
  BY DEF RoutineKinds
<1> DEFINE K(j) == x.entries[j].kind
           R == RoutineKinds
<1>3. Fine(x, n) <=> /\ x.supported
                     /\ \A j \in 1 .. n : K(j) \in R \cup {"testcase"}
                     /\ \A j, k \in 1 .. n : K(j) = K(k) /\ K(j) # "testcase" => j = k
  BY DEF Fine
<1>4. Fine(x, n - 1) <=> /\ x.supported
                         /\ \A j \in 1 .. n - 1 : K(j) \in R \cup {"testcase"}
                         /\ \A j, k \in 1 .. n - 1 : K(j) = K(k) /\ K(j) # "testcase" => j = k
  BY DEF Fine
<1> HIDE DEF K, R
<1>5. Fine(x, n) <=> /\ Fine(x, n - 1)
                     /\ \/ K(n) = "testcase"
                        \/ K(n) \in R /\ K(n) \notin {K(j) : j \in 1 .. n - 1}
  BY <1>1, <1>2, <1>3, <1>4 DEF R
<1> QED BY <1>5 DEF K, R

\* The entries of a definition, and the names of its test cases.
LEMMA CasePartsFact ==
  ASSUME NEW x, IsSequence(x.entries)
  PROVE  /\ Len(CaseParts(x)) = Len(x.entries) /\ Len(x.entries) \in Nat
         /\ DOMAIN x.entries = 1 .. Len(x.entries)
         /\ \A i \in 1 .. Len(x.entries) :
               /\ CaseParts(x)[i] = IF x.entries[i].kind = "testcase" THEN <<x.entries[i].name>> ELSE <<>>
               /\ CaseParts(x)[i] \in Seq({x.entries[j].name : j \in DOMAIN x.entries})
         /\ CasesOf(x) = Joined(CaseParts(x))[Len(x.entries)]
<1> DEFINE c == CaseParts(x)
           n == Len(x.entries)
           S == {x.entries[j].name : j \in DOMAIN x.entries}
<1>1. n \in Nat /\ DOMAIN x.entries = 1 .. n
  BY IsSequenceFact
<1>2. \A i \in 1 .. n : c[i] = IF x.entries[i].kind = "testcase" THEN <<x.entries[i].name>> ELSE <<>>
  BY <1>1 DEF CaseParts
<1>3. c = [i \in 1 .. n |-> c[i]]
  BY <1>1 DEF CaseParts
<1> HIDE DEF c, n
<1>4. Len(c) = n
  BY <1>1, <1>3, FunctionFact
<1>5. ASSUME NEW i \in 1 .. n PROVE c[i] \in Seq(S)
  <2>1. x.entries[i].name \in S
    BY <1>1
  <2> DEFINE e == x.entries[i].name
  <2> HIDE DEF S, e
  <2>2. <<e>> \in Seq(S) /\ <<>> \in Seq(S)
    BY <2>1 DEF e
  <2> QED BY <1>2, <2>2 DEF e
<1>6. CasesOf(x) = Joined(c)[n]
  <2>1. CasesOf(x) = Concat(c)
    BY DEF CasesOf, CaseParts, c
  <2> QED BY <1>4, <2>1 DEF Concat
<1> QED BY <1>1, <1>2, <1>4, <1>5, <1>6 DEF c, n

\* A further entry.
LEMMA AddFact ==
  ASSUME NEW x, IsSequence(x.entries), NEW n \in 1 .. Len(x.entries), NEW f, Walked(x, n - 1, f)
  PROVE  Walked(x, n, AddEntry(f, x.entries[n]))
<1> DEFINE e == x.entries[n]
           K == {x.entries[j].kind : j \in 1 .. n - 1}
           g == AddEntry(f, e)
           J == Joined(CaseParts(x))
<1>0. Len(x.entries) \in Nat /\ n \in Nat /\ n # 0 /\ n - 1 \in 0 .. Len(x.entries)
  BY CasePartsFact
<1>1. Fine(x, n) <=> Fine(x, n - 1) /\ (e.kind = "testcase" \/ (e.kind \in RoutineKinds /\ e.kind \notin K))
  BY <1>0, FineStep
<1>2. {x.entries[j].kind : j \in 1 .. n} = K \cup {e.kind}
  <2>1. 1 .. n = (1 .. n - 1) \cup {n}
    BY <1>0
  <2> QED BY <2>1
<1>3. /\ f \in [Fields -> Range(f)] /\ f.name = x.name
      /\ Fine(x, n - 1) => f.valid = TRUE
      /\ ~ Fine(x, n - 1) => f.valid = FALSE
      /\ Fine(x, n - 1) => f.testCases = J[n - 1] /\ f.routines = K \ {"testcase"}
  BY DEF Walked
<1>4. J[n] = J[n - 1] \o (IF e.kind = "testcase" THEN <<e.name>> ELSE <<>>)
  <2>1. J[n] = J[n - 1] \o CaseParts(x)[n]
    BY <1>0, CasePartsFact, JoinedStep
  <2>2. CaseParts(x)[n] = IF e.kind = "testcase" THEN <<e.name>> ELSE <<>>
    BY CasePartsFact
  <2> HIDE DEF e, J
  <2> QED BY <2>1, <2>2
<1>5. J[n - 1] \in Seq({x.entries[j].name : j \in DOMAIN x.entries}) /\ e.name \in {x.entries[j].name : j \in DOMAIN x.entries}
  <2>1. e.name \in {x.entries[j].name : j \in DOMAIN x.entries}
    BY CasePartsFact
  <2>2. \A i \in 0 .. Len(CaseParts(x)) : J[i] \in Seq({x.entries[j].name : j \in DOMAIN x.entries})
    BY CasePartsFact, JoinedType
  <2> QED BY <1>0, <2>1, <2>2, CasePartsFact
<1>6. /\ e.kind = "testcase" => J[n] = Append(J[n - 1], e.name)
      /\ e.kind # "testcase" => J[n] = J[n - 1]
  BY <1>4, <1>5, AppendIsConcat, ConcatEmptySeq
<1>7. "testcase" \notin RoutineKinds
  BY DEF RoutineKinds
<1> DEFINE N == {x.entries[j].kind : j \in 1 .. n}
<1>9. N = K \cup {e.kind}
  BY <1>2
<1>10. ASSUME g \in [Fields -> Range(g)], g.name = x.name,
              \/ Fine(x, n) /\ g.valid = TRUE /\ g.testCases = J[n] /\ g.routines = N \ {"testcase"}
              \/ ~ Fine(x, n) /\ g.valid = FALSE
       PROVE  Walked(x, n, g)
  <2> HIDE DEF g
  <2> QED BY <1>10 DEF Walked
<1> HIDE DEF e, K, J, N
<1>11. ASSUME ~ Fine(x, n - 1) PROVE Walked(x, n, g)
  <2>0. ~ f.valid
    BY <1>3, <1>11
  <2>1. g = f
    BY <2>0 DEF AddEntry
  <2> HIDE DEF g
  <2> QED BY <1>1, <1>3, <1>10, <1>11, <2>1
<1>12. ASSUME Fine(x, n - 1) /\ e.kind \in RoutineKinds \ f.routines PROVE Walked(x, n, g)
  <2>0. f.valid
    BY <1>3, <1>12
  <2>1. g = [f EXCEPT !.routines = f.routines \cup {e.kind}]
    BY <1>3, <1>7, <1>12, <2>0 DEF AddEntry
  <2>2. e.kind \notin K /\ e.kind # "testcase" /\ Fine(x, n)
    BY <1>1, <1>3, <1>7, <1>12
  <2> HIDE DEF g
  <2>3. /\ g.name = f.name /\ g.routines = f.routines \cup {e.kind} /\ g.testCases = f.testCases
        /\ g.valid = f.valid /\ DOMAIN g = Fields /\ g = [k \in Fields |-> g[k]]
    BY <1>3, <2>1 DEF Fields
  <2>4. g \in [Fields -> Range(g)]
    BY <2>3 DEF Range
  <2>5. g.routines = N \ {"testcase"}
    BY <1>3, <1>9, <1>12, <2>2, <2>3
  <2> QED BY <1>3, <1>6, <1>10, <1>12, <2>2, <2>3, <2>4, <2>5
<1>13. ASSUME Fine(x, n - 1) /\ e.kind = "testcase" PROVE Walked(x, n, g)
  <2>1. g = [f EXCEPT !.testCases = Append(f.testCases, e.name)]
    BY <1>3, <1>7, <1>13 DEF AddEntry
  <2> DEFINE t == Append(f.testCases, e.name)
  <2>2. t = J[n]
    BY <1>3, <1>6, <1>13
  <2> HIDE DEF t, g
  <2>3. /\ g.name = f.name /\ g.routines = f.routines /\ g.testCases = t
        /\ g.valid = f.valid /\ DOMAIN g = Fields /\ g = [k \in Fields |-> g[k]]
    BY <1>3, <2>1 DEF Fields, t
  <2>4. g \in [Fields -> Range(g)]
    BY <2>3 DEF Range
  <2>5. N \ {"testcase"} = K \ {"testcase"}
    BY <1>9, <1>13
  <2> QED BY <1>1, <1>3, <1>10, <1>13, <2>2, <2>3, <2>4, <2>5
<1>14. ASSUME Fine(x, n - 1) /\ e.kind \notin RoutineKinds \ f.routines /\ e.kind # "testcase"
       PROVE  Walked(x, n, g)
  <2>1. g = [f EXCEPT !.valid = FALSE]
    BY <1>3, <1>14 DEF AddEntry
  <2>2. ~ Fine(x, n)
    BY <1>1, <1>3, <1>14
  <2> HIDE DEF g
  <2>3. /\ g.name = f.name /\ g.valid = FALSE /\ DOMAIN g = Fields /\ g = [k \in Fields |-> g[k]]
    BY <1>3, <2>1 DEF Fields
  <2>4. g \in [Fields -> Range(g)]
    BY <2>3 DEF Range
  <2> QED BY <1>3, <1>10, <2>2, <2>3, <2>4
<1> QED BY <1>11, <1>12, <1>13, <1>14 DEF g, e

\* What the walk over the entries makes of a definition.
LEMMA WalkFact ==
  ASSUME NEW x, IsSequence(x.entries), x.supported \in BOOLEAN
  PROVE  Walked(x, Len(x.entries), CreateFixture(x))
<1> DEFINE L == Len(x.entries)
           T == {n \in 0 .. L : ~ Walked(x, n, Walk(x)[n])}
<1>0. L \in Nat
  BY CasePartsFact
<1>1. T = {}
  <2> SUFFICES ASSUME T # {} PROVE FALSE
    OBVIOUS
  <2>0. T \subseteq Nat
    BY <1>0
  <2>1. PICK n \in T : \A y \in T : n <= y
    BY <2>0, LeastNumber
  <2>2. n # 0
    <3> DEFINE f == Started(x)
    <3>1. Walk(x)[0] = f
      BY <1>0, WalkStep
    <3>2. Fine(x, 0) <=> x.supported
      BY DEF Fine
    <3>3. f.name = x.name /\ f.routines = {} /\ f.testCases = <<>> /\ f.valid = x.supported
      BY DEF Started
    <3>4. f \in [Fields -> Range(f)]
      <4>1. DOMAIN f = Fields /\ f = [k \in Fields |-> f[k]]
        BY DEF Started, Fields
      <4> HIDE DEF f
      <4> QED BY <4>1 DEF Range
    <3>5. Joined(CaseParts(x))[0] = <<>>
      BY CasePartsFact, JoinedStep
    <3>6. {x.entries[j].kind : j \in 1 .. 0} \ {"testcase"} = {}
      OBVIOUS
    <3> HIDE DEF f
    <3>7. Walked(x, 0, f)
      <4>1. CASE x.supported = TRUE
        BY <3>2, <3>3, <3>4, <3>5, <3>6, <4>1 DEF Walked
      <4>2. CASE x.supported = FALSE
        BY <3>2, <3>3, <3>4, <4>2 DEF Walked
      <4> QED BY <4>1, <4>2
    <3> QED BY <2>1, <3>1, <3>7
  <2>3. n \in 1 .. L /\ n - 1 \in 0 .. L /\ n - 1 \notin T
    BY <1>0, <2>1, <2>2
  <2>4. Walked(x, n - 1, Walk(x)[n - 1])
    BY <2>3
  <2>5. Walk(x)[n] = AddEntry(Walk(x)[n - 1], x.entries[n])
    BY <1>0, <2>3, WalkStep
  <2>6. Walked(x, n, Walk(x)[n])
    BY <2>3, <2>4, <2>5, AddFact
  <2> QED BY <2>1, <2>6
<1>2. L \in 0 .. L
  BY <1>0
<1> QED BY <1>1, <1>2 DEF CreateFixture

\* An export that defines a fixture well.
WellFormed(x) == Fine(x, Len(x.entries))

\* The fixture made of it, if one is.
LEMMA CreateFixtureFact ==
  ASSUME NEW x, IsSequence(x.entries), x.supported \in BOOLEAN
  PROVE  /\ CreateFixture(x).name = x.name
         /\ WellFormed(x) => CreateFixture(x).valid = TRUE /\ CreateFixture(x).testCases = CasesOf(x)
         /\ ~ WellFormed(x) => CreateFixture(x).valid = FALSE
<1>1. Walked(x, Len(x.entries), CreateFixture(x))
  BY WalkFact
<1>2. CasesOf(x) = Joined(CaseParts(x))[Len(x.entries)]
  BY CasePartsFact
<1> QED BY <1>1, <1>2 DEF Walked, WellFormed

ExportParts(p) ==
    [i \in DOMAIN Images[p].exports |->
       IF Images[p].exports[i].kind = "fixture" THEN <<Images[p].exports[i]>> ELSE <<>>]

\* The exports that define fixtures are exports of the image.
LEMMA ExportsFact ==
  ASSUME NEW p \in DOMAIN Images
  PROVE  /\ FixtureExports(p) \in Seq(Range(Images[p].exports))
         /\ Len(FixtureExports(p)) \in Nat /\ DOMAIN FixtureExports(p) = 1 .. Len(FixtureExports(p))
         /\ \A i \in DOMAIN FixtureExports(p) :
               /\ IsSequence(FixtureExports(p)[i].entries) /\ FixtureExports(p)[i].supported \in BOOLEAN
               /\ \E j \in DOMAIN Images[p].exports : FixtureExports(p)[i] = Images[p].exports[j]
<1> DEFINE e == Images[p].exports
           n == Len(e)
           c == ExportParts(p)
           S == Range(e)
<1>1. n \in Nat /\ DOMAIN e = 1 .. n /\ e \in Seq(S)
  BY ImageAssumption, IsSequenceFact
<1>2. \A i \in 1 .. n : c[i] = IF e[i].kind = "fixture" THEN <<e[i]>> ELSE <<>>
  BY <1>1 DEF ExportParts
<1>3. c = [i \in 1 .. n |-> c[i]]
  BY <1>1 DEF ExportParts
<1> HIDE DEF c, n
<1>4. Len(c) = n
  BY <1>1, <1>3, FunctionFact
<1>5. ASSUME NEW i \in 1 .. n PROVE c[i] \in Seq(S)
  <2>1. e[i] \in S
    BY <1>1
  <2> HIDE DEF S, e
  <2>2. <<e[i]>> \in Seq(S) /\ <<>> \in Seq(S)
    BY <2>1
  <2> QED BY <1>2, <2>2
<1>6. Joined(c)[n] \in Seq(S)
  <2>1. \A i \in 0 .. n : Joined(c)[i] \in Seq(S)
    BY <1>1, <1>4, <1>5, JoinedType
  <2> QED BY <1>1, <2>1
<1>7. FixtureExports(p) = Joined(c)[n]
  <2>1. FixtureExports(p) = Concat(c)
    BY DEF FixtureExports, ExportParts, c
  <2> QED BY <1>4, <2>1 DEF Concat
<1>8. FixtureExports(p) \in Seq(S)
  BY <1>6, <1>7
<1>9. ASSUME NEW i \in DOMAIN FixtureExports(p)
      PROVE  \E j \in DOMAIN e : FixtureExports(p)[i] = e[j]
  <2>1. FixtureExports(p)[i] \in S
    BY <1>8
  <2> QED BY <2>1 DEF Range
<1>10. \A j \in DOMAIN e : IsSequence(e[j].entries) /\ e[j].supported \in BOOLEAN
  BY ImageAssumption
<1> QED BY <1>8, <1>9, <1>10

\* A module can be loaded if and only if its image can, and its fixtures are well-formed.
LEMMA LoadsFact ==
  ASSUME NEW p \in DOMAIN Images
  PROVE  /\ ModuleLoads(p) <=> Images[p].loads /\ AtMostOnce(p)
         /\ Len(LoadFixtures(p)) = Len(FixtureExports(p))
         /\ ModuleLoads(p) =>
               \A i \in 1 .. Len(FixtureExports(p)) :
                  /\ LoadFixtures(p)[i].name = FixtureExports(p)[i].name
                  /\ LoadFixtures(p)[i].testCases = CasesOf(FixtureExports(p)[i])
<1> DEFINE e == FixtureExports(p)
           f == LoadFixtures(p)
           n == Len(e)
<1>1. n \in Nat /\ DOMAIN e = 1 .. n /\ \A i \in 1 .. n : IsSequence(e[i].entries) /\ e[i].supported \in BOOLEAN
  BY ExportsFact
<1>2. DOMAIN f = 1 .. n /\ f = [i \in 1 .. n |-> f[i]] /\ \A i \in 1 .. n : f[i] = CreateFixture(e[i])
  BY <1>1 DEF LoadFixtures
<1>3. ModuleLoads(p) <=> Images[p].loads /\ \A i \in DOMAIN f : f[i].valid
  BY DEF ModuleLoads
<1>4. AtMostOnce(p) <=> \A i \in 1 .. n : WellFormed(e[i])
  <2>1. ASSUME NEW i \in 1 .. n
        PROVE  WellFormed(e[i]) <=>
                 /\ e[i].supported
                 /\ \A j \in DOMAIN e[i].entries : e[i].entries[j].kind \in RoutineKinds \cup {"testcase"}
                 /\ \A j, k \in DOMAIN e[i].entries :
                       e[i].entries[j].kind = e[i].entries[k].kind /\ e[i].entries[j].kind # "testcase" => j = k
    <3>1. DOMAIN e[i].entries = 1 .. Len(e[i].entries)
      BY <1>1, IsSequenceFact
    <3> HIDE DEF e
    <3> QED BY <3>1 DEF WellFormed, Fine
  <2> QED BY <1>1, <2>1 DEF AtMostOnce
<1> HIDE DEF e, f, n
<1>5. Len(f) = n
  BY <1>1, <1>2, FunctionFact
<1>6. \A i \in 1 .. n : /\ f[i].name = e[i].name
                        /\ WellFormed(e[i]) => f[i].valid = TRUE /\ f[i].testCases = CasesOf(e[i])
                        /\ ~ WellFormed(e[i]) => f[i].valid = FALSE
  BY <1>1, <1>2, CreateFixtureFact
<1>7. \A i \in 1 .. n : f[i].valid <=> WellFormed(e[i])
  BY <1>6
<1>8. ModuleLoads(p) <=> Images[p].loads /\ AtMostOnce(p)
  BY <1>2, <1>3, <1>4, <1>7
<1>9. ModuleLoads(p) => \A i \in 1 .. n : f[i].name = e[i].name /\ f[i].testCases = CasesOf(e[i])
  BY <1>4, <1>6, <1>8
<1> QED BY <1>5, <1>8, <1>9 DEF e, f, n

-----------------------------------------------------------------------------
(***************************************************************************)
(* What is selected from an image.                                         *)
(***************************************************************************)

\* The least of several numbers.
LEMMA MinFact ==
  ASSUME NEW T, T \subseteq Nat, NEW m \in T, \A y \in T : m <= y
  PROVE  Min(T) = m
<1>1. \E x \in T : \A y \in T : x <= y
  OBVIOUS
<1>2. Min(T) \in T /\ \A y \in T : Min(T) <= y
  BY <1>1 DEF Min
<1>3. Min(T) \in Nat /\ m \in Nat /\ m <= Min(T) /\ Min(T) <= m
  BY <1>2
<1> QED BY <1>3

\* The test cases of an export are a sequence.
LEMMA CasesType ==
  ASSUME NEW x, IsSequence(x.entries)
  PROVE  Len(CasesOf(x)) \in Nat /\ DOMAIN CasesOf(x) = 1 .. Len(CasesOf(x))
<1> DEFINE S == {x.entries[j].name : j \in DOMAIN x.entries}
           n == Len(x.entries)
<1>1. /\ Len(CaseParts(x)) = n /\ n \in Nat /\ CasesOf(x) = Joined(CaseParts(x))[n]
      /\ \A i \in 1 .. n : CaseParts(x)[i] \in Seq(S)
  BY CasePartsFact
<1> HIDE DEF S, n
<1>2. \A i \in 0 .. n : Joined(CaseParts(x))[i] \in Seq(S)
  BY <1>1, JoinedType
<1>3. CasesOf(x) \in Seq(S)
  BY <1>1, <1>2
<1> QED BY <1>3

\* The test case that is named, if there is one: the first of that name.
LEMMA FirstFact ==
  ASSUME NEW s, Len(s) \in Nat, DOMAIN s = 1 .. Len(s), NEW c
  PROVE  LET hits  == {i \in DOMAIN s : s[i] = c}
             first == {i \in DOMAIN s : s[i] = c /\ \A j \in 1 .. i - 1 : s[j] # c}
         IN  /\ hits = {} <=> first = {}
             /\ hits # {} => Min(first) = Min(hits) /\ Min(hits) \in Nat
<1> DEFINE hits  == {i \in DOMAIN s : s[i] = c}
           first == {i \in DOMAIN s : s[i] = c /\ \A j \in 1 .. i - 1 : s[j] # c}
<1>1. hits \subseteq Nat /\ first \subseteq hits
  OBVIOUS
<1>2. ASSUME hits # {} PROVE first # {} /\ Min(first) = Min(hits) /\ Min(hits) \in Nat
  <2> HIDE DEF hits, first
  <2>1. PICK m \in hits : \A y \in hits : m <= y
    BY <1>1, <1>2, LeastNumber
  <2>2. m \in first
    <3>1. m \in 1 .. Len(s) /\ s[m] = c
      BY DEF hits
    <3>2. ASSUME NEW j \in 1 .. m - 1 PROVE s[j] # c
      <4>1. j \in DOMAIN s /\ ~ (m <= j)
        BY <3>1
      <4> QED BY <2>1, <4>1 DEF hits
    <3> QED BY <3>1, <3>2 DEF first
  <2>3. Min(hits) = m
    BY <1>1, <2>1, MinFact
  <2>4. Min(first) = m
    BY <1>1, <2>1, <2>2, MinFact
  <2> QED BY <1>1, <2>2, <2>3, <2>4
<1> QED BY <1>1, <1>2

\* The command line selects the fixture, and the test case, that the search takes.
LEMMA FilterFact ==
  ASSUME NEW x, IsSequence(x.entries), NEW f, f.name = x.name, f.testCases = CasesOf(x)
  PROVE  /\ Filter(f).take = TRUE \/ Filter(f).take = FALSE
         /\ Filter(f).take <=> Chosen(options, x) # {}
         /\ Filter(f).take => Filter(f).testCase = Min(Chosen(options, x)) /\ Filter(f).testCase \in Nat
<1> DEFINE named  == options.values["-n"]
           prefix == options.values["-p"]
           wanted == FilterOf[named]
           c      == wanted.testCase
           s      == CasesOf(x)
           hits   == {i \in DOMAIN s : s[i] = c}
           first  == {i \in DOMAIN s : s[i] = c /\ \A j \in 1 .. i - 1 : s[j] # c}
           C      == Chosen(options, x)
           F      == Filter(f)
<1>1. /\ hits = {} <=> first = {}
      /\ hits # {} => Min(first) = Min(hits) /\ Min(hits) \in Nat
  <2>1. Len(s) \in Nat /\ DOMAIN s = 1 .. Len(s)
    BY CasesType
  <2> HIDE DEF s, c
  <2> QED BY <2>1, FirstFact
<1>2. C = IF named = None
          THEN IF prefix # None /\ <<prefix, x.name>> \notin PrefixOf THEN {} ELSE {0}
          ELSE IF wanted.fixture # x.name THEN {}
          ELSE IF c = None THEN {0} ELSE first
  BY DEF Chosen
<1>3. F = IF named # None
          THEN CASE wanted.fixture # x.name    -> [take |-> FALSE, testCase |-> 0]
                 [] wanted.fixture = x.name /\ c = None -> [take |-> TRUE, testCase |-> 0]
                 [] OTHER -> [take |-> hits # {}, testCase |-> IF hits = {} THEN 0 ELSE Min(hits)]
          ELSE [take |-> prefix = None \/ <<prefix, x.name>> \in PrefixOf, testCase |-> 0]
  BY DEF Filter
<1>4. Min({0}) = 0
  BY MinFact
<1> HIDE DEF named, prefix, wanted, c, s, hits, first, C, F
<1>5. CASE named = None
  <2>1. CASE prefix = None \/ <<prefix, x.name>> \in PrefixOf
    <3>1. F.take = TRUE /\ F.testCase = 0 /\ C = {0}
      BY <1>2, <1>3, <1>5, <2>1
    <3> QED BY <1>4, <3>1 DEF C, F
  <2>2. CASE prefix # None /\ <<prefix, x.name>> \notin PrefixOf
    <3>1. F.take = FALSE /\ C = {}
      BY <1>2, <1>3, <1>5, <2>2
    <3> QED BY <3>1 DEF C, F
  <2> QED BY <2>1, <2>2
<1>6. CASE named # None /\ wanted.fixture # x.name
  <2>1. F.take = FALSE /\ C = {}
    BY <1>2, <1>3, <1>6
  <2> QED BY <2>1 DEF C, F
<1>7. CASE named # None /\ wanted.fixture = x.name /\ c = None
  <2>1. F.take = TRUE /\ F.testCase = 0 /\ C = {0}
    BY <1>2, <1>3, <1>7
  <2> QED BY <1>4, <2>1 DEF C, F
<1>8. CASE named # None /\ wanted.fixture = x.name /\ c # None
  <2>1. F = [take |-> hits # {}, testCase |-> IF hits = {} THEN 0 ELSE Min(hits)] /\ C = first
    BY <1>2, <1>3, <1>8
  <2>2. CASE hits = {}
    <3>1. F.take = FALSE /\ C = {}
      BY <1>1, <2>1, <2>2
    <3> QED BY <3>1 DEF C, F
  <2>3. CASE hits # {}
    <3>1. F.take = TRUE /\ F.testCase = Min(hits) /\ C # {} /\ Min(C) = Min(hits) /\ Min(hits) \in Nat
      BY <1>1, <2>1, <2>3
    <3> QED BY <3>1 DEF C, F
  <2> QED BY <2>2, <2>3
<1> QED BY <1>5, <1>6, <1>7, <1>8

\* What an action stands for: an image, a fixture of it and a test case.
Names  == UNION {{Images[p].exports[i].name : i \in DOMAIN Images[p].exports} : p \in DOMAIN Images}
KeySet == {<<p, name, t>> : p \in DOMAIN Images, name \in Names, t \in Nat}

Key(x)  == <<x.path, x.fixture, x.testCase>>
Keys(h) == [i \in DOMAIN h.sequence.entries |-> Key(h.actions[h.sequence.entries[i]])]

\* What is selected from an image, fixture by fixture.
Wishes(o, p) == [i \in DOMAIN FixtureExports(p) |-> Wanted(o, p, FixtureExports(p)[i])]

\* A selection consists of keys.
LEMMA WantedType ==
  ASSUME NEW o, NEW p \in DOMAIN Images, NEW i \in DOMAIN FixtureExports(p)
  PROVE  Wanted(o, p, FixtureExports(p)[i]) \in Seq(KeySet)
<1> DEFINE x == FixtureExports(p)[i]
           C == Chosen(o, x)
           t == IF "-d" \in o.flags THEN 0 ELSE Min(C)
           k == <<p, x.name, t>>
<1>1. PICK j \in DOMAIN Images[p].exports : x = Images[p].exports[j]
  BY ExportsFact
<1>2. x.name \in Names
  BY <1>1 DEF Names
<1>3. IsSequence(x.entries)
  BY ExportsFact
<1>4. Min({0}) = 0
  BY MinFact
<1>5. C # {} => Min(C) \in Nat
  <2> DEFINE c     == FilterOf[o.values["-n"]].testCase
             s     == CasesOf(x)
             hits  == {h \in DOMAIN s : s[h] = c}
             first == {h \in DOMAIN s : s[h] = c /\ \A l \in 1 .. h - 1 : s[l] # c}
  <2>1. /\ hits = {} <=> first = {}
        /\ hits # {} => Min(first) = Min(hits) /\ Min(hits) \in Nat
    <3>1. Len(s) \in Nat /\ DOMAIN s = 1 .. Len(s)
      BY <1>3, CasesType
    <3> HIDE DEF s, c
    <3> QED BY <3>1, FirstFact
  <2>2. C = {} \/ C = {0} \/ C = first
    BY DEF Chosen
  <2> HIDE DEF hits, first, C
  <2> QED BY <1>4, <2>1, <2>2
<1>6. Wanted(o, p, x) = IF C = {} THEN <<>> ELSE <<k>>
  BY DEF Wanted
<1>7. CASE C = {}
  <2>1. Wanted(o, p, x) = <<>>
    BY <1>6, <1>7
  <2>2. <<>> \in Seq(KeySet)
    OBVIOUS
  <2> QED BY <2>1, <2>2
<1>8. CASE C # {}
  <2>1. t \in Nat
    BY <1>5, <1>8
  <2> DEFINE name == x.name
  <2>n. name \in Names /\ k = <<p, name, t>>
    BY <1>2
  <2> HIDE DEF t, k, name
  <2>2. k \in KeySet
    BY <2>1, <2>n DEF KeySet
  <2>3. Wanted(o, p, x) = <<k>>
    BY <1>6, <1>8 DEF k, t
  <2>4. <<k>> \in Seq(KeySet)
    BY <2>2
  <2> QED BY <2>3, <2>4
<1> QED BY <1>7, <1>8

\* What is selected from an image, and what has been gathered after n fixtures.
LEMMA WishesFact ==
  ASSUME NEW o, NEW p \in DOMAIN Images
  PROVE  LET L == Len(FixtureExports(p))
             J == Joined(Wishes(o, p))
         IN  /\ L \in Nat /\ DOMAIN FixtureExports(p) = 1 .. L
             /\ J[0] = <<>> /\ J[L] = Concat(Wishes(o, p))
             /\ \A n \in 1 .. L : J[n] = J[n - 1] \o Wanted(o, p, FixtureExports(p)[n])
             /\ \A n \in 0 .. L : J[n] \in Seq(KeySet)
<1> DEFINE L == Len(FixtureExports(p))
           w == Wishes(o, p)
<1>1. L \in Nat /\ DOMAIN FixtureExports(p) = 1 .. L
  BY ExportsFact
<1>2. w = [i \in 1 .. L |-> w[i]] /\ \A i \in 1 .. L : w[i] = Wanted(o, p, FixtureExports(p)[i])
  BY <1>1 DEF Wishes
<1> HIDE DEF w, L
<1>3. Len(w) = L
  BY <1>1, <1>2, FunctionFact
<1>4. \A i \in 1 .. L : w[i] \in Seq(KeySet)
  BY <1>1, <1>2, WantedType
<1>5. \A n \in 0 .. L : Joined(w)[n] \in Seq(KeySet)
  BY <1>1, <1>3, <1>4, JoinedType
<1>6. Joined(w)[0] = <<>> /\ \A n \in 1 .. L : Joined(w)[n] = Joined(w)[n - 1] \o w[n]
  BY <1>1, <1>3, JoinedStep
<1>7. \A n \in 1 .. L : Joined(w)[n] = Joined(w)[n - 1] \o Wanted(o, p, FixtureExports(p)[n])
  <2> SUFFICES ASSUME NEW n \in 1 .. L
               PROVE  Joined(w)[n] = Joined(w)[n - 1] \o Wanted(o, p, FixtureExports(p)[n])
    OBVIOUS
  <2>1. w[n] = Wanted(o, p, FixtureExports(p)[n])
    BY <1>2
  <2> QED BY <1>6, <2>1
<1>8. Joined(w)[L] = Concat(w)
  BY <1>3 DEF Concat
<1> QED BY <1>1, <1>5, <1>6, <1>7, <1>8 DEF w, L

\* The images that may be loaded at all.
Eligible(o, p) == IsModule(o, p) \/ "-exe" \in o.flags

\* What is selected from a file.
LEMMA SelectedFact ==
  ASSUME NEW o, NEW p
  PROVE  /\ ~ Eligible(o, p) => Selected(o, p) = <<>>
         /\ p \in DOMAIN Images /\ ~ ModuleLoads(p) => Selected(o, p) = <<>>
         /\ p \in DOMAIN Images /\ Eligible(o, p) /\ ModuleLoads(p) =>
               Selected(o, p) = Joined(Wishes(o, p))[Len(FixtureExports(p))]
         /\ p \in DOMAIN Images \/ "-exe" \notin o.flags => Selected(o, p) \in Seq(KeySet)
<1>1. ASSUME ~ Eligible(o, p) PROVE Selected(o, p) = <<>>
  BY <1>1 DEF Selected, Eligible
<1>2. ASSUME p \in DOMAIN Images, ~ ModuleLoads(p) PROVE Selected(o, p) = <<>>
  <2>1. ~ (Images[p].loads /\ AtMostOnce(p))
    BY <1>2, LoadsFact
  <2> QED BY <2>1 DEF Selected
<1>3. ASSUME p \in DOMAIN Images, Eligible(o, p), ModuleLoads(p)
      PROVE  Selected(o, p) = Joined(Wishes(o, p))[Len(FixtureExports(p))]
  <2>1. Images[p].loads /\ AtMostOnce(p)
    BY <1>3, LoadsFact
  <2>2. Selected(o, p) = Concat(Wishes(o, p))
    BY <1>3, <2>1 DEF Selected, Eligible, Wishes
  <2> QED BY <1>3, <2>2, WishesFact
<1>4. ASSUME p \in DOMAIN Images \/ "-exe" \notin o.flags PROVE Selected(o, p) \in Seq(KeySet)
  <2>1. <<>> \in Seq(KeySet)
    OBVIOUS
  <2>2. CASE p \in DOMAIN Images
    <3>1. Joined(Wishes(o, p))[Len(FixtureExports(p))] \in Seq(KeySet)
      <4>1. Len(FixtureExports(p)) \in 0 .. Len(FixtureExports(p))
        BY <2>2, ExportsFact
      <4> QED BY <2>2, <4>1, WishesFact
    <3> QED BY <1>1, <1>2, <1>3, <2>1, <2>2, <3>1
  <2>3. CASE p \notin DOMAIN Images
    <3>1. ~ Eligible(o, p)
      BY <1>4, <2>3 DEF Eligible, IsModule, IsType
    <3> QED BY <1>1, <2>1, <3>1
  <2> QED BY <2>2, <2>3
<1> QED BY <1>1, <1>2, <1>3, <1>4

-----------------------------------------------------------------------------
(***************************************************************************)
(* What is selected from a directory.                                      *)
(***************************************************************************)

\* What a directory contributes, if f lists the directories below.
Shares(f, o, d)  == [i \in DOMAIN Tree[d] |-> Share(o, f, Tree[d][i])]
Content(f, o, d) == IF Opens[d] # "S_OK" THEN <<>> ELSE Concat(Shares(f, o, d))

\* The equation of the function in Listing, on a set of directories.
Lists(D, o, f) == f = [d \in D |-> Content(f, o, d)]

\* Every subdirectory has a smaller depth.
Descends(depth) ==
    /\ depth \in [DOMAIN Tree -> Nat]
    /\ \A d \in DOMAIN Tree : \A i \in DOMAIN Tree[d] :
          Tree[d][i].kind = "dir" => Tree[d][i].path \in DOMAIN Tree /\ depth[Tree[d][i].path] < depth[d]

\* There are depths, and a number above them.
LEMMA DepthFact ==
  \E depth : Descends(depth) /\ \E n \in Nat : \A d \in DOMAIN Tree : depth[d] < n
<1>1. IsFiniteSet(DOMAIN Tree)
  BY TreeAssumption
<1> DEFINE c == Cardinality(DOMAIN Tree)
<1>2. c \in Nat
  BY <1>1, FS_CardinalityType
<1>3. PICK depth \in [DOMAIN Tree -> 0 .. c] :
          \A d \in DOMAIN Tree : \A i \in DOMAIN Tree[d] :
             Tree[d][i].kind = "dir" =>
                Tree[d][i].path \in DOMAIN Tree /\ depth[Tree[d][i].path] < depth[d]
  BY TreeAssumption
<1> HIDE DEF c
<1>4. Descends(depth)
  BY <1>2, <1>3 DEF Descends
<1>5. c + 1 \in Nat /\ \A d \in DOMAIN Tree : depth[d] < c + 1
  BY <1>2, <1>3
<1> QED BY <1>4, <1>5

\* What a directory contributes depends on the directories right below it.
LEMMA ContentFact ==
  ASSUME NEW o, NEW f, NEW g, NEW d,
         \A i \in DOMAIN Tree[d] : Tree[d][i].kind = "dir" => f[Tree[d][i].path] = g[Tree[d][i].path]
  PROVE  Content(f, o, d) = Content(g, o, d)
<1>1. ASSUME NEW i \in DOMAIN Tree[d] PROVE Share(o, f, Tree[d][i]) = Share(o, g, Tree[d][i])
  BY DEF Share
<1>2. Shares(f, o, d) = Shares(g, o, d)
  BY <1>1 DEF Shares
<1> QED BY <1>2 DEF Content

\* The equation has a solution on the directories up to any depth.
LEMMA ListsExist ==
  ASSUME NEW o, NEW depth, Descends(depth), NEW n \in Nat
  PROVE  \E f : Lists({d \in DOMAIN Tree : depth[d] < n}, o, f)
<1> DEFINE D(m) == {d \in DOMAIN Tree : depth[d] < m}
           T == {m \in Nat : ~ \E f : Lists(D(m), o, f)}
<1> SUFFICES ASSUME T # {} PROVE FALSE
  OBVIOUS
<1>1. PICK m \in T : \A y \in T : m <= y
  BY LeastNumber
<1>d. depth \in [DOMAIN Tree -> Nat]
  BY DEF Descends
<1>2. m # 0
  <2> DEFINE f == [d \in {} |-> <<>>]
  <2>1. D(0) = {}
    BY <1>d
  <2>2. Lists({}, o, f)
    BY DEF Lists
  <2> QED BY <1>1, <2>1, <2>2
<1>3. m - 1 \in Nat /\ m - 1 \notin T
  <2>1. m \in Nat
    BY <1>1
  <2> HIDE DEF T
  <2> QED BY <1>1, <1>2, <2>1
<1>4. PICK f : Lists(D(m - 1), o, f)
  BY <1>3
<1> DEFINE g == [d \in D(m) |-> IF depth[d] < m - 1 THEN f[d] ELSE Content(f, o, d)]
<1>5. \A d \in D(m - 1) : f[d] = Content(f, o, d)
  <2> DEFINE E == D(m - 1)
  <2>1. Lists(E, o, f)
    BY <1>4
  <2> HIDE DEF E
  <2>2. \A d \in E : f[d] = Content(f, o, d)
    BY <2>1 DEF Lists
  <2> QED BY <2>2 DEF E
<1>6. \A d \in D(m) : g[d] = Content(f, o, d)
  BY <1>5
<1>7. \A d \in D(m - 1) : d \in D(m) /\ g[d] = f[d]
  BY <1>3, <1>d
<1>8. ASSUME NEW d \in D(m) PROVE g[d] = Content(g, o, d)
  <2>1. ASSUME NEW i \in DOMAIN Tree[d], Tree[d][i].kind = "dir"
        PROVE  f[Tree[d][i].path] = g[Tree[d][i].path]
    <3>1. Tree[d][i].path \in DOMAIN Tree /\ depth[Tree[d][i].path] < depth[d]
      BY <2>1 DEF Descends
    <3>2. Tree[d][i].path \in D(m - 1)
      BY <1>3, <1>d, <3>1
    <3> QED BY <1>7, <3>2
  <2> HIDE DEF g
  <2>2. Content(f, o, d) = Content(g, o, d)
    BY <2>1, ContentFact
  <2> QED BY <1>6, <2>2
<1>9. Lists(D(m), o, g)
  <2>1. g = [d \in D(m) |-> g[d]]
    OBVIOUS
  <2> DEFINE E == D(m)
  <2>2. g = [d \in E |-> g[d]] /\ \A d \in E : g[d] = Content(g, o, d)
    BY <1>8, <2>1
  <2> HIDE DEF E, g
  <2>3. Lists(E, o, g)
    BY <2>2 DEF Lists
  <2> QED BY <2>3 DEF E
<1> QED BY <1>1, <1>9

\* What is listed for a directory.
LEMMA ListingStep ==
  ASSUME NEW o
  PROVE  \A d \in DOMAIN Tree : Listing(o)[d] = Content(Listing(o), o, d)
<1>1. PICK depth : Descends(depth) /\ \E n \in Nat : \A d \in DOMAIN Tree : depth[d] < n
  BY DepthFact
<1>2. PICK n \in Nat : \A d \in DOMAIN Tree : depth[d] < n
  BY <1>1
<1>3. {d \in DOMAIN Tree : depth[d] < n} = DOMAIN Tree
  BY <1>2
<1>4. \E f : Lists(DOMAIN Tree, o, f)
  BY <1>1, <1>3, ListsExist
<1> DEFINE g == CHOOSE f : Lists(DOMAIN Tree, o, f)
<1>5. Lists(DOMAIN Tree, o, g)
  BY <1>4
<1>6. Listing(o) = g
  BY DEF Listing, Lists, Content, Shares
<1> HIDE DEF g
<1>7. \A d \in DOMAIN Tree : g[d] = Content(g, o, d)
  BY <1>5 DEF Lists
<1> QED BY <1>6, <1>7

\* What has been gathered after n entries of a directory.
LEMMA SharesFact ==
  ASSUME NEW o, "-exe" \notin o.flags, NEW f, NEW d \in DOMAIN Tree,
         \A i \in DOMAIN Tree[d] : Tree[d][i].kind = "dir" => f[Tree[d][i].path] \in Seq(KeySet)
  PROVE  LET L == Len(Tree[d])
             J == Joined(Shares(f, o, d))
         IN  /\ L \in Nat /\ DOMAIN Tree[d] = 1 .. L
             /\ J[0] = <<>> /\ J[L] = Concat(Shares(f, o, d))
             /\ \A n \in 1 .. L : J[n] = J[n - 1] \o Share(o, f, Tree[d][n])
             /\ \A n \in 1 .. L : Share(o, f, Tree[d][n]) \in Seq(KeySet)
             /\ \A n \in 0 .. L : J[n] \in Seq(KeySet)
<1> DEFINE L == Len(Tree[d])
           w == Shares(f, o, d)
<1>1. L \in Nat /\ DOMAIN Tree[d] = 1 .. L
  BY TreeAssumption, IsSequenceFact
<1>2. w = [i \in 1 .. L |-> w[i]] /\ \A i \in 1 .. L : w[i] = Share(o, f, Tree[d][i])
  BY <1>1 DEF Shares
<1> HIDE DEF w, L
<1>3. Len(w) = L
  BY <1>1, <1>2, FunctionFact
<1>4. ASSUME NEW i \in 1 .. L PROVE Share(o, f, Tree[d][i]) \in Seq(KeySet)
  <2> DEFINE e == Tree[d][i]
  <2>1. <<>> \in Seq(KeySet)
    OBVIOUS
  <2>2. Selected(o, e.path) \in Seq(KeySet)
    BY SelectedFact
  <2>3. e.kind = "dir" => f[e.path] \in Seq(KeySet)
    BY <1>1
  <2> HIDE DEF e
  <2>4. Share(o, f, e) \in Seq(KeySet)
    <3>1. CASE e.kind = "file"
      BY <2>2, <3>1 DEF Share
    <3>2. CASE e.kind = "dir" /\ "-r" \in o.flags
      BY <2>3, <3>2 DEF Share
    <3>3. CASE e.kind # "file" /\ ~ (e.kind = "dir" /\ "-r" \in o.flags)
      BY <2>1, <3>3 DEF Share
    <3> QED BY <3>1, <3>2, <3>3
  <2> QED BY <2>4 DEF e
<1>5. \A n \in 0 .. L : Joined(w)[n] \in Seq(KeySet)
  <2>1. \A i \in 1 .. L : w[i] \in Seq(KeySet)
    BY <1>2, <1>4
  <2> QED BY <1>1, <1>3, <2>1, JoinedType
<1>6. Joined(w)[0] = <<>> /\ \A n \in 1 .. L : Joined(w)[n] = Joined(w)[n - 1] \o w[n]
  BY <1>1, <1>3, JoinedStep
<1>7. \A n \in 1 .. L : Joined(w)[n] = Joined(w)[n - 1] \o Share(o, f, Tree[d][n])
  <2> SUFFICES ASSUME NEW n \in 1 .. L
               PROVE  Joined(w)[n] = Joined(w)[n - 1] \o Share(o, f, Tree[d][n])
    OBVIOUS
  <2>1. w[n] = Share(o, f, Tree[d][n])
    BY <1>2
  <2> QED BY <1>6, <2>1
<1>8. Joined(w)[L] = Concat(w)
  BY <1>3 DEF Concat
<1> QED BY <1>1, <1>4, <1>5, <1>6, <1>7, <1>8 DEF w, L

\* What is listed consists of keys.
LEMMA ListingType ==
  ASSUME NEW o, "-exe" \notin o.flags
  PROVE  \A d \in DOMAIN Tree : Listing(o)[d] \in Seq(KeySet)
<1> DEFINE f == Listing(o)
           B == {d \in DOMAIN Tree : f[d] \notin Seq(KeySet)}
<1>1. PICK depth : Descends(depth)
  BY DepthFact
<1>2. depth \in [DOMAIN Tree -> Nat]
  BY <1>1 DEF Descends
<1> DEFINE T == {depth[d] : d \in B}
<1> SUFFICES ASSUME B # {} PROVE FALSE
  OBVIOUS
<1>3. T \subseteq Nat /\ T # {}
  BY <1>2
<1>4. PICK m \in T : \A y \in T : m <= y
  BY <1>3, LeastNumber
<1>5. PICK d \in B : depth[d] = m
  BY <1>4
<1>6. ASSUME NEW i \in DOMAIN Tree[d], Tree[d][i].kind = "dir" PROVE f[Tree[d][i].path] \in Seq(KeySet)
  <2>1. Tree[d][i].path \in DOMAIN Tree /\ depth[Tree[d][i].path] < depth[d]
    BY <1>1, <1>6 DEF Descends
  <2>2. depth[Tree[d][i].path] \notin T
    <3> DEFINE q == Tree[d][i].path
    <3>1. depth[q] \in Nat /\ depth[q] < m /\ m \in Nat
      BY <1>2, <1>3, <1>4, <1>5, <2>1
    <3> HIDE DEF T, q
    <3>2. depth[q] \notin T
      BY <1>4, <3>1
    <3> QED BY <3>2 DEF q
  <2>3. Tree[d][i].path \notin B
    BY <2>2
  <2> QED BY <2>1, <2>3
<1> HIDE DEF f
<1>7. Concat(Shares(f, o, d)) \in Seq(KeySet)
  <2>1. Len(Tree[d]) \in Nat
    BY TreeAssumption, IsSequenceFact
  <2>2. Len(Tree[d]) \in 0 .. Len(Tree[d]) /\ d \in DOMAIN Tree
    BY <2>1
  <2> HIDE DEF B, T
  <2>3. \A i \in DOMAIN Tree[d] : Tree[d][i].kind = "dir" => f[Tree[d][i].path] \in Seq(KeySet)
    BY <1>6
  <2> DEFINE L == Len(Tree[d])
             J == Joined(Shares(f, o, d))
  <2>4. /\ L \in Nat /\ DOMAIN Tree[d] = 1 .. L
        /\ J[0] = <<>> /\ J[L] = Concat(Shares(f, o, d))
        /\ \A n \in 1 .. L : J[n] = J[n - 1] \o Share(o, f, Tree[d][n])
        /\ \A n \in 1 .. L : Share(o, f, Tree[d][n]) \in Seq(KeySet)
        /\ \A n \in 0 .. L : J[n] \in Seq(KeySet)
    BY <2>2, <2>3, SharesFact
  <2> HIDE DEF J
  <2> QED BY <2>2, <2>4
<1>8. f[d] = Content(f, o, d)
  BY ListingStep DEF f
<1>9. <<>> \in Seq(KeySet)
  OBVIOUS
<1> QED BY <1>7, <1>8, <1>9 DEF Content

\* What the search gathers from a directory, and what is listed for it.
Gathered(o, d, n) == Joined(Shares(Listing(o), o, d))[n]

LEMMA GatheredFact ==
  ASSUME NEW o, "-exe" \notin o.flags, NEW d \in DOMAIN Tree
  PROVE  /\ Len(Tree[d]) \in Nat /\ DOMAIN Tree[d] = 1 .. Len(Tree[d])
         /\ Gathered(o, d, 0) = <<>>
         /\ Opens[d] = "S_OK" => Listing(o)[d] = Gathered(o, d, Len(Tree[d]))
         /\ Opens[d] # "S_OK" => Listing(o)[d] = <<>>
         /\ Listing(o)[d] \in Seq(KeySet)
         /\ \A n \in 1 .. Len(Tree[d]) :
               /\ Share(o, Listing(o), Tree[d][n]) \in Seq(KeySet)
               /\ Gathered(o, d, n) = Gathered(o, d, n - 1) \o Share(o, Listing(o), Tree[d][n])
         /\ \A n \in 0 .. Len(Tree[d]) : Gathered(o, d, n) \in Seq(KeySet)
<1> DEFINE f == Listing(o)
           L == Len(Tree[d])
           J == Joined(Shares(f, o, d))
<1>1. \A i \in DOMAIN Tree[d] : Tree[d][i].kind = "dir" => f[Tree[d][i].path] \in Seq(KeySet)
  BY TreeAssumption, ListingType
<1>2. f[d] = Content(f, o, d) /\ f[d] \in Seq(KeySet)
  BY ListingStep, ListingType
<1> HIDE DEF f
<1>3. /\ L \in Nat /\ DOMAIN Tree[d] = 1 .. L
      /\ J[0] = <<>> /\ J[L] = Concat(Shares(f, o, d))
      /\ \A n \in 1 .. L : J[n] = J[n - 1] \o Share(o, f, Tree[d][n])
      /\ \A n \in 1 .. L : Share(o, f, Tree[d][n]) \in Seq(KeySet)
      /\ \A n \in 0 .. L : J[n] \in Seq(KeySet)
  BY <1>1, SharesFact
<1>4. \A n : Gathered(o, d, n) = J[n]
  BY DEF Gathered, f
<1> HIDE DEF J, L
<1>5. \A n \in 1 .. L : J[n] = J[n - 1] \o Share(o, f, Tree[d][n])
  BY <1>3
<1>6. \A n \in 1 .. L : Gathered(o, d, n) = Gathered(o, d, n - 1) \o Share(o, f, Tree[d][n])
  <2> SUFFICES ASSUME NEW n \in 1 .. L
               PROVE  Gathered(o, d, n) = Gathered(o, d, n - 1) \o Share(o, f, Tree[d][n])
    OBVIOUS
  <2>1. J[n] = J[n - 1] \o Share(o, f, Tree[d][n])
    BY <1>5
  <2> QED BY <1>4, <2>1
<1>7. /\ Opens[d] = "S_OK" => f[d] = Gathered(o, d, L)
      /\ Opens[d] # "S_OK" => f[d] = <<>>
  BY <1>2, <1>3, <1>4 DEF Content
<1> QED BY <1>2, <1>3, <1>4, <1>6, <1>7 DEF f, L

-----------------------------------------------------------------------------
(***************************************************************************)
(* The second invariant: what has been gathered so far.  While the search  *)
(* is in a directory, the sequence holds what every directory above it     *)
(* contributed before the one that was entered, what this directory has    *)
(* contributed, and what the module under way has.                         *)
(***************************************************************************)

Places == [dir : DOMAIN Tree, next : Nat]

\* The directories under way: each but the first is the last entry looked at in the one before.
StackInv(s, o) ==
    /\ s \in Seq(Places)
    /\ \A k \in DOMAIN s : Opens[s[k].dir] = "S_OK" /\ s[k].next \in 1 .. Len(Tree[s[k].dir]) + 1
    /\ \A k \in 1 .. Len(s) - 1 :
          /\ s[k].next # 1 /\ "-r" \in o.flags
          /\ Tree[s[k].dir][s[k].next - 1].kind = "dir"
          /\ Tree[s[k].dir][s[k].next - 1].path = s[k + 1].dir
    /\ s # <<>> => s[1].dir = o.input /\ "-exe" \notin o.flags

\* w is what the directories above the last one contributed.
Outer(s, o, w) ==
    \E outer \in [1 .. Len(s) -> Seq(KeySet)] :
       /\ outer[1] = <<>>
       /\ \A k \in 1 .. Len(s) - 1 : outer[k + 1] = outer[k] \o Gathered(o, s[k].dir, s[k].next - 2)
       /\ w = outer[Len(s)]

Target(o) == IF o.input \in DOMAIN Tree THEN Listing(o)[o.input] ELSE Selected(o, o.input)

\* w is what has been gathered when the search looks for the next entry.
SearchKeys(w, s, o) ==
    IF s = <<>> THEN w = Target(o)
    ELSE \E v : Outer(s, o, v) /\ w = v \o Gathered(o, Last(s).dir, Last(s).next - 1)

\* w is what has been gathered when the search looks for the next fixture of a module.
ModuleKeys(w, p, n, s, o) ==
    IF s = <<>> THEN w = Joined(Wishes(o, p))[n - 1]
    ELSE \E v : /\ Outer(s, o, v)
                /\ w = (v \o Gathered(o, Last(s).dir, Last(s).next - 2)) \o Joined(Wishes(o, p))[n - 1]

\* The module under way is the input, or the last entry looked at.
Origin(p, s, o) ==
    IF s = <<>> THEN p = o.input
    ELSE /\ Last(s).next # 1 /\ Tree[Last(s).dir][Last(s).next - 1].kind = "file"
         /\ Tree[Last(s).dir][Last(s).next - 1].path = p

LoadedInv(m, h, s, o) ==
    /\ m.path \in DOMAIN Images /\ m.fixtures = LoadFixtures(m.path) /\ ModuleLoads(m.path)
    /\ Eligible(o, m.path)
    /\ m.next \in 1 .. Len(m.fixtures) + 1
    /\ m.pending # 0 => /\ m.next <= Len(m.fixtures)
                        /\ Wanted(o, m.path, FixtureExports(m.path)[m.next]) = <<Key(h.actions[m.pending])>>
    /\ Origin(m.path, s, o)

Running == {"context", "collect", "run", "release", "statistics"}

Complete(ph, o, s, m, h, r) ==
    /\ ph \notin {"search", "module"} => s = <<>>
    /\ StackInv(s, o)
    /\ ph \in {"start", "assemble"} => r = "S_OK"
    /\ r = "E_ACCESSDENIED" => s = <<>> /\ Opens[o.input] = "E_ACCESSDENIED"
    /\ ph = "module" => LoadedInv(m, h, s, o)
    /\ ph = "search" /\ r = "S_OK" => SearchKeys(Keys(h), s, o)
    /\ ph = "module" /\ r = "S_OK" => ModuleKeys(Keys(h), m.path, m.next, s, o)
    /\ ph \in Running => Keys(h) = Target(o)

CompleteInv == Complete(phase, options, dirs, module, heap, hr)

-----------------------------------------------------------------------------
(***************************************************************************)
(* The stack of directories.                                               *)
(***************************************************************************)

\* The directories under way, and the last of them.
LEMMA StackFact ==
  ASSUME NEW s, NEW o, StackInv(s, o), s # <<>>
  PROVE  /\ s \in Seq(Places) /\ Len(s) \in Nat /\ Len(s) # 0 /\ DOMAIN s = 1 .. Len(s)
         /\ \A k \in 1 .. Len(s) : /\ s[k] \in Places /\ s[k].dir \in DOMAIN Tree /\ s[k].next \in Nat
                                   /\ s[k].next # 0 /\ Opens[s[k].dir] = "S_OK"
                                   /\ s[k].next <= Len(Tree[s[k].dir]) + 1
                                   /\ Len(Tree[s[k].dir]) \in Nat
                                   /\ DOMAIN Tree[s[k].dir] = 1 .. Len(Tree[s[k].dir])
         /\ "-exe" \notin o.flags
<1>1. s \in Seq(Places) /\ "-exe" \notin o.flags
  BY DEF StackInv
<1>2. Len(s) \in Nat /\ Len(s) # 0 /\ DOMAIN s = 1 .. Len(s)
  BY <1>1
<1>3. ASSUME NEW k \in 1 .. Len(s)
      PROVE  /\ s[k] \in Places /\ s[k].dir \in DOMAIN Tree /\ s[k].next \in Nat
             /\ s[k].next # 0 /\ Opens[s[k].dir] = "S_OK"
             /\ s[k].next <= Len(Tree[s[k].dir]) + 1
             /\ Len(Tree[s[k].dir]) \in Nat
             /\ DOMAIN Tree[s[k].dir] = 1 .. Len(Tree[s[k].dir])
  <2>1. s[k] \in Places
    BY <1>1
  <2>2. s[k].dir \in DOMAIN Tree /\ s[k].next \in Nat
    BY <2>1 DEF Places
  <2>3. Len(Tree[s[k].dir]) \in Nat /\ DOMAIN Tree[s[k].dir] = 1 .. Len(Tree[s[k].dir])
    BY <2>2, TreeAssumption, IsSequenceFact
  <2>4. Opens[s[k].dir] = "S_OK" /\ s[k].next \in 1 .. Len(Tree[s[k].dir]) + 1
    BY <1>2 DEF StackInv
  <2> QED BY <2>1, <2>2, <2>3, <2>4
<1> QED BY <1>1, <1>2, <1>3

\* t is s with one more entry of the last directory looked at.
Advances(t, s) ==
    /\ t \in Seq(Places) /\ Len(t) = Len(s) /\ \A k \in 1 .. Len(s) - 1 : t[k] = s[k]
    /\ Last(t).dir = Last(s).dir /\ Last(t).next = Last(s).next + 1

LEMMA AdvancedFact ==
  ASSUME NEW s, NEW o, StackInv(s, o), s # <<>>
  PROVE  Advances([s EXCEPT ![Len(s)].next = @ + 1], s)
<1> DEFINE L == Len(s)
           e == [s[L] EXCEPT !.next = @ + 1]
           t == [s EXCEPT ![L] = e]
<1>1. s \in Seq(Places) /\ L \in Nat /\ L # 0 /\ DOMAIN s = 1 .. L /\ s[L] \in Places
  BY StackFact
<1>2. e \in Places /\ e.dir = s[L].dir /\ e.next = s[L].next + 1
  BY <1>1 DEF Places
<1> HIDE DEF e
<1>3. /\ t \in Seq(Places) /\ Len(t) = L /\ t[L] = e /\ \A k \in 1 .. L - 1 : t[k] = s[k]
  BY <1>1, <1>2
<1>4. [s EXCEPT ![L].next = @ + 1] = t
  BY DEF e
<1> HIDE DEF t
<1>5. Advances(t, s)
  BY <1>2, <1>3 DEF Advances, Last
<1> QED BY <1>4, <1>5

\* What the directories above contributed does not depend on the last one.
LEMMA OuterSame ==
  ASSUME NEW s, NEW o, NEW w, Outer(s, o, w), NEW t, Len(t) = Len(s), \A k \in 1 .. Len(s) - 1 : t[k] = s[k]
  PROVE  Outer(t, o, w)
BY DEF Outer

\* It consists of keys.
LEMMA OuterType ==
  ASSUME NEW s, NEW o, NEW w, Outer(s, o, w), Len(s) \in Nat, Len(s) # 0
  PROVE  w \in Seq(KeySet)
BY DEF Outer

\* Nothing is above the first directory.
LEMMA OuterFirst ==
  ASSUME NEW s, NEW o, Len(s) = 1
  PROVE  /\ Outer(s, o, <<>>)
         /\ \A w : Outer(s, o, w) => w = <<>>
<1> DEFINE f == [k \in 1 .. 1 |-> <<>>]
<1>0. <<>> \in Seq(KeySet)
  OBVIOUS
<1>1. f \in [1 .. 1 -> Seq(KeySet)] /\ f[1] = <<>>
  BY <1>0
<1> HIDE DEF f
<1>2. 1 .. 1 - 1 = {}
  OBVIOUS
<1> QED BY <1>1, <1>2 DEF Outer

\* A directory is entered: what the one above has contributed is complete for now.
LEMMA OuterPush ==
  ASSUME NEW s, NEW o, NEW w, Outer(s, o, w), Len(s) \in Nat, Len(s) # 0,
         NEW t, Len(t) = Len(s) + 1, \A k \in 1 .. Len(s) - 1 : t[k] = s[k],
         Gathered(o, t[Len(s)].dir, t[Len(s)].next - 2) \in Seq(KeySet)
  PROVE  Outer(t, o, w \o Gathered(o, t[Len(s)].dir, t[Len(s)].next - 2))
<1> DEFINE L == Len(s)
           g == Gathered(o, t[L].dir, t[L].next - 2)
           v == w \o g
<1>1. PICK f \in [1 .. L -> Seq(KeySet)] :
         /\ f[1] = <<>>
         /\ \A k \in 1 .. L - 1 : f[k + 1] = f[k] \o Gathered(o, s[k].dir, s[k].next - 2)
         /\ w = f[L]
  BY DEF Outer
<1>2. v \in Seq(KeySet)
  <2>1. w \in Seq(KeySet) /\ g \in Seq(KeySet)
    BY <1>1
  <2> HIDE DEF g
  <2> QED BY <2>1, ConcatProperties
<1> DEFINE h == [k \in 1 .. L + 1 |-> IF k = L + 1 THEN v ELSE f[k]]
<1>3. h \in [1 .. L + 1 -> Seq(KeySet)]
  <2> HIDE DEF v
  <2> QED BY <1>1, <1>2
<1>4. h[1] = <<>> /\ h[L + 1] = v /\ \A k \in 1 .. L : h[k] = f[k]
  <2> HIDE DEF v
  <2> QED BY <1>1
<1> HIDE DEF h
<1>5. ASSUME NEW k \in 1 .. (L + 1) - 1
      PROVE  h[k + 1] = h[k] \o Gathered(o, t[k].dir, t[k].next - 2)
  <2>1. CASE k = L
    <3>1. L \in 1 .. L
      OBVIOUS
    <3>2. h[L] = w /\ h[L + 1] = v
      BY <1>1, <1>4, <3>1
    <3>3. h[L + 1] = h[L] \o Gathered(o, t[L].dir, t[L].next - 2)
      <4> HIDE DEF L
      <4> QED BY <3>2 DEF v, g
    <3> QED BY <2>1, <3>3
  <2>2. CASE k # L
    <3>1. k \in 1 .. L - 1 /\ k + 1 \in 1 .. L /\ k \in 1 .. L
      BY <2>2
    <3>2. h[k + 1] = f[k + 1] /\ h[k] = f[k] /\ t[k] = s[k]
      BY <1>4, <3>1
    <3>3. f[k + 1] = f[k] \o Gathered(o, s[k].dir, s[k].next - 2)
      BY <1>1, <3>1
    <3> QED BY <3>2, <3>3
  <2> QED BY <2>1, <2>2
<1> HIDE DEF v
<1>6. Outer(t, o, v)
  BY <1>3, <1>4, <1>5 DEF Outer
<1> QED BY <1>6 DEF v, g, L

\* w is what the directories of t contributed before the last entry looked at.
Before(t, o, w) ==
    \E v : Outer(t, o, v) /\ w = v \o Gathered(o, t[Len(t)].dir, t[Len(t)].next - 2)

\* A directory is left.
LEMMA OuterPop ==
  ASSUME NEW s, NEW o, NEW w, Outer(s, o, w),
         NEW t, Len(t) \in Nat, Len(t) # 0, Len(s) = Len(t) + 1, \A k \in 1 .. Len(t) : t[k] = s[k]
  PROVE  Before(t, o, w)
<1> DEFINE L == Len(t)
<1>0. L \in Nat /\ L # 0 /\ Len(s) = L + 1 /\ \A k \in 1 .. L : t[k] = s[k]
  OBVIOUS
<1>1. PICK f \in [1 .. L + 1 -> Seq(KeySet)] :
         /\ f[1] = <<>>
         /\ \A k \in 1 .. (L + 1) - 1 : f[k + 1] = f[k] \o Gathered(o, s[k].dir, s[k].next - 2)
         /\ w = f[L + 1]
  BY DEF Outer
<1> DEFINE g == [k \in 1 .. L |-> f[k]]
<1>2. g \in [1 .. L -> Seq(KeySet)] /\ \A k \in 1 .. L : g[k] = f[k]
  OBVIOUS
<1>3. ASSUME NEW k \in 1 .. L PROVE f[k + 1] = f[k] \o Gathered(o, t[k].dir, t[k].next - 2)
  <2>1. t[k] = s[k] /\ k \in 1 .. (L + 1) - 1
    OBVIOUS
  <2>2. f[k + 1] = f[k] \o Gathered(o, s[k].dir, s[k].next - 2)
    BY <1>1, <2>1
  <2> QED BY <2>1, <2>2
<1> HIDE DEF g
<1>4. ASSUME NEW k \in 1 .. L - 1 PROVE g[k + 1] = g[k] \o Gathered(o, t[k].dir, t[k].next - 2)
  <2>1. k \in 1 .. L /\ k + 1 \in 1 .. L
    OBVIOUS
  <2>2. g[k + 1] = f[k + 1] /\ g[k] = f[k]
    BY <1>2, <2>1
  <2> QED BY <1>3, <2>1, <2>2
<1>5. g[1] = <<>>
  BY <1>1, <1>2
<1>6. Outer(t, o, g[L])
  BY <1>2, <1>4, <1>5 DEF Outer
<1>7. w = g[L] \o Gathered(o, t[L].dir, t[L].next - 2)
  <2>1. L \in 1 .. L
    OBVIOUS
  <2>2. w = f[L + 1] /\ g[L] = f[L]
    BY <1>1, <1>2, <2>1
  <2>3. f[L + 1] = f[L] \o Gathered(o, t[L].dir, t[L].next - 2)
    BY <1>3, <2>1
  <2> QED BY <2>2, <2>3
<1> QED BY <1>6, <1>7 DEF Before

\* The last directory and its next entry.
Entry(s) == Tree[Last(s).dir][Last(s).next]

\* Another entry has been looked at.
LEMMA AdvanceStack ==
  ASSUME NEW s, NEW o, StackInv(s, o), s # <<>>, NEW t, Advances(t, s),
         Last(s).next <= Len(Tree[Last(s).dir])
  PROVE  /\ StackInv(t, o) /\ t # <<>> /\ Len(t) = Len(s) /\ \A k \in 1 .. Len(s) - 1 : t[k] = s[k]
         /\ Last(t).dir = Last(s).dir /\ Last(t).next = Last(s).next + 1
         /\ Last(s).dir \in DOMAIN Tree /\ Last(s).next \in 1 .. Len(Tree[Last(s).dir])
         /\ (Last(s).next + 1) - 1 = Last(s).next /\ (Last(s).next + 1) - 2 = Last(s).next - 1
<1> DEFINE L == Len(s)
<1>1. /\ s \in Seq(Places) /\ L \in Nat /\ L # 0 /\ DOMAIN s = 1 .. L /\ "-exe" \notin o.flags
      /\ \A k \in 1 .. L : /\ s[k].dir \in DOMAIN Tree /\ s[k].next \in Nat /\ s[k].next # 0
                           /\ Opens[s[k].dir] = "S_OK" /\ s[k].next <= Len(Tree[s[k].dir]) + 1
                           /\ Len(Tree[s[k].dir]) \in Nat
  BY StackFact
<1>2. /\ t \in Seq(Places) /\ Len(t) = L /\ \A k \in 1 .. L - 1 : t[k] = s[k]
      /\ t[L].dir = s[L].dir /\ t[L].next = s[L].next + 1 /\ s[L].next <= Len(Tree[s[L].dir])
  BY DEF Advances, Last
<1>3. DOMAIN t = 1 .. L /\ t # <<>>
  BY <1>1, <1>2
<1>4. ASSUME NEW k \in 1 .. L
      PROVE  t[k].dir = s[k].dir /\ Opens[t[k].dir] = "S_OK" /\ t[k].next \in 1 .. Len(Tree[t[k].dir]) + 1
  <2>1. CASE k = L
    BY <1>1, <1>2, <2>1
  <2>2. CASE k # L
    <3>0. L \in Nat
      BY <1>1
    <3>1. k \in 1 .. L - 1
      <4> HIDE DEF L
      <4> QED BY <2>2, <3>0
    <3>2. t[k] = s[k]
      BY <1>2, <3>1
    <3> QED BY <1>1, <3>2
  <2> QED BY <2>1, <2>2
<1>5. ASSUME NEW k \in 1 .. L - 1
      PROVE  /\ t[k].next # 1 /\ "-r" \in o.flags
             /\ Tree[t[k].dir][t[k].next - 1].kind = "dir"
             /\ Tree[t[k].dir][t[k].next - 1].path = t[k + 1].dir
  <2>1. t[k] = s[k] /\ k + 1 \in 1 .. L
    <3>1. L \in Nat
      BY <1>1
    <3>2. k + 1 \in 1 .. L
      <4> HIDE DEF L
      <4> QED BY <3>1
    <3> QED BY <1>2, <3>2
  <2>2. t[k + 1].dir = s[k + 1].dir
    BY <1>4, <2>1
  <2> QED BY <2>1, <2>2 DEF StackInv
<1>6. t[1].dir = o.input
  <2>1. 1 \in 1 .. L
    BY <1>1
  <2> QED BY <1>4, <2>1 DEF StackInv
<1>7. StackInv(t, o)
  BY <1>1, <1>2, <1>3, <1>4, <1>5, <1>6 DEF StackInv
<1> QED BY <1>1, <1>2, <1>3, <1>7 DEF Last

\* An entry that contributes nothing.
LEMMA PassKeys ==
  ASSUME NEW s, NEW o, StackInv(s, o), s # <<>>, NEW t, Advances(t, s),
         Last(s).next <= Len(Tree[Last(s).dir]), NEW w, SearchKeys(w, s, o),
         Share(o, Listing(o), Entry(s)) = <<>>
  PROVE  SearchKeys(w, t, o)
<1> DEFINE d == Last(s).dir
           n == Last(s).next
<1>1. /\ t # <<>> /\ Len(t) = Len(s) /\ \A k \in 1 .. Len(s) - 1 : t[k] = s[k]
      /\ Last(t).dir = d /\ Last(t).next = n + 1 /\ (n + 1) - 1 = n
      /\ d \in DOMAIN Tree /\ n \in 1 .. Len(Tree[d])
  BY AdvanceStack
<1>2. "-exe" \notin o.flags
  BY StackFact
<1>3. PICK v : Outer(s, o, v) /\ w = v \o Gathered(o, d, n - 1)
  BY DEF SearchKeys
<1>4. Gathered(o, d, n) = Gathered(o, d, n - 1)
  <2>1. Share(o, Listing(o), Tree[d][n]) = <<>>
    BY DEF Entry
  <2> HIDE DEF d, n
  <2>2. /\ Len(Tree[d]) \in Nat
        /\ \A k \in 1 .. Len(Tree[d]) :
              Gathered(o, d, k) = Gathered(o, d, k - 1) \o Share(o, Listing(o), Tree[d][k])
        /\ \A k \in 0 .. Len(Tree[d]) : Gathered(o, d, k) \in Seq(KeySet)
    <3>1. "-exe" \notin o.flags /\ d \in DOMAIN Tree
      BY <1>1, <1>2
    <3> QED BY ONLY <3>1, GatheredFact, ZenonT(60)
  <2>3. n - 1 \in 0 .. Len(Tree[d])
    BY <1>1, <2>2
  <2>4. Gathered(o, d, n - 1) \in Seq(KeySet)
    BY <2>2, <2>3
  <2>5. Gathered(o, d, n) = Gathered(o, d, n - 1) \o <<>>
    BY <1>1, <2>1, <2>2
  <2> QED BY <2>4, <2>5, ConcatEmptySeq
<1> HIDE DEF d, n
<1>5. Outer(t, o, v)
  BY <1>1, <1>3, OuterSame
<1> QED BY <1>1, <1>3, <1>4, <1>5 DEF SearchKeys

\* A subdirectory is entered.
LEMMA EnterKeys ==
  ASSUME NEW s, NEW o, StackInv(s, o), s # <<>>, NEW t, Advances(t, s),
         Last(s).next <= Len(Tree[Last(s).dir]), NEW w,
         Entry(s).kind = "dir", "-r" \in o.flags, Opens[Entry(s).path] = "S_OK",
         NEW u, u = Append(t, [dir |-> Entry(s).path, next |-> 1])
  PROVE  /\ StackInv(u, o)
         /\ SearchKeys(w, s, o) => SearchKeys(w, u, o)
<1> DEFINE d == Last(s).dir
           n == Last(s).next
           q == Entry(s).path
           e == [dir |-> q, next |-> 1]
           L == Len(s)
<1>1. /\ StackInv(t, o) /\ t # <<>> /\ Len(t) = L /\ \A k \in 1 .. L - 1 : t[k] = s[k]
      /\ Last(t).dir = d /\ Last(t).next = n + 1 /\ (n + 1) - 1 = n /\ (n + 1) - 2 = n - 1
      /\ d \in DOMAIN Tree /\ n \in 1 .. Len(Tree[d])
  BY AdvanceStack
<1>2. /\ t \in Seq(Places) /\ L \in Nat /\ L # 0 /\ DOMAIN t = 1 .. L /\ "-exe" \notin o.flags
  BY <1>1, StackFact
<1>3. /\ \A k \in 0 .. Len(Tree[d]) : Gathered(o, d, k) \in Seq(KeySet)
      /\ Len(Tree[d]) \in Nat /\ DOMAIN Tree[d] = 1 .. Len(Tree[d])
  BY <1>1, <1>2, GatheredFact
<1>4. q \in DOMAIN Tree /\ Len(Tree[q]) \in Nat /\ Gathered(o, q, 0) = <<>>
  <2>1. q \in DOMAIN Tree
    BY <1>1, <1>3, TreeAssumption DEF Entry
  <2> QED BY <1>2, <2>1, GatheredFact
<1>5. e \in Places /\ e.dir = q /\ e.next = 1
  BY <1>4 DEF Places
<1>q. Tree[d][n].kind = "dir" /\ Tree[d][n].path = q /\ Opens[q] = "S_OK"
  BY DEF Entry
<1> HIDE DEF e, q, d, n, L
<1>n. n \in Nat /\ n # 0
  BY <1>1, <1>3
<1>6. /\ u \in Seq(Places) /\ Len(u) = L + 1 /\ u[L + 1] = e /\ \A k \in 1 .. L : u[k] = t[k]
      /\ u # <<>>
  <2>1. u = Append(t, e)
    BY DEF e, q
  <2>2. /\ Append(t, e) \in Seq(Places) /\ Append(t, e) # <<>> /\ Len(Append(t, e)) = Len(t) + 1
        /\ \A i \in 1 .. Len(t) : Append(t, e)[i] = t[i]
        /\ Append(t, e)[Len(t) + 1] = e
    BY <1>2, <1>5, AppendProperties
  <2> QED BY <1>1, <2>1, <2>2
<1>7. t[L].dir = d /\ t[L].next = n + 1
  BY <1>1 DEF Last
<1>8. StackInv(u, o)
  <2>1. DOMAIN u = 1 .. L + 1
    BY <1>2, <1>6
  <2>2. ASSUME NEW k \in DOMAIN u
        PROVE  Opens[u[k].dir] = "S_OK" /\ u[k].next \in 1 .. Len(Tree[u[k].dir]) + 1
    <3>1. CASE k = L + 1
      BY <1>4, <1>5, <1>6, <1>q, <3>1
    <3>2. CASE k # L + 1
      <4>1. k \in 1 .. L
        BY <1>2, <2>1, <3>2
      <4>2. u[k] = t[k]
        BY <1>6, <4>1
      <4>3. Opens[t[k].dir] = "S_OK" /\ t[k].next \in 1 .. Len(Tree[t[k].dir]) + 1
        BY <1>1, <1>2, <4>1 DEF StackInv
      <4> QED BY <4>2, <4>3
    <3> QED BY <3>1, <3>2
  <2>3. ASSUME NEW k \in 1 .. Len(u) - 1
        PROVE  /\ u[k].next # 1 /\ "-r" \in o.flags
               /\ Tree[u[k].dir][u[k].next - 1].kind = "dir"
               /\ Tree[u[k].dir][u[k].next - 1].path = u[k + 1].dir
    <3>1. k \in 1 .. L /\ u[k] = t[k]
      BY <1>2, <1>6
    <3>2. CASE k = L
      <4>1. u[k].dir = d /\ u[k].next = n + 1 /\ u[k + 1].dir = q
        BY <1>5, <1>6, <1>7, <3>1, <3>2
      <4>2. u[k].next # 1 /\ u[k].next - 1 = n
        BY <1>n, <4>1
      <4> QED BY <1>q, <4>1, <4>2
    <3>3. CASE k # L
      <4>1. k \in 1 .. L - 1 /\ k + 1 \in 1 .. L
        BY <1>2, <3>1, <3>3
      <4>2. u[k + 1] = t[k + 1]
        BY <1>6, <4>1
      <4>3. /\ t[k].next # 1 /\ Tree[t[k].dir][t[k].next - 1].kind = "dir"
            /\ Tree[t[k].dir][t[k].next - 1].path = t[k + 1].dir
        BY <1>1, <4>1 DEF StackInv
      <4> QED BY <3>1, <4>2, <4>3
    <3> QED BY <3>2, <3>3
  <2>4. u[1].dir = o.input
    <3>1. 1 \in 1 .. L
      BY <1>2
    <3> QED BY <1>1, <1>6, <3>1 DEF StackInv
  <2> QED BY <1>2, <1>6, <2>2, <2>3, <2>4 DEF StackInv
<1>9. ASSUME SearchKeys(w, s, o) PROVE SearchKeys(w, u, o)
  <2>1. PICK v : Outer(s, o, v) /\ w = v \o Gathered(o, d, n - 1)
    BY <1>9 DEF SearchKeys, d, n
  <2>2. n - 1 \in 0 .. Len(Tree[d]) /\ Gathered(o, d, n - 1) \in Seq(KeySet)
    BY <1>1, <1>3
  <2>3. u[L].dir = d /\ u[L].next - 2 = n - 1 /\ \A k \in 1 .. L - 1 : u[k] = s[k]
    <3>1. L \in 1 .. L
      BY <1>2
    <3>2. u[L].dir = d /\ u[L].next = n + 1
      BY <1>6, <1>7, <3>1
    <3>3. ASSUME NEW k \in 1 .. L - 1 PROVE u[k] = s[k]
      <4>1. k \in 1 .. L
        BY <1>2
      <4> QED BY <1>1, <1>6, <4>1
    <3>4. (n + 1) - 2 = n - 1
      BY <1>n
    <3> QED BY <3>2, <3>3, <3>4
  <2>4. Gathered(o, u[L].dir, u[L].next - 2) = Gathered(o, d, n - 1)
    BY <2>3
  <2>5. Outer(u, o, v \o Gathered(o, u[L].dir, u[L].next - 2))
    <3>1. Len(s) = L
      BY DEF L
    <3> QED BY <1>2, <1>6, <2>1, <2>2, <2>3, <2>4, <3>1, OuterPush
  <2>6. Outer(u, o, w)
    BY <2>1, <2>4, <2>5
  <2>7. w \in Seq(KeySet)
    <3>1. Len(u) \in Nat /\ Len(u) # 0
      BY <1>2, <1>6
    <3> QED BY <2>6, <3>1, OuterType
  <2>8. Last(u).dir = q /\ Last(u).next - 1 = 0
    BY <1>5, <1>6 DEF Last
  <2>9. w = w \o Gathered(o, Last(u).dir, Last(u).next - 1)
    <3>1. Gathered(o, Last(u).dir, Last(u).next - 1) = <<>>
      BY <1>4, <2>8
    <3> QED BY <2>7, <3>1, ConcatEmptySeq
  <2> QED BY <1>6, <2>6, <2>9 DEF SearchKeys
<1> QED BY <1>8, <1>9

\* A directory is left.
LEMMA LeaveStack ==
  ASSUME NEW s, NEW o, StackInv(s, o), s # <<>>
  PROVE  /\ StackInv(Front(s), o) /\ Len(Front(s)) = Len(s) - 1
         /\ \A k \in 1 .. Len(s) - 1 : Front(s)[k] = s[k]
<1> DEFINE L == Len(s) - 1
           t == Front(s)
<1>1. s \in Seq(Places) /\ Len(s) \in Nat /\ Len(s) # 0 /\ DOMAIN s = 1 .. Len(s) /\ L \in Nat
  BY StackFact
<1>2. t \in Seq(Places) /\ Len(t) = L /\ DOMAIN t = 1 .. L /\ \A k \in 1 .. L : t[k] = s[k]
  BY <1>1 DEF Front
<1> HIDE DEF t, L
<1>3. L \in Nat /\ DOMAIN s = 1 .. L + 1 /\ Len(s) = L + 1
  BY <1>1 DEF L
<1>4. ASSUME NEW k \in DOMAIN t
      PROVE  Opens[t[k].dir] = "S_OK" /\ t[k].next \in 1 .. Len(Tree[t[k].dir]) + 1
  <2>1. t[k] = s[k] /\ k \in DOMAIN s
    BY <1>2, <1>3
  <2> QED BY <2>1 DEF StackInv
<1>5. ASSUME NEW k \in 1 .. Len(t) - 1
      PROVE  /\ t[k].next # 1 /\ "-r" \in o.flags
             /\ Tree[t[k].dir][t[k].next - 1].kind = "dir"
             /\ Tree[t[k].dir][t[k].next - 1].path = t[k + 1].dir
  <2>1. k \in 1 .. L /\ k + 1 \in 1 .. L /\ k \in 1 .. Len(s) - 1
    BY <1>2, <1>3
  <2>2. t[k] = s[k] /\ t[k + 1] = s[k + 1]
    BY <1>2, <2>1
  <2> QED BY <2>1, <2>2 DEF StackInv
<1>6. ASSUME t # <<>> PROVE t[1].dir = o.input /\ "-exe" \notin o.flags
  <2>1. 1 \in 1 .. L
    BY <1>2, <1>3, <1>6
  <2> QED BY <1>2, <2>1 DEF StackInv
<1>7. StackInv(t, o)
  BY <1>2, <1>4, <1>5, <1>6 DEF StackInv
<1> QED BY <1>2, <1>7 DEF t, L

\* A directory whose last entry has been looked at is left: it has contributed what is listed for it.
LEMMA LeaveKeys ==
  ASSUME NEW s, NEW o, StackInv(s, o), s # <<>>, Last(s).next > Len(Tree[Last(s).dir]),
         NEW w, SearchKeys(w, s, o)
  PROVE  SearchKeys(w, Front(s), o)
<1> DEFINE L == Len(s) - 1
           t == Front(s)
           d == Last(s).dir
           n == Last(s).next
<1>1. StackInv(t, o) /\ Len(t) = L /\ \A k \in 1 .. L : t[k] = s[k]
  BY LeaveStack
<1>2. /\ s \in Seq(Places) /\ Len(s) \in Nat /\ Len(s) # 0 /\ "-exe" \notin o.flags /\ L \in Nat /\ Len(s) = L + 1
      /\ t \in Seq(Places)
  BY <1>1, StackFact DEF StackInv
<1>3. d \in DOMAIN Tree /\ Opens[d] = "S_OK" /\ n - 1 = Len(Tree[d]) /\ d = s[L + 1].dir
  <2>1. Len(s) \in 1 .. Len(s)
    BY <1>2
  <2>2. /\ d \in DOMAIN Tree /\ Opens[d] = "S_OK" /\ n \in Nat /\ n <= Len(Tree[d]) + 1 /\ Len(Tree[d]) \in Nat
    BY <2>1, StackFact DEF Last
  <2>3. d = s[L + 1].dir
    BY <1>2 DEF Last
  <2> QED BY <2>2, <2>3
<1>4. PICK v : Outer(s, o, v) /\ w = v \o Gathered(o, d, n - 1)
  BY DEF SearchKeys
<1> HIDE DEF L, t, d, n
<1>5. Listing(o)[d] = Gathered(o, d, n - 1) /\ Listing(o)[d] \in Seq(KeySet)
  BY <1>2, <1>3, GatheredFact
<1>6. CASE L = 0
  <2>0. Len(s) = 1
    BY <1>2, <1>6
  <2>1. v = <<>>
    BY <1>4, <2>0, OuterFirst
  <2>2. w = Listing(o)[d]
    <3>1. w = <<>> \o Listing(o)[d]
      BY <1>4, <1>5, <2>1
    <3> QED BY <1>5, <3>1, ConcatEmptySeq
  <2>3. d = o.input
    BY <1>3, <1>6 DEF StackInv
  <2>4. t = <<>>
    BY <1>1, <1>2, <1>6
  <2> QED BY <1>3, <2>2, <2>3, <2>4 DEF SearchKeys, Target, t
<1>7. CASE L # 0
  <2> DEFINE c == t[L].dir
             m == t[L].next - 1
  <2>0. L \in 1 .. L /\ t # <<>>
    BY <1>1, <1>2, <1>7
  <2>1. PICK u : Outer(t, o, u) /\ v = u \o Gathered(o, t[L].dir, t[L].next - 2)
    <3>1. Outer(s, o, v) /\ Len(s) \in Nat /\ L \in Nat /\ L # 0 /\ Len(s) = L + 1
      BY <1>2, <1>4, <1>7
    <3>2. Len(t) = L /\ \A k \in 1 .. L : t[k] = s[k]
      BY <1>1
    <3>3. Before(t, o, v)
      <4>1. Len(t) \in Nat /\ Len(t) # 0 /\ Len(s) = Len(t) + 1
        BY <3>1, <3>2
      <4>2. \A k \in 1 .. Len(t) : t[k] = s[k]
        BY <3>2
      <4> QED BY <3>1, <4>1, <4>2, OuterPop
    <3> QED BY <3>2, <3>3 DEF Before
  <2>2. /\ c \in DOMAIN Tree /\ t[L].next \in Nat /\ t[L].next # 0 /\ t[L].next <= Len(Tree[c]) + 1
        /\ Len(Tree[c]) \in Nat
    BY <1>1, <2>0, StackFact
  <2>3. t[L].next # 1 /\ Tree[c][m].kind = "dir" /\ Tree[c][m].path = d /\ "-r" \in o.flags
    <3>1. L \in 1 .. Len(s) - 1 /\ t[L] = s[L]
      BY <1>1, <1>2, <2>0
    <3> QED BY <1>3, <3>1 DEF StackInv
  <2>4. m \in 1 .. Len(Tree[c]) /\ t[L].next - 2 = m - 1 /\ m - 1 \in 0 .. Len(Tree[c])
    <3> DEFINE a == t[L].next
               b == Len(Tree[c])
    <3>1. a \in Nat /\ a # 0 /\ a # 1 /\ a <= b + 1 /\ b \in Nat /\ m = a - 1
      BY <2>2, <2>3
    <3> HIDE DEF a, b, m
    <3>2. m \in 1 .. b /\ a - 2 = m - 1 /\ m - 1 \in 0 .. b
      BY <3>1
    <3> QED BY <3>2 DEF a, b
  <2>5. Share(o, Listing(o), Tree[c][m]) = Listing(o)[d]
    BY <2>3 DEF Share
  <2>6. Last(t).dir = c /\ Last(t).next - 1 = m
    BY <1>1 DEF Last
  <2>7. v = u \o Gathered(o, c, m - 1)
    BY <2>1, <2>4
  <2> HIDE DEF c, m
  <2>8. /\ Gathered(o, c, m) = Gathered(o, c, m - 1) \o Share(o, Listing(o), Tree[c][m])
        /\ Gathered(o, c, m - 1) \in Seq(KeySet)
    <3>1. /\ \A k \in 1 .. Len(Tree[c]) :
                Gathered(o, c, k) = Gathered(o, c, k - 1) \o Share(o, Listing(o), Tree[c][k])
          /\ \A k \in 0 .. Len(Tree[c]) : Gathered(o, c, k) \in Seq(KeySet)
      <4>1. "-exe" \notin o.flags /\ c \in DOMAIN Tree
        BY <1>2, <2>2
      <4> QED BY ONLY <4>1, GatheredFact, ZenonT(60)
    <3> QED BY <2>4, <3>1
  <2>9. w = u \o Gathered(o, c, m)
    <3> DEFINE x == Gathered(o, c, m - 1)
               y == Listing(o)[d]
    <3>1. u \in Seq(KeySet)
      BY <1>1, <1>2, <1>7, <2>1, OuterType
    <3>2. w = (u \o x) \o y /\ Gathered(o, c, m) = x \o y
      BY <1>4, <1>5, <2>5, <2>7, <2>8
    <3>3. x \in Seq(KeySet) /\ y \in Seq(KeySet)
      BY <1>5, <2>8
    <3> HIDE DEF x, y
    <3>4. (u \o x) \o y = u \o (x \o y)
      BY <3>1, <3>3, ConcatAssociative
    <3> QED BY <3>2, <3>4
  <2> QED BY <2>0, <2>1, <2>6, <2>9 DEF SearchKeys, t
<1> QED BY <1>6, <1>7

\* What the directories under way contributed before the last entry looked at.
LEMMA BeforeType ==
  ASSUME NEW s, NEW o, StackInv(s, o), s # <<>>, Last(s).next # 1, NEW v, Outer(s, o, v)
  PROVE  /\ v \in Seq(KeySet) /\ Last(s).dir \in DOMAIN Tree /\ "-exe" \notin o.flags
         /\ Last(s).next \in Nat /\ Last(s).next - 1 \in 1 .. Len(Tree[Last(s).dir])
         /\ (Last(s).next - 1) - 1 = Last(s).next - 2
         /\ Gathered(o, Last(s).dir, Last(s).next - 2) \in Seq(KeySet)
<1> DEFINE d == Last(s).dir
           n == Last(s).next
<1>1. /\ Len(s) \in Nat /\ Len(s) # 0 /\ "-exe" \notin o.flags
      /\ \A k \in 1 .. Len(s) : /\ s[k].dir \in DOMAIN Tree /\ s[k].next \in Nat /\ s[k].next # 0
                                /\ s[k].next <= Len(Tree[s[k].dir]) + 1
                                /\ Len(Tree[s[k].dir]) \in Nat
  BY StackFact
<1>2. Len(s) \in 1 .. Len(s)
  BY <1>1
<1>3. d \in DOMAIN Tree /\ n \in Nat /\ n # 0 /\ n <= Len(Tree[d]) + 1 /\ Len(Tree[d]) \in Nat
  BY <1>1, <1>2 DEF Last
<1>4. n # 1
  OBVIOUS
<1>5. v \in Seq(KeySet)
  BY <1>1, OuterType
<1> HIDE DEF d, n
<1>6. n - 1 \in 1 .. Len(Tree[d]) /\ (n - 1) - 1 = n - 2 /\ n - 2 \in 0 .. Len(Tree[d])
  BY <1>3, <1>4
<1>7. Gathered(o, d, n - 2) \in Seq(KeySet)
  <2>1. \A k \in 0 .. Len(Tree[d]) : Gathered(o, d, k) \in Seq(KeySet)
    BY <1>1, <1>3, GatheredFact
  <2> QED BY <1>6, <2>1
<1> QED BY <1>1, <1>3, <1>5, <1>6, <1>7 DEF d, n

\* A file is looked at that is a module.
LEMMA FileKeys ==
  ASSUME NEW s, NEW o, StackInv(s, o), s # <<>>, NEW t, Advances(t, s),
         Last(s).next <= Len(Tree[Last(s).dir]), NEW w, SearchKeys(w, s, o),
         NEW p \in DOMAIN Images
  PROVE  ModuleKeys(w, p, 1, t, o)
<1> DEFINE d == Last(s).dir
           n == Last(s).next
           x == Gathered(o, d, n - 1)
<1>1. /\ StackInv(t, o) /\ t # <<>> /\ Len(t) = Len(s) /\ \A k \in 1 .. Len(s) - 1 : t[k] = s[k]
      /\ Last(t).dir = d /\ Last(t).next = n + 1 /\ (n + 1) - 2 = n - 1
      /\ d \in DOMAIN Tree /\ n \in 1 .. Len(Tree[d])
  BY AdvanceStack
<1>2. PICK v : Outer(s, o, v) /\ w = v \o x
  BY DEF SearchKeys
<1>3. Outer(t, o, v)
  BY <1>1, <1>2, OuterSame
<1>4. Last(t).next # 1
  <2>1. Len(Tree[d]) \in Nat
    BY <1>1, TreeAssumption, IsSequenceFact
  <2> HIDE DEF n, d
  <2> QED BY <1>1, <2>1
<1>5. v \in Seq(KeySet) /\ x \in Seq(KeySet)
  <2>1. v \in Seq(KeySet) /\ Gathered(o, Last(t).dir, Last(t).next - 2) \in Seq(KeySet)
    BY <1>1, <1>3, <1>4, BeforeType
  <2>2. Gathered(o, Last(t).dir, Last(t).next - 2) = x
    BY <1>1
  <2> QED BY <2>1, <2>2
<1>6. Joined(Wishes(o, p))[1 - 1] = <<>>
  <2>1. Joined(Wishes(o, p))[0] = <<>>
    BY WishesFact
  <2>2. 1 - 1 = 0
    OBVIOUS
  <2> QED BY <2>1, <2>2
<1> HIDE DEF x
<1>7. v \o x \in Seq(KeySet)
  BY <1>5, ConcatProperties
<1>8. w = (v \o x) \o Joined(Wishes(o, p))[1 - 1]
  BY <1>2, <1>6, <1>7, ConcatEmptySeq
<1>9. x = Gathered(o, Last(t).dir, Last(t).next - 2)
  BY <1>1 DEF x
<1> QED BY <1>1, <1>3, <1>8, <1>9 DEF ModuleKeys

\* A module is done: it has contributed what is selected from it.
LEMMA DoneKeys ==
  ASSUME NEW s, NEW o, StackInv(s, o), NEW p \in DOMAIN Images, Origin(p, s, o), Eligible(o, p),
         ModuleLoads(p), NEW n, n - 1 = Len(FixtureExports(p)), NEW w, ModuleKeys(w, p, n, s, o)
  PROVE  SearchKeys(w, s, o)
<1> DEFINE y == Joined(Wishes(o, p))[n - 1]
<1>1. y = Selected(o, p)
  BY SelectedFact
<1>2. CASE s = <<>>
  <2>1. w = Selected(o, p) /\ p = o.input
    BY <1>1, <1>2 DEF ModuleKeys, Origin
  <2>2. p \notin DOMAIN Tree
    BY TreeAssumption
  <2> QED BY <1>2, <2>1, <2>2 DEF SearchKeys, Target
<1>3. CASE s # <<>>
  <2> DEFINE d == Last(s).dir
             m == Last(s).next
             x == Gathered(o, d, m - 2)
  <2>1. PICK v : Outer(s, o, v) /\ w = (v \o x) \o y
    BY <1>3 DEF ModuleKeys
  <2>2. m # 1 /\ Tree[d][m - 1].kind = "file" /\ Tree[d][m - 1].path = p
    BY <1>3 DEF Origin
  <2>3. /\ v \in Seq(KeySet) /\ d \in DOMAIN Tree /\ "-exe" \notin o.flags
        /\ m - 1 \in 1 .. Len(Tree[d]) /\ (m - 1) - 1 = m - 2 /\ x \in Seq(KeySet)
    BY <1>3, <2>1, <2>2, BeforeType
  <2>4. y \in Seq(KeySet)
    BY <1>1, SelectedFact
  <2>5. Share(o, Listing(o), Tree[d][m - 1]) = y
    BY <1>1, <2>2 DEF Share
  <2> HIDE DEF d, m, y
  <2>6. Gathered(o, d, m - 1) = x \o y
    <3>1. \A k \in 1 .. Len(Tree[d]) : Gathered(o, d, k) = Gathered(o, d, k - 1) \o Share(o, Listing(o), Tree[d][k])
      <4>1. "-exe" \notin o.flags /\ d \in DOMAIN Tree
        BY <2>3
      <4> QED BY ONLY <4>1, GatheredFact, ZenonT(60)
    <3>2. Gathered(o, d, m - 1) = Gathered(o, d, (m - 1) - 1) \o Share(o, Listing(o), Tree[d][m - 1])
      BY <2>3, <3>1
    <3> QED BY <2>3, <2>5, <3>2
  <2> HIDE DEF x
  <2>7. w = v \o (x \o y)
    <3>1. (v \o x) \o y = v \o (x \o y)
      <4>1. v \in Seq(KeySet) /\ x \in Seq(KeySet) /\ y \in Seq(KeySet)
        BY <2>3, <2>4
      <4> QED BY ONLY <4>1, ConcatAssociative
    <3> QED BY <2>1, <3>1
  <2>8. w = v \o Gathered(o, d, m - 1)
    BY <2>6, <2>7
  <2> QED BY <1>3, <2>1, <2>8 DEF SearchKeys, d, m
<1> QED BY <1>2, <1>3

\* Another fixture of the module has been dealt with.
LEMMA FixtureKeys ==
  ASSUME NEW s, NEW o, StackInv(s, o), NEW p \in DOMAIN Images, Origin(p, s, o),
         NEW n \in 1 .. Len(FixtureExports(p)), NEW w, ModuleKeys(w, p, n, s, o)
  PROVE  /\ w \in Seq(KeySet)
         /\ ModuleKeys(w \o Wanted(o, p, FixtureExports(p)[n]), p, n + 1, s, o)
<1> DEFINE y == Joined(Wishes(o, p))[n - 1]
           z == Wanted(o, p, FixtureExports(p)[n])
           a == Joined(Wishes(o, p))[(n + 1) - 1]
<1>1. a = y \o z /\ y \in Seq(KeySet) /\ z \in Seq(KeySet)
  <2>1. /\ Len(FixtureExports(p)) \in Nat /\ DOMAIN FixtureExports(p) = 1 .. Len(FixtureExports(p))
        /\ \A k \in 1 .. Len(FixtureExports(p)) :
              Joined(Wishes(o, p))[k] = Joined(Wishes(o, p))[k - 1] \o Wanted(o, p, FixtureExports(p)[k])
        /\ \A k \in 0 .. Len(FixtureExports(p)) : Joined(Wishes(o, p))[k] \in Seq(KeySet)
    BY WishesFact
  <2>2. z \in Seq(KeySet)
    BY <2>1, WantedType
  <2>3. n - 1 \in 0 .. Len(FixtureExports(p)) /\ (n + 1) - 1 = n
    BY <2>1
  <2>4. Joined(Wishes(o, p))[n] = y \o z
    BY <2>1
  <2>5. y \in Seq(KeySet)
    BY <2>1, <2>3
  <2> QED BY <2>2, <2>3, <2>4, <2>5
<1>2. CASE s = <<>>
  <2>1. w = y
    BY <1>2 DEF ModuleKeys
  <2> HIDE DEF y, z
  <2>2. w \o z = a
    BY <1>1, <2>1
  <2> QED BY <1>1, <1>2, <2>1, <2>2 DEF ModuleKeys, z
<1>3. CASE s # <<>>
  <2> DEFINE x == Gathered(o, Last(s).dir, Last(s).next - 2)
  <2>1. PICK v : Outer(s, o, v) /\ w = (v \o x) \o y
    BY <1>3 DEF ModuleKeys
  <2>2. v \in Seq(KeySet) /\ x \in Seq(KeySet)
    BY <1>3, <2>1, BeforeType DEF Origin
  <2> HIDE DEF x, y, z, a
  <2>3. v \o x \in Seq(KeySet)
    BY <2>2, ConcatProperties
  <2>4. w \in Seq(KeySet)
    BY <1>1, <2>1, <2>3, ConcatProperties
  <2>5. w \o z = (v \o x) \o a
    <3> DEFINE c == v \o x
    <3>1. w = c \o y /\ c \in Seq(KeySet)
      BY <2>1, <2>3
    <3> HIDE DEF c
    <3>2. (c \o y) \o z = c \o (y \o z)
      <4>1. c \in Seq(KeySet) /\ y \in Seq(KeySet) /\ z \in Seq(KeySet)
        BY <1>1, <3>1
      <4> QED BY ONLY <4>1, ConcatAssociative
    <3>3. w \o z = c \o a
      BY <1>1, <3>1, <3>2
    <3> QED BY <3>3 DEF c
  <2>6. ModuleKeys(w \o z, p, n + 1, s, o)
    BY <1>3, <2>1, <2>5 DEF ModuleKeys, x, a
  <2> QED BY <2>4, <2>6 DEF z
<1> QED BY <1>2, <1>3

-----------------------------------------------------------------------------
(***************************************************************************)
(* The keys of a heap.                                                     *)
(***************************************************************************)

\* Keys do not change with the references.
LEMMA KeysSame ==
  ASSUME NEW h, HeapShape(h), NEW g, g.sequence.entries = h.sequence.entries,
         \A b \in DOMAIN h.actions : Key(g.actions[b]) = Key(h.actions[b])
  PROVE  Keys(g) = Keys(h)
<1>1. h.sequence.entries \in Seq(DOMAIN h.actions)
  BY DEF HeapShape
<1>2. \A i \in DOMAIN h.sequence.entries : h.sequence.entries[i] \in DOMAIN h.actions
  BY <1>1
<1> QED BY <1>2 DEF Keys

\* One reference more or less.
LEMMA KeysCounts ==
  ASSUME NEW h, HeapShape(h), NEW a, NEW d, NEW g, Counts(g, h, a, d)
  PROVE  Keys(g) = Keys(h) /\ \A b \in DOMAIN h.actions : Key(g.actions[b]) = Key(h.actions[b])
<1>1. g.sequence.entries = h.sequence.entries /\ \A b \in DOMAIN h.actions : Key(g.actions[b]) = Key(h.actions[b])
  BY DEF Counts, Key
<1> QED BY <1>1, KeysSame

\* An action is added to the sequence.
LEMMA KeysAppend ==
  ASSUME NEW h, HeapShape(h), NEW a \in DOMAIN h.actions, NEW g,
         g.sequence.entries = Append(h.sequence.entries, a),
         \A b \in DOMAIN h.actions : Key(g.actions[b]) = Key(h.actions[b]),
         Keys(h) \in Seq(KeySet), Key(h.actions[a]) \in KeySet
  PROVE  Keys(g) = Keys(h) \o <<Key(h.actions[a])>>
<1> DEFINE s == h.sequence.entries
           t == g.sequence.entries
           k == Key(h.actions[a])
           w == Keys(h)
           v == w \o <<k>>
<1>1. s \in Seq(DOMAIN h.actions) /\ t = Append(s, a)
  BY DEF HeapShape
<1>2. /\ Len(t) = Len(s) + 1 /\ t[Len(s) + 1] = a /\ t \in Seq(DOMAIN h.actions)
      /\ \A i \in 1 .. Len(s) : t[i] = s[i]
  <2> HIDE DEF s, t
  <2>1. /\ Append(s, a) \in Seq(DOMAIN h.actions) /\ Len(Append(s, a)) = Len(s) + 1
        /\ \A i \in 1 .. Len(s) : Append(s, a)[i] = s[i]
        /\ Append(s, a)[Len(s) + 1] = a
    BY <1>1, AppendProperties
  <2> QED BY <1>1, <2>1
<1>3. DOMAIN s = 1 .. Len(s) /\ Len(s) \in Nat /\ DOMAIN t = 1 .. Len(s) + 1
  <2> HIDE DEF s, t
  <2> QED BY <1>1, <1>2
<1>4. w = [i \in DOMAIN s |-> Key(h.actions[s[i]])] /\ Keys(g) = [i \in DOMAIN t |-> Key(g.actions[t[i]])]
  BY DEF Keys
<1>5. w \in Seq(KeySet) /\ k \in KeySet
  OBVIOUS
<1> HIDE DEF s, t, k, w
<1>6. Len(w) = Len(s)
  BY <1>3, <1>4, <1>5
<1>7. <<k>> \in Seq(KeySet) /\ Len(<<k>>) = 1 /\ <<k>>[1] = k
  BY <1>5
<1>8. /\ v \in Seq(KeySet) /\ Len(v) = Len(s) + 1
      /\ \A i \in 1 .. Len(s) : v[i] = w[i]
      /\ v[Len(s) + 1] = k
  <2> DEFINE u == <<k>>
  <2>1. u \in Seq(KeySet) /\ Len(u) = 1 /\ u[1] = k /\ v = w \o u /\ Len(w) \in Nat
    BY <1>5, <1>7
  <2> HIDE DEF u, v
  <2>2. /\ w \o u \in Seq(KeySet) /\ Len(w \o u) = Len(w) + 1
        /\ \A i \in 1 .. Len(w) + 1 : (w \o u)[i] = IF i <= Len(w) THEN w[i] ELSE u[i - Len(w)]
    <3>1. /\ w \o u \in Seq(KeySet) /\ Len(w \o u) = Len(w) + Len(u)
          /\ \A i \in 1 .. Len(w) + Len(u) : (w \o u)[i] = IF i <= Len(w) THEN w[i] ELSE u[i - Len(w)]
      BY ONLY <1>5, <2>1, ConcatProperties
    <3>2. Len(u) = 1
      BY <2>1
    <3> QED BY <3>1, <3>2
  <2>3. /\ v \in Seq(KeySet) /\ Len(v) = Len(w) + 1
        /\ \A i \in 1 .. Len(w) + 1 : v[i] = IF i <= Len(w) THEN w[i] ELSE u[i - Len(w)]
    BY <2>1, <2>2
  <2>4. \A i \in 1 .. Len(w) : i \in 1 .. Len(w) + 1 /\ i <= Len(w)
    BY <2>1
  <2>5. Len(w) + 1 \in 1 .. Len(w) + 1 /\ ~ (Len(w) + 1 <= Len(w)) /\ (Len(w) + 1) - Len(w) = 1
    BY <2>1
  <2>6. v[Len(w) + 1] = u[1]
    BY <2>3, <2>5
  <2> QED BY <1>6, <2>1, <2>3, <2>4, <2>6
<1> HIDE DEF v
<1>9. v = [i \in 1 .. Len(s) + 1 |-> v[i]]
  BY <1>3, <1>8
<1>10. ASSUME NEW i \in 1 .. Len(s) + 1 PROVE Key(g.actions[t[i]]) = v[i]
  <2>1. CASE i = Len(s) + 1
    BY <1>2, <1>8, <2>1 DEF k
  <2>2. CASE i # Len(s) + 1
    <3>1. i \in 1 .. Len(s)
      BY <1>3, <2>2
    <3>2. t[i] = s[i] /\ s[i] \in DOMAIN h.actions
      BY <1>1, <1>2, <1>3, <3>1
    <3>3. v[i] = Key(h.actions[s[i]])
      BY <1>3, <1>4, <1>8, <3>1
    <3> QED BY <3>2, <3>3
  <2> QED BY <2>1, <2>2
<1>11. Keys(g) = v
  BY <1>3, <1>4, <1>9, <1>10
<1> QED BY <1>11 DEF v, w, k

\* An empty sequence has no keys.
LEMMA KeysEmpty ==
  ASSUME NEW h, h.sequence.entries = <<>>
  PROVE  Keys(h) = <<>>
BY DEF Keys

-----------------------------------------------------------------------------
(***************************************************************************)
(* One lemma per action, for the second invariant.                         *)
(***************************************************************************)

LEMMA EmptyStack ==
  ASSUME NEW o
  PROVE  StackInv(<<>>, o)
BY DEF StackInv

\* The command line, and a sequence that cannot be created.
LEMMA MainComplete ==
  ASSUME CompleteInv, (\E argv \in CommandLines : Main(argv)) \/ CreateSequenceFails
  PROVE  CompleteInv'
<1>1. /\ phase \in {"start", "assemble"} /\ phase' \in {"assemble", "exit"} /\ UNCHANGED <<dirs, heap>>
      /\ hr' = hr \/ (phase' = "exit" /\ hr' = "E_OUTOFMEMORY")
  BY DEF Main, CreateSequenceFails
<1>2. dirs = <<>> /\ hr = "S_OK"
  BY <1>1 DEF CompleteInv, Complete
<1>3. StackInv(dirs', options')
  BY <1>1, <1>2, EmptyStack
<1> QED BY <1>1, <1>2, <1>3 DEF CompleteInv, Complete, Running

\* A module is loaded, or cannot be.
LEMMA LoadComplete ==
  ASSUME NEW h, HeapShape(h), NEW p \in DOMAIN Images, NEW searched \in BOOLEAN, LoadModule(h, p, searched),
         hr = "S_OK", options' = options, StackInv(dirs', options), Origin(p, dirs', options), Eligible(options, p),
         ModuleKeys(Keys(h), p, 1, dirs', options),
         searched /\ ~ ModuleLoads(p) => SearchKeys(Keys(h), dirs', options)
  PROVE  CompleteInv'
<1>1. CASE ModuleLoads(p)
  <2>1. /\ module' = [NoModule EXCEPT !.path = p, !.fixtures = LoadFixtures(p)]
        /\ heap' = [h EXCEPT !.modules[p] = @ + 1]
        /\ phase' = "module" /\ hr' = "S_OK"
    BY <1>1 DEF LoadModule
  <2>2. /\ module'.path = p /\ module'.fixtures = LoadFixtures(p) /\ module'.next = 1 /\ module'.pending = 0
    BY <2>1 DEF NoModule
  <2>3. Len(LoadFixtures(p)) \in Nat
    BY ExportsFact, LoadsFact
  <2>4. Keys(heap') = Keys(h)
    <3>1. heap'.actions = h.actions /\ heap'.sequence = h.sequence
      BY <2>1 DEF HeapShape
    <3> QED BY <3>1 DEF Keys
  <2>5. LoadedInv(module', heap', dirs', options')
    BY <1>1, <2>2, <2>3 DEF LoadedInv
  <2>6. ModuleKeys(Keys(heap'), module'.path, module'.next, dirs', options')
    BY <2>2, <2>4
  <2> QED BY <2>1, <2>5, <2>6 DEF CompleteInv, Complete, Running
<1>2. CASE ~ ModuleLoads(p)
  <2>1. phase' = "search" /\ heap' = h /\ hr' = IF searched THEN "S_OK" ELSE "LOAD_FAILED"
    BY <1>2 DEF LoadModule
  <2>2. hr' = "S_OK" => SearchKeys(Keys(heap'), dirs', options')
    BY <1>2, <2>1
  <2> QED BY <2>1, <2>2 DEF CompleteInv, Complete, Running
<1> QED BY <1>1, <1>2

\* The search begins: with a file, a directory or nothing.
LEMMA StartSearchComplete ==
  ASSUME HeldInv, CompleteInv, StartSearch
  PROVE  CompleteInv'
<1> DEFINE h == CreateSequence(heap)
           p == options.input
<1>1. phase = "assemble" /\ "-exe" \notin options.flags /\ Search(h, p) /\ options' = options
  BY DEF StartSearch, OwnExecutable
<1>2. dirs = <<>> /\ hr = "S_OK"
  BY <1>1 DEF CompleteInv, Complete
<1>3. HeapShape(h) /\ h.sequence.entries = <<>>
  BY <1>1, SequenceFact DEF Counted
<1>4. Keys(h) = <<>>
  BY <1>3, KeysEmpty
<1>5. StackInv(<<>>, options)
  BY EmptyStack
<1> HIDE DEF h, p
<1>6. CASE p \in DOMAIN Images
  <2>1. VisitFile(h, p, FALSE) /\ dirs' = <<>>
    <3>0. p \notin DOMAIN Tree
      BY <1>6, TreeAssumption
    <3>1. VisitFile(h, p, FALSE) /\ UNCHANGED dirs
      BY <1>1, <1>6, <3>0 DEF Search
    <3> QED BY <1>2, <3>1
  <2>2. CASE IsModule(options, p)
    <3>1. LoadModule(h, p, FALSE)
      BY <2>1, <2>2 DEF VisitFile
    <3>2. Origin(p, dirs', options) /\ Eligible(options, p)
      BY <2>1, <2>2 DEF Origin, Eligible, p
    <3>3. ModuleKeys(Keys(h), p, 1, dirs', options)
      <4>1. Joined(Wishes(options, p))[0] = <<>>
        BY <1>6, WishesFact
      <4>2. 1 - 1 = 0
        OBVIOUS
      <4> QED BY <1>4, <2>1, <4>1, <4>2 DEF ModuleKeys
    <3>4. StackInv(dirs', options)
      BY <1>5, <2>1
    <3> QED BY <1>1, <1>2, <1>3, <1>6, <3>1, <3>2, <3>3, <3>4, LoadComplete
  <2>3. CASE ~ IsModule(options, p)
    <3>1. phase' = "search" /\ heap' = h /\ hr' = "S_OK"
      BY <1>2, <2>1, <2>3 DEF VisitFile
    <3>2. Selected(options, p) = <<>>
      BY <1>1, <2>3, SelectedFact DEF Eligible
    <3>3. Target(options) = <<>>
      <4>1. p \notin DOMAIN Tree
        BY <1>6, TreeAssumption
      <4> QED BY <3>2, <4>1 DEF Target, p
    <3>4. SearchKeys(Keys(heap'), dirs', options')
      BY <1>1, <1>4, <2>1, <3>1, <3>3 DEF SearchKeys
    <3> QED BY <1>1, <1>5, <2>1, <3>1, <3>4 DEF CompleteInv, Complete, Running
  <2> QED BY <2>2, <2>3
<1>7. CASE p \notin DOMAIN Images /\ p \in DOMAIN Tree
  <2>1. EnterDirectory(<<>>, p) /\ heap' = h /\ phase' = "search"
    BY <1>1, <1>7 DEF Search
  <2>2. /\ Gathered(options, p, 0) = <<>> /\ Len(Tree[p]) \in Nat
        /\ Opens[p] # "S_OK" => Listing(options)[p] = <<>>
    BY <1>1, <1>7, GatheredFact
  <2>3. CASE Opens[p] = "S_OK"
    <3> DEFINE e == [dir |-> p, next |-> 1]
    <3>1. dirs' = Append(<<>>, e) /\ hr' = "S_OK"
      BY <2>1, <2>3 DEF EnterDirectory
    <3>2. e \in Places /\ e.dir = p /\ e.next = 1
      BY <1>7 DEF Places
    <3> HIDE DEF e
    <3> DEFINE s == <<e>>
    <3>3. dirs' = s /\ s # <<>> /\ Len(s) = 1 /\ s[1] = e /\ s \in Seq(Places) /\ DOMAIN s = 1 .. 1
      BY <3>1, <3>2
    <3> HIDE DEF s
    <3>4. StackInv(s, options)
      <4>1. 1 .. 1 - 1 = {} /\ 1 \in 1 .. Len(Tree[p]) + 1
        BY <2>2
      <4>2. ASSUME NEW k \in DOMAIN s
            PROVE  Opens[s[k].dir] = "S_OK" /\ s[k].next \in 1 .. Len(Tree[s[k].dir]) + 1
        <5>1. k = 1
          BY <3>3
        <5> QED BY <2>3, <3>2, <3>3, <4>1, <5>1
      <4>3. s[1].dir = options.input
        BY <3>2, <3>3 DEF p
      <4> QED BY <1>1, <3>3, <4>1, <4>2, <4>3 DEF StackInv
    <3>5. SearchKeys(<<>>, s, options)
      <4>1. Outer(s, options, <<>>)
        BY <3>3, OuterFirst
      <4>2. Last(s).dir = p /\ Last(s).next - 1 = 0
        BY <3>2, <3>3 DEF Last
      <4>3. <<>> = <<>> \o Gathered(options, Last(s).dir, Last(s).next - 1)
        <5>1. Gathered(options, Last(s).dir, Last(s).next - 1) = <<>>
          BY <2>2, <4>2
        <5>2. <<>> \o <<>> = <<>>
          OBVIOUS
        <5> QED BY <5>1, <5>2
      <4> QED BY <3>3, <4>1, <4>3 DEF SearchKeys
    <3>6. SearchKeys(Keys(heap'), dirs', options')
      BY <1>1, <1>4, <2>1, <3>3, <3>5
    <3> QED BY <1>1, <2>1, <3>1, <3>3, <3>4, <3>6 DEF CompleteInv, Complete, Running
  <2>4. CASE Opens[p] # "S_OK"
    <3>1. dirs' = <<>> /\ hr' = IF Opens[p] = "NO_MORE_FILES" THEN "S_OK" ELSE Opens[p]
      BY <2>1, <2>4 DEF EnterDirectory
    <3>2. SearchKeys(Keys(heap'), dirs', options')
      BY <1>1, <1>4, <1>7, <2>1, <2>2, <2>4, <3>1 DEF SearchKeys, Target, p
    <3>3. hr' = "E_ACCESSDENIED" => Opens[options.input] = "E_ACCESSDENIED"
      BY <3>1 DEF p
    <3> QED BY <1>1, <1>5, <2>1, <3>1, <3>2, <3>3 DEF CompleteInv, Complete, Running
  <2> QED BY <2>3, <2>4
<1>8. CASE p \notin DOMAIN Images /\ p \notin DOMAIN Tree
  <2>1. hr' = "NOT_FOUND" /\ phase' = "search" /\ dirs' = <<>>
    BY <1>1, <1>2, <1>8 DEF Search
  <2> QED BY <1>1, <1>5, <2>1 DEF CompleteInv, Complete, Running
<1> QED BY <1>6, <1>7, <1>8

\* The program's own image takes the place of a search.
LEMMA UseOwnExecutableComplete ==
  ASSUME HeldInv, CompleteInv, UseOwnExecutable
  PROVE  CompleteInv'
<1> DEFINE h == CreateSequence(heap)
           p == options.input
<1>1. phase = "assemble" /\ "-exe" \in options.flags /\ OwnExecutable /\ UNCHANGED <<options, dirs>>
  BY DEF UseOwnExecutable, OwnExecutable
<1>2. dirs = <<>> /\ hr = "S_OK"
  BY <1>1 DEF CompleteInv, Complete
<1>3. HeapShape(h) /\ h.sequence.entries = <<>>
  BY <1>1, SequenceFact DEF Counted
<1>4. Keys(h) = <<>>
  BY <1>3, KeysEmpty
<1>5. StackInv(dirs', options)
  BY <1>1, <1>2, EmptyStack
<1>6. p \in DOMAIN Images
  BY <1>1 DEF HeldInv, PhaseInv, IsType
<1>7. CASE ModuleLoads(p)
  <2>1. LoadModule(h, p, FALSE)
    BY <1>7 DEF UseOwnExecutable
  <2>2. Origin(p, dirs', options) /\ Eligible(options, p)
    BY <1>1, <1>2 DEF Origin, Eligible
  <2> HIDE DEF h, p
  <2>3. ModuleKeys(Keys(h), p, 1, dirs', options)
    <3>1. Joined(Wishes(options, p))[0] = <<>>
      BY <1>6, WishesFact
    <3>2. 1 - 1 = 0
      OBVIOUS
    <3> QED BY <1>1, <1>2, <1>4, <3>1, <3>2 DEF ModuleKeys
  <2> QED BY <1>1, <1>2, <1>3, <1>5, <1>6, <2>1, <2>2, <2>3, LoadComplete
<1>8. CASE ~ ModuleLoads(p)
  <2>1. phase' = "exit" /\ hr' = "LOAD_FAILED"
    BY <1>8 DEF UseOwnExecutable
  <2> QED BY <1>1, <1>2, <1>5, <2>1 DEF CompleteInv, Complete, Running
<1> QED BY <1>7, <1>8

\* A directory is left.
LEMMA LeaveDirectoryComplete ==
  ASSUME CompleteInv, LeaveDirectory
  PROVE  CompleteInv'
<1>1. /\ phase = "search" /\ dirs # <<>> /\ dirs' = Front(dirs)
      /\ hr # "S_OK" \/ Last(dirs).next > Len(Tree[Last(dirs).dir])
      /\ hr' = IF hr = "E_ACCESSDENIED" /\ Len(dirs) > 1 THEN "S_OK" ELSE hr
      /\ UNCHANGED <<phase, options, module, heap>>
  BY DEF LeaveDirectory, Here
<1>2. /\ StackInv(dirs, options) /\ hr # "E_ACCESSDENIED"
      /\ hr = "S_OK" => SearchKeys(Keys(heap), dirs, options)
  BY <1>1 DEF CompleteInv, Complete
<1>3. StackInv(dirs', options) /\ hr' = hr
  BY <1>1, <1>2, LeaveStack
<1>4. hr = "S_OK" => SearchKeys(Keys(heap), dirs', options)
  BY <1>1, <1>2, LeaveKeys
<1> QED BY <1>1, <1>2, <1>3, <1>4 DEF CompleteInv, Complete, Running

\* An entry of a directory.
LEMMA NextEntryComplete ==
  ASSUME HeldInv, CompleteInv, NextEntry
  PROVE  CompleteInv'
<1> DEFINE e == Tree[Last(dirs).dir][Last(dirs).next]
           t == [dirs EXCEPT ![Len(dirs)].next = @ + 1]
           w == Keys(heap)
<1>1. /\ phase = "search" /\ dirs # <<>> /\ hr = "S_OK" /\ Last(dirs).next <= Len(Tree[Last(dirs).dir])
      /\ options' = options
      /\ \/ /\ e.kind = "link" \/ (e.kind = "dir" /\ "-r" \notin options.flags)
            /\ dirs' = t /\ UNCHANGED <<phase, module, heap, hr>>
         \/ /\ e.kind = "dir" /\ "-r" \in options.flags
            /\ EnterDirectory(t, e.path)
            /\ UNCHANGED <<phase, module, heap>>
         \/ e.kind = "file" /\ dirs' = t /\ VisitFile(heap, e.path, TRUE)
  BY DEF NextEntry, Here, Advanced
<1>2. StackInv(dirs, options) /\ SearchKeys(w, dirs, options)
  BY <1>1 DEF CompleteInv, Complete
<1>3. Advances(t, dirs)
  BY <1>1, <1>2, AdvancedFact
<1>4. Entry(dirs) = e
  BY DEF Entry
<1>5. HeapShape(heap)
  BY DEF HeldInv, Counted
<1> HIDE DEF e, t
<1>6. StackInv(t, options) /\ t # <<>>
  BY <1>1, <1>2, <1>3, AdvanceStack
<1>7. ASSUME dirs' = t, phase' = "search", heap' = heap, hr' = "S_OK", Share(options, Listing(options), e) = <<>>
      PROVE  CompleteInv'
  <2>1. SearchKeys(w, t, options)
    BY <1>1, <1>2, <1>3, <1>4, <1>7, PassKeys
  <2> QED BY <1>1, <1>6, <1>7, <2>1 DEF CompleteInv, Complete, Running
<1>8. CASE e.kind = "link" \/ (e.kind = "dir" /\ "-r" \notin options.flags)
  <2>1. Share(options, Listing(options), e) = <<>>
    BY <1>8 DEF Share
  <2>2. dirs' = t /\ phase' = "search" /\ heap' = heap /\ hr' = "S_OK"
    BY <1>1, <1>8
  <2> QED BY <1>7, <2>1, <2>2
<1>9. CASE e.kind = "dir" /\ "-r" \in options.flags
  <2> DEFINE q == e.path
  <2>1. EnterDirectory(t, q) /\ phase' = "search" /\ heap' = heap
    BY <1>1, <1>9
  <2>2. Share(options, Listing(options), e) = Listing(options)[q]
    BY <1>9 DEF Share
  <2>3. q \in DOMAIN Tree /\ "-exe" \notin options.flags
    <3>1. Len(dirs) \in 1 .. Len(dirs)
      BY <1>1, <1>2, StackFact
    <3>2. /\ Last(dirs).dir \in DOMAIN Tree /\ Last(dirs).next \in 1 .. Len(Tree[Last(dirs).dir])
      BY <1>1, <1>2, <1>3, AdvanceStack
    <3>3. Last(dirs).next \in DOMAIN Tree[Last(dirs).dir] /\ "-exe" \notin options.flags
      BY <1>1, <1>2, <3>1, <3>2, StackFact DEF Last
    <3> QED BY <1>9, <3>2, <3>3, TreeAssumption DEF e
  <2> HIDE DEF q
  <2>4. CASE Opens[q] = "S_OK"
    <3> DEFINE u == Append(t, [dir |-> q, next |-> 1])
    <3>1. dirs' = u /\ hr' = "S_OK"
      BY <2>1, <2>4 DEF EnterDirectory
    <3>2. StackInv(u, options) /\ SearchKeys(w, u, options)
      <4>1. Entry(dirs).kind = "dir" /\ Entry(dirs).path = q
        BY <1>4, <1>9 DEF q
      <4>2. u = Append(t, [dir |-> Entry(dirs).path, next |-> 1])
        BY <4>1
      <4> HIDE DEF u
      <4> QED BY <1>1, <1>2, <1>3, <1>9, <2>4, <4>1, <4>2, EnterKeys
    <3>3. u # <<>>
      <4>1. t \in Seq(Places) /\ [dir |-> q, next |-> 1] \in Places
        BY <1>3, <2>3 DEF Advances, Places
      <4> QED BY <4>1, AppendProperties
    <3> HIDE DEF u
    <3> QED BY <1>1, <2>1, <3>1, <3>2, <3>3 DEF CompleteInv, Complete, Running
  <2>5. CASE Opens[q] \in {"NO_MORE_FILES", "E_ACCESSDENIED"}
    <3>1. dirs' = t /\ hr' = "S_OK"
      BY <1>6, <2>1, <2>5 DEF EnterDirectory
    <3>2. Listing(options)[q] = <<>>
      BY <2>3, <2>5, GatheredFact
    <3> QED BY <1>7, <2>1, <2>2, <3>1, <3>2
  <2>6. CASE Opens[q] = "NOT_FOUND"
    <3>1. dirs' = t /\ hr' = "NOT_FOUND"
      BY <2>1, <2>6 DEF EnterDirectory
    <3> QED BY <1>1, <1>6, <2>1, <3>1 DEF CompleteInv, Complete, Running
  <2> QED BY <2>3, <2>4, <2>5, <2>6, AssemblyAssumption
<1>10. CASE e.kind = "file"
  <2> DEFINE p == e.path
  <2>1. dirs' = t /\ VisitFile(heap, p, TRUE)
    BY <1>1, <1>10
  <2>2. Share(options, Listing(options), e) = Selected(options, p)
    BY <1>10 DEF Share
  <2>3. "-exe" \notin options.flags
    BY <1>1, <1>2, StackFact
  <2>4. Origin(p, t, options)
    <3>1. /\ Last(t).dir = Last(dirs).dir /\ Last(t).next = Last(dirs).next + 1
          /\ Last(dirs).next \in 1 .. Len(Tree[Last(dirs).dir])
          /\ (Last(dirs).next + 1) - 1 = Last(dirs).next
      BY <1>1, <1>2, <1>3, AdvanceStack
    <3>2. Last(t).next # 1
      <4>1. Last(dirs).next \in Nat /\ Last(dirs).next # 0
        BY <1>1, <1>2, StackFact DEF Last
      <4> QED BY <3>1, <4>1
    <3> QED BY <1>6, <1>10, <3>1, <3>2 DEF Origin, e
  <2> HIDE DEF p
  <2>5. CASE ~ IsModule(options, p)
    <3>1. phase' = "search" /\ heap' = heap /\ hr' = "S_OK"
      BY <1>1, <2>1, <2>5 DEF VisitFile
    <3>2. Selected(options, p) = <<>>
      BY <2>3, <2>5, SelectedFact DEF Eligible
    <3> QED BY <1>7, <2>1, <2>2, <3>1, <3>2
  <2>6. CASE IsModule(options, p)
    <3>1. LoadModule(heap, p, TRUE) /\ p \in DOMAIN Images /\ Eligible(options, p)
      BY <2>1, <2>6 DEF VisitFile, IsModule, IsType, Eligible
    <3>2. ModuleKeys(w, p, 1, t, options)
      BY <1>1, <1>2, <1>3, <3>1, FileKeys
    <3>3. ~ ModuleLoads(p) => SearchKeys(w, t, options)
      <4> SUFFICES ASSUME ~ ModuleLoads(p) PROVE SearchKeys(w, t, options)
        OBVIOUS
      <4>1. Share(options, Listing(options), Entry(dirs)) = <<>>
        BY <1>4, <2>2, <3>1, SelectedFact
      <4> QED BY <1>1, <1>2, <1>3, <4>1, PassKeys
    <3>4. /\ StackInv(dirs', options) /\ Origin(p, dirs', options) /\ ModuleKeys(Keys(heap), p, 1, dirs', options)
          /\ ~ ModuleLoads(p) => SearchKeys(Keys(heap), dirs', options)
      BY <1>6, <2>1, <2>4, <3>2, <3>3
    <3> QED BY <1>1, <1>5, <3>1, <3>4, LoadComplete
  <2> QED BY <2>5, <2>6
<1> QED BY <1>1, <1>8, <1>9, <1>10

\* The fixture under way, and what is wanted of it.
LEMMA CurrentFact ==
  ASSUME HeldInv, CompleteInv, phase = "module", MoreFixtures
  PROVE  LET x == FixtureExports(module.path)[module.next]
         IN  /\ module.path \in DOMAIN Images /\ module.next \in 1 .. Len(FixtureExports(module.path))
             /\ ~ Filter(Current).take => Wanted(options, module.path, x) = <<>>
             /\ Filter(Current).take => Wanted(options, module.path, x) = <<Key(NewAction(Current))>>
<1> DEFINE p == module.path
           n == module.next
           x == FixtureExports(p)[n]
           f == LoadFixtures(p)[n]
<1>1. LoadedInv(module, heap, dirs, options)
  BY DEF CompleteInv, Complete
<1>2. /\ p \in DOMAIN Images /\ ModuleLoads(p) /\ module.fixtures = LoadFixtures(p) /\ Current = f
      /\ n \in 1 .. Len(LoadFixtures(p)) + 1 /\ n <= Len(LoadFixtures(p))
  BY <1>1 DEF LoadedInv, MoreFixtures, Current
<1>3. /\ Len(FixtureExports(p)) \in Nat /\ DOMAIN FixtureExports(p) = 1 .. Len(FixtureExports(p))
      /\ Len(LoadFixtures(p)) = Len(FixtureExports(p))
  BY <1>2, ExportsFact, LoadsFact
<1>4. n \in 1 .. Len(FixtureExports(p))
  <2> HIDE DEF n, p
  <2> QED BY <1>2, <1>3
<1>5. f.name = x.name /\ f.testCases = CasesOf(x)
  <2> HIDE DEF n, p
  <2> QED BY <1>2, <1>4, LoadsFact
<1>6. IsSequence(x.entries)
  <2> HIDE DEF n, p
  <2> QED BY <1>2, <1>3, <1>4, ExportsFact
<1>7. /\ Filter(Current).take <=> Chosen(options, x) # {}
      /\ Filter(Current).take => Filter(Current).testCase = Min(Chosen(options, x))
  <2> HIDE DEF x, f
  <2> QED BY <1>2, <1>5, <1>6, FilterFact
<1>8. Wanted(options, p, x) = IF Chosen(options, x) = {} THEN <<>>
                              ELSE << <<p, x.name, IF "-d" \in options.flags THEN 0 ELSE Min(Chosen(options, x))>> >>
  BY DEF Wanted
<1>9. Key(NewAction(Current)) = <<p, x.name, IF "-d" \in options.flags THEN 0 ELSE Filter(Current).testCase>>
  <2> DEFINE c == IF "-d" \in options.flags THEN 0 ELSE Filter(Current).testCase
             y == NewAction(Current)
  <2>1. y = [path |-> p, fixture |-> Current.name, refs |-> 1, testCase |-> c]
    BY DEF NewAction
  <2> HIDE DEF c, y
  <2>2. Key(y) = <<p, Current.name, c>>
    BY <2>1 DEF Key
  <2> QED BY <1>2, <1>5, <2>2 DEF c, y
<1> HIDE DEF x, p, f
<1>10. ~ Filter(Current).take => Wanted(options, p, x) = <<>>
  BY <1>7, <1>8
<1>11. Filter(Current).take => Wanted(options, p, x) = <<Key(NewAction(Current))>>
  BY <1>7, <1>8, <1>9
<1> QED BY <1>2, <1>4, <1>10, <1>11 DEF x, p

\* A fixture that is not wanted.
LEMMA SkipFixtureComplete ==
  ASSUME HeldInv, CompleteInv, SkipFixture
  PROVE  CompleteInv'
<1> DEFINE p == module.path
           n == module.next
           w == Keys(heap)
<1>1. /\ phase = "module" /\ hr = "S_OK" /\ MoreFixtures /\ module.pending = 0 /\ ~ Filter(Current).take
      /\ module' = [module EXCEPT !.next = @ + 1] /\ UNCHANGED <<phase, options, dirs, heap, hr>>
  BY DEF SkipFixture, Skip
<1>2. /\ p \in DOMAIN Images /\ n \in 1 .. Len(FixtureExports(p))
      /\ Wanted(options, p, FixtureExports(p)[n]) = <<>>
  BY <1>1, CurrentFact
<1>3. /\ LoadedInv(module, heap, dirs, options) /\ ModuleKeys(w, p, n, dirs, options)
      /\ StackInv(dirs, options)
  BY <1>1 DEF CompleteInv, Complete
<1>4. /\ module'.path = p /\ module'.fixtures = module.fixtures /\ module'.next = n + 1 /\ module'.pending = 0
  BY <1>1 DEF HeldInv, Counted, ModuleShape
<1>5. Len(module.fixtures) = Len(FixtureExports(p)) /\ Len(FixtureExports(p)) \in Nat /\ Origin(p, dirs, options)
  BY <1>2, <1>3, LoadsFact, ExportsFact DEF LoadedInv
<1>6. LoadedInv(module', heap', dirs', options')
  <2>1. n + 1 \in 1 .. Len(module.fixtures) + 1
    <3> HIDE DEF n, p
    <3> QED BY <1>2, <1>5
  <2> QED BY <1>1, <1>3, <1>4, <2>1 DEF LoadedInv
<1>7. ModuleKeys(w, p, n + 1, dirs, options)
  <2> DEFINE z == Wanted(options, p, FixtureExports(p)[n])
  <2> HIDE DEF n, p, w
  <2>1. w \in Seq(KeySet) /\ ModuleKeys(w \o z, p, n + 1, dirs, options)
    BY <1>2, <1>3, <1>5, FixtureKeys
  <2>2. w \o z = w
    BY <1>2, <2>1, ConcatEmptySeq
  <2> QED BY <2>1, <2>2
<1>8. ModuleKeys(Keys(heap'), module'.path, module'.next, dirs', options')
  BY <1>1, <1>4, <1>7
<1> QED BY <1>1, <1>3, <1>6, <1>8 DEF CompleteInv, Complete, Running

\* An action is created for a fixture: the sequence does not refer to it yet.
LEMMA CreateActionComplete ==
  ASSUME HeldInv, CompleteInv, CreateAction
  PROVE  CompleteInv'
<1> DEFINE p == module.path
           n == module.next
           w == Keys(heap)
           x == NewAction(Current)
           k == Len(heap.actions) + 1
<1>1. /\ phase = "module" /\ hr = "S_OK" /\ MoreFixtures /\ module.pending = 0 /\ Filter(Current).take
      /\ module' = [module EXCEPT !.pending = k]
      /\ heap' = [heap EXCEPT !.actions = Append(@, x), !.modules[module.path] = @ + 1]
      /\ UNCHANGED <<phase, options, dirs, hr>>
  BY DEF CreateAction
<1>2. /\ p \in DOMAIN Images /\ n \in 1 .. Len(FixtureExports(p))
      /\ Wanted(options, p, FixtureExports(p)[n]) = <<Key(x)>>
  BY <1>1, CurrentFact
<1>3. /\ LoadedInv(module, heap, dirs, options) /\ ModuleKeys(w, p, n, dirs, options)
      /\ StackInv(dirs, options)
  BY <1>1 DEF CompleteInv, Complete
<1>4. HeapShape(heap) /\ ModuleShape(module, heap)
  BY DEF HeldInv, Counted
<1> HIDE DEF x
<1>5. /\ module'.path = p /\ module'.fixtures = module.fixtures /\ module'.next = n /\ module'.pending = k
  BY <1>1, <1>4 DEF ModuleShape
<1>6. heap'.actions = Append(heap.actions, x) /\ heap'.sequence = heap.sequence
  BY <1>1, <1>4 DEF HeapShape
<1>7. heap'.actions[k] = x /\ \A b \in DOMAIN heap.actions : heap'.actions[b] = heap.actions[b]
  <2>1. heap.actions \in Seq(Range(heap.actions) \cup {x}) /\ DOMAIN heap.actions = 1 .. Len(heap.actions)
    BY <1>4 DEF HeapShape
  <2>2. /\ Append(heap.actions, x)[k] = x
        /\ \A b \in 1 .. Len(heap.actions) : Append(heap.actions, x)[b] = heap.actions[b]
    BY <2>1, AppendProperties
  <2> QED BY <1>6, <2>1, <2>2
<1>8. Keys(heap') = w
  BY <1>4, <1>6, <1>7, KeysSame
<1>9. LoadedInv(module', heap', dirs', options')
  <2>1. n <= Len(module.fixtures)
    BY <1>1 DEF MoreFixtures
  <2>2. Wanted(options, p, FixtureExports(p)[n]) = <<Key(heap'.actions[k])>>
    BY <1>2, <1>7
  <2> QED BY <1>1, <1>3, <1>5, <2>1, <2>2 DEF LoadedInv
<1>10. ModuleKeys(Keys(heap'), module'.path, module'.next, dirs', options')
  BY <1>1, <1>3, <1>5, <1>8
<1> QED BY <1>1, <1>3, <1>9, <1>10 DEF CompleteInv, Complete, Running

\* The action becomes an entry of the sequence.
LEMMA AddEntryComplete ==
  ASSUME HeldInv, CompleteInv, AddEntrySequenceAction
  PROVE  CompleteInv'
<1> DEFINE a == module.pending
           p == module.path
           n == module.next
           w == Keys(heap)
           k == Key(heap.actions[a])
           r == ReferenceAction(heap, a)
           s == Append(heap.sequence.entries, a)
           g == [r EXCEPT !.sequence.entries = s]
<1>1. /\ phase = "module" /\ a # 0 /\ module' = [Skip EXCEPT !.pending = 0]
      /\ heap' = DereferenceAction([r EXCEPT !.sequence.entries = Append(@, a)], a)
      /\ UNCHANGED <<phase, options, dirs, hr>>
  BY DEF AddEntrySequenceAction
<1>2. HeapShape(heap) /\ ModuleShape(module, heap)
  BY DEF HeldInv, Counted
<1>3. a \in DOMAIN heap.actions
  BY <1>1, <1>2 DEF ModuleShape
<1>4. /\ LoadedInv(module, heap, dirs, options) /\ StackInv(dirs, options)
      /\ hr = "S_OK" => ModuleKeys(w, p, n, dirs, options)
  BY <1>1 DEF CompleteInv, Complete
<1>5. /\ p \in DOMAIN Images /\ n \in 1 .. Len(module.fixtures) + 1 /\ n <= Len(module.fixtures)
      /\ Wanted(options, p, FixtureExports(p)[n]) = <<k>> /\ Origin(p, dirs, options)
      /\ module.fixtures = LoadFixtures(p)
  BY <1>1, <1>4 DEF LoadedInv
<1>6. /\ Len(module.fixtures) = Len(FixtureExports(p)) /\ Len(FixtureExports(p)) \in Nat
      /\ DOMAIN FixtureExports(p) = 1 .. Len(FixtureExports(p))
  BY <1>5, LoadsFact, ExportsFact
<1>7. n \in 1 .. Len(FixtureExports(p)) /\ n + 1 \in 1 .. Len(module.fixtures) + 1
  <2> HIDE DEF n, p
  <2> QED BY <1>5, <1>6
<1>8. /\ module'.path = p /\ module'.fixtures = module.fixtures /\ module'.next = n + 1 /\ module'.pending = 0
  <2>1. Skip = [path |-> module.path, fixtures |-> module.fixtures, next |-> module.next + 1,
                pending |-> module.pending]
    BY <1>2 DEF ModuleShape, Skip
  <2> QED BY <1>1, <2>1
<1>9. LoadedInv(module', heap', dirs', options')
  BY <1>1, <1>4, <1>7, <1>8 DEF LoadedInv
<1>10. ASSUME hr = "S_OK" PROVE ModuleKeys(Keys(heap'), p, n + 1, dirs, options)
  <2> DEFINE z == Wanted(options, p, FixtureExports(p)[n])
  <2>1. w \in Seq(KeySet) /\ ModuleKeys(w \o z, p, n + 1, dirs, options)
    <3> HIDE DEF n, p, w
    <3> QED BY <1>4, <1>5, <1>7, <1>10, FixtureKeys
  <2>2. k \in KeySet
    <3>1. z \in Seq(KeySet)
      <4> HIDE DEF n, p
      <4> QED BY <1>5, <1>6, <1>7, WantedType
    <3>2. z = <<k>>
      BY <1>5
    <3> HIDE DEF z, k
    <3>3. Len(z) = 1 /\ z[1] = k
      BY <3>2
    <3> QED BY <3>1, <3>3
  <2>3. /\ Counts(r, heap, a, 1) /\ HeapShape(r) /\ DOMAIN r.actions = DOMAIN heap.actions
        /\ r.sequence = heap.sequence
    BY <1>2, <1>3, ReferenceFact DEF Counts
  <2>4. heap.sequence.entries \in Seq(DOMAIN heap.actions) /\ s \in Seq(DOMAIN heap.actions)
    BY <1>2, <1>3, AppendProperties DEF HeapShape
  <2>5. heap' = DereferenceAction(g, a)
    BY <1>1, <2>3
  <2>6. /\ HeapShape(g) /\ g.actions = r.actions /\ g.sequence.entries = s
    <3> HIDE DEF r, s
    <3>1. s \in Seq(DOMAIN r.actions)
      BY <2>3, <2>4
    <3>2. SameCounts(g, r) /\ g.sequence.entries = s
      BY <2>3, <3>1, EditHolders, ZenonT(30)
    <3> QED BY <3>2 DEF SameCounts
  <2>7. \A b \in DOMAIN heap.actions : Key(g.actions[b]) = Key(heap.actions[b])
    BY <1>2, <2>3, <2>6, KeysCounts
  <2>8. Keys(g) = w \o <<k>>
    <3> HIDE DEF g
    <3> QED BY <1>2, <1>3, <2>1, <2>2, <2>6, <2>7, KeysAppend
  <2>9. Keys(heap') = Keys(g)
    <3>1. a \in DOMAIN g.actions
      BY <1>3, <2>3, <2>6
    <3> HIDE DEF g, a
    <3>2. Counts(DereferenceAction(g, a), g, a, -1)
      BY <2>6, <3>1, DereferenceFact
    <3>3. Keys(DereferenceAction(g, a)) = Keys(g)
      BY <2>6, <3>2, KeysCounts
    <3> QED BY <2>5, <3>3
  <2>10. Keys(heap') = w \o z
    BY <1>5, <2>8, <2>9
  <2> QED BY <2>1, <2>10
<1>11. hr' = "S_OK" => ModuleKeys(Keys(heap'), module'.path, module'.next, dirs', options')
  BY <1>1, <1>8, <1>10
<1>12. hr = "E_ACCESSDENIED" => dirs = <<>> /\ Opens[options.input] = "E_ACCESSDENIED"
  BY DEF CompleteInv, Complete
<1> QED BY <1>1, <1>4, <1>9, <1>11, <1>12 DEF CompleteInv, Complete, Running

\* An action cannot be created, or not be added.
LEMMA AddFailsComplete ==
  ASSUME HeldInv, CompleteInv, CreateActionFails \/ AddEntryFails
  PROVE  CompleteInv'
<1>1. /\ phase = "module" /\ hr' = "E_OUTOFMEMORY" /\ UNCHANGED <<phase, options, dirs>>
      /\ \/ module' = module /\ heap' = heap
         \/ module' = [module EXCEPT !.pending = 0]
  BY DEF CreateActionFails, AddEntryFails
<1>2. LoadedInv(module, heap, dirs, options) /\ StackInv(dirs, options)
  BY <1>1 DEF CompleteInv, Complete
<1>3. LoadedInv(module', heap', dirs, options)
  <2>1. CASE module' = module /\ heap' = heap
    BY <1>2, <2>1
  <2>2. CASE module' = [module EXCEPT !.pending = 0]
    <3>1. /\ module'.path = module.path /\ module'.fixtures = module.fixtures /\ module'.next = module.next
          /\ module'.pending = 0
      BY <2>2 DEF HeldInv, Counted, ModuleShape
    <3> QED BY <1>2, <3>1 DEF LoadedInv
  <2> QED BY <1>1, <2>1, <2>2
<1> QED BY <1>1, <1>2, <1>3 DEF CompleteInv, Complete, Running

\* A module is done.
LEMMA ModuleEndsComplete ==
  ASSUME HeldInv, CompleteInv, ModuleEnds
  PROVE  CompleteInv'
<1> DEFINE p == module.path
           n == module.next
           w == Keys(heap)
<1>1. /\ phase = "module" /\ module.pending = 0
      /\ hr # "S_OK" \/ ~ MoreFixtures
      /\ heap' = DereferenceModule(heap, p) /\ phase' = "search" /\ UNCHANGED <<options, dirs, hr>>
  BY DEF ModuleEnds
<1>2. HeapShape(heap)
  BY DEF HeldInv, Counted
<1>3. /\ LoadedInv(module, heap, dirs, options) /\ StackInv(dirs, options)
      /\ hr = "S_OK" => ModuleKeys(w, p, n, dirs, options)
      /\ hr = "E_ACCESSDENIED" => dirs = <<>> /\ Opens[options.input] = "E_ACCESSDENIED"
  BY <1>1 DEF CompleteInv, Complete
<1>4. /\ p \in DOMAIN Images /\ n \in 1 .. Len(module.fixtures) + 1 /\ Origin(p, dirs, options)
      /\ module.fixtures = LoadFixtures(p) /\ Eligible(options, p) /\ ModuleLoads(p)
  BY <1>3 DEF LoadedInv
<1>5. Len(module.fixtures) = Len(FixtureExports(p)) /\ Len(FixtureExports(p)) \in Nat
  BY <1>4, LoadsFact, ExportsFact
<1>6. Keys(heap') = w
  <2>1. heap'.actions = heap.actions /\ heap'.sequence = heap.sequence
    BY <1>1, <1>2 DEF HeapShape, DereferenceModule
  <2> QED BY <2>1 DEF Keys
<1>7. ASSUME hr = "S_OK" PROVE SearchKeys(w, dirs, options)
  <2>1. ~ (n <= Len(module.fixtures))
    BY <1>1, <1>7 DEF MoreFixtures
  <2> HIDE DEF n, p, w
  <2>2. n - 1 = Len(FixtureExports(p))
    BY <1>4, <1>5, <2>1
  <2> QED BY <1>3, <1>4, <1>7, <2>2, DoneKeys
<1> QED BY <1>1, <1>3, <1>6, <1>7 DEF CompleteInv, Complete, Running

\* The search returns.
LEMMA SearchEndsComplete ==
  ASSUME CompleteInv, SearchEnds
  PROVE  CompleteInv'
<1>1. /\ phase = "search" /\ dirs = <<>> /\ UNCHANGED <<heap, options, dirs, hr>>
      /\ phase' \in {"delete", "exit", "context"}
      /\ phase' = "context" => hr = "S_OK"
  BY DEF SearchEnds
<1>2. /\ StackInv(dirs, options)
      /\ hr = "S_OK" => SearchKeys(Keys(heap), dirs, options)
      /\ hr = "E_ACCESSDENIED" => dirs = <<>> /\ Opens[options.input] = "E_ACCESSDENIED"
  BY <1>1 DEF CompleteInv, Complete
<1>3. phase' = "context" => Keys(heap) = Target(options)
  BY <1>1, <1>2 DEF SearchKeys
<1> QED BY <1>1, <1>2, <1>3 DEF CompleteInv, Complete, Running

\* The run neither adds to the sequence nor reorders it.
LEMMA RunKeys ==
  ASSUME HeldInv,
         \/ CreateContext \/ CollectAction \/ CollectEnds \/ CollectFails
         \/ RunAction \/ RunEnds \/ ReleaseAction \/ ReleaseEnds
  PROVE  Keys(heap') = Keys(heap)
<1>1. HeapShape(heap) /\ PhaseInv
  BY DEF HeldInv, Counted
<1>2. /\ heap.sequence.entries \in Seq(DOMAIN heap.actions) /\ heap.collected \in Seq(DOMAIN heap.actions)
  BY <1>1 DEF HeapShape
<1>3. ASSUME NEW g, g.sequence = heap.sequence, g.actions = heap.actions PROVE Keys(g) = Keys(heap)
  BY <1>3 DEF Keys
<1>4. CASE CollectEnds \/ CollectFails \/ RunEnds \/ ReleaseEnds
  BY <1>4 DEF CollectEnds, CollectFails, RunEnds, ReleaseEnds
<1>5. CASE CreateContext \/ RunAction
  <2>1. heap' = heap \/ (\E v : heap' = [heap EXCEPT !.context = v] \/ heap' = [heap EXCEPT !.next = v])
    BY <1>5 DEF CreateContext, RunAction
  <2>2. heap'.sequence = heap.sequence /\ heap'.actions = heap.actions
    BY <1>1, <2>1 DEF HeapShape
  <2> QED BY <1>3, <2>2
<1>6. CASE CollectAction
  <2> DEFINE i == Len(heap.collected) + 1
             a == heap.sequence.entries[i]
             r == ReferenceAction(heap, a)
             s == Append(heap.collected, a)
  <2>1. heap' = [r EXCEPT !.collected = Append(@, a)] /\ Len(heap.collected) < Len(heap.sequence.entries)
    BY <1>6 DEF CollectAction
  <2>2. a \in DOMAIN heap.actions
    BY <1>2, <2>1
  <2> HIDE DEF i, a
  <2>3. Counts(r, heap, a, 1) /\ HeapShape(r)
    BY <1>1, <2>2, ReferenceFact DEF Counts
  <2>4. Keys(r) = Keys(heap)
    BY <1>1, <2>3, KeysCounts
  <2>5. heap'.sequence = r.sequence /\ heap'.actions = r.actions
    <3> HIDE DEF r
    <3> QED BY <2>1, <2>3 DEF HeapShape
  <2>6. Keys(heap') = Keys(r)
    BY <2>5 DEF Keys
  <2> QED BY <2>4, <2>6
<1>7. CASE ReleaseAction
  <2> DEFINE a == Head(heap.collected)
             g == [heap EXCEPT !.collected = Tail(@)]
  <2>1. heap' = DereferenceAction(g, a) /\ heap.collected # <<>>
    BY <1>7 DEF ReleaseAction
  <2>2. a \in DOMAIN heap.actions /\ Tail(heap.collected) \in Seq(DOMAIN heap.actions)
    <3> DEFINE c == heap.collected
    <3>1. c \in Seq(DOMAIN heap.actions) /\ c # <<>>
      BY <1>2, <2>1
    <3> HIDE DEF c
    <3>2. Head(c) \in DOMAIN heap.actions /\ Tail(c) \in Seq(DOMAIN heap.actions)
      BY <3>1, HeadTailProperties
    <3> QED BY <3>2 DEF c
  <2>3. /\ HeapShape(g) /\ g.actions = heap.actions /\ g.sequence = heap.sequence
    <3> DEFINE t == Tail(heap.collected)
    <3>1. t \in Seq(DOMAIN heap.actions) /\ g = [heap EXCEPT !.collected = t]
      BY <2>2
    <3> HIDE DEF t, g
    <3>2. SameCounts(g, heap) /\ g.sequence = heap.sequence
      BY <1>1, <3>1, EditHolders
    <3> QED BY <3>2 DEF SameCounts
  <2> HIDE DEF a, g
  <2>4. Counts(DereferenceAction(g, a), g, a, -1)
    BY <2>2, <2>3, DereferenceFact
  <2>5. Keys(DereferenceAction(g, a)) = Keys(g)
    BY <2>3, <2>4, KeysCounts
  <2>6. Keys(g) = Keys(heap)
    BY <1>3, <2>3
  <2> QED BY <2>1, <2>5, <2>6
<1> QED BY <1>4, <1>5, <1>6, <1>7

LEMMA RunComplete ==
  ASSUME HeldInv, CompleteInv,
         \/ CreateContext \/ CollectAction \/ CollectEnds \/ CollectFails
         \/ RunAction \/ RunEnds \/ ReleaseAction \/ ReleaseEnds
  PROVE  CompleteInv'
<1>1. /\ phase \in Running /\ phase' \in Running /\ UNCHANGED <<options, dirs>>
      /\ hr' \in {hr, "E_OUTOFMEMORY", "ABORTED"}
  BY DEF CreateContext, CollectAction, CollectEnds, CollectFails, RunAction, RunEnds, ReleaseAction,
         ReleaseEnds, Running
<1>2. Keys(heap') = Keys(heap)
  BY RunKeys
<1>3. /\ StackInv(dirs, options) /\ dirs = <<>> /\ Keys(heap) = Target(options)
      /\ hr = "E_ACCESSDENIED" => Opens[options.input] = "E_ACCESSDENIED"
  BY <1>1 DEF CompleteInv, Complete, Running
<1> QED BY <1>1, <1>2, <1>3 DEF CompleteInv, Complete, Running

\* Nothing is said of the sequence that is deleted.
LEMMA DeleteComplete ==
  ASSUME CompleteInv, CreateContextFails \/ FinishRun \/ DeleteEntry \/ DeleteSequence
  PROVE  CompleteInv'
<1>1. /\ phase \in Running \cup {"delete"} /\ phase' \in {"delete", "exit"} /\ UNCHANGED <<options, dirs>>
      /\ hr' \in {hr, "E_OUTOFMEMORY", "LOADING_EVENTDLL_FAILED"}
  BY DEF CreateContextFails, FinishRun, DeleteEntry, DeleteSequence, Running
<1>2. /\ StackInv(dirs, options) /\ dirs = <<>>
      /\ hr = "E_ACCESSDENIED" => Opens[options.input] = "E_ACCESSDENIED"
  BY <1>1 DEF CompleteInv, Complete, Running
<1> QED BY <1>1, <1>2 DEF CompleteInv, Complete, Running

-----------------------------------------------------------------------------
(***************************************************************************)
(* The second invariant holds, and what it says of the sequence.           *)
(***************************************************************************)

LEMMA CompleteInit == AssemblyInit => CompleteInv
<1> SUFFICES ASSUME AssemblyInit PROVE CompleteInv
  OBVIOUS
<1>1. phase = "start" /\ dirs = <<>> /\ hr = "S_OK"
  BY DEF AssemblyInit
<1>2. StackInv(dirs, options)
  BY <1>1, EmptyStack
<1> QED BY <1>1, <1>2 DEF CompleteInv, Complete, Running

LEMMA CompleteStep == HeldInv /\ CompleteInv /\ [AssemblyNext]_assemblyVars => CompleteInv'
<1> SUFFICES ASSUME HeldInv, CompleteInv, [AssemblyNext]_assemblyVars PROVE CompleteInv'
  OBVIOUS
<1>1. CASE (\E argv \in CommandLines : Main(argv)) \/ CreateSequenceFails
  BY <1>1, MainComplete
<1>2. CASE StartSearch
  BY <1>2, StartSearchComplete
<1>3. CASE UseOwnExecutable
  BY <1>3, UseOwnExecutableComplete
<1>4. CASE NextEntry
  BY <1>4, NextEntryComplete
<1>5. CASE LeaveDirectory
  BY <1>5, LeaveDirectoryComplete
<1>6. CASE SkipFixture
  BY <1>6, SkipFixtureComplete
<1>7. CASE CreateAction
  BY <1>7, CreateActionComplete
<1>8. CASE CreateActionFails \/ AddEntryFails
  BY <1>8, AddFailsComplete
<1>9. CASE AddEntrySequenceAction
  BY <1>9, AddEntryComplete
<1>10. CASE ModuleEnds
  BY <1>10, ModuleEndsComplete
<1>11. CASE SearchEnds
  BY <1>11, SearchEndsComplete
<1>12. CASE \/ CreateContext \/ CollectAction \/ CollectEnds \/ CollectFails
            \/ RunAction \/ RunEnds \/ ReleaseAction \/ ReleaseEnds
  BY <1>12, RunComplete
<1>13. CASE CreateContextFails \/ FinishRun \/ DeleteEntry \/ DeleteSequence
  BY <1>13, DeleteComplete
<1>14. CASE UNCHANGED assemblyVars
  BY <1>14 DEF assemblyVars, CompleteInv
<1> QED BY <1>1, <1>2, <1>3, <1>4, <1>5, <1>6, <1>7, <1>8, <1>9, <1>10, <1>11, <1>12, <1>13, <1>14
        DEF AssemblyNext

LEMMA CompleteImplies == CompleteInv => AssemblyComplete
<1> SUFFICES ASSUME CompleteInv PROVE AssemblyComplete
  OBVIOUS
<1>1. /\ phase \in Running => Keys(heap) = Target(options)
      /\ hr = "E_ACCESSDENIED" => Opens[options.input] = "E_ACCESSDENIED"
  BY DEF CompleteInv, Complete
<1>2. Assembled = Keys(heap)
  BY DEF Assembled, Keys, Key
<1> QED BY <1>1, <1>2 DEF AssemblyComplete, Running, Target

\* In every state of the search, the sequence holds what the directories above,
\* the directory under way and the module under way have contributed so far.
THEOREM CompleteInvariance == AssemblySpec => []CompleteInv
<1> QED BY HeldInvariance, CompleteInit, CompleteStep, PTL DEF AssemblySpec

\* The sequence that is run holds exactly the fixtures the command line selects,
\* in the order of the search, whatever the directories and images are: neither
\* a directory that may not be read nor a module that cannot be loaded costs
\* another module its tests.
THEOREM AssemblyCompleteHolds == AssemblySpec => []AssemblyComplete
<1> QED BY CompleteInvariance, CompleteImplies, PTL
==============================================================================
