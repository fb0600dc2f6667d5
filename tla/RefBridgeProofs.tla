-------------------------- MODULE RefBridgeProofs --------------------------
(***************************************************************************)
(* Theorems about RefBridge, for any number of threads, of crossings and   *)
(* of calls: no operation touches what was deleted, what is left when all  *)
(* calls are over is what references keep, and the object is a shared      *)
(* object to its users.                                                    *)
(***************************************************************************)
EXTENDS RefBridge, FiniteSetTheorems, FunctionTheorems, SequenceTheorems, TLAPS

-----------------------------------------------------------------------------
(***************************************************************************)
(* The inductive invariant.  A cell's count is the number of references    *)
(* that keep the cell, together with what each call under way has added    *)
(* to the cell and not taken away again.                                   *)
(***************************************************************************)
\* How many operations of a sequence do o to the cell.
Matches(o, c, s) == {i \in DOMAIN s : s[i].op = o /\ s[i].cell = c}
Times(o, c, s) == Cardinality(Matches(o, c, s))

\* A call that ends in a reference owes it one count of each cell it keeps.
Gained(t, c) == IF \E x \in gains[t] : c \in Kept(x[2]) THEN 1 ELSE 0

\* What t's call has added to the cell so far.
Balance(t, c) == Gained(t, c) + Times("dec", c, steps[t]) - Times("inc", c, steps[t])

Keepers(c) == {h \in Threads \X Pointers : h[2] \in refs[h[1]] /\ c \in Kept(h[2])}
Transits(b) == UNION {{t} \X (1 .. b[t]) : t \in Threads}
Balances(c) == [t \in Threads |-> Balance(t, c)]

CountsAgree ==
    \A c \in Cells :
        /\ Balances(c) \in [Threads -> Nat]
        /\ IsFiniteSet(Keepers(c)) /\ IsFiniteSet(Transits(Balances(c)))
        /\ count[c] = Cardinality(Keepers(c)) + Cardinality(Transits(Balances(c)))

\* What a call has made, and not counted for good yet.
BornFor(t) == UNION {{Wrapper(w), Remote(w)} : w \in {v \in Wraps : <<t, Remote(v)>> \in gains[t]}}
Fresh(t) == {c \in BornFor(t) : Times("inc", c, steps[t]) > 0}

LivesAgree ==
    \A c \in Cells :
        /\ life[c] = "alive" <=> count[c] > 0 \/ \E t \in Threads : c \in Fresh(t)
        /\ life[c] = "unborn" =>
              \A t \in Threads : /\ \A x \in gains[t] : c \notin Kept(x[2])
                                 /\ \A i \in DOMAIN steps[t] : steps[t][i].cell # c

\* A call ends in one reference, that nobody has or is about to get, and its
\* thread has a reference as long.
GainsAreNew ==
    \A t \in Threads :
        gains[t] # {} =>
            /\ refs[t] # {}
            /\ \E x \in gains[t] : gains[t] = {x} /\ x[2] \notin refs[x[1]]
                                   /\ \A s \in Threads \ {t} : x \notin gains[s]

\* What a call has made is unknown to the other threads until it returns.
BornIsPrivate ==
    \A t \in Threads, w \in Wraps :
        <<t, Remote(w)>> \in gains[t] =>
            \A s \in Threads :
                /\ Remote(w) \notin refs[s]
                /\ s # t => /\ \A x \in gains[s] : x[2] # Remote(w)
                            /\ \A i \in DOMAIN steps[s] : steps[s][i].cell \notin {Wrapper(w), Remote(w)}

KeptBy(t) == {c \in Cells : \E p \in refs[t] : c \in Kept(p)}
GainedBy(t) == {c \in Cells : Gained(t, c) = 1}

\* A sequence of operations counts before it takes away, and there is a reason
\* for each cell an operation touches to be there still: the thread has a
\* reference that keeps it, or the call has made it and is to count it, or the
\* call has counted it.
Touched(x) == {x.cell} \cup x.reads
Later(s, i, o, c) == \E j \in DOMAIN s : i <= j /\ s[j].op = o /\ s[j].cell = c

Reason(s, i, kept, born, gained) ==
    \A c \in Touched(s[i]) :
        \/ c \in kept
        \/ s[i].op = "inc" /\ c \in born /\ Later(s, i, "inc", c)
        \/ s[i].op = "dec" /\ (c \in gained \/ Later(s, i, "dec", c))

Safe(s, kept, born, gained) ==
    \A i \in DOMAIN s :
        /\ s[i].op = "dec" => \A j \in DOMAIN s : i <= j => s[j].op = "dec"
        /\ Reason(s, i, kept, born, gained)

CallsAreSafe == \A t \in Threads : Safe(steps[t], KeptBy(t), BornFor(t), GainedBy(t))

IInv == TypeOK /\ CountsAgree /\ LivesAgree /\ GainsAreNew /\ BornIsPrivate /\ CallsAreSafe

-----------------------------------------------------------------------------
(***************************************************************************)
(* Cells, and the counting of operations.                                  *)
(***************************************************************************)
\* The three kinds of cells are distinct, and what each pointer keeps.
LEMMA CellFacts ==
    /\ Object \in Cells /\ \A w \in Wraps : Wrapper(w) \in Cells /\ Remote(w) \in Cells
    /\ \A c \in Cells : c = Object \/ \E w \in Wraps : c = Wrapper(w) \/ c = Remote(w)
    /\ Object \in Pointers /\ \A w \in Wraps : Remote(w) \in Pointers
    /\ \A p \in Pointers : p = Object \/ \E w \in Wraps : p = Remote(w)
    /\ \A w \in Wraps : Object # Wrapper(w) /\ Object # Remote(w)
    /\ \A v, w \in Wraps : /\ Wrapper(v) # Remote(w)
                           /\ Wrapper(v) = Wrapper(w) => v = w
                           /\ Remote(v) = Remote(w) => v = w
    /\ Kept(Object) = {Object}
    /\ \A w \in Wraps : Kept(Remote(w)) = {Remote(w), Wrapper(w), Object}
    /\ \A w \in Wraps : Release(Remote(w)) = ReleaseRemote(w) /\ AddRef(Remote(w)) = AddRefRemote(w)
BY DEF Object, Wrapper, Remote, Cells, Pointers, Kept, Release, AddRef

LEMMA OperationFacts ==
    ASSUME NEW c \in Cells, NEW r \in SUBSET Cells
    PROVE  /\ Inc(c, r) \in Operations /\ Inc(c, r).op = "inc" /\ Inc(c, r).cell = c
           /\ Inc(c, r).reads = r
           /\ Dec(c, r) \in Operations /\ Dec(c, r).op = "dec" /\ Dec(c, r).cell = c
           /\ Dec(c, r).reads = r
BY DEF Inc, Dec, Operations

LEMMA TimesFinite ==
    ASSUME NEW o, NEW c, NEW s \in Seq(Operations)
    PROVE  IsFiniteSet(Matches(o, c, s)) /\ Times(o, c, s) \in Nat
<1>1. Matches(o, c, s) \in SUBSET (1 .. Len(s))
  BY DEF Matches
<1>2. IsFiniteSet(1 .. Len(s))
  BY FS_Interval
<1> QED
  BY <1>1, <1>2, FS_Subset, FS_CardinalityType DEF Times

LEMMA TimesOne ==
    ASSUME NEW o, NEW c, NEW x \in Operations
    PROVE  Times(o, c, <<x>>) = IF x.op = o /\ x.cell = c THEN 1 ELSE 0
<1>1. Matches(o, c, <<x>>) = IF x.op = o /\ x.cell = c THEN {1} ELSE {}
  BY DEF Matches
<1> QED
  BY <1>1, FS_EmptySet, FS_Singleton DEF Times

LEMMA TimesEmpty ==
    ASSUME NEW o, NEW c
    PROVE  Times(o, c, <<>>) = 0
<1>1. Matches(o, c, <<>>) = {}
  BY DEF Matches
<1> QED
  BY <1>1, FS_EmptySet DEF Times

LEMMA TimesConcat ==
    ASSUME NEW o, NEW c, NEW s \in Seq(Operations), NEW r \in Seq(Operations)
    PROVE  Times(o, c, s \o r) = Times(o, c, s) + Times(o, c, r)
<1> DEFINE n == Len(s)
           A == Matches(o, c, s)
           B == Matches(o, c, r)
           D == {i \in n + 1 .. n + Len(r) : i - n \in B}
           f == [i \in B |-> i + n]
<1>1. n \in Nat /\ Len(r) \in Nat /\ Len(s \o r) = n + Len(r)
      /\ A \subseteq 1 .. n /\ B \subseteq 1 .. Len(r)
  BY DEF Matches
<1>2. \A i \in 1 .. n + Len(r) : (s \o r)[i] = IF i <= n THEN s[i] ELSE r[i - n]
  OBVIOUS
<1>3. Matches(o, c, s \o r) = A \cup D
  <2>1. DOMAIN (s \o r) = 1 .. n + Len(r)
    OBVIOUS
  <2>2. A = {i \in 1 .. n : s[i].op = o /\ s[i].cell = c}
    BY DEF Matches
  <2>3. B = {i \in 1 .. Len(r) : r[i].op = o /\ r[i].cell = c}
    BY DEF Matches
  <2>4. Matches(o, c, s \o r) = {i \in 1 .. n + Len(r) : (s \o r)[i].op = o /\ (s \o r)[i].cell = c}
    BY <2>1 DEF Matches
  <2> HIDE DEF n, A, B
  <2>5. \A i \in 1 .. n + Len(r) : i \in A \cup D <=> i \in Matches(o, c, s \o r)
    BY <1>1, <1>2, <2>2, <2>3, <2>4
  <2>6. \A i \in A \cup D : i \in 1 .. n + Len(r)
    BY <1>1
  <2> HIDE DEF D
  <2> QED
    BY <2>4, <2>5, <2>6
<1>4. A \cap D = {}
  BY <1>1
<1>5. ExistsBijection(B, D)
  <2>1. f \in Bijection(B, D)
    <3> HIDE DEF B, n
    <3>1. f \in [B -> D]
      BY <1>1
    <3>2. \A x, y \in B : f[x] = f[y] => x = y
      BY <1>1
    <3>3. \A y \in D : \E x \in B : f[x] = y
      <4> SUFFICES ASSUME NEW y \in D PROVE \E x \in B : f[x] = y
        OBVIOUS
      <4>1. y - n \in B /\ f[y - n] = y
        BY <1>1
      <4> QED
        BY <4>1
    <3> QED
      BY <3>1, <3>2, <3>3, Fun_IsBij
  <2> QED
    BY <2>1 DEF ExistsBijection
<1>6. IsFiniteSet(A) /\ IsFiniteSet(B)
  BY TimesFinite
<1>7. IsFiniteSet(D) /\ Cardinality(D) = Cardinality(B)
  BY <1>5, <1>6, FS_Bijection
<1>8. Cardinality(A \cup D) = Cardinality(A) + Cardinality(D) - Cardinality(A \cap D)
  BY <1>6, <1>7, FS_Union
<1>9. Cardinality(A) \in Nat /\ Cardinality(D) \in Nat /\ Cardinality({}) = 0
  BY <1>6, <1>7, FS_CardinalityType, FS_EmptySet
<1>10. Times(o, c, s) = Cardinality(A) /\ Times(o, c, r) = Cardinality(B)
       /\ Times(o, c, s \o r) = Cardinality(A \cup D)
  BY <1>3 DEF Times
<1>11. Cardinality(A \cap D) = 0
  BY <1>4, <1>9
<1>12. Cardinality(A \cup D) = Cardinality(A) + Cardinality(D)
  BY <1>8, <1>9, <1>11
<1> QED
  BY <1>7, <1>10, <1>12

\* A step takes the first operation off.
LEMMA TimesTail ==
    ASSUME NEW o, NEW c, NEW s \in Seq(Operations), s # <<>>
    PROVE  Times(o, c, Tail(s)) =
               Times(o, c, s) - IF Head(s).op = o /\ Head(s).cell = c THEN 1 ELSE 0
<1>1. Head(s) \in Operations /\ Tail(s) \in Seq(Operations) /\ <<Head(s)>> \in Seq(Operations)
  OBVIOUS
<1>2. s = <<Head(s)>> \o Tail(s)
  OBVIOUS
<1>3. Times(o, c, s) = Times(o, c, <<Head(s)>>) + Times(o, c, Tail(s))
  BY <1>1, <1>2, TimesConcat
<1>4. Times(o, c, Tail(s)) \in Nat
  BY <1>1, TimesFinite
<1> QED
  BY <1>1, <1>3, <1>4, TimesOne

\* An operation that is to come is counted.
LEMMA TimesPositive ==
    ASSUME NEW o, NEW c, NEW s \in Seq(Operations)
    PROVE  Times(o, c, s) > 0 <=> \E i \in DOMAIN s : s[i].op = o /\ s[i].cell = c
<1>1. Times(o, c, s) > 0 <=> Matches(o, c, s) # {}
  BY TimesFinite, FS_EmptySet DEF Times
<1> QED
  BY <1>1 DEF Matches

\* What each sequence of operations does to a cell's count.
One(c, d) == IF c = d THEN 1 ELSE 0

Does(s, c, incs, decs) == Times("inc", c, s) = incs /\ Times("dec", c, s) = decs

LEMMA DoesConcat ==
    ASSUME NEW s \in Seq(Operations), NEW r \in Seq(Operations), NEW c,
           NEW i, NEW d, NEW j, NEW e, Does(s, c, i, d), Does(r, c, j, e)
    PROVE  s \o r \in Seq(Operations) /\ Does(s \o r, c, i + j, d + e)
<1>1. s \o r \in Seq(Operations)
  OBVIOUS
<1> QED
  BY <1>1, TimesConcat DEF Does

LEMMA DoesOne ==
    ASSUME NEW d \in Cells, NEW via \in SUBSET Cells, NEW c
    PROVE  /\ <<Inc(d, via)>> \in Seq(Operations) /\ Does(<<Inc(d, via)>>, c, One(c, d), 0)
           /\ <<Dec(d, via)>> \in Seq(Operations) /\ Does(<<Dec(d, via)>>, c, 0, One(c, d))
<1>1. <<Inc(d, via)>> \in Seq(Operations) /\ <<Dec(d, via)>> \in Seq(Operations)
  BY OperationFacts
<1> QED
  BY <1>1, OperationFacts, TimesOne DEF Does, One

LEMMA DoesNothing == \A c : <<>> \in Seq(Operations) /\ Does(<<>>, c, 0, 0)
BY TimesEmpty DEF Does

LEMMA ObjectDoes ==
    ASSUME NEW via \in SUBSET Cells, NEW c
    PROVE  /\ AddRefObject(via) \in Seq(Operations) /\ Does(AddRefObject(via), c, One(c, Object), 0)
           /\ ReleaseObject(via) \in Seq(Operations) /\ Does(ReleaseObject(via), c, 0, One(c, Object))
BY CellFacts, DoesOne DEF AddRefObject, ReleaseObject

LEMMA OneType == \A c, d : One(c, d) \in Nat
BY DEF One

LEMMA WrapperDoes ==
    ASSUME NEW w \in Wraps, NEW via \in SUBSET Cells, NEW c
    PROVE  /\ AddRefWrapper(w, via) \in Seq(Operations)
           /\ Does(AddRefWrapper(w, via), c, One(c, Object) + One(c, Wrapper(w)), 0)
           /\ ReleaseWrapper(w, via) \in Seq(Operations)
           /\ Does(ReleaseWrapper(w, via), c, 0, One(c, Object) + One(c, Wrapper(w)))
<1>1. via \cup {Wrapper(w)} \in SUBSET Cells /\ {} \in SUBSET Cells /\ Wrapper(w) \in Cells
  BY CellFacts
<1>2. /\ AddRefObject(via \cup {Wrapper(w)}) \in Seq(Operations)
      /\ Does(AddRefObject(via \cup {Wrapper(w)}), c, One(c, Object), 0)
      /\ ReleaseObject(via \cup {Wrapper(w)}) \in Seq(Operations)
      /\ Does(ReleaseObject(via \cup {Wrapper(w)}), c, 0, One(c, Object))
  BY <1>1, ObjectDoes
<1>3. /\ <<Inc(Wrapper(w), {})>> \in Seq(Operations)
      /\ Does(<<Inc(Wrapper(w), {})>>, c, One(c, Wrapper(w)), 0)
      /\ <<Dec(Wrapper(w), {})>> \in Seq(Operations)
      /\ Does(<<Dec(Wrapper(w), {})>>, c, 0, One(c, Wrapper(w)))
  BY <1>1, DoesOne
<1>4. AddRefWrapper(w, via) \in Seq(Operations)
      /\ Does(AddRefWrapper(w, via), c, One(c, Object) + One(c, Wrapper(w)), 0 + 0)
  BY <1>2, <1>3, DoesConcat DEF AddRefWrapper
<1>5. ReleaseWrapper(w, via) \in Seq(Operations)
      /\ Does(ReleaseWrapper(w, via), c, 0 + 0, One(c, Object) + One(c, Wrapper(w)))
  BY <1>2, <1>3, DoesConcat DEF ReleaseWrapper
<1> QED
  BY <1>4, <1>5, 0 + 0 = 0

\* A reference on CEF's side counts on all three cells.
LEMMA RemoteDoes ==
    ASSUME NEW w \in Wraps, NEW c
    PROVE  /\ AddRefRemote(w) \in Seq(Operations)
           /\ Does(AddRefRemote(w), c, One(c, Object) + One(c, Wrapper(w)) + One(c, Remote(w)), 0)
           /\ ReleaseRemote(w) \in Seq(Operations)
           /\ Does(ReleaseRemote(w), c, 0, One(c, Object) + One(c, Wrapper(w)) + One(c, Remote(w)))
<1>1. {Remote(w)} \in SUBSET Cells /\ {} \in SUBSET Cells /\ Remote(w) \in Cells
  BY CellFacts
<1>2. /\ AddRefWrapper(w, {Remote(w)}) \in Seq(Operations)
      /\ Does(AddRefWrapper(w, {Remote(w)}), c, One(c, Object) + One(c, Wrapper(w)), 0)
      /\ ReleaseWrapper(w, {Remote(w)}) \in Seq(Operations)
      /\ Does(ReleaseWrapper(w, {Remote(w)}), c, 0, One(c, Object) + One(c, Wrapper(w)))
  BY <1>1, WrapperDoes
<1>3. /\ <<Inc(Remote(w), {})>> \in Seq(Operations)
      /\ Does(<<Inc(Remote(w), {})>>, c, One(c, Remote(w)), 0)
      /\ <<Dec(Remote(w), {})>> \in Seq(Operations)
      /\ Does(<<Dec(Remote(w), {})>>, c, 0, One(c, Remote(w)))
  BY <1>1, DoesOne
<1>4. AddRefRemote(w) \in Seq(Operations)
      /\ Does(AddRefRemote(w), c, (One(c, Object) + One(c, Wrapper(w))) + One(c, Remote(w)), 0 + 0)
  BY <1>2, <1>3, DoesConcat DEF AddRefRemote
<1>5. ReleaseRemote(w) \in Seq(Operations)
      /\ Does(ReleaseRemote(w), c, 0 + 0, (One(c, Object) + One(c, Wrapper(w))) + One(c, Remote(w)))
  BY <1>2, <1>3, DoesConcat DEF ReleaseRemote
<1> QED
  BY <1>4, <1>5, 0 + 0 = 0

\* A pointer's AddRef and Release count once on each cell it keeps.
LEMMA PointerDoes ==
    ASSUME NEW p \in Pointers, NEW c \in Cells
    PROVE  LET n == IF c \in Kept(p) THEN 1 ELSE 0
           IN  /\ AddRef(p) \in Seq(Operations) /\ Does(AddRef(p), c, n, 0)
               /\ Release(p) \in Seq(Operations) /\ Does(Release(p), c, 0, n)
<1>1. CASE p = Object
  <2>1. /\ AddRefObject({}) \in Seq(Operations) /\ Does(AddRefObject({}), c, One(c, Object), 0)
        /\ ReleaseObject({}) \in Seq(Operations) /\ Does(ReleaseObject({}), c, 0, One(c, Object))
    BY ObjectDoes
  <2>2. AddRef(p) = AddRefObject({}) /\ Release(p) = ReleaseObject({})
    BY <1>1 DEF AddRef, Release
  <2>3. One(c, Object) = IF c \in Kept(p) THEN 1 ELSE 0
    BY <1>1, CellFacts DEF One
  <2> QED
    BY <2>1, <2>2, <2>3
<1>2. ASSUME NEW w \in Wraps, p = Remote(w)
      PROVE  LET n == IF c \in Kept(p) THEN 1 ELSE 0
             IN  /\ AddRef(p) \in Seq(Operations) /\ Does(AddRef(p), c, n, 0)
                 /\ Release(p) \in Seq(Operations) /\ Does(Release(p), c, 0, n)
  <2>1. AddRef(p) = AddRefRemote(w) /\ Release(p) = ReleaseRemote(w)
    BY <1>2, CellFacts
  <2>2. One(c, Object) + One(c, Wrapper(w)) + One(c, Remote(w)) = IF c \in Kept(p) THEN 1 ELSE 0
    BY <1>2, CellFacts DEF One
  <2> QED
    BY <2>1, <2>2, RemoteDoes
<1> QED
  BY <1>1, <1>2, CellFacts

\* The calls, operation by operation.
LEMMA Join11 ==
    ASSUME NEW a \in Operations, NEW b \in Operations
    PROVE  <<a>> \o <<b>> = <<a, b>>
<1>1. <<a>> \in Seq(Operations) /\ <<b>> \in Seq(Operations) /\ <<a, b>> \in Seq(Operations)
  OBVIOUS
<1>2. <<a>> \o <<b>> \in Seq(Operations) /\ Len(<<a>> \o <<b>>) = 2
  BY <1>1
<1>3. \A i \in 1 .. 2 : (<<a>> \o <<b>>)[i] = <<a, b>>[i]
  BY <1>1
<1> QED
  BY <1>1, <1>2, <1>3, SeqEqual

LEMMA Join12 ==
    ASSUME NEW a \in Operations, NEW b \in Operations, NEW c \in Operations
    PROVE  <<a>> \o <<b, c>> = <<a, b, c>>
<1>1. <<a>> \in Seq(Operations) /\ <<b, c>> \in Seq(Operations) /\ <<a, b, c>> \in Seq(Operations)
  OBVIOUS
<1>2. <<a>> \o <<b, c>> \in Seq(Operations) /\ Len(<<a>> \o <<b, c>>) = 3
  BY <1>1
<1>3. \A i \in 1 .. 3 : (<<a>> \o <<b, c>>)[i] = <<a, b, c>>[i]
  BY <1>1
<1> QED
  BY <1>1, <1>2, <1>3, SeqEqual

LEMMA Join21 ==
    ASSUME NEW a \in Operations, NEW b \in Operations, NEW c \in Operations
    PROVE  <<a, b>> \o <<c>> = <<a, b, c>>
<1>1. <<a, b>> \in Seq(Operations) /\ <<c>> \in Seq(Operations) /\ <<a, b, c>> \in Seq(Operations)
  OBVIOUS
<1>2. <<a, b>> \o <<c>> \in Seq(Operations) /\ Len(<<a, b>> \o <<c>>) = 3
  BY <1>1
<1>3. \A i \in 1 .. 3 : (<<a, b>> \o <<c>>)[i] = <<a, b, c>>[i]
  BY <1>1
<1> QED
  BY <1>1, <1>2, <1>3, SeqEqual

LEMMA Join32 ==
    ASSUME NEW a \in Operations, NEW b \in Operations, NEW c \in Operations, NEW d \in Operations,
           NEW e \in Operations
    PROVE  <<a, b, c>> \o <<d, e>> = <<a, b, c, d, e>>
<1>1. <<a, b, c>> \in Seq(Operations) /\ <<d, e>> \in Seq(Operations) /\ <<a, b, c, d, e>> \in Seq(Operations)
  OBVIOUS
<1>2. <<a, b, c>> \o <<d, e>> \in Seq(Operations) /\ Len(<<a, b, c>> \o <<d, e>>) = 5
  BY <1>1
<1>3. \A i \in 1 .. 5 : (<<a, b, c>> \o <<d, e>>)[i] = <<a, b, c, d, e>>[i]
  BY <1>1
<1> QED
  BY <1>1, <1>2, <1>3, SeqEqual

LEMMA Join23 ==
    ASSUME NEW a \in Operations, NEW b \in Operations, NEW c \in Operations, NEW d \in Operations,
           NEW e \in Operations
    PROVE  <<a, b>> \o <<c, d, e>> = <<a, b, c, d, e>>
<1>1. <<a, b>> \in Seq(Operations) /\ <<c, d, e>> \in Seq(Operations) /\ <<a, b, c, d, e>> \in Seq(Operations)
  OBVIOUS
<1>2. <<a, b>> \o <<c, d, e>> \in Seq(Operations) /\ Len(<<a, b>> \o <<c, d, e>>) = 5
  BY <1>1
<1>3. \A i \in 1 .. 5 : (<<a, b>> \o <<c, d, e>>)[i] = <<a, b, c, d, e>>[i]
  BY <1>1
<1> QED
  BY <1>1, <1>2, <1>3, SeqEqual

LEMMA Join25 ==
    ASSUME NEW a \in Operations, NEW b \in Operations, NEW c \in Operations, NEW d \in Operations,
           NEW e \in Operations, NEW f \in Operations, NEW g \in Operations
    PROVE  <<a, b>> \o <<c, d, e, f, g>> = <<a, b, c, d, e, f, g>>
<1>1. <<a, b>> \in Seq(Operations) /\ <<c, d, e, f, g>> \in Seq(Operations) /\ <<a, b, c, d, e, f, g>> \in Seq(Operations)
  OBVIOUS
<1>2. <<a, b>> \o <<c, d, e, f, g>> \in Seq(Operations) /\ Len(<<a, b>> \o <<c, d, e, f, g>>) = 7
  BY <1>1
<1>3. \A i \in 1 .. 7 : (<<a, b>> \o <<c, d, e, f, g>>)[i] = <<a, b, c, d, e, f, g>>[i]
  BY <1>1
<1> QED
  BY <1>1, <1>2, <1>3, SeqEqual

LEMMA Shapes ==
    ASSUME NEW w \in Wraps
    PROVE  LET O == Object W == Wrapper(w) R == Remote(w)
           IN  /\ WrapForCef(w) \o WrapStruct(w) =
                      <<Inc(O, {W}), Inc(W, {}), Inc(O, {R, W}), Inc(W, {}), Inc(R, {}),
                        Dec(O, {R, W}), Dec(W, {})>>
               /\ UnwrapStruct(w) \o UnwrapObject(w) =
                      <<Inc(O, {R, W}), Inc(W, {}), Inc(O, {W}), Dec(O, {W}), Dec(W, {})>>
               /\ AddRefObject({R, W}) \o ReleaseObject({}) = <<Inc(O, {R, W}), Dec(O, {})>>
               /\ AddRefRemote(w) = <<Inc(O, {R, W}), Inc(W, {}), Inc(R, {})>>
               /\ ReleaseRemote(w) = <<Dec(O, {R, W}), Dec(W, {}), Dec(R, {})>>
<1> DEFINE O == Object
           W == Wrapper(w)
           R == Remote(w)
           iO == Inc(O, {R, W})
           jO == Inc(O, {W})
           iW == Inc(W, {})
           iR == Inc(R, {})
           dO == Dec(O, {R, W})
           eO == Dec(O, {W})
           fO == Dec(O, {})
           dW == Dec(W, {})
           dR == Dec(R, {})
<1>1. {} \cup {W} = {W} /\ {R} \cup {W} = {R, W}
  OBVIOUS
<1>2. O \in Cells /\ W \in Cells /\ R \in Cells /\ {} \in SUBSET Cells
      /\ {W} \in SUBSET Cells /\ {R, W} \in SUBSET Cells
  BY CellFacts
<1>3. /\ iO \in Operations /\ jO \in Operations /\ iW \in Operations /\ iR \in Operations
      /\ dO \in Operations /\ eO \in Operations /\ fO \in Operations
      /\ dW \in Operations /\ dR \in Operations
  BY <1>2, OperationFacts
<1> HIDE DEF iO, jO, iW, iR, dO, eO, fO, dW, dR
<1>4. /\ AddRefWrapper(w, {}) = <<jO>> \o <<iW>>
      /\ AddRefWrapper(w, {R}) = <<iO>> \o <<iW>>
      /\ ReleaseWrapper(w, {}) = <<eO>> \o <<dW>>
      /\ ReleaseWrapper(w, {R}) = <<dO>> \o <<dW>>
  BY <1>1 DEF AddRefWrapper, ReleaseWrapper, AddRefObject, ReleaseObject, iO, jO, iW, dO, eO, dW
<1>5. /\ AddRefWrapper(w, {}) = <<jO, iW>> /\ AddRefWrapper(w, {R}) = <<iO, iW>>
      /\ ReleaseWrapper(w, {}) = <<eO, dW>> /\ ReleaseWrapper(w, {R}) = <<dO, dW>>
  BY <1>3, <1>4, Join11
<1>6. AddRefRemote(w) = <<iO, iW>> \o <<iR>> /\ ReleaseRemote(w) = <<dO, dW>> \o <<dR>>
  BY <1>5 DEF AddRefRemote, ReleaseRemote, iR, dR
<1>7. AddRefRemote(w) = <<iO, iW, iR>> /\ ReleaseRemote(w) = <<dO, dW, dR>>
  BY <1>3, <1>6, Join21
<1>8. WrapStruct(w) = <<iO, iW, iR>> \o <<dO, dW>>
  BY <1>5, <1>7 DEF WrapStruct
<1>9. WrapStruct(w) = <<iO, iW, iR, dO, dW>>
  BY <1>3, <1>8, Join32
<1>10. WrapForCef(w) \o WrapStruct(w) = <<jO, iW, iO, iW, iR, dO, dW>>
  <2>1. WrapForCef(w) = <<jO, iW>>
    BY <1>5 DEF WrapForCef
  <2> QED
    BY <1>3, <1>9, <2>1, Join25, SMTT(30)
<1>11. UnwrapObject(w) = <<jO>> \o <<eO, dW>>
  BY <1>5 DEF UnwrapObject, AddRefObject, jO
<1>12. UnwrapObject(w) = <<jO, eO, dW>>
  BY <1>3, <1>11, Join12
<1>13. UnwrapStruct(w) \o UnwrapObject(w) = <<iO, iW, jO, eO, dW>>
  <2>1. UnwrapStruct(w) = <<iO, iW>>
    BY <1>5 DEF UnwrapStruct
  <2> QED
    BY <1>3, <1>12, <2>1, Join23
<1>14. AddRefObject({R, W}) \o ReleaseObject({}) = <<iO>> \o <<fO>>
  BY DEF AddRefObject, ReleaseObject, iO, fO
<1>15. AddRefObject({R, W}) \o ReleaseObject({}) = <<iO, fO>>
  BY <1>3, <1>14, Join11
<1> QED
  BY <1>7, <1>10, <1>13, <1>15 DEF iO, jO, iW, iR, dO, eO, fO, dW, dR

LEMMA CallsDo ==
    ASSUME NEW w \in Wraps, NEW c
    PROVE  LET o == One(c, Object) x == One(c, Wrapper(w)) r == One(c, Remote(w))
           IN  /\ WrapForCef(w) \o WrapStruct(w) \in Seq(Operations)
               /\ Does(WrapForCef(w) \o WrapStruct(w), c, (o + x) + ((o + x + r) + 0), 0 + (0 + (o + x)))
               /\ UnwrapStruct(w) \o UnwrapObject(w) \in Seq(Operations)
               /\ Does(UnwrapStruct(w) \o UnwrapObject(w), c, (o + x) + (o + 0), 0 + (0 + (o + x)))
               /\ AddRefObject({Remote(w), Wrapper(w)}) \o ReleaseObject({}) \in Seq(Operations)
               /\ Does(AddRefObject({Remote(w), Wrapper(w)}) \o ReleaseObject({}), c, o + 0, 0 + o)
<1> DEFINE o == One(c, Object)
           x == One(c, Wrapper(w))
           r == One(c, Remote(w))
<1>1. {} \in SUBSET Cells /\ {Remote(w)} \in SUBSET Cells /\ {Wrapper(w)} \in SUBSET Cells
      /\ {Remote(w), Wrapper(w)} \in SUBSET Cells
  BY CellFacts
<1>2. WrapForCef(w) \in Seq(Operations) /\ Does(WrapForCef(w), c, o + x, 0)
  BY <1>1, WrapperDoes DEF WrapForCef
<1>3. /\ AddRefRemote(w) \in Seq(Operations) /\ Does(AddRefRemote(w), c, o + x + r, 0)
      /\ ReleaseWrapper(w, {Remote(w)}) \in Seq(Operations)
      /\ Does(ReleaseWrapper(w, {Remote(w)}), c, 0, o + x)
  BY <1>1, RemoteDoes, WrapperDoes
<1>4. WrapStruct(w) \in Seq(Operations) /\ Does(WrapStruct(w), c, (o + x + r) + 0, 0 + (o + x))
  BY <1>3, DoesConcat DEF WrapStruct
<1>5. UnwrapStruct(w) \in Seq(Operations) /\ Does(UnwrapStruct(w), c, o + x, 0)
  BY <1>1, WrapperDoes DEF UnwrapStruct
<1>6. /\ AddRefObject({Wrapper(w)}) \in Seq(Operations) /\ Does(AddRefObject({Wrapper(w)}), c, o, 0)
      /\ ReleaseWrapper(w, {}) \in Seq(Operations) /\ Does(ReleaseWrapper(w, {}), c, 0, o + x)
  BY <1>1, ObjectDoes, WrapperDoes
<1>7. UnwrapObject(w) \in Seq(Operations) /\ Does(UnwrapObject(w), c, o + 0, 0 + (o + x))
  BY <1>6, DoesConcat DEF UnwrapObject
<1>8. /\ AddRefObject({Remote(w), Wrapper(w)}) \in Seq(Operations)
      /\ Does(AddRefObject({Remote(w), Wrapper(w)}), c, o, 0)
      /\ ReleaseObject({}) \in Seq(Operations) /\ Does(ReleaseObject({}), c, 0, o)
  BY <1>1, ObjectDoes
<1>9. /\ WrapForCef(w) \o WrapStruct(w) \in Seq(Operations)
      /\ Does(WrapForCef(w) \o WrapStruct(w), c, (o + x) + ((o + x + r) + 0), 0 + (0 + (o + x)))
  BY <1>2, <1>4, DoesConcat
<1>10. /\ UnwrapStruct(w) \o UnwrapObject(w) \in Seq(Operations)
       /\ Does(UnwrapStruct(w) \o UnwrapObject(w), c, (o + x) + (o + 0), 0 + (0 + (o + x)))
  BY <1>5, <1>7, DoesConcat
<1>11. /\ AddRefObject({Remote(w), Wrapper(w)}) \o ReleaseObject({}) \in Seq(Operations)
       /\ Does(AddRefObject({Remote(w), Wrapper(w)}) \o ReleaseObject({}), c, o + 0, 0 + o)
  BY <1>8, DoesConcat
<1> QED
  BY <1>9, <1>10, <1>11

-----------------------------------------------------------------------------
(***************************************************************************)
(* Calls are safe when they begin, and stay so.                            *)
(***************************************************************************)
LEMMA SafeTail ==
    ASSUME NEW s \in Seq(Operations), s # <<>>, NEW k, NEW b, NEW g, Safe(s, k, b, g)
    PROVE  Safe(Tail(s), k, b, g)
<1>1. /\ Len(Tail(s)) = Len(s) - 1 /\ DOMAIN Tail(s) = 1 .. Len(s) - 1 /\ DOMAIN s = 1 .. Len(s)
      /\ Len(s) \in Nat /\ \A i \in 1 .. Len(s) - 1 : Tail(s)[i] = s[i + 1]
  OBVIOUS
<1>2. ASSUME NEW i \in 1 .. Len(s) - 1, NEW o, NEW c, Later(s, i + 1, o, c)
      PROVE  Later(Tail(s), i, o, c)
  <2>1. PICK j \in 1 .. Len(s) : i + 1 <= j /\ s[j].op = o /\ s[j].cell = c
    BY <1>1, <1>2 DEF Later
  <2>2. j - 1 \in 1 .. Len(s) - 1 /\ i <= j - 1 /\ Tail(s)[j - 1] = s[j]
    BY <1>1, <2>1
  <2> QED
    BY <1>1, <2>1, <2>2 DEF Later
<1>3. ASSUME NEW i \in 1 .. Len(s) - 1
      PROVE  /\ Tail(s)[i].op = "dec" => \A j \in 1 .. Len(s) - 1 : i <= j => Tail(s)[j].op = "dec"
             /\ Reason(Tail(s), i, k, b, g)
  <2>1. i + 1 \in DOMAIN s /\ Tail(s)[i] = s[i + 1]
    BY <1>1
  <2>2. s[i + 1].op = "dec" => \A j \in DOMAIN s : i + 1 <= j => s[j].op = "dec"
    BY <2>1 DEF Safe
  <2>3. \A j \in 1 .. Len(s) - 1 : i <= j => j + 1 \in DOMAIN s /\ i + 1 <= j + 1 /\ Tail(s)[j] = s[j + 1]
    BY <1>1
  <2>4. Reason(s, i + 1, k, b, g)
    BY <2>1 DEF Safe
  <2> QED
    BY <1>2, <2>1, <2>2, <2>3, <2>4 DEF Reason
<1> QED
  BY <1>1, <1>3 DEF Safe

LEMMA SafeMore ==
    ASSUME NEW s, NEW k, NEW b, NEW g, NEW k2, Safe(s, k, b, g), k \subseteq k2
    PROVE  Safe(s, k2, b, g)
BY DEF Safe, Reason

LEMMA Touches ==
    ASSUME NEW c, NEW r
    PROVE  /\ Touched(Inc(c, r)) = {c} \cup r /\ Touched(Dec(c, r)) = {c} \cup r
           /\ Inc(c, r).op = "inc" /\ Dec(c, r).op = "dec"
           /\ Inc(c, r).cell = c /\ Dec(c, r).cell = c
BY DEF Touched, Inc, Dec

LEMMA SafePass ==
    ASSUME NEW w \in Wraps, NEW k, Object \in k,
           NEW b, Wrapper(w) \in b, Remote(w) \in b,
           NEW g, Object \in g, Wrapper(w) \in g, Remote(w) \in g
    PROVE  Safe(WrapForCef(w) \o WrapStruct(w), k, b, g)
<1> DEFINE O == Object
           W == Wrapper(w)
           R == Remote(w)
           s == <<Inc(O, {W}), Inc(W, {}), Inc(O, {R, W}), Inc(W, {}), Inc(R, {}),
                  Dec(O, {R, W}), Dec(W, {})>>
<1>1. WrapForCef(w) \o WrapStruct(w) = s
  BY Shapes
<1>2. /\ DOMAIN s = 1 .. 7
      /\ s[1] = Inc(O, {W}) /\ s[2] = Inc(W, {}) /\ s[3] = Inc(O, {R, W}) /\ s[4] = Inc(W, {})
      /\ s[5] = Inc(R, {}) /\ s[6] = Dec(O, {R, W}) /\ s[7] = Dec(W, {})
  OBVIOUS
<1> HIDE DEF s
<1>3. /\ Later(s, 1, "inc", W) /\ Later(s, 2, "inc", W) /\ Later(s, 3, "inc", W)
      /\ Later(s, 4, "inc", W) /\ Later(s, 3, "inc", R) /\ Later(s, 5, "inc", R)
  BY <1>2, Touches DEF Later
<1>4. Reason(s, 1, k, b, g) /\ Reason(s, 2, k, b, g) /\ Reason(s, 3, k, b, g) /\ Reason(s, 4, k, b, g)
      /\ Reason(s, 5, k, b, g)
  BY <1>2, <1>3, Touches DEF Reason
<1>5. Reason(s, 6, k, b, g) /\ Reason(s, 7, k, b, g)
  BY <1>2, Touches DEF Reason
<1>6. \A i \in 1 .. 7 : s[i].op = "dec" => \A j \in 1 .. 7 : i <= j => s[j].op = "dec"
  BY <1>2, Touches
<1>7. \A i \in 1 .. 7 : Reason(s, i, k, b, g)
  BY <1>4, <1>5
<1> QED
  BY <1>1, <1>2, <1>6, <1>7 DEF Safe

LEMMA SafeUnwrap ==
    ASSUME NEW w \in Wraps, NEW k, Object \in k, Wrapper(w) \in k, Remote(w) \in k, NEW b, NEW g
    PROVE  Safe(UnwrapStruct(w) \o UnwrapObject(w), k, b, g)
<1> DEFINE O == Object
           W == Wrapper(w)
           R == Remote(w)
           s == <<Inc(O, {R, W}), Inc(W, {}), Inc(O, {W}), Dec(O, {W}), Dec(W, {})>>
<1>1. UnwrapStruct(w) \o UnwrapObject(w) = s
  BY Shapes
<1>2. /\ DOMAIN s = 1 .. 5
      /\ s[1] = Inc(O, {R, W}) /\ s[2] = Inc(W, {}) /\ s[3] = Inc(O, {W}) /\ s[4] = Dec(O, {W})
      /\ s[5] = Dec(W, {})
  OBVIOUS
<1> HIDE DEF s
<1>3. \A i \in 1 .. 5 : Touched(s[i]) \subseteq {O, W, R}
  BY <1>2, Touches
<1>4. \A i \in 1 .. 5 : s[i].op = "dec" => \A j \in 1 .. 5 : i <= j => s[j].op = "dec"
  BY <1>2, Touches
<1> QED
  BY <1>1, <1>2, <1>3, <1>4 DEF Safe, Reason

LEMMA SafeInvoke ==
    ASSUME NEW w \in Wraps, NEW k, Object \in k, Wrapper(w) \in k, Remote(w) \in k, NEW b, NEW g
    PROVE  Safe(AddRefObject({Remote(w), Wrapper(w)}) \o ReleaseObject({}), k, b, g)
<1> DEFINE s == <<Inc(Object, {Remote(w), Wrapper(w)}), Dec(Object, {})>>
<1>1. AddRefObject({Remote(w), Wrapper(w)}) \o ReleaseObject({}) = s
  BY Shapes
<1>2. DOMAIN s = 1 .. 2 /\ s[1] = Inc(Object, {Remote(w), Wrapper(w)}) /\ s[2] = Dec(Object, {})
  OBVIOUS
<1> HIDE DEF s
<1>3. \A i \in 1 .. 2 : Touched(s[i]) \subseteq {Object, Wrapper(w), Remote(w)}
  BY <1>2, Touches
<1>4. \A i \in 1 .. 2 : s[i].op = "dec" => \A j \in 1 .. 2 : i <= j => s[j].op = "dec"
  BY <1>2, Touches
<1> QED
  BY <1>1, <1>2, <1>3, <1>4 DEF Safe, Reason

\* A reference can be copied while the thread has it, and released in any case.
LEMMA SafePointer ==
    ASSUME NEW p \in Pointers, NEW k, NEW b, NEW g
    PROVE  /\ Kept(p) \subseteq k => Safe(AddRef(p), k, b, g)
           /\ Safe(Release(p), k, b, g)
<1>1. CASE p = Object
  <2> DEFINE s == <<Inc(Object, {})>>
             r == <<Dec(Object, {})>>
  <2>1. AddRef(p) = s /\ Release(p) = r
    BY <1>1 DEF AddRef, Release, AddRefObject, ReleaseObject
  <2>2. DOMAIN s = {1} /\ DOMAIN r = {1} /\ s[1] = Inc(Object, {}) /\ r[1] = Dec(Object, {})
    OBVIOUS
  <2> HIDE DEF s, r
  <2>3. Later(r, 1, "dec", Object)
    BY <2>2, Touches DEF Later
  <2>4. Touched(s[1]) = {Object} /\ Touched(r[1]) = {Object} /\ s[1].op = "inc" /\ r[1].op = "dec"
    BY <2>2, Touches
  <2> QED
    BY <1>1, <2>1, <2>2, <2>3, <2>4, CellFacts DEF Safe, Reason
<1>2. ASSUME NEW w \in Wraps, p = Remote(w)
      PROVE  /\ Kept(p) \subseteq k => Safe(AddRef(p), k, b, g)
             /\ Safe(Release(p), k, b, g)
  <2> DEFINE O == Object
             W == Wrapper(w)
             R == Remote(w)
             s == <<Inc(O, {R, W}), Inc(W, {}), Inc(R, {})>>
             r == <<Dec(O, {R, W}), Dec(W, {}), Dec(R, {})>>
  <2>1. AddRef(p) = s /\ Release(p) = r
    BY <1>2, CellFacts, Shapes
  <2>2. /\ DOMAIN s = 1 .. 3 /\ s[1] = Inc(O, {R, W}) /\ s[2] = Inc(W, {}) /\ s[3] = Inc(R, {})
        /\ DOMAIN r = 1 .. 3 /\ r[1] = Dec(O, {R, W}) /\ r[2] = Dec(W, {}) /\ r[3] = Dec(R, {})
    OBVIOUS
  <2> HIDE DEF s, r
  <2>3. \A i \in 1 .. 3 : Touched(s[i]) \subseteq {O, W, R} /\ s[i].op = "inc" /\ r[i].op = "dec"
    BY <2>2, Touches
  <2>4. Kept(p) = {R, W, O}
    BY <1>2, CellFacts
  <2>5. Kept(p) \subseteq k => Safe(s, k, b, g)
    BY <2>2, <2>3, <2>4 DEF Safe, Reason
  <2>6. /\ Later(r, 1, "dec", O) /\ Later(r, 1, "dec", W) /\ Later(r, 1, "dec", R)
        /\ Later(r, 2, "dec", W) /\ Later(r, 3, "dec", R)
    BY <2>2, Touches DEF Later
  <2>7. Reason(r, 1, k, b, g) /\ Reason(r, 2, k, b, g) /\ Reason(r, 3, k, b, g)
    BY <2>2, <2>6, Touches DEF Reason
  <2>8. \A i \in 1 .. 3 : Reason(r, i, k, b, g)
    BY <2>7
  <2> QED
    BY <2>1, <2>2, <2>3, <2>5, <2>8 DEF Safe
<1> QED
  BY <1>1, <1>2, CellFacts

-----------------------------------------------------------------------------
(***************************************************************************)
(* The counts.                                                             *)
(***************************************************************************)
LEMMA TransitIn ==
    ASSUME NEW b, NEW t, NEW i
    PROVE  <<t, i>> \in Transits(b) <=> t \in Threads /\ i \in 1 .. b[t]
BY DEF Transits

LEMMA TransitPairs ==
    ASSUME NEW b, NEW x \in Transits(b)
    PROVE  \E t \in Threads : \E i \in 1 .. b[t] : x = <<t, i>>
BY DEF Transits

LEMMA TransitSubset ==
    ASSUME NEW b, NEW S, \A t \in Threads : \A i \in 1 .. b[t] : <<t, i>> \in S
    PROVE  Transits(b) \subseteq S
<1> SUFFICES ASSUME NEW x \in Transits(b) PROVE x \in S
  OBVIOUS
<1>1. PICK t \in Threads : \E i \in 1 .. b[t] : x = <<t, i>>
  BY TransitPairs
<1>2. PICK i \in 1 .. b[t] : x = <<t, i>>
  BY <1>1
<1> QED
  BY <1>2

LEMMA TransitPlus ==
    ASSUME NEW b \in [Threads -> Nat], NEW t \in Threads, IsFiniteSet(Transits(b)),
           NEW b2, b2 = [b EXCEPT ![t] = b[t] + 1]
    PROVE  IsFiniteSet(Transits(b2)) /\ Cardinality(Transits(b2)) = Cardinality(Transits(b)) + 1
<1> DEFINE n == b[t] + 1
<1>1. n \in Nat /\ \A i : i \in 1 .. n <=> i \in 1 .. b[t] \/ i = n
  OBVIOUS
<1>2. \A u \in Threads : b2[u] = IF u = t THEN n ELSE b[u]
  OBVIOUS
<1>3. Transits(b2) = Transits(b) \cup {<<t, n>>}
  <2>1. \A u \in Threads : \A i \in 1 .. b2[u] : <<u, i>> \in Transits(b) \cup {<<t, n>>}
    BY <1>1, <1>2, TransitIn
  <2>2. \A u \in Threads : \A i \in 1 .. b[u] : <<u, i>> \in Transits(b2)
    BY <1>1, <1>2, TransitIn
  <2>3. <<t, n>> \in Transits(b2)
    BY <1>1, <1>2, TransitIn
  <2>4. Transits(b2) \subseteq Transits(b) \cup {<<t, n>>}
    BY <2>1, TransitSubset
  <2>5. Transits(b) \subseteq Transits(b2)
    BY <2>2, TransitSubset
  <2> QED
    BY <2>3, <2>4, <2>5
<1>4. <<t, n>> \notin Transits(b)
  BY <1>1, TransitIn
<1>5. /\ IsFiniteSet(Transits(b) \cup {<<t, n>>})
      /\ Cardinality(Transits(b) \cup {<<t, n>>}) = Cardinality(Transits(b)) + 1
  BY <1>4, FS_AddElement
<1> QED
  BY <1>3, <1>5

LEMMA TransitMinus ==
    ASSUME NEW b \in [Threads -> Nat], NEW t \in Threads, IsFiniteSet(Transits(b)), b[t] > 0,
           NEW b2, b2 = [b EXCEPT ![t] = b[t] - 1]
    PROVE  /\ b2 \in [Threads -> Nat] /\ IsFiniteSet(Transits(b2))
           /\ Cardinality(Transits(b)) = Cardinality(Transits(b2)) + 1
<1>1. b2 \in [Threads -> Nat] /\ b = [b2 EXCEPT ![t] = b2[t] + 1]
  <2>1. b[t] - 1 \in Nat /\ b[t] = (b[t] - 1) + 1
    OBVIOUS
  <2>2. b2 \in [Threads -> Nat] /\ b2[t] = b[t] - 1 /\ \A u \in Threads : u # t => b2[u] = b[u]
    BY <2>1
  <2>3. b \in [Threads -> Nat] /\ [b2 EXCEPT ![t] = b2[t] + 1] \in [Threads -> Nat]
    BY <2>1, <2>2
  <2>4. \A u \in Threads : b[u] = [b2 EXCEPT ![t] = b2[t] + 1][u]
    BY <2>1, <2>2
  <2> QED
    BY <2>2, <2>3, <2>4
<1>2. \A u \in Threads : 1 .. b2[u] \subseteq 1 .. b[u]
  OBVIOUS
<1>3. Transits(b2) \in SUBSET Transits(b)
  <2>1. \A u \in Threads : \A i \in 1 .. b2[u] : <<u, i>> \in Transits(b)
    BY <1>2, TransitIn
  <2> QED
    BY <2>1, TransitSubset
<1>4. IsFiniteSet(Transits(b2))
  BY <1>3, FS_Subset
<1> QED
  BY <1>1, <1>4, TransitPlus

\* A balance is a number, and what it consists of.
LEMMA BalanceParts ==
    ASSUME IInv, NEW t \in Threads, NEW c \in Cells
    PROVE  /\ steps[t] \in Seq(Operations)
           /\ Times("inc", c, steps[t]) \in Nat /\ Times("dec", c, steps[t]) \in Nat
           /\ Gained(t, c) \in {0, 1}
           /\ Balance(t, c) \in Nat /\ Balances(c)[t] = Balance(t, c)
           /\ Balance(t, c) = Gained(t, c) + Times("dec", c, steps[t]) - Times("inc", c, steps[t])
<1>1. steps[t] \in Seq(Operations)
  BY DEF IInv, TypeOK
<1>2. Gained(t, c) \in {0, 1}
  BY DEF Gained
<1>3. Balances(c)[t] = Balance(t, c) /\ Balances(c)[t] \in Nat
  BY DEF IInv, CountsAgree, Balances
<1> QED
  BY <1>1, <1>2, <1>3, TimesFinite DEF Balance

\* Who has a reference, or is in a call that has counted, keeps the count up.
LEMMA Counted ==
    ASSUME IInv, NEW c \in Cells
    PROVE  /\ count[c] \in Nat
           /\ \A t \in Threads : c \in KeptBy(t) \/ Balance(t, c) > 0 => count[c] > 0
           /\ count[c] > 0 => \E t \in Threads : c \in KeptBy(t) \/ Balance(t, c) > 0
<1> DEFINE K == Keepers(c)
           T == Transits(Balances(c))
<1>1. IsFiniteSet(K) /\ IsFiniteSet(T) /\ count[c] = Cardinality(K) + Cardinality(T)
  BY DEF IInv, CountsAgree
<1>2. Cardinality(K) \in Nat /\ Cardinality(T) \in Nat
      /\ (Cardinality(K) = 0 <=> K = {}) /\ (Cardinality(T) = 0 <=> T = {})
  BY <1>1, FS_CardinalityType, FS_EmptySet
<1>3. \A t \in Threads : c \in KeptBy(t) => K # {}
  <2> SUFFICES ASSUME NEW t \in Threads, NEW p \in refs[t], c \in Kept(p) PROVE K # {}
    BY DEF KeptBy
  <2>1. p \in Pointers
    BY DEF IInv, TypeOK
  <2>2. <<t, p>> \in K
    BY <2>1 DEF Keepers
  <2> QED
    BY <2>2
<1>4. \A t \in Threads : Balance(t, c) > 0 => T # {}
  <2> SUFFICES ASSUME NEW t \in Threads, Balance(t, c) > 0 PROVE T # {}
    OBVIOUS
  <2>1. 1 \in 1 .. Balances(c)[t]
    BY BalanceParts
  <2> QED
    BY <2>1, TransitIn
<1>5. K # {} => \E t \in Threads : c \in KeptBy(t)
  BY DEF Keepers, KeptBy
<1>6. T # {} => \E t \in Threads : Balance(t, c) > 0
  <2> SUFFICES ASSUME NEW x \in T PROVE \E t \in Threads : Balance(t, c) > 0
    OBVIOUS
  <2>1. PICK t \in Threads : \E i \in 1 .. Balances(c)[t] : x = <<t, i>>
    BY TransitPairs
  <2>2. Balance(t, c) > 0
    BY <2>1, BalanceParts
  <2> QED
    BY <2>2
<1> HIDE DEF K, T
<1> QED
  BY <1>1, <1>2, <1>3, <1>4, <1>5, <1>6

\* Nothing is in transit for a thread that is not in a call.
LEMMA IdleBalance ==
    ASSUME NEW t \in Threads, NEW c \in Cells, steps[t] = <<>>
    PROVE  Balance(t, c) = Gained(t, c)
BY TimesEmpty DEF Balance, Gained

LEMMA SameCounts ==
    ASSUME IInv, NEW c \in Cells, Keepers(c)' = Keepers(c), count'[c] = count[c],
           \A t \in Threads : Balance(t, c)' = Balance(t, c)
    PROVE  /\ Balances(c)' \in [Threads -> Nat]
           /\ IsFiniteSet(Keepers(c)') /\ IsFiniteSet(Transits(Balances(c)'))
           /\ count'[c] = Cardinality(Keepers(c)') + Cardinality(Transits(Balances(c)'))
<1>1. Balances(c)' = Balances(c)
  BY DEF Balances
<1> QED
  BY <1>1 DEF IInv, CountsAgree

\* A call begins that will have added to the cells what its reference keeps.
LEMMA CountsBegin ==
    ASSUME IInv, NEW t \in Threads, NEW s \in Seq(Operations),
           NEW g \in SUBSET (Threads \X Pointers),
           Begins(t, s, g), count' = count, refs' = refs,
           \A c \in Cells : Times("inc", c, s) = Times("dec", c, s) + IF \E x \in g : c \in Kept(x[2]) THEN 1 ELSE 0
    PROVE  CountsAgree'
<1> SUFFICES ASSUME NEW c \in Cells
             PROVE  /\ Balances(c)' \in [Threads -> Nat]
                    /\ IsFiniteSet(Keepers(c)') /\ IsFiniteSet(Transits(Balances(c)'))
                    /\ count'[c] = Cardinality(Keepers(c)') + Cardinality(Transits(Balances(c)'))
  BY DEF CountsAgree, Transits
<1>1. /\ steps[t] = <<>> /\ gains[t] = {}
      /\ steps' = [steps EXCEPT ![t] = s] /\ gains' = [gains EXCEPT ![t] = g]
      /\ steps \in [Threads -> Seq(Operations)] /\ gains \in [Threads -> SUBSET (Threads \X Pointers)]
  BY DEF Begins, IInv, TypeOK
<1>2. Keepers(c)' = Keepers(c)
  BY DEF Keepers
<1>3. ASSUME NEW u \in Threads, u # t PROVE Balance(u, c)' = Balance(u, c)
  BY <1>1, <1>3 DEF Balance, Gained
<1>4. Balance(t, c) = 0
  BY <1>1, IdleBalance DEF Gained
<1>5. Balance(t, c)' = 0
  <2>1. steps'[t] = s /\ gains'[t] = g
    BY <1>1
  <2>2. Gained(t, c)' = IF \E x \in g : c \in Kept(x[2]) THEN 1 ELSE 0
    BY <2>1 DEF Gained
  <2>3. Times("inc", c, s) \in Nat /\ Times("dec", c, s) \in Nat
    BY TimesFinite
  <2>4. Balance(t, c)' = Gained(t, c)' + Times("dec", c, s) - Times("inc", c, s)
    BY <2>1 DEF Balance
  <2> QED
    BY <2>2, <2>3, <2>4
<1> QED
  BY <1>2, <1>3, <1>4, <1>5, SameCounts

\* The thread that begins to release a reference owes what the reference kept.
LEMMA CountsDrop ==
    ASSUME IInv, NEW t \in Threads, NEW p \in Pointers, DropRef(t, p)
    PROVE  CountsAgree'
<1> SUFFICES ASSUME NEW c \in Cells
             PROVE  /\ Balances(c)' \in [Threads -> Nat]
                    /\ IsFiniteSet(Keepers(c)') /\ IsFiniteSet(Transits(Balances(c)'))
                    /\ count'[c] = Cardinality(Keepers(c)') + Cardinality(Transits(Balances(c)'))
  BY DEF CountsAgree, Transits
<1> DEFINE n == IF c \in Kept(p) THEN 1 ELSE 0
<1>1. /\ p \in refs[t] /\ steps[t] = <<>> /\ gains[t] = {} /\ count' = count
      /\ refs' = [refs EXCEPT ![t] = refs[t] \ {p}]
      /\ steps' = [steps EXCEPT ![t] = Release(p)] /\ gains' = [gains EXCEPT ![t] = {}]
      /\ steps \in [Threads -> Seq(Operations)] /\ gains \in [Threads -> SUBSET (Threads \X Pointers)]
      /\ refs \in [Threads -> SUBSET Pointers]
  BY DEF DropRef, Begins, IInv, TypeOK
<1>2. ASSUME NEW u \in Threads, u # t PROVE Balance(u, c)' = Balance(u, c)
  BY <1>1, <1>2 DEF Balance, Gained
<1>3. Balance(t, c) = 0
  BY <1>1, IdleBalance DEF Gained
<1>4. Balance(t, c)' = n
  <2>1. steps'[t] = Release(p) /\ gains'[t] = {}
    BY <1>1
  <2>2. Gained(t, c)' = 0
    BY <2>1 DEF Gained
  <2>3. Times("inc", c, Release(p)) = 0 /\ Times("dec", c, Release(p)) = n
    BY PointerDoes DEF Does
  <2> QED
    BY <2>1, <2>2, <2>3 DEF Balance
<1>5. CASE c \notin Kept(p)
  <2>1. Keepers(c)' = Keepers(c)
    BY <1>1, <1>5 DEF Keepers
  <2> QED
    BY <1>1, <1>2, <1>3, <1>4, <1>5, <2>1, SameCounts
<1>6. CASE c \in Kept(p)
  <2>1. Keepers(c)' = Keepers(c) \ {<<t, p>>}
    BY <1>1, <1>6 DEF Keepers
  <2>2. <<t, p>> \in Keepers(c)
    BY <1>1, <1>6 DEF Keepers
  <2>3. /\ IsFiniteSet(Keepers(c)) /\ IsFiniteSet(Transits(Balances(c)))
        /\ Balances(c) \in [Threads -> Nat]
        /\ count[c] = Cardinality(Keepers(c)) + Cardinality(Transits(Balances(c)))
    BY DEF IInv, CountsAgree
  <2>4. IsFiniteSet(Keepers(c)') /\ Cardinality(Keepers(c)') = Cardinality(Keepers(c)) - 1
    BY <2>1, <2>2, <2>3, FS_RemoveElement
  <2>5. Balances(c)' = [Balances(c) EXCEPT ![t] = Balances(c)[t] + 1]
    <3>1. \A u \in Threads : Balance(u, c)' = IF u = t THEN Balance(t, c) + 1 ELSE Balance(u, c)
      BY <1>2, <1>3, <1>4, <1>6
    <3> QED
      BY <3>1 DEF Balances
  <2>6. Balances(c)' \in [Threads -> Nat]
    BY <2>3, <2>5
  <2>7. /\ IsFiniteSet(Transits(Balances(c)'))
        /\ Cardinality(Transits(Balances(c)')) = Cardinality(Transits(Balances(c))) + 1
    BY <2>3, <2>5, TransitPlus
  <2>8. Cardinality(Keepers(c)) \in Nat /\ Cardinality(Transits(Balances(c))) \in Nat
    BY <2>3, FS_CardinalityType
  <2>9. count'[c] = Cardinality(Keepers(c)') + Cardinality(Transits(Balances(c)'))
    BY <1>1, <2>3, <2>4, <2>7, <2>8
  <2> QED
    BY <2>4, <2>6, <2>7, <2>9
<1> QED
  BY <1>5, <1>6

\* The operation a thread comes to.
LEMMA HeadFacts ==
    ASSUME IInv, NEW t \in Threads, steps[t] # <<>>
    PROVE  LET s == steps[t] h == Head(steps[t])
           IN  /\ s \in Seq(Operations) /\ Tail(s) \in Seq(Operations)
               /\ 1 \in DOMAIN s /\ h = s[1] /\ h \in Operations
               /\ h.op \in {"inc", "dec"} /\ h.cell \in Cells /\ h.reads \in SUBSET Cells
               /\ Reason(s, 1, KeptBy(t), BornFor(t), GainedBy(t))
               /\ h.op = "dec" =>
                     /\ \A i \in DOMAIN s : s[i].op = "dec"
                     /\ \A c \in Cells : /\ Times("inc", c, s) = 0
                                         /\ Balance(t, c) = Gained(t, c) + Times("dec", c, s)
<1> DEFINE s == steps[t]
           h == Head(s)
<1>1. s \in Seq(Operations)
  BY DEF IInv, TypeOK
<1>2. Tail(s) \in Seq(Operations) /\ 1 \in DOMAIN s /\ h = s[1] /\ h \in Operations
      /\ DOMAIN s = 1 .. Len(s)
  BY <1>1
<1>3. h.op \in {"inc", "dec"} /\ h.cell \in Cells /\ h.reads \in SUBSET Cells
  BY <1>2 DEF Operations
<1>4. Safe(s, KeptBy(t), BornFor(t), GainedBy(t))
  BY DEF IInv, CallsAreSafe
<1>5. Reason(s, 1, KeptBy(t), BornFor(t), GainedBy(t))
      /\ (h.op = "dec" => \A i \in DOMAIN s : s[i].op = "dec")
  BY <1>2, <1>4 DEF Safe
<1>6. ASSUME h.op = "dec", NEW c \in Cells
      PROVE  Times("inc", c, s) = 0 /\ Balance(t, c) = Gained(t, c) + Times("dec", c, s)
  <2>1. ~ Times("inc", c, s) > 0
    BY <1>1, <1>5, <1>6, TimesPositive
  <2>2. Times("inc", c, s) \in Nat /\ Times("dec", c, s) \in Nat /\ Gained(t, c) \in {0, 1}
        /\ Balance(t, c) = Gained(t, c) + Times("dec", c, s) - Times("inc", c, s)
    BY BalanceParts
  <2> QED
    BY <2>1, <2>2
<1> QED
  BY <1>1, <1>2, <1>3, <1>5, <1>6

\* What an operation touches is there.
LEMMA HeadAlive ==
    ASSUME IInv, NEW t \in Threads, steps[t] # <<>>, NEW c \in Touched(Head(steps[t]))
    PROVE  c \in Cells /\ life[c] = "alive"
<1> DEFINE s == steps[t]
           h == Head(s)
<1>1. c \in Cells
  BY HeadFacts DEF Touched
<1>2. count[c] > 0 \/ c \in Fresh(t) => life[c] = "alive"
  BY <1>1 DEF IInv, LivesAgree
<1>3. /\ Times("inc", c, s) \in Nat /\ Times("dec", c, s) \in Nat /\ Gained(t, c) \in {0, 1}
      /\ Balance(t, c) \in Nat
  BY <1>1, BalanceParts
<1>4. s \in Seq(Operations) /\ h = s[1] /\ Reason(s, 1, KeptBy(t), BornFor(t), GainedBy(t))
  BY HeadFacts
<1>5. CASE c \in KeptBy(t)
  BY <1>1, <1>2, <1>5, Counted
<1>6. CASE c \in BornFor(t) /\ Later(s, 1, "inc", c)
  <2>1. Times("inc", c, s) > 0
    BY <1>4, <1>6, TimesPositive DEF Later
  <2>2. c \in Fresh(t)
    BY <1>6, <2>1 DEF Fresh
  <2> QED
    BY <1>1, <1>2, <2>2
<1>7. CASE h.op = "dec" /\ (c \in GainedBy(t) \/ Later(s, 1, "dec", c))
  <2>1. Balance(t, c) = Gained(t, c) + Times("dec", c, s)
    BY <1>1, <1>7, HeadFacts
  <2>2. Later(s, 1, "dec", c) => Times("dec", c, s) > 0
    BY <1>4, TimesPositive DEF Later
  <2>3. c \in GainedBy(t) => Gained(t, c) = 1
    BY DEF GainedBy
  <2>4. Balance(t, c) > 0
    BY <1>3, <1>7, <2>1, <2>2, <2>3
  <2> QED
    BY <1>1, <1>2, <2>4, Counted
<1> QED
  BY <1>4, <1>5, <1>6, <1>7 DEF Reason

LEMMA CountsStep ==
    ASSUME IInv, NEW t \in Threads, Step(t)
    PROVE  /\ CountsAgree'
           /\ count' \in [Cells -> Nat]
           /\ LET h == Head(steps[t])
              IN  \A c \in Cells : count'[c] = IF c # h.cell THEN count[c]
                                              ELSE IF h.op = "inc" THEN count[c] + 1 ELSE count[c] - 1
<1> DEFINE s == steps[t]
           h == Head(s)
<1>1. /\ s # <<>> /\ steps' = [steps EXCEPT ![t] = Tail(s)] /\ gains' = gains /\ refs' = refs
      /\ count' = [count EXCEPT ![h.cell] = IF h.op = "inc" THEN count[h.cell] + 1 ELSE count[h.cell] - 1]
      /\ count \in [Cells -> Nat] /\ steps \in [Threads -> Seq(Operations)]
  BY DEF Step, IInv, TypeOK
<1>2. s \in Seq(Operations) /\ h.cell \in Cells /\ h.op \in {"inc", "dec"}
  BY <1>1, HeadFacts
<1> HIDE DEF h, s
<1>3. \A c \in Cells : count'[c] = IF c # h.cell THEN count[c]
                                   ELSE IF h.op = "inc" THEN count[c] + 1 ELSE count[c] - 1
  BY <1>1, <1>2
<1>4. ASSUME NEW c \in Cells
      PROVE  /\ Balances(c)' \in [Threads -> Nat]
             /\ IsFiniteSet(Keepers(c)') /\ IsFiniteSet(Transits(Balances(c)'))
             /\ count'[c] = Cardinality(Keepers(c)') + Cardinality(Transits(Balances(c)'))
  <2>1. Keepers(c)' = Keepers(c)
    BY <1>1 DEF Keepers
  <2>2. ASSUME NEW u \in Threads, u # t PROVE Balance(u, c)' = Balance(u, c)
    BY <1>1, <2>2 DEF Balance, Gained
  <2>3. /\ Gained(t, c)' = Gained(t, c) /\ Gained(t, c) \in {0, 1} /\ steps'[t] = Tail(s)
        /\ Times("inc", c, s) \in Nat /\ Times("dec", c, s) \in Nat
        /\ Balance(t, c) \in Nat
        /\ Balance(t, c) = Gained(t, c) + Times("dec", c, s) - Times("inc", c, s)
    BY <1>1, BalanceParts DEF Gained, s
  <2>4. /\ Times("inc", c, Tail(s)) = Times("inc", c, s) - IF h.op = "inc" /\ h.cell = c THEN 1 ELSE 0
        /\ Times("dec", c, Tail(s)) = Times("dec", c, s) - IF h.op = "dec" /\ h.cell = c THEN 1 ELSE 0
    BY <1>1, <1>2, TimesTail DEF h
  <2>5. Balance(t, c)' = Gained(t, c) + Times("dec", c, Tail(s)) - Times("inc", c, Tail(s))
    BY <2>3 DEF Balance
  <2>6. Balance(t, c)' = IF c # h.cell THEN Balance(t, c)
                         ELSE IF h.op = "inc" THEN Balance(t, c) + 1 ELSE Balance(t, c) - 1
    BY <1>2, <2>3, <2>4, <2>5
  <2>7. /\ IsFiniteSet(Keepers(c)) /\ IsFiniteSet(Transits(Balances(c)))
        /\ Balances(c) \in [Threads -> Nat] /\ Balances(c)[t] = Balance(t, c)
        /\ count[c] = Cardinality(Keepers(c)) + Cardinality(Transits(Balances(c)))
    BY BalanceParts DEF IInv, CountsAgree
  <2>8. Cardinality(Keepers(c)) \in Nat /\ Cardinality(Transits(Balances(c))) \in Nat
    BY <2>7, FS_CardinalityType
  <2>9. CASE c # h.cell
    BY <1>3, <2>1, <2>2, <2>6, <2>9, SameCounts
  <2>10. CASE c = h.cell /\ h.op = "inc"
    <3>1. \A u \in Threads : Balance(u, c)' = IF u = t THEN Balance(t, c) + 1 ELSE Balance(u, c)
      BY <2>2, <2>6, <2>10
    <3>2. Balances(c)' = [Balances(c) EXCEPT ![t] = Balances(c)[t] + 1]
      BY <3>1 DEF Balances
    <3>3. Balances(c)' \in [Threads -> Nat]
      BY <2>7, <3>2
    <3>4. /\ IsFiniteSet(Transits(Balances(c)'))
          /\ Cardinality(Transits(Balances(c)')) = Cardinality(Transits(Balances(c))) + 1
      BY <2>7, <3>2, TransitPlus
    <3>5. count'[c] = Cardinality(Keepers(c)') + Cardinality(Transits(Balances(c)'))
      BY <1>3, <2>1, <2>7, <2>8, <2>10, <3>4
    <3> QED
      BY <2>1, <2>7, <3>3, <3>4, <3>5
  <2>11. CASE c = h.cell /\ h.op = "dec"
    <3>1. Times("dec", c, s) > 0
      BY <1>2, <2>11, <1>1, HeadFacts, TimesPositive DEF s, h
    <3>2. Balance(t, c) = Gained(t, c) + Times("dec", c, s)
      BY <1>1, <2>11, HeadFacts DEF s, h
    <3>3. Balances(c)[t] > 0
      BY <2>3, <2>7, <3>1, <3>2
    <3>4. \A u \in Threads : Balance(u, c)' = IF u = t THEN Balance(t, c) - 1 ELSE Balance(u, c)
      BY <2>2, <2>6, <2>11
    <3>5. Balances(c)' = [Balances(c) EXCEPT ![t] = Balances(c)[t] - 1]
      BY <3>4 DEF Balances
    <3>6. /\ Balances(c)' \in [Threads -> Nat] /\ IsFiniteSet(Transits(Balances(c)'))
          /\ Cardinality(Transits(Balances(c))) = Cardinality(Transits(Balances(c)')) + 1
      BY <2>7, <3>3, <3>5, TransitMinus
    <3>7. Cardinality(Transits(Balances(c)')) \in Nat
      BY <3>6, FS_CardinalityType
    <3>8. count'[c] = Cardinality(Keepers(c)') + Cardinality(Transits(Balances(c)'))
      BY <1>3, <2>1, <2>7, <2>8, <2>11, <3>6, <3>7
    <3> QED
      BY <2>1, <2>7, <3>6, <3>8
  <2> QED
    BY <1>2, <2>9, <2>10, <2>11
<1>5. CountsAgree'
  BY <1>4 DEF CountsAgree, Transits
<1>6. count' \in [Cells -> Nat]
  <2>1. \A c \in Cells : count'[c] \in Nat
    <3> SUFFICES ASSUME NEW c \in Cells PROVE count'[c] \in Nat
      OBVIOUS
    <3>1. IsFiniteSet(Keepers(c)') /\ IsFiniteSet(Transits(Balances(c)'))
          /\ count'[c] = Cardinality(Keepers(c)') + Cardinality(Transits(Balances(c)'))
      BY <1>4
    <3>2. Cardinality(Keepers(c)') \in Nat /\ Cardinality(Transits(Balances(c)')) \in Nat
      BY <3>1, FS_CardinalityType
    <3> QED
      BY <3>1, <3>2
  <2> QED
    BY <1>1, <2>1
<1> QED
  BY <1>3, <1>5, <1>6 DEF h, s

\* What a returning call still owed is the reference's now.
LEMMA CountsReturn ==
    ASSUME IInv, NEW t \in Threads, Return(t)
    PROVE  /\ CountsAgree'
           /\ \E u \in Threads, p \in Pointers :
                 /\ gains[t] = {<<u, p>>} /\ p \notin refs[u]
                 /\ refs' = [refs EXCEPT ![u] = refs[u] \cup {p}]
<1>1. /\ steps[t] = <<>> /\ gains[t] # {} /\ count' = count /\ steps' = steps
      /\ gains' = [gains EXCEPT ![t] = {}]
      /\ refs' = [u \in Threads |-> refs[u] \cup {p \in Pointers : <<u, p>> \in gains[t]}]
      /\ gains \in [Threads -> SUBSET (Threads \X Pointers)] /\ refs \in [Threads -> SUBSET Pointers]
  BY DEF Return, IInv, TypeOK
<1>2. PICK x \in gains[t] : gains[t] = {x} /\ x[2] \notin refs[x[1]]
  BY <1>1 DEF IInv, GainsAreNew
<1>3. PICK u \in Threads, p \in Pointers : x = <<u, p>>
  BY <1>1, <1>2
<1>4. gains[t] = {<<u, p>>} /\ p \notin refs[u]
  BY <1>2, <1>3
<1>5. refs' = [refs EXCEPT ![u] = refs[u] \cup {p}]
  <2>1. \A v \in Threads : {q \in Pointers : <<v, q>> \in gains[t]} = IF v = u THEN {p} ELSE {}
    BY <1>4
  <2>2. \A v \in Threads : refs'[v] = [refs EXCEPT ![u] = refs[u] \cup {p}][v]
    BY <1>1, <2>1
  <2> QED
    BY <1>1, <2>2
<1>6. ASSUME NEW c \in Cells
      PROVE  /\ Balances(c)' \in [Threads -> Nat]
             /\ IsFiniteSet(Keepers(c)') /\ IsFiniteSet(Transits(Balances(c)'))
             /\ count'[c] = Cardinality(Keepers(c)') + Cardinality(Transits(Balances(c)'))
  <2>1. ASSUME NEW v \in Threads, v # t PROVE Balance(v, c)' = Balance(v, c)
    BY <1>1, <2>1 DEF Balance, Gained
  <2>2. Balance(t, c) = IF c \in Kept(p) THEN 1 ELSE 0
    BY <1>1, <1>4, IdleBalance DEF Gained
  <2>3. Balance(t, c)' = 0
    <3>1. Gained(t, c)' = 0
      BY <1>1 DEF Gained
    <3> QED
      BY <1>1, <3>1, TimesEmpty DEF Balance
  <2>4. CASE c \notin Kept(p)
    <3>1. Keepers(c)' = Keepers(c)
      BY <1>5, <1>1, <2>4 DEF Keepers
    <3> QED
      BY <1>1, <2>1, <2>2, <2>3, <2>4, <3>1, SameCounts
  <2>5. CASE c \in Kept(p)
    <3>1. Keepers(c)' = Keepers(c) \cup {<<u, p>>}
      BY <1>5, <1>1, <2>5 DEF Keepers
    <3>2. <<u, p>> \notin Keepers(c)
      BY <1>4 DEF Keepers
    <3>3. /\ IsFiniteSet(Keepers(c)) /\ IsFiniteSet(Transits(Balances(c)))
          /\ Balances(c) \in [Threads -> Nat] /\ Balances(c)[t] = Balance(t, c)
          /\ count[c] = Cardinality(Keepers(c)) + Cardinality(Transits(Balances(c)))
      BY BalanceParts DEF IInv, CountsAgree
    <3>4. IsFiniteSet(Keepers(c)') /\ Cardinality(Keepers(c)') = Cardinality(Keepers(c)) + 1
      <4>1. /\ IsFiniteSet(Keepers(c) \cup {<<u, p>>})
            /\ Cardinality(Keepers(c) \cup {<<u, p>>}) = Cardinality(Keepers(c)) + 1
        BY <3>2, <3>3, FS_AddElement
      <4> QED
        BY <3>1, <4>1
    <3>5. Balances(c)[t] > 0 /\ Balances(c)[t] - 1 = 0
      BY <2>2, <2>5, <3>3
    <3>6. \A v \in Threads : Balance(v, c)' = IF v = t THEN Balances(c)[t] - 1 ELSE Balance(v, c)
      BY <2>1, <2>3, <3>5
    <3>7. Balances(c)' = [Balances(c) EXCEPT ![t] = Balances(c)[t] - 1]
      BY <3>6 DEF Balances
    <3>8. /\ Balances(c)' \in [Threads -> Nat] /\ IsFiniteSet(Transits(Balances(c)'))
          /\ Cardinality(Transits(Balances(c))) = Cardinality(Transits(Balances(c)')) + 1
      BY <3>3, <3>5, <3>7, TransitMinus
    <3>9. Cardinality(Keepers(c)) \in Nat /\ Cardinality(Transits(Balances(c)')) \in Nat
      BY <3>3, <3>8, FS_CardinalityType
    <3>10. count'[c] = Cardinality(Keepers(c)') + Cardinality(Transits(Balances(c)'))
      BY <1>1, <3>3, <3>4, <3>8, <3>9
    <3> QED
      BY <3>4, <3>8, <3>10
  <2> QED
    BY <2>4, <2>5
<1>7. CountsAgree'
  BY <1>6 DEF CountsAgree, Transits
<1> QED
  BY <1>4, <1>5, <1>7

-----------------------------------------------------------------------------
(***************************************************************************)
(* The actions.                                                            *)
(***************************************************************************)
\* What a thread has a reference to is there.
LEMMA KeptAlive ==
    ASSUME IInv, NEW t \in Threads, NEW c \in Cells, c \in KeptBy(t)
    PROVE  life[c] = "alive"
BY Counted DEF IInv, LivesAgree

\* A call that makes nothing: it counts on what its thread has.
LEMMA CallBegins ==
    ASSUME IInv, NEW t \in Threads, NEW s \in Seq(Operations),
           NEW g \in SUBSET (Threads \X Pointers),
           Begins(t, s, g), life' = life, count' = count,
           refs' \in [Threads -> SUBSET Pointers],
           \A u \in Threads : refs'[u] \subseteq refs[u] /\ (u # t => refs'[u] = refs[u]),
           \A i \in DOMAIN s : s[i].cell \in KeptBy(t),
           \A x \in g : /\ x[2] \in refs[t] \/ x[2] = Object
                        /\ Kept(x[2]) \subseteq KeptBy(t)
                        /\ x[1] = t => x[2] = Object,
           Safe(s, KeptBy(t)', {}, {}),
           g # {} => /\ refs'[t] # {}
                     /\ \E x \in g : /\ g = {x} /\ x[2] \notin refs[x[1]]
                                     /\ \A u \in Threads : x \notin gains[u]
    PROVE  TypeOK' /\ LivesAgree' /\ GainsAreNew' /\ BornIsPrivate' /\ CallsAreSafe'
<1>1. /\ steps[t] = <<>> /\ gains[t] = {} /\ calls < MaxCalls /\ calls' = calls + 1
      /\ steps' = [steps EXCEPT ![t] = s] /\ gains' = [gains EXCEPT ![t] = g]
      /\ steps \in [Threads -> Seq(Operations)] /\ gains \in [Threads -> SUBSET (Threads \X Pointers)]
      /\ refs \in [Threads -> SUBSET Pointers]
  BY DEF Begins, IInv, TypeOK
<1>2. TypeOK'
  BY <1>1, MaxCallsAssumption DEF IInv, TypeOK
<1>3. /\ steps'[t] = s /\ gains'[t] = g
      /\ \A u \in Threads : u # t => steps'[u] = steps[u] /\ gains'[u] = gains[u]
  BY <1>1
<1>4. \A w \in Wraps : Remote(w) # Object /\ <<t, Remote(w)>> \notin g
  <2> SUFFICES ASSUME NEW w \in Wraps PROVE Remote(w) # Object /\ <<t, Remote(w)>> \notin g
    OBVIOUS
  <2>1. Remote(w) # Object
    BY CellFacts
  <2>2. <<t, Remote(w)>>[1] = t /\ <<t, Remote(w)>>[2] = Remote(w)
    OBVIOUS
  <2> QED
    BY <2>1, <2>2
<1>5. /\ BornFor(t) = {} /\ BornFor(t)' = {}
      /\ \A u \in Threads : u # t => BornFor(u)' = BornFor(u) /\ GainedBy(u)' = GainedBy(u)
                                     /\ KeptBy(u)' = KeptBy(u)
  <2>1. BornFor(t) = {}
    BY <1>1 DEF BornFor
  <2>2. {w \in Wraps : <<t, Remote(w)>> \in gains'[t]} = {}
    BY <1>3, <1>4
  <2>3. BornFor(t)' = {}
    BY <2>2 DEF BornFor
  <2>4. ASSUME NEW u \in Threads, u # t
        PROVE  BornFor(u)' = BornFor(u) /\ GainedBy(u)' = GainedBy(u) /\ KeptBy(u)' = KeptBy(u)
    BY <1>3, <2>4 DEF BornFor, GainedBy, Gained, KeptBy
  <2> QED
    BY <2>1, <2>3, <2>4
<1>6. LivesAgree'
  <2> SUFFICES ASSUME NEW c \in Cells
               PROVE  /\ life[c] = "alive" <=> count[c] > 0 \/ \E u \in Threads : c \in Fresh(u)'
                      /\ life[c] = "unborn" =>
                            \A u \in Threads : /\ \A x \in gains'[u] : c \notin Kept(x[2])
                                               /\ \A i \in DOMAIN steps'[u] : steps'[u][i].cell # c
    BY DEF LivesAgree
  <2>1. \A u \in Threads : c \in Fresh(u)' <=> c \in Fresh(u)
    <3>1. c \notin Fresh(t) /\ c \notin Fresh(t)'
      BY <1>5 DEF Fresh
    <3>2. \A u \in Threads : u # t => (c \in Fresh(u)' <=> c \in Fresh(u))
      BY <1>3, <1>5 DEF Fresh
    <3> QED
      BY <3>1, <3>2
  <2>2. life[c] = "unborn" => c \notin KeptBy(t)
    BY KeptAlive
  <2>3. ASSUME life[c] = "unborn", NEW x \in g PROVE c \notin Kept(x[2])
    <3>1. Kept(x[2]) \subseteq KeptBy(t)
      OBVIOUS
    <3> QED
      BY <2>2, <2>3, <3>1
  <2>4. ASSUME life[c] = "unborn", NEW i \in DOMAIN s PROVE s[i].cell # c
    BY <2>2, <2>4
  <2> QED
    BY <1>3, <2>1, <2>3, <2>4 DEF IInv, LivesAgree
<1>7. GainsAreNew'
  <2> SUFFICES ASSUME NEW u \in Threads, gains'[u] # {}
               PROVE  /\ refs'[u] # {}
                      /\ \E x \in gains'[u] : /\ gains'[u] = {x} /\ x[2] \notin refs'[x[1]]
                                              /\ \A v \in Threads \ {u} : x \notin gains'[v]
    BY DEF GainsAreNew
  <2>1. CASE u = t
    <3>1. PICK x \in g : /\ g = {x} /\ x[2] \notin refs[x[1]]
                         /\ \A v \in Threads : x \notin gains[v]
      BY <1>3, <2>1
    <3>2. x[1] \in Threads
      OBVIOUS
    <3> QED
      BY <1>3, <2>1, <3>1, <3>2
  <2>2. CASE u # t
    <3>1. gains'[u] = gains[u] /\ refs'[u] = refs[u]
      BY <1>3, <2>2
    <3>2. refs[u] # {}
      BY <3>1 DEF IInv, GainsAreNew
    <3>3. PICK x \in gains[u] : /\ gains[u] = {x} /\ x[2] \notin refs[x[1]]
                                /\ \A v \in Threads \ {u} : x \notin gains[v]
      BY <3>1 DEF IInv, GainsAreNew
    <3>4. x[1] \in Threads
      BY <1>1
    <3>5. x[2] \notin refs'[x[1]]
      BY <3>3, <3>4
    <3>6. x \notin g
      BY <3>3
    <3>7. \A v \in Threads \ {u} : x \notin gains'[v]
      BY <1>3, <3>3, <3>6
    <3> QED
      BY <3>1, <3>2, <3>3, <3>5, <3>7
  <2> QED
    BY <2>1, <2>2
<1>8. BornIsPrivate'
  <2> SUFFICES ASSUME NEW u \in Threads, NEW w \in Wraps, <<u, Remote(w)>> \in gains'[u],
                      NEW v \in Threads
               PROVE  /\ Remote(w) \notin refs'[v]
                      /\ v # u => /\ \A x \in gains'[v] : x[2] # Remote(w)
                                  /\ \A i \in DOMAIN steps'[v] : steps'[v][i].cell \notin {Wrapper(w), Remote(w)}
    BY DEF BornIsPrivate
  <2>1. u # t /\ gains'[u] = gains[u]
    BY <1>3, <1>4
  <2>2. \A z \in Threads : Remote(w) \notin refs[z]
    BY <2>1 DEF IInv, BornIsPrivate
  <2>3. Remote(w) \notin refs'[v]
    BY <2>2
  <2>4. CASE v = t
    <3>1. \A x \in g : x[2] # Remote(w)
      BY <1>4, <2>2, ZenonT(60)
    <3>2. Remote(w) \notin KeptBy(t) /\ Wrapper(w) \notin KeptBy(t)
      <4>1. \A p \in Pointers : Remote(w) \in Kept(p) \/ Wrapper(w) \in Kept(p) => p = Remote(w)
        BY CellFacts
      <4> QED
        BY <1>1, <2>2, <4>1 DEF KeptBy
    <3> QED
      BY <1>3, <2>3, <2>4, <3>1, <3>2
  <2>5. CASE v # t
    BY <1>3, <2>1, <2>3, <2>5 DEF IInv, BornIsPrivate
  <2> QED
    BY <2>4, <2>5
<1>9. CallsAreSafe'
  <2> SUFFICES ASSUME NEW u \in Threads
               PROVE  Safe(steps'[u], KeptBy(u)', BornFor(u)', GainedBy(u)')
    BY DEF CallsAreSafe
  <2>1. CASE u = t
    <3>1. Safe(s, KeptBy(t)', BornFor(t)', GainedBy(t)')
      BY DEF Safe, Reason
    <3> QED
      BY <1>3, <2>1, <3>1
  <2>2. CASE u # t
    BY <1>3, <1>5, <2>2 DEF IInv, CallsAreSafe
  <2> QED
    BY <2>1, <2>2
<1> QED
  BY <1>2, <1>6, <1>7, <1>8, <1>9

LEMMA KeptFacts ==
    ASSUME IInv, NEW t \in Threads, NEW p \in refs[t]
    PROVE  p \in Pointers /\ Kept(p) \subseteq KeptBy(t) /\ Object \in KeptBy(t)
<1>1. p \in Pointers
  BY DEF IInv, TypeOK
<1>2. Kept(p) \subseteq Cells /\ Object \in Kept(p)
  BY <1>1, CellFacts
<1> QED
  BY <1>1, <1>2 DEF KeptBy

\* A cell that a call counts on is one of those it counts up or down.
LEMMA CellsCounted ==
    ASSUME NEW s \in Seq(Operations), NEW i \in DOMAIN s
    PROVE  /\ s[i].cell \in Cells
           /\ Times("inc", s[i].cell, s) > 0 \/ Times("dec", s[i].cell, s) > 0
<1>1. s[i] \in Operations
  OBVIOUS
<1>2. s[i].cell \in Cells /\ s[i].op \in {"inc", "dec"}
  BY <1>1 DEF Operations
<1> QED
  BY <1>2, TimesPositive

LEMMA PassToClientKeeps ==
    ASSUME IInv, NEW t \in Threads, NEW w \in Wraps, PassToClient(t, w)
    PROVE  IInv'
<1> DEFINE s == UnwrapStruct(w) \o UnwrapObject(w)
           g == {<<t, Object>>}
<1>1. /\ Remote(w) \in refs[t] /\ Vacant(t, Object) /\ Begins(t, s, g)
      /\ count' = count /\ life' = life /\ refs' = refs
  BY DEF PassToClient
<1>2. Kept(Remote(w)) \subseteq KeptBy(t) /\ Object \in KeptBy(t)
  BY <1>1, KeptFacts
<1>3. Wrapper(w) \in KeptBy(t) /\ Remote(w) \in KeptBy(t)
  BY <1>2, CellFacts
<1>4. s \in Seq(Operations)
      /\ \A c : Does(s, c, (One(c, Object) + One(c, Wrapper(w))) + (One(c, Object) + 0),
                     0 + (0 + (One(c, Object) + One(c, Wrapper(w)))))
  BY CallsDo
<1>5. Safe(s, KeptBy(t), {}, {})
  BY <1>2, <1>3, SafeUnwrap
<1> HIDE DEF s
<1>6. \A c : /\ Times("inc", c, s) = One(c, Object) + One(c, Wrapper(w)) + One(c, Object)
             /\ Times("dec", c, s) = One(c, Object) + One(c, Wrapper(w))
  BY <1>4, OneType DEF Does
<1>7. ASSUME NEW i \in DOMAIN s PROVE s[i].cell \in KeptBy(t)
  <2>1. s[i].cell = Object \/ s[i].cell = Wrapper(w)
    BY <1>4, <1>6, CellsCounted DEF One
  <2> QED
    BY <1>2, <1>3, <2>1
<1>8. \A x \in g : x[1] = t /\ x[2] = Object /\ Kept(x[2]) = {Object}
  BY CellFacts
<1>9. g \in SUBSET (Threads \X Pointers) /\ <<t, Object>> \in g
  BY CellFacts
<1>10. /\ \A x \in g : /\ x[2] \in refs[t] \/ x[2] = Object
                       /\ Kept(x[2]) \subseteq KeptBy(t)
                       /\ x[1] = t => x[2] = Object
       /\ refs'[t] # {}
       /\ \E x \in g : /\ g = {x} /\ x[2] \notin refs[x[1]]
                       /\ \A u \in Threads : x \notin gains[u]
  BY <1>1, <1>2, <1>8, <1>9 DEF Vacant
<1>11. ASSUME NEW c \in Cells
       PROVE  Times("inc", c, s) = Times("dec", c, s) + IF \E x \in g : c \in Kept(x[2]) THEN 1 ELSE 0
  <2>1. (\E x \in g : c \in Kept(x[2])) <=> c = Object
    BY <1>8, <1>9
  <2> QED
    BY <1>6, <2>1, OneType DEF One
<1> HIDE DEF g
<1>12. CountsAgree'
  BY <1>1, <1>4, <1>9, <1>11, CountsBegin
<1>13. KeptBy(t)' = KeptBy(t) /\ refs' \in [Threads -> SUBSET Pointers]
  BY <1>1 DEF KeptBy, IInv, TypeOK
<1>14. TypeOK' /\ LivesAgree' /\ GainsAreNew' /\ BornIsPrivate' /\ CallsAreSafe'
  BY <1>1, <1>4, <1>5, <1>7, <1>9, <1>10, <1>13, CallBegins
<1> QED
  BY <1>12, <1>14 DEF IInv

LEMMA InvokeKeeps ==
    ASSUME IInv, NEW t \in Threads, NEW w \in Wraps, Invoke(t, w)
    PROVE  IInv'
<1> DEFINE s == AddRefObject({Remote(w), Wrapper(w)}) \o ReleaseObject({})
<1>1. /\ Remote(w) \in refs[t] /\ Begins(t, s, {})
      /\ count' = count /\ life' = life /\ refs' = refs
  BY DEF Invoke
<1>2. Kept(Remote(w)) \subseteq KeptBy(t) /\ Object \in KeptBy(t)
  BY <1>1, KeptFacts
<1>3. Wrapper(w) \in KeptBy(t) /\ Remote(w) \in KeptBy(t)
  BY <1>2, CellFacts
<1>4. s \in Seq(Operations) /\ \A c : Does(s, c, One(c, Object) + 0, 0 + One(c, Object))
  BY CallsDo
<1>5. Safe(s, KeptBy(t), {}, {})
  BY <1>2, <1>3, SafeInvoke
<1> HIDE DEF s
<1>6. \A c : Times("inc", c, s) = One(c, Object) /\ Times("dec", c, s) = One(c, Object)
  BY <1>4, OneType DEF Does
<1>7. ASSUME NEW i \in DOMAIN s PROVE s[i].cell \in KeptBy(t)
  <2>1. s[i].cell = Object
    BY <1>4, <1>6, CellsCounted DEF One
  <2> QED
    BY <1>2, <2>1
<1>8. \A c \in Cells : Times("inc", c, s) = Times("dec", c, s) + IF \E x \in {} : c \in Kept(x[2]) THEN 1 ELSE 0
  BY <1>6, OneType
<1>9. CountsAgree'
  BY <1>1, <1>4, <1>8, CountsBegin
<1>10. KeptBy(t)' = KeptBy(t) /\ refs' \in [Threads -> SUBSET Pointers]
  BY <1>1 DEF KeptBy, IInv, TypeOK
<1>11. TypeOK' /\ LivesAgree' /\ GainsAreNew' /\ BornIsPrivate' /\ CallsAreSafe'
  BY <1>1, <1>4, <1>5, <1>7, <1>10, CallBegins
<1> QED
  BY <1>9, <1>11 DEF IInv

LEMMA PointerCounts ==
    ASSUME NEW p \in Pointers
    PROVE  /\ AddRef(p) \in Seq(Operations) /\ Release(p) \in Seq(Operations)
           /\ \A c \in Cells : /\ Times("inc", c, AddRef(p)) = IF c \in Kept(p) THEN 1 ELSE 0
                               /\ Times("dec", c, AddRef(p)) = 0
                               /\ Times("dec", c, Release(p)) = IF c \in Kept(p) THEN 1 ELSE 0
                               /\ Times("inc", c, Release(p)) = 0
<1>1. AddRef(p) \in Seq(Operations) /\ Release(p) \in Seq(Operations)
  BY PointerDoes, CellFacts
<1>2. ASSUME NEW c \in Cells
      PROVE  /\ Times("inc", c, AddRef(p)) = IF c \in Kept(p) THEN 1 ELSE 0
             /\ Times("dec", c, AddRef(p)) = 0
             /\ Times("dec", c, Release(p)) = IF c \in Kept(p) THEN 1 ELSE 0
             /\ Times("inc", c, Release(p)) = 0
  BY PointerDoes DEF Does
<1> QED
  BY <1>1, <1>2

LEMMA CopyKeeps ==
    ASSUME IInv, NEW t \in Threads, NEW u \in Threads, NEW p \in Pointers, Copy(t, u, p)
    PROVE  IInv'
<1> DEFINE s == AddRef(p)
           g == {<<u, p>>}
<1>1. /\ p \in refs[t] /\ Vacant(u, p) /\ t # u /\ Begins(t, s, g)
      /\ count' = count /\ life' = life /\ refs' = refs
  BY DEF Copy
<1>2. Kept(p) \subseteq KeptBy(t)
  BY <1>1, KeptFacts
<1>3. /\ s \in Seq(Operations)
      /\ \A c \in Cells : /\ Times("inc", c, s) = IF c \in Kept(p) THEN 1 ELSE 0
                          /\ Times("dec", c, s) = 0
  BY PointerCounts
<1>4. Safe(s, KeptBy(t), {}, {})
  BY <1>2, SafePointer
<1> HIDE DEF s
<1>5. ASSUME NEW i \in DOMAIN s PROVE s[i].cell \in KeptBy(t)
  BY <1>2, <1>3, CellsCounted
<1>6. \A x \in g : x[1] = u /\ x[2] = p
  OBVIOUS
<1>7. g \in SUBSET (Threads \X Pointers) /\ <<u, p>> \in g
  OBVIOUS
<1>8. /\ \A x \in g : /\ x[2] \in refs[t] \/ x[2] = Object
                      /\ Kept(x[2]) \subseteq KeptBy(t)
                      /\ x[1] = t => x[2] = Object
      /\ refs'[t] # {}
      /\ \E x \in g : /\ g = {x} /\ x[2] \notin refs[x[1]]
                      /\ \A v \in Threads : x \notin gains[v]
  BY <1>1, <1>2, <1>6, <1>7 DEF Vacant
<1>9. ASSUME NEW c \in Cells
      PROVE  Times("inc", c, s) = Times("dec", c, s) + IF \E x \in g : c \in Kept(x[2]) THEN 1 ELSE 0
  <2>1. (\E x \in g : c \in Kept(x[2])) <=> c \in Kept(p)
    BY <1>6, <1>7
  <2> QED
    BY <1>3, <2>1
<1> HIDE DEF g
<1>10. CountsAgree'
  BY <1>1, <1>3, <1>7, <1>9, CountsBegin
<1>11. KeptBy(t)' = KeptBy(t) /\ refs' \in [Threads -> SUBSET Pointers]
  BY <1>1 DEF KeptBy, IInv, TypeOK
<1>12. TypeOK' /\ LivesAgree' /\ GainsAreNew' /\ BornIsPrivate' /\ CallsAreSafe'
  BY <1>1, <1>3, <1>4, <1>5, <1>7, <1>8, <1>11, CallBegins
<1> QED
  BY <1>10, <1>12 DEF IInv

LEMMA DropRefKeeps ==
    ASSUME IInv, NEW t \in Threads, NEW p \in Pointers, DropRef(t, p)
    PROVE  IInv'
<1> DEFINE s == Release(p)
<1>1. /\ p \in refs[t] /\ Begins(t, s, {}) /\ refs' = [refs EXCEPT ![t] = refs[t] \ {p}]
      /\ count' = count /\ life' = life /\ refs \in [Threads -> SUBSET Pointers]
  BY DEF DropRef, Begins, IInv, TypeOK
<1>2. Kept(p) \subseteq KeptBy(t)
  BY <1>1, KeptFacts
<1>3. /\ s \in Seq(Operations)
      /\ \A c \in Cells : /\ Times("dec", c, s) = IF c \in Kept(p) THEN 1 ELSE 0
                          /\ Times("inc", c, s) = 0
  BY PointerCounts
<1>4. Safe(s, KeptBy(t)', {}, {})
  BY SafePointer
<1> HIDE DEF s
<1>5. ASSUME NEW i \in DOMAIN s PROVE s[i].cell \in KeptBy(t)
  BY <1>2, <1>3, CellsCounted
<1>6. /\ refs' \in [Threads -> SUBSET Pointers]
      /\ \A u \in Threads : refs'[u] \subseteq refs[u] /\ (u # t => refs'[u] = refs[u])
  BY <1>1
<1>7. CountsAgree'
  BY CountsDrop
<1>8. TypeOK' /\ LivesAgree' /\ GainsAreNew' /\ BornIsPrivate' /\ CallsAreSafe'
  BY <1>1, <1>3, <1>4, <1>5, <1>6, CallBegins
<1> QED
  BY <1>7, <1>8 DEF IInv

LEMMA PassToCefKeeps ==
    ASSUME IInv, NEW t \in Threads, NEW w \in Wraps, PassToCef(t, w)
    PROVE  IInv'
<1> DEFINE s == WrapForCef(w) \o WrapStruct(w)
           g == {<<t, Remote(w)>>}
           W == Wrapper(w)
           R == Remote(w)
<1>1. /\ Object \in refs[t] /\ Begins(t, s, g) /\ count' = count /\ refs' = refs
      /\ life[W] = "unborn" /\ life[R] = "unborn"
      /\ life' = [c \in Cells |-> IF c \in {W, R} THEN "alive" ELSE life[c]]
  BY DEF PassToCef, Born
<1>2. /\ steps[t] = <<>> /\ gains[t] = {} /\ calls < MaxCalls /\ calls' = calls + 1
      /\ steps' = [steps EXCEPT ![t] = s] /\ gains' = [gains EXCEPT ![t] = g]
      /\ steps \in [Threads -> Seq(Operations)] /\ gains \in [Threads -> SUBSET (Threads \X Pointers)]
      /\ refs \in [Threads -> SUBSET Pointers] /\ life \in [Cells -> {"unborn", "alive", "freed"}]
  BY <1>1 DEF Begins, IInv, TypeOK
<1>3. W \in Cells /\ R \in Cells /\ Object \in Cells /\ R \in Pointers /\ W # R /\ W # Object /\ R # Object
      /\ Kept(R) = {R, W, Object} /\ Kept(Object) = {Object}
  BY CellFacts
<1>4. Object \in KeptBy(t) /\ life[Object] = "alive"
  BY <1>1, <1>3, KeptFacts, KeptAlive
<1>5. s \in Seq(Operations)
      /\ \A c : Does(s, c, (One(c, Object) + One(c, W)) + ((One(c, Object) + One(c, W) + One(c, R)) + 0),
                     0 + (0 + (One(c, Object) + One(c, W))))
  BY CallsDo
<1> HIDE DEF s
<1>6. \A c : /\ Times("inc", c, s) = One(c, Object) + One(c, W) + One(c, Object) + One(c, W) + One(c, R)
             /\ Times("dec", c, s) = One(c, Object) + One(c, W)
  BY <1>5, OneType DEF Does
<1>7. \A x \in g : x = <<t, R>> /\ x[1] = t /\ x[2] = R /\ Kept(x[2]) = {R, W, Object}
  BY <1>3
<1>8. g \in SUBSET (Threads \X Pointers) /\ <<t, R>> \in g
  BY <1>3
<1>9. ASSUME NEW c \in Cells
      PROVE  Times("inc", c, s) = Times("dec", c, s) + IF \E x \in g : c \in Kept(x[2]) THEN 1 ELSE 0
  <2>1. (\E x \in g : c \in Kept(x[2])) <=> c = Object \/ c = W \/ c = R
    BY <1>7, <1>8
  <2> QED
    BY <1>3, <1>6, <2>1, OneType DEF One
<1> HIDE DEF g
<1>10. CountsAgree'
  BY <1>1, <1>5, <1>8, <1>9, CountsBegin
<1>11. TypeOK'
  BY <1>1, <1>2, <1>5, <1>8, MaxCallsAssumption DEF IInv, TypeOK
<1>12. /\ steps'[t] = s /\ gains'[t] = g
       /\ \A u \in Threads : u # t => steps'[u] = steps[u] /\ gains'[u] = gains[u]
  BY <1>2
\* Nobody knew of the two.
<1>13. ASSUME NEW u \in Threads
       PROVE  /\ R \notin refs[u] /\ R \notin KeptBy(u) /\ W \notin KeptBy(u)
              /\ \A x \in gains[u] : x[2] # R
              /\ \A i \in DOMAIN steps[u] : steps[u][i].cell \notin {W, R}
  <2>1. R \notin KeptBy(u) /\ W \notin KeptBy(u)
    BY <1>1, <1>3, KeptAlive
  <2>2. R \notin refs[u]
    BY <1>3, <2>1, KeptFacts
  <2>3. \A x \in gains[u] : R \notin Kept(x[2])
    BY <1>1, <1>3 DEF IInv, LivesAgree
  <2>4. \A i \in DOMAIN steps[u] : steps[u][i].cell \notin {W, R}
    BY <1>1, <1>3 DEF IInv, LivesAgree
  <2> QED
    BY <1>3, <2>1, <2>2, <2>3, <2>4
<1>14. /\ BornFor(t) = {} /\ BornFor(t)' = {W, R}
       /\ \A u \in Threads : u # t => BornFor(u)' = BornFor(u) /\ GainedBy(u)' = GainedBy(u)
                                      /\ KeptBy(u)' = KeptBy(u)
  <2>1. BornFor(t) = {}
    BY <1>2 DEF BornFor
  <2>2. {v \in Wraps : <<t, Remote(v)>> \in gains'[t]} = {w}
    <3>1. ASSUME NEW v \in Wraps PROVE <<t, Remote(v)>> \in g <=> v = w
      <4>1. <<t, Remote(v)>> \in g => Remote(v) = R
        BY <1>7
      <4> QED
        BY <1>8, <4>1, CellFacts
    <3> QED
      BY <1>12, <3>1
  <2>3. BornFor(t)' = {W, R}
    BY <2>2 DEF BornFor
  <2>4. ASSUME NEW u \in Threads, u # t
        PROVE  BornFor(u)' = BornFor(u) /\ GainedBy(u)' = GainedBy(u) /\ KeptBy(u)' = KeptBy(u)
    BY <1>1, <1>12, <2>4 DEF BornFor, GainedBy, Gained, KeptBy
  <2> QED
    BY <2>1, <2>3, <2>4
<1> HIDE DEF W, R
<1>15. LivesAgree'
  <2> SUFFICES ASSUME NEW c \in Cells
               PROVE  /\ life'[c] = "alive" <=> count'[c] > 0 \/ \E u \in Threads : c \in Fresh(u)'
                      /\ life'[c] = "unborn" =>
                            \A u \in Threads : /\ \A x \in gains'[u] : c \notin Kept(x[2])
                                               /\ \A i \in DOMAIN steps'[u] : steps'[u][i].cell # c
    BY DEF LivesAgree
  <2>1. \A u \in Threads : u # t => (c \in Fresh(u)' <=> c \in Fresh(u))
    BY <1>12, <1>14 DEF Fresh
  <2>2. c \notin Fresh(t) /\ (c \in Fresh(t)' <=> c \in {W, R})
    <3>1. c \in {W, R} => Times("inc", c, s) > 0
      BY <1>3, <1>6, OneType DEF One
    <3> QED
      BY <1>12, <1>14, <3>1 DEF Fresh
  <2>3. CASE c \in {W, R}
    <3>1. life'[c] = "alive" /\ c \in Fresh(t)'
      BY <1>1, <2>2, <2>3
    <3> QED
      BY <3>1
  <2>4. CASE c \notin {W, R}
    <3>1. life'[c] = life[c] /\ count'[c] = count[c]
      BY <1>1, <2>4
    <3>2. (\E u \in Threads : c \in Fresh(u)') <=> \E u \in Threads : c \in Fresh(u)
      BY <2>1, <2>2, <2>4
    <3>3. ASSUME life[c] = "unborn"
          PROVE  \A u \in Threads : /\ \A x \in gains'[u] : c \notin Kept(x[2])
                                    /\ \A i \in DOMAIN steps'[u] : steps'[u][i].cell # c
      <4>1. c # Object
        BY <1>4, <3>3
      <4>2. \A x \in g : c \notin Kept(x[2])
        BY <1>7, <2>4, <4>1
      <4>3. \A i \in DOMAIN s : s[i].cell # c
        <5> SUFFICES ASSUME NEW i \in DOMAIN s, s[i].cell = c PROVE FALSE
          OBVIOUS
        <5>1. Times("inc", c, s) > 0 \/ Times("dec", c, s) > 0
          BY <1>5, CellsCounted
        <5> QED
          BY <1>6, <2>4, <4>1, <5>1 DEF One
      <4> QED
        BY <1>12, <3>3, <4>2, <4>3 DEF IInv, LivesAgree
    <3> QED
      BY <3>1, <3>2, <3>3 DEF IInv, LivesAgree
  <2> QED
    BY <2>3, <2>4
<1>16. GainsAreNew'
  <2> SUFFICES ASSUME NEW u \in Threads, gains'[u] # {}
               PROVE  /\ refs[u] # {}
                      /\ \E x \in gains'[u] : /\ gains'[u] = {x} /\ x[2] \notin refs[x[1]]
                                              /\ \A v \in Threads \ {u} : x \notin gains'[v]
    BY <1>1 DEF GainsAreNew
  <2>1. CASE u = t
    <3>1. \A v \in Threads \ {t} : <<t, R>> \notin gains'[v]
      <4> SUFFICES ASSUME NEW v \in Threads \ {t}, <<t, R>> \in gains[v] PROVE FALSE
        BY <1>12
      <4>1. <<t, R>>[2] # R
        BY <1>13
      <4> QED
        BY <4>1
    <3>2. <<t, R>>[1] = t /\ <<t, R>>[2] = R /\ R \notin refs[t]
      BY <1>13
    <3>3. gains'[u] = {<<t, R>>}
      BY <1>12, <2>1, <1>7, <1>8
    <3> QED
      BY <1>1, <2>1, <3>1, <3>2, <3>3
  <2>2. CASE u # t
    <3>1. gains'[u] = gains[u]
      BY <1>12, <2>2
    <3>2. PICK x \in gains[u] : /\ gains[u] = {x} /\ x[2] \notin refs[x[1]]
                                /\ \A v \in Threads \ {u} : x \notin gains[v]
      BY <3>1 DEF IInv, GainsAreNew
    <3>3. x \notin g
      BY <1>7, <1>13
    <3>4. \A v \in Threads \ {u} : x \notin gains'[v]
      BY <1>12, <3>2, <3>3
    <3>5. refs[u] # {}
      BY <3>1 DEF IInv, GainsAreNew
    <3> QED
      BY <3>1, <3>2, <3>4, <3>5
  <2> QED
    BY <2>1, <2>2
<1>17. BornIsPrivate'
  <2> SUFFICES ASSUME NEW u \in Threads, NEW v \in Wraps, <<u, Remote(v)>> \in gains'[u],
                      NEW z \in Threads
               PROVE  /\ Remote(v) \notin refs[z]
                      /\ z # u => /\ \A x \in gains'[z] : x[2] # Remote(v)
                                  /\ \A i \in DOMAIN steps'[z] : steps'[z][i].cell \notin {Wrapper(v), Remote(v)}
    BY <1>1 DEF BornIsPrivate
  <2>1. CASE u = t
    <3>1. <<u, Remote(v)>>[2] = R
      BY <1>7, <1>12, <2>1
    <3>2. Remote(v) = R /\ Wrapper(v) = W
      BY <3>1, CellFacts DEF R, W
    <3> QED
      BY <1>12, <1>13, <2>1, <3>2
  <2>2. CASE u # t
    <3>1. <<u, Remote(v)>> \in gains[u]
      BY <1>12, <2>2
    <3>2. <<u, Remote(v)>>[2] # R
      BY <1>13, <3>1
    <3>3. v # w
      BY <3>2 DEF R
    <3>4. Remote(v) # R /\ Wrapper(v) # W /\ Remote(v) # W /\ Wrapper(v) # R /\ Object # Wrapper(v)
          /\ Object # Remote(v)
      BY <3>3, CellFacts DEF R, W
    <3>5. \A i \in DOMAIN s : s[i].cell \notin {Wrapper(v), Remote(v)}
      <4> SUFFICES ASSUME NEW i \in DOMAIN s, s[i].cell \in {Wrapper(v), Remote(v)} PROVE FALSE
        OBVIOUS
      <4>1. Times("inc", s[i].cell, s) > 0 \/ Times("dec", s[i].cell, s) > 0
        BY <1>5, CellsCounted
      <4>2. One(s[i].cell, Object) = 0 /\ One(s[i].cell, W) = 0 /\ One(s[i].cell, R) = 0
        BY <3>4 DEF One
      <4> QED
        BY <1>6, <4>1, <4>2
    <3>6. \A x \in g : x[2] # Remote(v)
      BY <1>7, <3>4
    <3> QED
      BY <1>12, <2>2, <3>1, <3>5, <3>6 DEF IInv, BornIsPrivate
  <2> QED
    BY <2>1, <2>2
<1>18. CallsAreSafe'
  <2> SUFFICES ASSUME NEW u \in Threads
               PROVE  Safe(steps'[u], KeptBy(u)', BornFor(u)', GainedBy(u)')
    BY DEF CallsAreSafe
  <2>1. CASE u = t
    <3>1. KeptBy(t)' = KeptBy(t)
      BY <1>1 DEF KeptBy
    <3>2. Object \in GainedBy(t)' /\ W \in GainedBy(t)' /\ R \in GainedBy(t)'
      <4>1. ASSUME NEW c \in {Object, W, R} PROVE Gained(t, c)' = 1
        BY <1>7, <1>8, <1>12 DEF Gained
      <4> QED
        BY <1>3, <4>1 DEF GainedBy
    <3>3. Safe(s, KeptBy(t)', BornFor(t)', GainedBy(t)')
      BY <1>4, <1>14, <3>1, <3>2, SafePass DEF s, W, R
    <3> QED
      BY <1>12, <2>1, <3>3
  <2>2. CASE u # t
    BY <1>12, <1>14, <2>2 DEF IInv, CallsAreSafe
  <2> QED
    BY <2>1, <2>2
<1> QED
  BY <1>10, <1>11, <1>15, <1>16, <1>17, <1>18 DEF IInv

LEMMA StepKeeps ==
    ASSUME IInv, NEW t \in Threads, Step(t)
    PROVE  IInv'
<1> DEFINE s == steps[t]
           h == Head(steps[t])
<1>1. /\ s # <<>> /\ steps' = [steps EXCEPT ![t] = Tail(s)] /\ gains' = gains /\ refs' = refs
      /\ calls' = calls
      /\ life' = IF h.op = "dec" /\ count'[h.cell] = 0 THEN [life EXCEPT ![h.cell] = "freed"] ELSE life
      /\ steps \in [Threads -> Seq(Operations)] /\ life \in [Cells -> {"unborn", "alive", "freed"}]
  <2>1. /\ s # <<>> /\ steps' = [steps EXCEPT ![t] = Tail(s)] /\ gains' = gains /\ refs' = refs
        /\ calls' = calls /\ count \in [Cells -> Nat]
        /\ steps \in [Threads -> Seq(Operations)] /\ life \in [Cells -> {"unborn", "alive", "freed"}]
    BY DEF Step, IInv, TypeOK
  <2>2. h.cell \in Cells
    BY <2>1, HeadFacts
  <2>3. life' = IF h.op = "dec" /\ count'[h.cell] = 0 THEN [life EXCEPT ![h.cell] = "freed"] ELSE life
    BY <2>1, <2>2 DEF Step
  <2> QED
    BY <2>1, <2>3
<1>2. /\ s \in Seq(Operations) /\ Tail(s) \in Seq(Operations)
      /\ h.cell \in Cells /\ h.op \in {"inc", "dec"} /\ h.cell \in Touched(h)
      /\ h.op = "dec" => \A c \in Cells : Times("inc", c, s) = 0
  BY <1>1, HeadFacts DEF Touched
<1>3. life[h.cell] = "alive"
  BY <1>1, <1>2, HeadAlive
<1>4. /\ CountsAgree' /\ count' \in [Cells -> Nat]
      /\ \A c \in Cells : count'[c] = IF c # h.cell THEN count[c]
                                      ELSE IF h.op = "inc" THEN count[c] + 1 ELSE count[c] - 1
  BY CountsStep
<1>5. \A c \in Cells : count[c] \in Nat
  BY Counted
<1>6. /\ steps'[t] = Tail(s) /\ \A u \in Threads : u # t => steps'[u] = steps[u]
      /\ \A i \in DOMAIN Tail(s) : i + 1 \in DOMAIN s /\ Tail(s)[i] = s[i + 1]
  BY <1>1, <1>2
<1>7. \A u \in Threads : BornFor(u)' = BornFor(u) /\ GainedBy(u)' = GainedBy(u) /\ KeptBy(u)' = KeptBy(u)
  BY <1>1 DEF BornFor, GainedBy, Gained, KeptBy
<1>8. \A c \in Cells : /\ Times("inc", c, s) \in Nat
                       /\ Times("inc", c, Tail(s)) = Times("inc", c, s) - IF h.op = "inc" /\ h.cell = c THEN 1 ELSE 0
  BY <1>1, <1>2, TimesTail, TimesFinite
<1> HIDE DEF s, h
<1>9. TypeOK'
  <2>1. steps' \in [Threads -> Seq(Operations)]
    BY <1>1, <1>2
  <2>2. life' \in [Cells -> {"unborn", "alive", "freed"}]
    BY <1>1, <1>2
  <2> QED
    BY <1>1, <1>4, <2>1, <2>2 DEF IInv, TypeOK
\* Every operation left was there before.
<1>10. ASSUME NEW u \in Threads, NEW i \in DOMAIN steps'[u]
       PROVE  \E j \in DOMAIN steps[u] : steps'[u][i] = steps[u][j]
  <2>1. CASE u = t
    BY <1>6, <2>1 DEF s
  <2>2. CASE u # t
    BY <1>6, <2>2
  <2> QED
    BY <2>1, <2>2
<1>11. ASSUME NEW c \in Cells, c # h.cell, NEW u \in Threads PROVE c \in Fresh(u)' <=> c \in Fresh(u)
  <2>1. CASE u = t
    <3>1. Times("inc", c, Tail(s)) = Times("inc", c, s)
      BY <1>8, <1>11
    <3> QED
      BY <1>6, <1>7, <2>1, <3>1 DEF Fresh, s
  <2>2. CASE u # t
    BY <1>6, <1>7, <2>2 DEF Fresh
  <2> QED
    BY <2>1, <2>2
\* A count that reaches zero is that of a cell nobody is to count on.
<1>12. ASSUME h.op = "dec", NEW u \in Threads PROVE h.cell \notin Fresh(u)'
  <2>1. CASE u = t
    <3>1. ~ Times("inc", h.cell, Tail(s)) > 0
      BY <1>2, <1>8, <1>12
    <3>2. ~ Times("inc", h.cell, steps'[u]) > 0
      BY <1>6, <2>1, <3>1
    <3> QED
      BY <3>2 DEF Fresh
  <2>2. CASE u # t
    <3> SUFFICES ASSUME h.cell \in BornFor(u) PROVE FALSE
      BY <1>7 DEF Fresh
    <3>1. PICK w \in Wraps : <<u, Remote(w)>> \in gains[u] /\ h.cell \in {Wrapper(w), Remote(w)}
      BY DEF BornFor
    <3>2. \A i \in DOMAIN steps[t] : steps[t][i].cell \notin {Wrapper(w), Remote(w)}
      BY <2>2, <3>1 DEF IInv, BornIsPrivate
    <3>3. 1 \in DOMAIN s /\ h = s[1]
      BY <1>1, HeadFacts DEF s, h
    <3> QED
      BY <3>1, <3>2, <3>3 DEF s
  <2> QED
    BY <2>1, <2>2
<1>13. LivesAgree'
  <2> SUFFICES ASSUME NEW c \in Cells
               PROVE  /\ life'[c] = "alive" <=> count'[c] > 0 \/ \E u \in Threads : c \in Fresh(u)'
                      /\ life'[c] = "unborn" =>
                            \A u \in Threads : /\ \A x \in gains'[u] : c \notin Kept(x[2])
                                               /\ \A i \in DOMAIN steps'[u] : steps'[u][i].cell # c
    BY DEF LivesAgree
  <2>1. life'[c] = "unborn" => life[c] = "unborn"
    BY <1>1, <1>2
  <2>2. ASSUME life[c] = "unborn", NEW u \in Threads
        PROVE  /\ \A x \in gains'[u] : c \notin Kept(x[2])
               /\ \A i \in DOMAIN steps'[u] : steps'[u][i].cell # c
    <3>1. /\ \A x \in gains[u] : c \notin Kept(x[2])
          /\ \A i \in DOMAIN steps[u] : steps[u][i].cell # c
      BY <2>2 DEF IInv, LivesAgree
    <3> QED
      BY <1>1, <1>10, <3>1
  <2>3. life'[c] = "alive" <=> count'[c] > 0 \/ \E u \in Threads : c \in Fresh(u)'
    <3>1. CASE c # h.cell
      <4>1. life'[c] = life[c] /\ count'[c] = count[c]
        BY <1>1, <1>2, <1>4, <3>1
      <4> QED
        BY <1>11, <3>1, <4>1 DEF IInv, LivesAgree
    <3>2. CASE c = h.cell /\ h.op = "inc"
      <4>1. count'[c] > 0
        BY <1>4, <1>5, <3>2
      <4>2. life' = life
        BY <1>1, <3>2
      <4> QED
        BY <1>3, <3>2, <4>1, <4>2
    <3>3. CASE c = h.cell /\ h.op = "dec"
      <4>1. \A u \in Threads : c \notin Fresh(u)'
        BY <1>12, <3>3
      <4>2. count'[c] \in Nat
        BY <1>4
      <4>3. life'[c] = IF count'[c] = 0 THEN "freed" ELSE "alive"
        BY <1>1, <1>2, <1>3, <3>3
      <4> QED
        BY <4>1, <4>2, <4>3
    <3> QED
      BY <1>2, <3>1, <3>2, <3>3
  <2> QED
    BY <2>1, <2>2, <2>3
<1>14. GainsAreNew'
  BY <1>1 DEF IInv, GainsAreNew
<1>15. BornIsPrivate'
  <2> SUFFICES ASSUME NEW u \in Threads, NEW w \in Wraps, <<u, Remote(w)>> \in gains[u], NEW v \in Threads
               PROVE  /\ Remote(w) \notin refs[v]
                      /\ v # u => /\ \A x \in gains[v] : x[2] # Remote(w)
                                  /\ \A i \in DOMAIN steps'[v] : steps'[v][i].cell \notin {Wrapper(w), Remote(w)}
    BY <1>1 DEF BornIsPrivate
  <2>1. /\ Remote(w) \notin refs[v]
        /\ v # u => /\ \A x \in gains[v] : x[2] # Remote(w)
                    /\ \A i \in DOMAIN steps[v] : steps[v][i].cell \notin {Wrapper(w), Remote(w)}
    BY DEF IInv, BornIsPrivate
  <2> QED
    BY <1>10, <2>1
<1>16. CallsAreSafe'
  <2> SUFFICES ASSUME NEW u \in Threads
               PROVE  Safe(steps'[u], KeptBy(u), BornFor(u), GainedBy(u))
    BY <1>7 DEF CallsAreSafe
  <2>1. Safe(steps[u], KeptBy(u), BornFor(u), GainedBy(u))
    BY DEF IInv, CallsAreSafe
  <2>2. CASE u = t
    BY <1>1, <1>2, <1>6, <2>1, <2>2, SafeTail DEF s
  <2>3. CASE u # t
    BY <1>6, <2>1, <2>3
  <2> QED
    BY <2>2, <2>3
<1> QED
  BY <1>4, <1>9, <1>13, <1>14, <1>15, <1>16 DEF IInv

LEMMA ReturnKeeps ==
    ASSUME IInv, NEW t \in Threads, Return(t)
    PROVE  IInv'
<1>1. /\ steps[t] = <<>> /\ gains[t] # {} /\ count' = count /\ steps' = steps /\ life' = life
      /\ calls' = calls /\ gains' = [gains EXCEPT ![t] = {}]
      /\ gains \in [Threads -> SUBSET (Threads \X Pointers)] /\ refs \in [Threads -> SUBSET Pointers]
  BY DEF Return, IInv, TypeOK
<1>2. CountsAgree'
  BY CountsReturn
<1>3. PICK u \in Threads, p \in Pointers :
          /\ gains[t] = {<<u, p>>} /\ p \notin refs[u]
          /\ refs' = [refs EXCEPT ![u] = refs[u] \cup {p}]
  BY CountsReturn
<1>4. TypeOK'
  BY <1>1, <1>3 DEF IInv, TypeOK
<1>5. /\ gains'[t] = {} /\ \A v \in Threads : v # t => gains'[v] = gains[v]
      /\ \A v \in Threads : gains'[v] \subseteq gains[v]
      /\ \A v \in Threads : refs[v] \subseteq refs'[v] /\ (\A q \in refs'[v] : q \in refs[v] \/ (v = u /\ q = p))
  BY <1>1, <1>3
<1>6. \A v \in Threads : v # t => BornFor(v)' = BornFor(v) /\ GainedBy(v)' = GainedBy(v)
  BY <1>5 DEF BornFor, GainedBy, Gained
<1>7. LivesAgree'
  <2> SUFFICES ASSUME NEW c \in Cells
               PROVE  /\ life[c] = "alive" <=> count[c] > 0 \/ \E v \in Threads : c \in Fresh(v)'
                      /\ life[c] = "unborn" =>
                            \A v \in Threads : /\ \A x \in gains'[v] : c \notin Kept(x[2])
                                               /\ \A i \in DOMAIN steps[v] : steps[v][i].cell # c
    BY <1>1 DEF LivesAgree
  <2>1. c \notin Fresh(t) /\ c \notin Fresh(t)'
    BY <1>1, TimesEmpty DEF Fresh
  <2>2. \A v \in Threads : v # t => (c \in Fresh(v)' <=> c \in Fresh(v))
    BY <1>1, <1>6 DEF Fresh
  <2> QED
    BY <1>5, <2>1, <2>2 DEF IInv, LivesAgree
<1>8. GainsAreNew'
  <2> SUFFICES ASSUME NEW v \in Threads, gains'[v] # {}
               PROVE  /\ refs'[v] # {}
                      /\ \E x \in gains'[v] : /\ gains'[v] = {x} /\ x[2] \notin refs'[x[1]]
                                              /\ \A z \in Threads \ {v} : x \notin gains'[z]
    BY DEF GainsAreNew
  <2>1. v # t /\ gains'[v] = gains[v]
    BY <1>5
  <2>2. refs[v] # {}
    BY <2>1 DEF IInv, GainsAreNew
  <2>3. PICK x \in gains[v] : /\ gains[v] = {x} /\ x[2] \notin refs[x[1]]
                              /\ \A z \in Threads \ {v} : x \notin gains[z]
    BY <2>1 DEF IInv, GainsAreNew
  <2>4. x[1] \in Threads /\ x = <<x[1], x[2]>>
    BY <1>1
  <2>5. x # <<u, p>>
    BY <1>3, <2>1, <2>3
  <2>6. x[2] \notin refs'[x[1]]
    BY <1>5, <2>3, <2>4, <2>5
  <2>7. \A z \in Threads \ {v} : x \notin gains'[z]
    BY <1>5, <2>3
  <2> QED
    BY <1>5, <2>1, <2>2, <2>3, <2>6, <2>7
<1>9. BornIsPrivate'
  <2> SUFFICES ASSUME NEW v \in Threads, NEW w \in Wraps, <<v, Remote(w)>> \in gains'[v], NEW z \in Threads
               PROVE  /\ Remote(w) \notin refs'[z]
                      /\ z # v => /\ \A x \in gains'[z] : x[2] # Remote(w)
                                  /\ \A i \in DOMAIN steps[z] : steps[z][i].cell \notin {Wrapper(w), Remote(w)}
    BY <1>1 DEF BornIsPrivate
  <2>1. v # t /\ <<v, Remote(w)>> \in gains[v]
    BY <1>5
  <2>2. \A y \in Threads : /\ Remote(w) \notin refs[y]
                           /\ y # v => /\ \A x \in gains[y] : x[2] # Remote(w)
                                       /\ \A i \in DOMAIN steps[y] : steps[y][i].cell \notin {Wrapper(w), Remote(w)}
    BY <2>1 DEF IInv, BornIsPrivate
  <2>3. <<u, p>> \in gains[t] /\ <<u, p>>[2] = p
    BY <1>3
  <2>4. p # Remote(w)
    BY <2>1, <2>2, <2>3
  <2> QED
    BY <1>5, <2>2, <2>4
<1>10. CallsAreSafe'
  <2> SUFFICES ASSUME NEW v \in Threads
               PROVE  Safe(steps[v], KeptBy(v)', BornFor(v)', GainedBy(v)')
    BY <1>1 DEF CallsAreSafe
  <2>1. CASE v = t
    BY <1>1, <2>1 DEF Safe
  <2>2. CASE v # t
    <3>1. Safe(steps[v], KeptBy(v), BornFor(v), GainedBy(v))
      BY DEF IInv, CallsAreSafe
    <3>2. KeptBy(v) \subseteq KeptBy(v)'
      BY <1>5 DEF KeptBy
    <3> QED
      BY <1>6, <2>2, <3>1, <3>2, SafeMore
  <2> QED
    BY <2>1, <2>2
<1> QED
  BY <1>2, <1>4, <1>7, <1>8, <1>9, <1>10 DEF IInv

-----------------------------------------------------------------------------
(***************************************************************************)
(* The theorems.                                                           *)
(***************************************************************************)
LEMMA InitInv ==
    ASSUME Init
    PROVE  IInv
<1>1. PICK creator \in Threads : refs = [t \in Threads |-> IF t = creator THEN {Object} ELSE {}]
  BY DEF Init
<1>2. /\ count = [c \in Cells |-> IF c = Object THEN 1 ELSE 0]
      /\ life = [c \in Cells |-> IF c = Object THEN "alive" ELSE "unborn"]
      /\ steps = [t \in Threads |-> <<>>] /\ gains = [t \in Threads |-> {}] /\ calls = 0
  BY DEF Init
<1>3. \A t \in Threads : steps[t] = <<>> /\ gains[t] = {}
  BY <1>2
<1>4. TypeOK
  <2>1. steps \in [Threads -> Seq(Operations)] /\ gains \in [Threads -> SUBSET (Threads \X Pointers)]
    BY <1>2
  <2>2. refs \in [Threads -> SUBSET Pointers]
    BY <1>1, CellFacts
  <2>3. count \in [Cells -> Nat] /\ life \in [Cells -> {"unborn", "alive", "freed"}]
    BY <1>2
  <2> QED
    BY <1>2, <2>1, <2>2, <2>3, MaxCallsAssumption DEF TypeOK
<1>5. CountsAgree
  <2> SUFFICES ASSUME NEW c \in Cells
               PROVE  /\ Balances(c) \in [Threads -> Nat]
                      /\ IsFiniteSet(Keepers(c)) /\ IsFiniteSet(Transits(Balances(c)))
                      /\ count[c] = Cardinality(Keepers(c)) + Cardinality(Transits(Balances(c)))
    BY DEF CountsAgree
  <2>1. \A t \in Threads : Gained(t, c) = 0
    BY <1>3 DEF Gained
  <2>2. \A t \in Threads : Balance(t, c) = 0
    BY <1>3, <2>1, IdleBalance
  <2>3. Balances(c) = [t \in Threads |-> 0]
    BY <2>2 DEF Balances
  <2>4. Transits(Balances(c)) = {}
    <3>1. \A t \in Threads : \A i \in 1 .. Balances(c)[t] : <<t, i>> \in {}
      BY <2>3
    <3>2. Transits(Balances(c)) \subseteq {}
      BY <3>1, TransitSubset
    <3> QED
      BY <3>2
  <2>5. Keepers(c) = IF c = Object THEN {<<creator, Object>>} ELSE {}
    <3>1. \A h \in Threads \X Pointers : h[2] \in refs[h[1]] <=> h = <<creator, Object>>
      BY <1>1, CellFacts
    <3>2. Kept(Object) = {Object} /\ <<creator, Object>> \in Threads \X Pointers
      BY CellFacts
    <3> QED
      BY <3>1, <3>2 DEF Keepers
  <2>6. IsFiniteSet(Keepers(c)) /\ Cardinality(Keepers(c)) = count[c]
    BY <1>2, <2>5, FS_EmptySet, FS_Singleton
  <2>7. count[c] \in Nat
    BY <1>4 DEF TypeOK
  <2>8. IsFiniteSet(Transits(Balances(c))) /\ Cardinality(Transits(Balances(c))) = 0
    BY <2>4, FS_EmptySet
  <2>9. Balances(c) \in [Threads -> Nat]
    BY <2>3
  <2> QED
    BY <2>6, <2>7, <2>8, <2>9
<1>6. LivesAgree
  <2>1. \A t \in Threads : Fresh(t) = {}
    BY <1>3, TimesEmpty DEF Fresh
  <2> QED
    BY <1>2, <1>3, <2>1 DEF LivesAgree
<1>7. GainsAreNew /\ BornIsPrivate
  BY <1>3 DEF GainsAreNew, BornIsPrivate
<1>8. CallsAreSafe
  BY <1>3 DEF CallsAreSafe, Safe
<1> QED
  BY <1>4, <1>5, <1>6, <1>7, <1>8 DEF IInv

LEMMA NextInv ==
    ASSUME IInv, [Next]_vars
    PROVE  IInv'
<1>1. ASSUME NEW t \in Threads, NEW w \in Wraps, PassToCef(t, w) PROVE IInv'
  BY <1>1, PassToCefKeeps
<1>2. ASSUME NEW t \in Threads, NEW w \in Wraps, PassToClient(t, w) PROVE IInv'
  BY <1>2, PassToClientKeeps
<1>3. ASSUME NEW t \in Threads, NEW w \in Wraps, Invoke(t, w) PROVE IInv'
  BY <1>3, InvokeKeeps
<1>4. ASSUME NEW t \in Threads, NEW p \in Pointers, DropRef(t, p) PROVE IInv'
  BY <1>4, DropRefKeeps
<1>5. ASSUME NEW t \in Threads, NEW u \in Threads, NEW p \in Pointers, Copy(t, u, p) PROVE IInv'
  BY <1>5, CopyKeeps
<1>6. ASSUME NEW t \in Threads, Step(t) PROVE IInv'
  BY <1>6, StepKeeps
<1>7. ASSUME NEW t \in Threads, Return(t) PROVE IInv'
  BY <1>7, ReturnKeeps
<1>8. CASE UNCHANGED vars
  <2>1. /\ count' = count /\ life' = life /\ refs' = refs /\ steps' = steps /\ gains' = gains
        /\ calls' = calls
    BY <1>8 DEF vars
  <2>2. TypeOK'
    BY <2>1 DEF IInv, TypeOK
  <2>3. CountsAgree'
    <3>1. ASSUME NEW c \in Cells
          PROVE  Balances(c)' = Balances(c) /\ Keepers(c)' = Keepers(c)
      <4>1. \A t \in Threads : Balance(t, c)' = Balance(t, c)
        BY <2>1 DEF Balance, Gained
      <4> QED
        BY <2>1, <4>1 DEF Balances, Keepers
    <3>2. ASSUME NEW c \in Cells
          PROVE  Transits(Balances(c))' = Transits(Balances(c))
      BY <3>1 DEF Transits
    <3> QED
      BY <2>1, <3>1, <3>2 DEF IInv, CountsAgree
  <2>4. LivesAgree'
    BY <2>1 DEF IInv, LivesAgree, Fresh, BornFor
  <2>5. GainsAreNew' /\ BornIsPrivate'
    BY <2>1 DEF IInv, GainsAreNew, BornIsPrivate
  <2>6. CallsAreSafe'
    BY <2>1 DEF IInv, CallsAreSafe, KeptBy, BornFor, GainedBy, Gained
  <2> QED
    BY <2>2, <2>3, <2>4, <2>5, <2>6 DEF IInv
<1>9. CASE Next
  BY <1>1, <1>2, <1>3, <1>4, <1>5, <1>6, <1>7, <1>9 DEF Next
<1> QED
  BY <1>8, <1>9

\* The inductive invariant holds in every reachable state.
THEOREM Invariance == Spec => []IInv
<1> QED
  BY InitInv, NextInv, PTL DEF Spec

\* Type correctness: counts are never negative, and operations in flight are
\* operations on cells.
THEOREM TypeCorrect == Spec => []TypeOK
<1>1. IInv => TypeOK
  BY DEF IInv
<1> QED
  BY <1>1, Invariance, PTL

\* No AddRef, Release or Get() of any thread reads or counts on a wrapper or an
\* object that was deleted (cpptoc_ref_counted.h, ctocpp_ref_counted.h).
THEOREM Safety == Spec => []NoUseAfterFree
<1>1. IInv => NoUseAfterFree
  BY HeadAlive DEF NoUseAfterFree, Touched
<1> QED
  BY <1>1, Invariance, PTL

\* With no call under way, what is left is what the CefRefPtrs reach.
THEOREM Reclamation == Spec => []ReclaimedExactly
<1>1. ASSUME IInv, Quiet
      PROVE  {c \in Cells : life[c] = "alive"} = UNION {Kept(p) : p \in UNION {refs[t] : t \in Threads}}
  <2>1. ASSUME NEW t \in Threads, NEW c \in Cells PROVE Balance(t, c) = 0 /\ c \notin Fresh(t)
    <3>1. steps[t] = <<>> /\ gains[t] = {}
      BY <1>1 DEF Quiet
    <3>2. Gained(t, c) = 0
      BY <3>1 DEF Gained
    <3>3. c \notin BornFor(t)
      BY <3>1 DEF BornFor
    <3> QED
      BY <3>1, <3>2, <3>3, IdleBalance DEF Fresh
  <2>2. ASSUME NEW c \in Cells
        PROVE  life[c] = "alive" <=> \E t \in Threads : c \in KeptBy(t)
    <3>1. life[c] = "alive" <=> count[c] > 0
      BY <1>1, <2>1 DEF IInv, LivesAgree
    <3> QED
      BY <1>1, <2>1, <3>1, Counted
  <2>3. \A t \in Threads : \A p \in refs[t] : Kept(p) \subseteq Cells
    <3> SUFFICES ASSUME NEW t \in Threads, NEW p \in refs[t] PROVE Kept(p) \subseteq Cells
      OBVIOUS
    <3>1. Kept(p) \subseteq KeptBy(t)
      BY <1>1, KeptFacts
    <3> QED
      BY <3>1 DEF KeptBy
  <2> QED
    BY <2>2, <2>3 DEF KeptBy
<1>2. IInv => ReclaimedExactly
  BY <1>1 DEF ReclaimedExactly
<1> QED
  BY <1>2, Invariance, PTL

\* To its users it is a shared object (the safety part of Implements): only a
\* holder makes a reference, and what is destroyed has none, and is not back.
THEOREM Refinement == Spec => Shared!Init /\ [][Shared!Next]_(Shared!vars)
<1> DEFINE held == {h \in Threads \X Pointers : h[2] \in refs[h[1]]}
           exists == life[Object] = "alive"
<1>1. ASSUME Init PROVE Shared!Init
  <2>1. PICK creator \in Threads : refs = [t \in Threads |-> IF t = creator THEN {Object} ELSE {}]
    BY <1>1 DEF Init
  <2>2. <<creator, Object>> \in Threads \X Pointers
    BY CellFacts
  <2>3. held = {<<creator, Object>>}
    BY <2>1, <2>2
  <2>4. life[Object] = "alive"
    BY <1>1, CellFacts DEF Init
  <2> QED
    BY <2>2, <2>3, <2>4 DEF Shared!Init
<1>2. ASSUME refs' = refs, life'[Object] = life[Object] PROVE UNCHANGED Shared!vars
  <2>1. held' = held /\ exists' = exists
    BY <1>2
  <2> QED
    BY <2>1 DEF Shared!vars
<1>3. ASSUME IInv, Next PROVE [Shared!Next]_(Shared!vars)
  <2>1. ASSUME NEW t \in Threads, NEW w \in Wraps, PassToCef(t, w) PROVE UNCHANGED Shared!vars
    <3>1. refs' = refs /\ life'[Object] = life[Object]
      BY <2>1, CellFacts DEF PassToCef, Born
    <3> QED
      BY <1>2, <3>1
  <2>2. ASSUME NEW t \in Threads, NEW w \in Wraps, PassToClient(t, w) \/ Invoke(t, w)
        PROVE  UNCHANGED Shared!vars
    BY <1>2, <2>2 DEF PassToClient, Invoke
  <2>3. ASSUME NEW t \in Threads, NEW u \in Threads, NEW p \in Pointers, Copy(t, u, p)
        PROVE  UNCHANGED Shared!vars
    BY <1>2, <2>3 DEF Copy
  <2>4. ASSUME NEW t \in Threads, NEW p \in Pointers, DropRef(t, p) PROVE Shared!Drop(<<t, p>>)
    <3>1. /\ p \in refs[t] /\ life' = life /\ refs' = [refs EXCEPT ![t] = refs[t] \ {p}]
          /\ refs \in [Threads -> SUBSET Pointers]
      BY <1>3, <2>4 DEF DropRef, IInv, TypeOK
    <3>2. <<t, p>> \in held /\ held' = held \ {<<t, p>>} /\ exists' = exists
      BY <3>1
    <3> QED
      BY <3>2 DEF Shared!Drop
  <2>5. ASSUME NEW t \in Threads, Return(t) PROVE \E h \in Threads \X Pointers : Shared!Take(h)
    <3>1. PICK u \in Threads, p \in Pointers :
              gains[t] = {<<u, p>>} /\ refs' = [refs EXCEPT ![u] = refs[u] \cup {p}]
      BY <1>3, <2>5, CountsReturn
    <3>2. refs[t] # {} /\ refs \in [Threads -> SUBSET Pointers] /\ life' = life
      BY <1>3, <2>5, <3>1 DEF Return, IInv, TypeOK, GainsAreNew
    <3>3. held # {}
      <4>1. PICK q \in Pointers : q \in refs[t]
        BY <3>2
      <4>2. <<t, q>> \in held
        BY <4>1
      <4> QED
        BY <4>2
    <3>4. held' = held \cup {<<u, p>>} /\ exists' = exists
      BY <3>1, <3>2
    <3>5. Shared!Take(<<u, p>>)
      BY <3>3, <3>4 DEF Shared!Take
    <3> QED
      BY <3>5
  <2>6. ASSUME NEW t \in Threads, Step(t) PROVE Shared!Destroy \/ UNCHANGED Shared!vars
    <3> DEFINE h == Head(steps[t])
    <3>1. /\ steps[t] # <<>> /\ refs' = refs
          /\ life \in [Cells -> {"unborn", "alive", "freed"}] /\ count \in [Cells -> Nat]
      BY <1>3, <2>6 DEF Step, IInv, TypeOK
    <3>2. h.cell \in Cells /\ h.cell \in Touched(h)
      BY <1>3, <3>1, HeadFacts DEF Touched
    <3>3. life' = IF h.op = "dec" /\ count'[h.cell] = 0 THEN [life EXCEPT ![h.cell] = "freed"] ELSE life
      BY <2>6, <3>1, <3>2 DEF Step
    <3>4. life[h.cell] = "alive"
      BY <1>3, <3>1, <3>2, HeadAlive
    <3> HIDE DEF h
    <3>5. CASE h.cell = Object /\ count'[Object] = 0 /\ h.op = "dec"
      <4>1. life[Object] = "alive" /\ life'[Object] = "freed"
        BY <3>1, <3>2, <3>3, <3>4, <3>5
      <4>2. Keepers(Object)' = {}
        <5>1. CountsAgree'
          BY <1>3, <2>6, CountsStep
        <5>2. /\ IsFiniteSet(Keepers(Object)') /\ IsFiniteSet(Transits(Balances(Object)'))
              /\ count'[Object] = Cardinality(Keepers(Object)') + Cardinality(Transits(Balances(Object)'))
          BY <5>1, CellFacts DEF CountsAgree, Transits
        <5>3. Cardinality(Keepers(Object)') \in Nat /\ Cardinality(Transits(Balances(Object)')) \in Nat
          BY <5>2, FS_CardinalityType
        <5>4. Cardinality(Keepers(Object)') = 0
          BY <3>5, <5>2, <5>3
        <5> QED
          BY <5>2, <5>4, FS_EmptySet
      <4>3. \A p \in Pointers : Object \in Kept(p)
        BY CellFacts
      <4>4. held = {}
        BY <3>1, <4>2, <4>3 DEF Keepers
      <4>5. held' = held
        BY <3>1
      <4>6. exists /\ ~ exists'
        BY <4>1
      <4> HIDE DEF held, exists
      <4> QED
        BY <4>4, <4>5, <4>6 DEF Shared!Destroy, held, exists
    <3>6. CASE ~ (h.cell = Object /\ count'[Object] = 0 /\ h.op = "dec")
      <4>1. life'[Object] = life[Object]
        BY <3>1, <3>2, <3>3, <3>6
      <4> QED
        BY <1>2, <3>1, <4>1
    <3> QED
      BY <3>5, <3>6
  <2>7. CASE \E t \in Threads, p \in Pointers : DropRef(t, p)
    <3>1. PICK t \in Threads, p \in Pointers : DropRef(t, p)
      BY <2>7
    <3>2. Shared!Drop(<<t, p>>) /\ <<t, p>> \in Threads \X Pointers
      BY <2>4, <3>1
    <3> QED
      BY <3>2 DEF Shared!Next
  <2>8. CASE \E t \in Threads : Return(t)
    BY <2>5, <2>8 DEF Shared!Next
  <2>9. CASE \E t \in Threads : Step(t)
    BY <2>6, <2>9 DEF Shared!Next
  <2> QED
    BY <1>3, <2>1, <2>2, <2>3, <2>7, <2>8, <2>9 DEF Next
<1>4. ASSUME UNCHANGED vars PROVE UNCHANGED Shared!vars
  BY <1>2, <1>4 DEF vars
<1>5. ASSUME IInv, [Next]_vars PROVE [Shared!Next]_(Shared!vars)
  BY <1>3, <1>4, <1>5
<1> QED
  BY <1>1, <1>5, Invariance, PTL DEF Spec

=============================================================================
