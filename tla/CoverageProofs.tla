--------------------------- MODULE CoverageProofs ---------------------------
(***************************************************************************)
(* What the coverage tracker guarantees for every dump, every set of       *)
(* routes and annotations, every service map, and any number of edits.     *)
(***************************************************************************)
EXTENDS Coverage, FunctionTheorems, FiniteSetTheorems, WellFoundedInduction, TLAPS

(***************************************************************************)
(* What the tool said of the files is still so: whatever changes one of    *)
(* them voids it.                                                          *)
(***************************************************************************)
CoverageInv ==
    /\ apidoc \subseteq Dump
    /\ baseline \subseteq Dump
    /\ diff = "ok" => DiffEmpty
    /\ check = "ok" => CheckOK /\ Current

-----------------------------------------------------------------------------
\* A non-empty set of numbers has a least one.
LEMMA LeastNatural ==
    ASSUME NEW T \in SUBSET Nat, T # {}
    PROVE  \E x \in T : \A y \in T : x <= y
<1>1. PICK x \in T : \A y \in T : ~ (<<y, x>> \in OpToRel(<, Nat))
  BY NatLessThanWellFounded, WFMin
<1>2. \A y \in T : ~ (y < x)
  BY <1>1 DEF OpToRel
<1> QED
  BY <1>2

\* Normalising a path gives a path.
LEMMA NormalizedLen ==
    ASSUME NEW path \in Path
    PROVE  Len(NormalizePath(path)) \in Nat
<1> DEFINE Seg == {"lit", "ph"} \X STRING
           p == IF path # << >> /\ Head(path) = APIPrefix THEN Tail(path) ELSE path
<1>1. p \in Seq(Seg)
  BY DEF Path
<1>2. NormalizePath(path) = [i \in 1..Len(p) |-> Erased(p[i])]
  BY <1>1 DEF NormalizePath
<1> HIDE DEF p
<1>3. Len(p) \in Nat
  BY <1>1
<1>4. NormalizePath(path) \in Seq({Erased(p[i]) : i \in 1..Len(p)})
  BY <1>2, <1>3
<1> QED
  BY <1>4

\* The service map places every path: of the rules that match there is a
\* longest one, because none is longer than the path.
LEMMA Placed ==
    ASSUME NEW path, Len(path) \in Nat
    PROVE  ServiceFor(path) \in Services
<1> DEFINE claims == {r \in Rules : Matches(r, path)}
<1>1. CASE claims = {}
  BY <1>1 DEF ServiceFor, Services
<1>2. CASE claims # {}
  <2>1. ASSUME NEW r \in claims
        PROVE  /\ r \in Rules /\ Len(r.prefix) \in Nat /\ Len(path) \in Nat
               /\ Len(r.prefix) <= Len(path)
    <3>1. r \in Rules /\ r.prefix \in Path /\ Matches(r, path)
      BY <2>1, RulesAssumption
    <3>2. Len(r.prefix) \in Nat
      BY <3>1 DEF Path
    <3>3. path = r.prefix \/ IsPrefix(r.prefix, path)
      BY <3>1 DEF Matches
    <3> QED
      BY <3>1, <3>2, <3>3 DEF IsPrefix
  <2> DEFINE T == {Len(path) - Len(r.prefix) : r \in claims}
  <2>2. T \in SUBSET Nat /\ T # {}
    BY <1>2, <2>1
  <2>3. PICK x \in T : \A y \in T : x <= y
    BY <2>2, LeastNatural
  <2>4. PICK r \in claims : x = Len(path) - Len(r.prefix)
    BY <2>3
  <2>5. \A s \in claims : Len(s.prefix) <= Len(r.prefix)
    <3> SUFFICES ASSUME NEW s \in claims PROVE Len(s.prefix) <= Len(r.prefix)
      OBVIOUS
    <3>1. x <= Len(path) - Len(s.prefix)
      BY <2>3
    <3> QED
      BY <2>1, <2>4, <3>1
  <2>6. \E q \in claims : \A s \in claims : Len(s.prefix) <= Len(q.prefix)
    BY <2>5
  <2>7. (CHOOSE q \in claims : \A s \in claims : Len(s.prefix) <= Len(q.prefix)) \in claims
    BY <2>6
  <2> QED
    BY <1>2, <2>7 DEF ServiceFor, Services
<1> QED
  BY <1>1, <1>2

-----------------------------------------------------------------------------
(***************************************************************************)
(* The report of the present files.                                        *)
(***************************************************************************)
AllRows == {ClassifyRow(k) : k \in Known}

\* A row is about its key, and in one of the four states.
LEMMA RowFacts ==
    ASSUME NEW k
    PROVE  /\ ClassifyRow(k).key = k
           /\ ClassifyRow(k).state \in States
           /\ ClassifyRow(k).state = "covered" <=> k \in Served
BY DEF ClassifyRow, Row, States

\* Every endpoint of the baseline has a service.
LEMMA KnownPlaced ==
    ASSUME baseline \subseteq Dump, NEW k \in Known
    PROVE  ServiceFor(k.path) \in Services
<1>1. PICK e \in baseline : k = KeyOf(e)
  BY DEF Known, Keys
<1>2. e.path \in Path /\ k.path = NormalizePath(e.path)
  BY <1>1, DumpAssumption DEF KeyOf
<1> QED
  BY <1>2, NormalizedLen, Placed

\* The sections hold all rows between them, and no row twice.
LEMMA SectionFacts ==
    ASSUME baseline \subseteq Dump
    PROVE  /\ UNION {RowsOf(svc) : svc \in Sections} = AllRows
           /\ \A s, t \in Sections : RowsOf(s) \cap RowsOf(t) # {} => s = t
<1>1. ASSUME NEW k \in Known
      PROVE  /\ ServiceFor(k.path) \in Sections
             /\ ClassifyRow(k) \in RowsOf(ServiceFor(k.path))
  BY <1>1, KnownPlaced DEF Sections, RowsOf
<1>2. ASSUME NEW svc, NEW r \in RowsOf(svc)
      PROVE  r \in AllRows /\ ServiceFor(r.key.path) = svc
  <2>1. PICK k \in Known : r = ClassifyRow(k) /\ ServiceFor(k.path) = svc
    BY <1>2 DEF RowsOf
  <2> QED
    BY <2>1, RowFacts DEF AllRows
<1>3. UNION {RowsOf(svc) : svc \in Sections} \subseteq AllRows
  BY <1>2
<1>4. AllRows \subseteq UNION {RowsOf(svc) : svc \in Sections}
  BY <1>1 DEF AllRows
<1> QED
  BY <1>2, <1>3, <1>4

\* Reading the rows back out of a report.
LEMMA ReportFacts ==
    ASSUME baseline \subseteq Dump, NEW d, d = Markdown
    PROVE  /\ d.kind = "report"
           /\ RowsIn(d) = AllRows
           /\ KeysIn(d) = Known
           /\ CoveredIn(d) = Known \cap Served
           /\ d.allowed = Allowed
           /\ d.totals = Totals
           /\ \A s, t \in DOMAIN d.sections :
                 d.sections[s] \cap d.sections[t] # {} => s = t
<1>1. /\ d.kind = "report" /\ d.allowed = Allowed /\ d.totals = Totals
      /\ d.sections = [svc \in Sections |-> RowsOf(svc)]
  BY DEF Markdown
<1>2. /\ DOMAIN d.sections = Sections
      /\ \A svc \in Sections : d.sections[svc] = RowsOf(svc)
  BY <1>1
<1>3. RowsIn(d) = UNION {RowsOf(svc) : svc \in Sections}
  BY <1>2 DEF RowsIn
<1>4. RowsIn(d) = AllRows
  BY <1>3, SectionFacts
<1>5. KeysIn(d) = Known
  BY <1>4, RowFacts DEF KeysIn, AllRows
<1>6. CoveredIn(d) = Known \cap Served
  <2>1. CoveredIn(d) \subseteq Known \cap Served
    BY <1>4, RowFacts DEF CoveredIn, AllRows
  <2>2. Known \cap Served \subseteq CoveredIn(d)
    BY <1>4, RowFacts DEF CoveredIn, AllRows
  <2> QED
    BY <2>1, <2>2
<1> QED
  BY <1>1, <1>2, <1>4, <1>5, <1>6, SectionFacts

\* There are as many rows as endpoints.
LEMMA RowsCounted ==
    ASSUME baseline \subseteq Dump
    PROVE  /\ IsFiniteSet(Known) /\ IsFiniteSet(AllRows)
           /\ Cardinality(AllRows) = Cardinality(Known)
<1>1. IsFiniteSet(baseline)
  BY DumpAssumption, FS_Subset
<1>2. [e \in baseline |-> KeyOf(e)] \in Surjection(baseline, Known)
  BY DEF Known, Keys, Surjection
<1>3. IsFiniteSet(Known)
  BY <1>1, <1>2, FS_Surjection
<1> DEFINE f == [k \in Known |-> ClassifyRow(k)]
<1>4. f \in [Known -> AllRows] /\ \A k \in Known : f[k] = ClassifyRow(k)
  BY DEF AllRows
<1>5. \A k, l \in Known : f[k] = f[l] => k = l
  <2> SUFFICES ASSUME NEW k \in Known, NEW l \in Known, f[k] = f[l] PROVE k = l
    OBVIOUS
  <2>1. ClassifyRow(k) = ClassifyRow(l)
    OBVIOUS
  <2> QED
    BY <2>1, RowFacts
<1>6. \A r \in AllRows : \E k \in Known : f[k] = r
  BY DEF AllRows
<1> HIDE DEF f
<1>7. f \in Bijection(Known, AllRows)
  <2>1. f \in Injection(Known, AllRows)
    BY <1>4, <1>5, Fun_IsInj
  <2>2. f \in Surjection(Known, AllRows)
    BY <1>4, <1>6, Fun_IsSurj
  <2> QED
    BY <2>1, <2>2 DEF Bijection
<1> QED
  BY <1>3, <1>7, FS_Bijection DEF ExistsBijection

\* Sets that share nothing add up.
LEMMA DisjointUnion ==
    ASSUME NEW S, NEW T, IsFiniteSet(S), IsFiniteSet(T), S \cap T = {}
    PROVE  /\ IsFiniteSet(S \cup T)
           /\ Cardinality(S \cup T) = Cardinality(S) + Cardinality(T)
<1>1. /\ IsFiniteSet(S \cup T)
      /\ Cardinality(S \cup T) = Cardinality(S) + Cardinality(T) - Cardinality(S \cap T)
  BY FS_Union
<1>2. Cardinality(S \cap T) = 0
  BY FS_EmptySet
<1>3. Cardinality(S) \in Nat /\ Cardinality(T) \in Nat
  BY FS_CardinalityType
<1> QED
  BY <1>1, <1>2, <1>3

\* The totals of the four states count every row once.
LEMMA TotalsAddUp ==
    ASSUME baseline \subseteq Dump
    PROVE  Cardinality(AllRows) =
              Totals["covered"] + Totals["stub"] + Totals["out of scope"] + Totals["gap"]
<1> DEFINE In(st) == {r \in AllRows : r.state = st}
<1>1. \A st \in States : Totals[st] = Cardinality(In(st))
  BY SectionFacts DEF Totals
<1>2. \A r \in AllRows : r.state \in States
  BY RowFacts DEF AllRows
<1>3. IsFiniteSet(AllRows)
  BY RowsCounted
<1>4. \A st : IsFiniteSet(In(st)) /\ Cardinality(In(st)) \in Nat
  <2> SUFFICES ASSUME NEW st PROVE IsFiniteSet(In(st)) /\ Cardinality(In(st)) \in Nat
    OBVIOUS
  <2>1. In(st) \in SUBSET AllRows
    OBVIOUS
  <2> QED
    BY <1>3, <2>1, FS_Subset, FS_CardinalityType
<1> DEFINE A == In("covered") B == In("stub") C == In("out of scope") D == In("gap")
<1>5. /\ A \cap B = {} /\ (A \cup B) \cap C = {} /\ (A \cup B \cup C) \cap D = {}
      /\ AllRows = A \cup B \cup C \cup D
  BY <1>2 DEF States
<1>6. /\ IsFiniteSet(A) /\ IsFiniteSet(B) /\ IsFiniteSet(C) /\ IsFiniteSet(D)
      /\ Cardinality(A) \in Nat /\ Cardinality(B) \in Nat
      /\ Cardinality(C) \in Nat /\ Cardinality(D) \in Nat
  BY <1>4
<1>7. /\ Totals["covered"] = Cardinality(A) /\ Totals["stub"] = Cardinality(B)
      /\ Totals["out of scope"] = Cardinality(C) /\ Totals["gap"] = Cardinality(D)
  BY <1>1 DEF States
<1> HIDE DEF A, B, C, D
<1>8. IsFiniteSet(A \cup B) /\ Cardinality(A \cup B) = Cardinality(A) + Cardinality(B)
  BY <1>5, <1>6, DisjointUnion
<1>9. /\ IsFiniteSet(A \cup B \cup C)
      /\ Cardinality(A \cup B \cup C) = Cardinality(A) + Cardinality(B) + Cardinality(C)
  BY <1>5, <1>6, <1>8, DisjointUnion
<1>10. Cardinality(A \cup B \cup C \cup D) =
          Cardinality(A) + Cardinality(B) + Cardinality(C) + Cardinality(D)
  BY <1>5, <1>6, <1>9, DisjointUnion
<1> QED
  BY <1>5, <1>7, <1>10

-----------------------------------------------------------------------------
\* A verdict depends on the files alone.
LEMMA SameFiles ==
    ASSUME UNCHANGED <<apidoc, baseline, routes, ann, doc>>
    PROVE  /\ DiffEmpty' <=> DiffEmpty
           /\ CheckOK' <=> CheckOK
           /\ Current' <=> Current
<1>1. DiffEmpty' <=> DiffEmpty
  BY DEF DiffEmpty
<1>2. Known' = Known /\ Served' = Served
  BY DEF Known, Served
<1>3. \A s : Items(s)' = Items(s) /\ Section(s)' = Section(s)
  BY DEF Items, Section
<1>4. \A k : Allows(k)' = Allows(k) /\ Stubs(k)' = Stubs(k)
  BY <1>3 DEF Allows, Stubs
<1>5. \A k : OutOfScope(k)' = OutOfScope(k)
  BY <1>3 DEF OutOfScope
<1>6. Unmatched' = Unmatched /\ Allowed' = Allowed
  BY <1>2, <1>4 DEF Unmatched, Allowed
<1>7. CheckOK' <=> CheckOK
  BY <1>2, <1>3, <1>6 DEF CheckOK, StaleStubs, StaleAllowlist, StaleOutOfScope
<1>8. \A k : ClassifyRow(k)' = ClassifyRow(k)
  BY <1>2, <1>4, <1>5 DEF ClassifyRow
<1>9. \A svc : RowsOf(svc)' = RowsOf(svc)
  BY <1>2, <1>8 DEF RowsOf
<1>10. Sections' = Sections
  BY <1>9 DEF Sections
<1>11. Totals' = Totals
  BY <1>9, <1>10 DEF Totals
<1>12. Markdown' = Markdown
  BY <1>2, <1>3, <1>6, <1>9, <1>10, <1>11 DEF Markdown
<1> QED
  BY <1>1, <1>7, <1>12 DEF Current

\* The dump and the baseline stay within what a dump may hold.
LEMMA WithinDump ==
    ASSUME CoverageInv, [Next]_vars
    PROVE  apidoc' \subseteq Dump /\ baseline' \subseteq Dump
BY DEF CoverageInv, Next, SchemaDiff, SchemaUpdate, CoverageCheck, CoverageWrite, NewDump,
   NewRoutes, NewAnnotations, NewReport, Toggled, Parse, vars

\* Every step keeps the verdicts true of the files.
LEMMA CoverageNext ==
    ASSUME CoverageInv, [Next]_vars
    PROVE  CoverageInv'
<1>1. CASE SchemaDiff
  <2>1. /\ UNCHANGED <<apidoc, baseline, routes, ann, doc, check>>
        /\ diff' = "ok" => DiffEmpty
    BY <1>1 DEF SchemaDiff
  <2> QED
    BY <2>1, SameFiles, WithinDump DEF CoverageInv
<1>2. CASE CoverageCheck
  <2>1. /\ UNCHANGED <<apidoc, baseline, routes, ann, doc, diff>>
        /\ check' = "ok" => CheckOK /\ Current
    BY <1>2 DEF CoverageCheck
  <2> QED
    BY <2>1, SameFiles, WithinDump DEF CoverageInv
<1>3. CASE diff' = "none" /\ check' = "none"
  BY <1>3, WithinDump DEF CoverageInv
<1>4. CASE UNCHANGED vars
  BY <1>4, SameFiles, WithinDump DEF CoverageInv, vars
<1> QED
  BY <1>1, <1>2, <1>3, <1>4 DEF Next, SchemaUpdate, CoverageWrite, NewDump, NewRoutes,
     NewAnnotations, NewReport, Edit, Unjudged

(***************************************************************************)
(* The verdicts of the tool stay true of the files they were given for,    *)
(* whatever people edit in between.                                        *)
(***************************************************************************)
THEOREM CoverageInvariant == Spec => []CoverageInv
<1>1. Init => CoverageInv
  BY DEF Init, CoverageInv, Parse
<1>2. CoverageInv /\ [Next]_vars => CoverageInv'
  BY CoverageNext
<1> QED
  BY <1>1, <1>2, PTL DEF Spec

(***************************************************************************)
(* When both modes of the tool pass over the same files, the committed     *)
(* report is true of the API and of the mock, and it adds up, for every    *)
(* service map.                                                            *)
(***************************************************************************)
THEOREM GreenCorrect == Spec => []GreenMeansTrue
<1>1. ASSUME CoverageInv PROVE GreenMeansTrue
  <2> DEFINE api == Keys({e \in apidoc : e.method \in HTTPMethods /\ e.path # << >>})
             mock == Keys(routes)
  <2> SUFFICES ASSUME diff = "ok", check = "ok"
               PROVE  /\ doc.kind = "report"
                      /\ AddsUp(doc)
                      /\ KeysIn(doc) = api
                      /\ CoveredIn(doc) = mock \cap api
                      /\ doc.allowed = mock \ api
                      /\ \A e \in Range(ann) :
                            CASE e.section = "stub"  -> KeyOf(e) \in api
                              [] e.section = "allow" -> KeyOf(e) \in mock \ api
                              [] e.section = "oos"   -> \E k \in api : Covers(e, k.path)
                              [] OTHER               -> TRUE
    BY DEF GreenMeansTrue
  <2>1. baseline \subseteq Dump /\ DiffEmpty /\ CheckOK /\ doc = Markdown
    BY <1>1 DEF CoverageInv, Current
  <2>2. api = Known /\ mock = Served
    <3>1. {e \in apidoc : e.method \in HTTPMethods /\ e.path # << >>} = baseline
      BY <2>1 DEF DiffEmpty, Parse
    <3> QED
      BY <3>1 DEF Known, Served
  <2> HIDE DEF api, mock
  <2>3. AddsUp(doc)
    BY <2>1, ReportFacts, RowsCounted, TotalsAddUp DEF AddsUp
  <2>4. Allowed = Served \ Known
    BY <2>1 DEF CheckOK, Unmatched, Allowed
  <2>5. ASSUME NEW e \in Range(ann)
        PROVE  /\ e.section = "stub" => KeyOf(e) \in Known
               /\ e.section = "allow" => KeyOf(e) \in Served \ Known
               /\ e.section = "oos" => \E k \in Known : Covers(e, k.path)
    BY <2>1, <2>4 DEF CheckOK, StaleStubs, StaleAllowlist, StaleOutOfScope, Items
  <2>6. \A e \in Range(ann) :
           CASE e.section = "stub"  -> KeyOf(e) \in api
             [] e.section = "allow" -> KeyOf(e) \in mock \ api
             [] e.section = "oos"   -> \E k \in api : Covers(e, k.path)
             [] OTHER               -> TRUE
    BY <2>2, <2>5
  <2> QED
    BY <2>1, <2>2, <2>3, <2>4, <2>6, ReportFacts
<1> QED
  BY <1>1, CoverageInvariant, PTL

(***************************************************************************)
(* No step of the tool puts a report on disk while a route has neither an  *)
(* endpoint nor an exemption in it.                                        *)
(***************************************************************************)
THEOREM FabricationCorrect == Spec => NoFabricationOnDisk
<1>1. ASSUME CoverageInv, Next, doc' # doc, doc'.kind = "report"
      PROVE  Keys(routes) \subseteq KeysIn(doc') \cup doc'.allowed
  <2>1. HandWritten.kind = "edited"
    BY DEF HandWritten
  <2>2. doc' = Markdown /\ CheckOK
    BY <1>1, <2>1 DEF Next, SchemaDiff, SchemaUpdate, CoverageCheck, CoverageWrite,
       NewDump, NewRoutes, NewAnnotations, NewReport
  <2>3. KeysIn(doc') = Known /\ doc'.allowed = Allowed
    BY <1>1, <2>2, ReportFacts DEF CoverageInv
  <2>4. Served \subseteq Known \cup Allowed
    BY <2>2 DEF CheckOK, Unmatched, Allowed
  <2> QED
    BY <2>3, <2>4 DEF Served
<1>2. CoverageInv /\ [Next]_vars =>
        [doc' # doc /\ doc'.kind = "report" =>
           Keys(routes) \subseteq KeysIn(doc') \cup doc'.allowed]_vars
  BY <1>1
<1> QED
  BY <1>2, CoverageInvariant, PTL DEF Spec, NoFabricationOnDisk
=============================================================================
