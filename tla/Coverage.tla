------------------------------ MODULE Coverage ------------------------------
(***************************************************************************)
(* The API coverage tracker (cmd/pve-schemadiff): what PVE serves, what    *)
(* the mock serves and a file of exceptions are turned into the committed  *)
(* report docs/COVERAGE.md, and CI runs the two modes of the tool over the *)
(* same checkout, schema drift first.  Between runs of the tool people     *)
(* edit the files, in any order and without regenerating what depends on   *)
(* them.                                                                   *)
(*                                                                         *)
(* A path is a sequence of segments, <<"lit", s>> or the placeholder       *)
(* <<"ph", name>>.                                                         *)
(***************************************************************************)
EXTENDS Integers, SequencesExt

CONSTANTS Dump,         \* [method, path] an apidoc.js dump may hold
          Patterns,     \* [method, path] the mock may register
          Entries,      \* entries the annotations file may hold
          Rules,        \* serviceRules: [prefix, service, exact]
          MaxEdits      \* bound: edits by hand

Path == Seq({"lit", "ph"} \X STRING)

\* No prefix is in the table twice, so the longest match is unique.
ASSUME RulesAssumption ==
    /\ \A r \in Rules : r.prefix \in Path
    /\ \A r, s \in Rules : r.prefix = s.prefix => r = s

ASSUME DumpAssumption == IsFiniteSet(Dump) /\ \A e \in Dump : e.path \in Path

VARIABLES apidoc,       \* the committed dump
          baseline,     \* testdata/baseline.json,
          torn,         \* of which a write was cut short
          routes,       \* Server.Routes()
          ann,          \* coverage-annotations.yaml
          doc,          \* docs/COVERAGE.md
          diff,         \* how the tool exited, run over these very files in
          check,        \* schema mode and with -check: "ok" (0), "failed"
                        \* (1), "error" (2); "none" when it was not run
          edits

vars == <<apidoc, baseline, torn, routes, ann, doc, diff, check, edits>>

HTTPMethods == {"GET", "POST", "PUT", "DELETE"}
Unassigned  == "unassigned"
States      == {"covered", "stub", "out of scope", "gap"}
HandWritten == [kind |-> "edited"]

-----------------------------------------------------------------------------
(***************************************************************************)
(* Normalisation: the mock's prefix goes, and so do placeholder names.     *)
(***************************************************************************)
APIPrefix == <<"lit", "api2/json">>

Erased(seg) == IF seg[1] = "ph" THEN <<"ph", "">> ELSE seg

NormalizePath(path) ==
    LET p == IF path # << >> /\ Head(path) = APIPrefix THEN Tail(path) ELSE path
    IN  [i \in DOMAIN p |-> Erased(p[i])]

Upper(m) == IF m = "get" THEN "GET" ELSE IF m = "put" THEN "PUT" ELSE m

KeyOf(e) == [method |-> Upper(e.method), path |-> NormalizePath(e.path)]

\* ParsePattern: "METHOD /path", or it is malformed.
WellFormed(p) == p.method # "" /\ p.path # << >>

Keys(es) == {KeyOf(e) : e \in es}

\* schema.Parse: the verbs of every node that has a path.
Parse(dump) == {e \in dump : e.path # << >> /\ e.method \in HTTPMethods}

-----------------------------------------------------------------------------
(***************************************************************************)
(* The service map: the longest prefix, in whole segments.                 *)
(***************************************************************************)
Matches(r, path) == IF r.exact THEN path = r.prefix ELSE IsPrefix(r.prefix, path)

ServiceFor(path) ==
    LET claims == {r \in Rules : Matches(r, path)}
    IN  IF claims = {} THEN Unassigned
        ELSE (CHOOSE r \in claims :
                \A s \in claims : Len(s.prefix) <= Len(r.prefix)).service

Services == {r.service : r \in Rules} \cup {Unassigned}

-----------------------------------------------------------------------------
(***************************************************************************)
(* The annotations: the baseline's provenance ("base"), and entries of the *)
(* sections "stub", "allow", "oos" and "side", in the order of the file.   *)
(* complete: what the entry requires (reason, doc, provenance) is there.   *)
(* Two entries of a section that normalise to the same path are an error,  *)
(* as is one that does not parse, or a prefix of which nothing is left.    *)
(***************************************************************************)
OfSection(entries, s) == SelectSeq(entries, LAMBDA e : e.section = s)

Section(s) == OfSection(ann, s)
Items(s)   == {e \in Range(ann) : e.section = s}

AnnotationsOK ==
    /\ Len(Section("base")) = 1
    /\ \A e \in Range(ann) : e.complete
    /\ \A e \in Items("stub") \cup Items("allow") : WellFormed(e)
    /\ \A e \in Items("oos") : NormalizePath(e.path) # << >>
    /\ \A s \in {"stub", "allow", "oos"} : \A i, j \in DOMAIN Section(s) :
          KeyOf(Section(s)[i]) = KeyOf(Section(s)[j]) => i = j

Covers(e, path) == IsPrefix(NormalizePath(e.path), path)

Covering(entries, path) == SelectSeq(entries, LAMBDA e : Covers(e, path))

Stubs(k)      == {e \in Items("stub") : KeyOf(e) = k}
Allows(k)     == {e \in Items("allow") : KeyOf(e) = k}
OutOfScope(k) == Covering(Section("oos"), k.path)

-----------------------------------------------------------------------------
(***************************************************************************)
(* Build.                                                                  *)
(***************************************************************************)
Known  == Keys(baseline)
Served == Keys(routes)

BuildOK ==
    /\ \A p \in routes : WellFormed(p)
    /\ \A d, e \in baseline : KeyOf(d) = KeyOf(e) => d = e

Row(k, state, notes) == [key |-> k, state |-> state, notes |-> notes]

ClassifyRow(k) ==
    IF k \in Served THEN Row(k, "covered", {})
    ELSE IF Stubs(k) # {} THEN Row(k, "stub", Stubs(k))
    ELSE IF OutOfScope(k) # << >>
    THEN Row(k, "out of scope", {Head(OutOfScope(k))})
    ELSE Row(k, "gap", {})

RowsOf(svc) == {ClassifyRow(k) : k \in {k \in Known : ServiceFor(k.path) = svc}}

Sections == {svc \in Services : RowsOf(svc) # {}}

Totals == [st \in States |->
              Cardinality({r \in UNION {RowsOf(svc) : svc \in Sections} :
                              r.state = st})]

Unmatched == {k \in Served \ Known : Allows(k) = {}}
Allowed   == {k \in Served \ Known : Allows(k) # {}}

StaleStubs == {e \in Items("stub") : KeyOf(e) \notin Known}

StaleAllowlistLoose ==                  \* mutant: any route will do
    {e \in Items("allow") : KeyOf(e) \notin Served}

StaleAllowlist == {e \in Items("allow") : KeyOf(e) \notin Allowed}

StaleOutOfScope ==
    {e \in Items("oos") : \A k \in Known : ~ Covers(e, k.path)}

\* Report.Check: the fabrication guard and the stale annotations.
CheckOK == /\ Unmatched = {}
           /\ StaleStubs \cup StaleAllowlist \cup StaleOutOfScope = {}

\* What is rendered; the rendering is a function of this.
Markdown == [kind       |-> "report",
             sections   |-> [svc \in Sections |-> RowsOf(svc)],
             totals     |-> Totals,
             allowed    |-> Allowed,
             base       |-> Section("base"),
             side       |-> Section("side"),
             routeCount |-> Cardinality(Served)]

-----------------------------------------------------------------------------
Init ==
    /\ apidoc \in SUBSET Dump
    /\ Cardinality(apidoc) = 2
    /\ baseline = Parse(apidoc)
    /\ torn = FALSE
    /\ routes = {}
    /\ \E e \in Entries : e.section = "base" /\ ann = <<e>>
    /\ doc = HandWritten
    /\ diff = "none"
    /\ check = "none"
    /\ edits = 0

\* Whatever changes a file, what the tool said of the files before is void.
Unjudged == diff' = "none" /\ check' = "none"

\* schema.Diff: nothing added and nothing removed.
DiffEmpty == Parse(apidoc) = baseline

\* runSchemaDiff: compare, or -update.  A file that cannot be read or parsed is
\* an error, and a write of the baseline may be cut short.
SchemaDiff ==
    /\ diff' \in {"error", IF torn THEN "error"
                           ELSE IF DiffEmpty THEN "ok" ELSE "failed"}
    /\ UNCHANGED <<apidoc, baseline, torn, routes, ann, doc, check, edits>>

SchemaUpdate ==
    /\ baseline' = Parse(apidoc)
    /\ torn' \in BOOLEAN
    /\ Unjudged
    /\ UNCHANGED <<apidoc, routes, ann, doc, edits>>

\* CheckDrift: the committed report is, byte for byte, the regenerated one.
Current == doc = Markdown

\* runCoverage: the baseline, the annotations and the routes fit together.
Readable == ~ torn /\ AnnotationsOK /\ BuildOK

\* runCoverage with -out and -check.
CoverageCheck ==
    /\ check' \in {"error", IF ~ Readable THEN "error"
                            ELSE IF CheckOK /\ Current THEN "ok" ELSE "failed"}
    /\ UNCHANGED <<apidoc, baseline, torn, routes, ann, doc, diff, edits>>

CoverageWriteUnguarded ==               \* mutant: the guard runs after
    /\ Readable
    /\ ~ Current
    /\ doc' = Markdown
    /\ Unjudged
    /\ UNCHANGED <<apidoc, baseline, torn, routes, ann, edits>>

\* runCoverage with -out: nothing is written unless the checks pass.  A write
\* that is cut short leaves something that is no report.
CoverageWrite ==
    /\ Readable /\ CheckOK
    /\ ~ Current
    /\ doc' \in {Markdown, HandWritten}
    /\ Unjudged
    /\ UNCHANGED <<apidoc, baseline, torn, routes, ann, edits>>

(***************************************************************************)
(* Edits by hand: another dump, other routes, other exceptions, or the     *)
(* report itself.                                                          *)
(***************************************************************************)
Toggled(S, x) == IF x \in S THEN S \ {x} ELSE S \cup {x}

Edit ==
    /\ edits < MaxEdits
    /\ edits' = edits + 1
    /\ Unjudged

NewDump ==
    /\ Edit
    /\ \E e \in Dump : apidoc' = Toggled(apidoc, e)
    /\ UNCHANGED <<baseline, torn, routes, ann, doc>>

NewRoutes ==
    /\ Edit
    /\ \E p \in Patterns : routes' = Toggled(routes, p)
    /\ UNCHANGED <<apidoc, baseline, torn, ann, doc>>

NewAnnotations ==
    /\ Edit
    /\ \/ \E e \in Entries : ann' = Append(ann, e)
       \/ \E i \in DOMAIN ann : ann' = RemoveAt(ann, i)
    /\ UNCHANGED <<apidoc, baseline, torn, routes, doc>>

NewReport ==
    /\ Edit
    /\ doc # HandWritten
    /\ doc' = HandWritten
    /\ UNCHANGED <<apidoc, baseline, torn, routes, ann>>

Next == \/ SchemaDiff \/ SchemaUpdate \/ CoverageCheck \/ CoverageWrite
        \/ NewDump \/ NewRoutes \/ NewAnnotations \/ NewReport

Spec == Init /\ [][Next]_vars

-----------------------------------------------------------------------------
RowsIn(d)   == UNION {d.sections[svc] : svc \in DOMAIN d.sections}
KeysIn(d)   == {r.key : r \in RowsIn(d)}
CoveredIn(d) == {r.key : r \in {r \in RowsIn(d) : r.state = "covered"}}

\* Every endpoint is in one section and one state, and the totals count the
\* rows (Build: "Every baseline endpoint gets exactly one").
AddsUp(d) ==
    /\ Cardinality(RowsIn(d)) = Cardinality(KeysIn(d))
    /\ Cardinality(KeysIn(d)) =
          d.totals["covered"] + d.totals["stub"]
            + d.totals["out of scope"] + d.totals["gap"]
    /\ \A s, t \in DOMAIN d.sections :
          d.sections[s] \cap d.sections[t] # {} => s = t

(***************************************************************************)
(* Green CI means the report is true: when both modes exit 0 over the same *)
(* files, the report lists the endpoints of the dump and no others, calls  *)
(* covered exactly those a route serves, shows every route that PVE does   *)
(* not serve as an exemption, adds up, and no exception has outlived its   *)
(* object.                                                                 *)
(***************************************************************************)
GreenMeansTrue ==
    diff = "ok" /\ check = "ok" =>
        LET api == Keys({e \in apidoc : e.method \in HTTPMethods /\ e.path # << >>})
            mock == Keys(routes)
        IN  /\ doc.kind = "report"
            /\ AddsUp(doc)
            /\ KeysIn(doc) = api
            /\ CoveredIn(doc) = mock \cap api
            /\ doc.allowed = mock \ api
            /\ \A e \in Range(ann) :
                  CASE e.section = "stub"  -> KeyOf(e) \in api
                    [] e.section = "allow" -> KeyOf(e) \in mock \ api
                    [] e.section = "oos"   -> \E k \in api : Covers(e, k.path)
                    [] OTHER               -> TRUE

(***************************************************************************)
(* "A report naming endpoints that do not exist must never reach disk":    *)
(* the tool writes none while a route has neither an endpoint in the       *)
(* baseline nor an exemption that the report shows.                        *)
(***************************************************************************)
NoFabricationOnDisk ==
    [][doc' # doc /\ doc'.kind = "report" =>
          Keys(routes) \subseteq KeysIn(doc') \cup doc'.allowed]_vars
=============================================================================
