--------------------------- MODULE IndexDocuments ---------------------------
(* The answers of registries that list a package's versions, and what the    *)
(* proxy leaves of them: rewrite.rs (crates.io), rewrite_npm.rs,             *)
(* rewrite_pypi.rs, rewrite_nuget.rs, rewrite_vscode.rs.  A document is the  *)
(* part of it that names versions and their dates; everything else in it     *)
(* passes as it is, and so does a body that does not parse.                  *)
EXTENDS Integers, Sequences, FiniteSets

CONSTANTS
  Versions,     \* of one package
  Rank,         \* their order: semver's, and alphabetical among the others
  Semver,       \* the ones that are semantic versions
  Ages,         \* when something was published, as its age at the start
  MinAge,       \* younger is hidden
  NoDate,       \* a date that is missing or does not parse, and NuGet's of the unlisted
  NoVersion,
  MaxPages,     \* MAX_PAGES_PER_LOOKUP
  Projects,     \* of PyPI: [listed, files]
  Packuments,   \* of npm
  TagNames,     \* "latest" and the like
  Indexes,      \* of NuGet: sequences of pages
  Extensions,   \* of an editor's gallery, by name
  ExtensionNames,
  CrateLines,   \* of crates.io
  Horizon       \* bound on the time that passes

Dates == Ages \cup {NoDate}

(* A file of a release: its version, when it was uploaded, and the version   *)
(* that its name is read as, if any.  An entry of the other registries.      *)
Upload == [version : Versions, date : Dates, reads : Versions \cup {NoVersion}]
Listing == [version : Versions, date : Dates]

ASSUME IndexAssumption ==
  /\ Rank \in [Versions -> Nat] /\ IsFiniteSet(Versions)
  /\ \A v, w \in Versions : Rank[v] = Rank[w] => v = w
  /\ Semver \subseteq Versions /\ NoVersion \notin Versions
  /\ Ages \subseteq Int /\ IsFiniteSet(Ages) /\ NoDate \notin Int /\ MinAge \in Int
  /\ MaxPages \in Nat /\ Horizon \in Nat
  /\ \A p \in Projects :
       /\ p.listed \subseteq Versions /\ p.files \subseteq Upload
       /\ \A f \in p.files : f.version \in p.listed /\ f.reads \in {f.version, NoVersion}
  /\ \A p \in Packuments :
       /\ p.versions \subseteq Versions /\ p.proven \subseteq p.versions
       /\ \E dated \in SUBSET Versions : p.time \in [dated -> Dates]
       /\ \E names \in SUBSET TagNames : p.tags \in [names -> Versions]
  /\ \A pages \in Indexes :
       /\ pages \in Seq([inline : BOOLEAN, leaves : SUBSET Listing])
       /\ \A j, k \in DOMAIN pages : \A d \in pages[j].leaves, e \in pages[k].leaves :
            d.version = e.version => j = k /\ d = e
  /\ Extensions \subseteq [ExtensionNames -> SUBSET Listing]
  /\ CrateLines \subseteq SUBSET [version : Versions, pubtime : Dates, published : Dates]

VARIABLES
  registry,     \* which one it is, and its documents about the package
  clock,        \* time since the start
  given,        \* the last that the client was given: [form, doc], and a history: the
                \* versions whose date the registry was asked for and did not give
  offered       \* the versions that answers of a form have named so far

indexVars == <<registry, clock, given, offered>>

-----------------------------------------------------------------------------
(* The age filter, at time c.                                                *)
Young(d, c) == d \in Ages /\ d + c < MinAge

Aged(entries, c) == {e \in entries : ~Young(e.date, c)}

(* earliest_upload_time_json_api: of the files that have a date.             *)
Earliest(files) ==
  LET dates == {f.date : f \in files} \ {NoDate}
  IN IF dates = {} THEN NoDate ELSE CHOOSE d \in dates : \A e \in dates : e <= d

-----------------------------------------------------------------------------
(* Wrong variants of definitions below.                                      *)

\* A tag keeps its version.
TagLeft(doc, dropped, t) == doc.tags[t]

-----------------------------------------------------------------------------
(* PyPI.  A version of the JSON document goes with the first of its files;   *)
(* of the simple index a file goes by itself.                                *)
ApiDoc(p) ==
  [releases |-> [v \in p.listed |-> {f \in p.files : f.version = v}],
   urls |-> {f \in p.files : \A v \in p.listed : Rank[v] <= Rank[f.version]}]

RewrittenApi(doc, c) ==
  LET old == {v \in DOMAIN doc.releases : ~Young(Earliest(doc.releases[v]), c)}
  IN [releases |-> [v \in old |-> doc.releases[v]], urls |-> Aged(doc.urls, c)]

\* extract_publish_times_from_pypi_json; a lookup that fails knows no date.
PypiDates(doc, found) ==
  [v \in Versions |-> IF found /\ v \in DOMAIN doc.releases THEN Earliest(doc.releases[v]) ELSE NoDate]

SimpleDoc(p) == [files |-> p.files, versions |-> p.listed]

RewrittenSimple(doc, c) ==
  LET files == Aged(doc.files, c)
  IN [files |-> files,
      versions |-> IF files = doc.files THEN doc.versions
                   ELSE doc.versions \cap {f.reads : f \in files}]

\* The page: its links.
RewrittenHtml(files, dates, c) ==
  {f \in files : f.reads = NoVersion \/ ~Young(dates[f.reads], c)}

-----------------------------------------------------------------------------
(* npm.  Some versions of `time` are not there any more.                     *)
Dropped(doc, require, c) ==
  {v \in DOMAIN doc.time : Young(doc.time[v], c)}
    \cup (IF require THEN doc.versions \ doc.proven ELSE {})

\* remaining_newest_version.
Above(v, w) ==
  \/ v \in Semver /\ w \notin Semver
  \/ (v \in Semver <=> w \in Semver) /\ Rank[v] > Rank[w]

Newest(left) == CHOOSE v \in left : \A w \in left \ {v} : Above(v, w)

TagTo(doc, dropped, t) ==
  IF doc.tags[t] \in dropped THEN Newest(doc.versions \ dropped) ELSE doc.tags[t]

RewrittenPackument(doc, require, c) ==
  LET dropped == Dropped(doc, require, c)
      left == doc.versions \ dropped
      tags == {t \in DOMAIN doc.tags : doc.tags[t] \notin dropped \/ left # {}}
  IN [versions |-> left, proven |-> doc.proven \cap left,
      time |-> [v \in DOMAIN doc.time \ dropped |-> doc.time[v]],
      tags |-> [t \in tags |-> TagTo(doc, dropped, t)]]

-----------------------------------------------------------------------------
(* NuGet.  A page of the index holds its leaves, or the address where they   *)
(* are; what is found there is a page too.                                   *)
Counted(page) == [inline |-> page.inline, leaves |-> page.leaves, count |-> Cardinality(page.leaves)]

RewrittenLeaves(page, c) ==
  LET left == Aged(page.leaves, c) IN [page EXCEPT !.leaves = left, !.count = Cardinality(left)]

RewrittenIndex(pages, c) ==
  [k \in DOMAIN pages |-> IF pages[k].inline THEN RewrittenLeaves(pages[k], c) ELSE pages[k]]

(* refresh_now: the pages in the index, and the first of the others, as far  *)
(* as they are fetched.                                                      *)
Followed(pages) ==
  {k \in DOMAIN pages :
     ~pages[k].inline /\ Cardinality({j \in 1 .. k : ~pages[j].inline}) <= MaxPages}

LeavesRead(pages, fetched) ==
  UNION {pages[k].leaves : k \in {j \in DOMAIN pages : pages[j].inline} \cup fetched}

\* rewrite_nuget_flatcontainer, of a list of versions without dates.
RewrittenFlat(versions, known, c) ==
  {v \in versions : \A e \in known : e.version = v => ~Young(e.date, c)}

-----------------------------------------------------------------------------
(* Editor extensions, each in several builds of a version.                   *)
RewrittenQuery(results, c) == [x \in DOMAIN results |-> Aged(results[x], c)]

(* crates.io: a line has its date, or the registry is asked for it, line by  *)
(* line, and fails for those of unread: Decider::decide.                     *)
LineKept(line, unread, strict, c) ==
  LET date == IF line.pubtime # NoDate THEN line.pubtime
              ELSE IF line \in unread THEN NoDate ELSE line.published
  IN ~Young(date, c) /\ (date = NoDate => ~strict)

RewrittenLines(lines, unread, strict, c) == {l \in lines : LineKept(l, unread, strict, c)}

-----------------------------------------------------------------------------
(* What a client asks, and is given.                                         *)
IndexForms == {"api", "simple", "html", "packument", "index", "page", "flat", "query", "lines"}

VersionsIn(entries) == {e.version : e \in entries}

NamedBy(form, doc) ==
  CASE form = "api" -> DOMAIN doc.releases \cup VersionsIn(doc.urls)
    [] form = "simple" -> doc.versions \cup VersionsIn(doc.files)
    [] form \in {"html", "lines"} -> VersionsIn(doc)
    [] form = "packument" -> doc.versions \cup {doc.tags[t] : t \in DOMAIN doc.tags}
    [] form = "index" -> UNION {VersionsIn(doc[k].leaves) : k \in {j \in DOMAIN doc : doc[j].inline}}
    [] form = "page" -> VersionsIn(doc.leaves)
    [] form = "flat" -> doc
    [] form = "query" -> UNION {{<<x, e.version>> : e \in doc[x]} : x \in DOMAIN doc}

GiveUndated(form, doc, dated, unread) ==
  /\ given' = [form |-> form, doc |-> doc, unread |-> unread]
  /\ offered' = IF dated THEN [offered EXCEPT ![form] = @ \cup NamedBy(form, doc)] ELSE offered
  /\ UNCHANGED <<registry, clock>>

Give(form, doc, dated) == GiveUndated(form, doc, dated, {})

NoRegistry == [eco |-> "none", doc |-> <<>>]

AskFor(eco, doc, strict) ==
  /\ registry = NoRegistry
  /\ registry' = [eco |-> eco, doc |-> doc, strict |-> strict]
  /\ UNCHANGED <<clock, given, offered>>

AnswerApi == registry.eco = "pypi" /\ Give("api", RewrittenApi(ApiDoc(registry.doc), clock), TRUE)

AnswerSimple == registry.eco = "pypi" /\ Give("simple", RewrittenSimple(SimpleDoc(registry.doc), clock), TRUE)

AnswerHtml(found) ==
  /\ registry.eco = "pypi"
  /\ Give("html", RewrittenHtml(registry.doc.files, PypiDates(ApiDoc(registry.doc), found), clock), found)

AnswerPackument ==
  /\ registry.eco = "npm"
  /\ Give("packument", RewrittenPackument(registry.doc, registry.strict, clock), TRUE)

AnswerIndex ==
  /\ registry.eco = "nuget"
  /\ Give("index", RewrittenIndex([k \in DOMAIN registry.doc |-> Counted(registry.doc[k])], clock), TRUE)

AnswerPage(k) ==
  /\ ~registry.doc[k].inline
  /\ Give("page", RewrittenLeaves(Counted(registry.doc[k]), clock), TRUE)

AnswerFlat(found, fetched) ==
  LET all == UNION {VersionsIn(registry.doc[k].leaves) : k \in DOMAIN registry.doc}
      known == IF found THEN LeavesRead(registry.doc, fetched) ELSE {}
  IN Give("flat", RewrittenFlat(all, known, clock), found /\ fetched = Followed(registry.doc))

AnswerQuery == registry.eco = "gallery" /\ Give("query", RewrittenQuery(registry.doc, clock), TRUE)

AnswerLines(unread) ==
  /\ registry.eco = "crates" /\ \A l \in unread : l.pubtime = NoDate
  /\ GiveUndated("lines", RewrittenLines(registry.doc, unread, registry.strict, clock),
                 unread = {} \/ registry.strict, VersionsIn(unread))

TimePasses == clock < Horizon /\ clock' = clock + 1 /\ UNCHANGED <<registry, given, offered>>

IndexInit ==
  /\ registry = NoRegistry /\ clock = 0
  /\ given = [form |-> "none"] /\ offered = [f \in IndexForms |-> {}]

IndexNext ==
  \/ \E p \in Projects : AskFor("pypi", p, FALSE)
  \/ \E p \in Packuments, strict \in BOOLEAN : AskFor("npm", p, strict)
  \/ \E p \in Indexes : AskFor("nuget", p, FALSE)
  \/ \E x \in Extensions : AskFor("gallery", x, FALSE)
  \/ \E l \in CrateLines, strict \in BOOLEAN : AskFor("crates", l, strict)
  \/ AnswerApi \/ AnswerSimple \/ \E found \in BOOLEAN : AnswerHtml(found)
  \/ AnswerPackument \/ AnswerIndex \/ AnswerQuery
  \/ registry.eco = "crates" /\ \E unread \in SUBSET registry.doc : AnswerLines(unread)
  \/ registry.eco = "nuget" /\ \E k \in DOMAIN registry.doc : AnswerPage(k)
  \/ registry.eco = "nuget" /\ \E found \in BOOLEAN, fetched \in SUBSET Followed(registry.doc) :
       AnswerFlat(found, fetched)
  \/ TimePasses

IndexSpec == IndexInit /\ [][IndexNext]_indexVars

-----------------------------------------------------------------------------
UploadsOf(v) == {f \in registry.doc.files : f.version = v}

\* What a version that a form names has to show for itself.
MayBeNamed(form, v, c) ==
  CASE form \in {"api", "simple"} -> UploadsOf(v) = {} \/ Aged(UploadsOf(v), c) # {}
    [] form = "html" -> \E f \in UploadsOf(v) : ~Young(f.date, c) \/ f.reads = NoVersion
    [] form = "packument" ->
         /\ v \in DOMAIN registry.doc.time => ~Young(registry.doc.time[v], c)
         /\ registry.strict /\ v \in registry.doc.versions => v \in registry.doc.proven
    [] form \in {"index", "page"} ->
         \E k \in DOMAIN registry.doc : \E e \in Aged(registry.doc[k].leaves, c) : e.version = v
    [] form = "flat" ->
         \A e \in LeavesRead(registry.doc, Followed(registry.doc)) : e.version = v => ~Young(e.date, c)
    [] form = "query" -> \E e \in Aged(registry.doc[v[1]], c) : e.version = v[2]
    [] form = "lines" ->
         \E l \in registry.doc :
           l.version = v /\ ~Young(IF l.pubtime # NoDate THEN l.pubtime ELSE l.published, c)

(* A young version is in none of the documents: if a date says so that the   *)
(* document, or the proxy's lookup for it, carries.  A release of PyPI is as *)
(* old as its first file; a file whose name is not read stays on the page.   *)
YoungStaysHidden ==
  \A form \in IndexForms : \A v \in offered[form] : MayBeNamed(form, v, clock)

\* Of the versions offered, the ones that a document is able to name.  A line
\* without a date goes under --fail-on-missing, if the lookup of it fails.
Readable == {v \in Versions : UploadsOf(v) # {} /\ \A f \in UploadsOf(v) : f.date # NoDate /\ f.reads = v}
Expected(form) ==
  CASE form \in {"api", "simple", "html"} -> Readable
    [] form = "packument" -> registry.doc.versions
    [] form = "index" -> NamedBy("index", registry.doc)
    [] form = "page" -> {}
    [] form = "lines" -> offered[form] \ (IF registry.strict THEN given.unread ELSE {})
    [] OTHER -> UNION {offered[f] : f \in IndexForms}

(* What one answer has offered, every later answer offers too, of that form  *)
(* and of the registry's other forms: a resolver that reads several, or one  *)
(* of them again, never finds that a version has gone, but for a failed      *)
(* lookup of a line of crates.io under --fail-on-missing (decision.rs:199).  *)
AnswersAgree ==
  given.form \in IndexForms =>
    (UNION {offered[f] : f \in IndexForms}) \cap Expected(given.form) \subseteq NamedBy(given.form, given.doc)

(* An answer does not point at what was taken out of it: tags name versions  *)
(* that are left, and are there as long as one is; counts are lengths; a     *)
(* trimmed list of versions is that of the files; a file is in its release.  *)
TagsResolve ==
  given.form = "packument" =>
    /\ (\A t \in DOMAIN registry.doc.tags : registry.doc.tags[t] \in registry.doc.versions) =>
         \A t \in DOMAIN given.doc.tags : given.doc.tags[t] \in given.doc.versions
    /\ DOMAIN given.doc.tags = DOMAIN registry.doc.tags \/ given.doc.versions = {}
CountsFit ==
  /\ given.form = "index" => \A k \in DOMAIN given.doc : given.doc[k].count = Cardinality(given.doc[k].leaves)
  /\ given.form = "page" => given.doc.count = Cardinality(given.doc.leaves)
FilesResolve ==
  /\ given.form = "simple" =>
       \/ given.doc.versions = registry.doc.listed
       \/ \A v \in given.doc.versions : \E f \in given.doc.files : f.version = v
  /\ given.form = "api" =>
       \A f \in given.doc.urls : f.date # NoDate =>
         f.version \in DOMAIN given.doc.releases /\ f \in given.doc.releases[f.version]
ReferencesResolve == TagsResolve /\ CountsFit /\ FilesResolve

IndexesHold == YoungStaysHidden /\ AnswersAgree /\ ReferencesResolve
=============================================================================
