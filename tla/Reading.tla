------------------------------ MODULE Reading ------------------------------
(***************************************************************************)
(* Sources of a document job: packages/documents/src/{ingest,zip,image,    *)
(* inventory,extract}.ts.  A client uploads files under idempotency keys,  *)
(* a job inventories the versions, fixes a scope of units, extracts them   *)
(* in any number of runs with the tools the machine has, and reports the   *)
(* coverage.  The process may die inside an upload, an operator may revoke *)
(* access, and a stored file may change on the disk.                       *)
(***************************************************************************)
EXTENDS Naturals, Sequences, FiniteSets, SequencesExt

CONSTANTS
  Uploads,       \* idempotency keys
  Files,         \* [declared, sniffed, package, large, members, sheet, rows]
  RowsPerRange,  \* ROWS_PER_RANGE
  MaxExpanded,   \* maximum_expanded_bytes
  Citations,     \* what may be cited: [of, bytes, first, last, excerpt]
  MaxDeaths,     \* bound of the uploads the process dies in
  NoBytes

\* A member of a container: [name, path, extension, symlink, ratio, expanded, target].
Extensions == {"xml", "active", "executable", "archive"}
Targets == {"none", "data", "activating", "unreadable"}
PlainText == "text"
Types == {"sheet", "document", "pdf", PlainText}

ASSUME ReadingConstantsOK ==
  /\ RowsPerRange \in Nat \ {0} /\ {MaxExpanded, MaxDeaths} \subseteq Nat /\ NoBytes \notin Files
  /\ \A f \in Files : /\ f.rows \in Nat
                      /\ f.declared \in Types \cup {"other"}
                      /\ f.sniffed \in {"zip", "ole", "pdf", "none", "binary"}
                      /\ \A i \in DOMAIN f.members : /\ f.members[i].extension \in Extensions
                                                     /\ f.members[i].target \in Targets
  /\ \A c \in Citations : /\ c.of \in Uploads /\ c.bytes \in Files /\ {c.first, c.last} \subseteq Nat
                          /\ c.excerpt \in Files \X Nat \cup {NoBytes}

VARIABLES
  sources,    \* attachments and document_versions by key: [bytes, passed, revoked]
  blobs,      \* what the file of an attachment holds now
  orphans,    \* files of uploads whose transaction never committed
  scope,      \* the units agreed on, and whether they were selected
  extracted,  \* [unit, readable] of every extraction run
  coverage,   \* the coverage last reported
  cited       \* the citation that resolved last, or NoBytes

readingVars == <<sources, blobs, orphans, scope, extracted, coverage, cited>>

NoSource == [bytes |-> NoBytes, passed |-> FALSE, revoked |-> FALSE]
NoScope == [units |-> {}, selected |-> FALSE]

ReadingInit ==
  /\ sources = [u \in Uploads |-> NoSource]
  /\ blobs = [u \in Uploads |-> NoBytes]
  /\ orphans = {}
  /\ scope = NoScope /\ extracted = {} /\ coverage = "NONE" /\ cited = NoBytes

-----------------------------------------------------------------------------
(* inspectContainer() and inspectSafety() *)

UnsafeName(m) == m.path \in {"absolute", "parent", "nul"}

ContainerRefused(f) ==
  \/ \E i \in DOMAIN f.members :
       LET m == f.members[i]
       IN UnsafeName(m) \/ m.symlink \/ m.extension \in {"executable", "archive"} \/ m.ratio > 100
  \/ \E i, j \in DOMAIN f.members : i # j /\ f.members[i].name = f.members[j].name
  \/ FoldSeq(LAMBDA m, total : total + m.expanded, 0, f.members) > MaxExpanded

\* The type the bytes speak for; a text is taken at its word unless it holds a NUL.
TypeFromBytes(f) ==
  CASE f.sniffed = "zip" -> f.package
    [] f.sniffed = "pdf" -> "pdf"
    [] f.sniffed = "none" /\ f.declared = PlainText -> PlainText
    [] OTHER -> "unknown"

Passes(f) ==
  /\ f.declared \in Types /\ ~f.large
  /\ TypeFromBytes(f) = f.declared
  /\ f.sniffed = "zip" =>
       /\ ~ContainerRefused(f)
       /\ \A i \in DOMAIN f.members : /\ f.members[i].extension # "active"
                                      /\ f.members[i].target \in {"none", "data"}

-----------------------------------------------------------------------------
(* The store *)

\* upload(): a known key is answered for by its row, and nothing changes.
StoreUpload(u, f) ==
  /\ sources[u] = NoSource
  /\ sources' = [sources EXCEPT ![u] = [bytes |-> f, passed |-> Passes(f), revoked |-> FALSE]]
  /\ blobs' = [blobs EXCEPT ![u] = f]
  /\ UNCHANGED <<orphans, scope, extracted, coverage, cited>>

\* The process dies between the file and the commit of the rows.
DieStoring(u, f) ==
  /\ sources[u] = NoSource /\ f \notin orphans /\ Cardinality(orphans) < MaxDeaths
  /\ orphans' = orphans \cup {f}
  /\ UNCHANGED <<sources, blobs, scope, extracted, coverage, cited>>

Revoke(u) ==
  /\ sources[u] # NoSource /\ ~sources[u].revoked
  /\ sources' = [sources EXCEPT ![u].revoked = TRUE]
  /\ UNCHANGED <<blobs, orphans, scope, extracted, coverage, cited>>

Overwritten(u, f) ==
  /\ blobs[u] \notin {NoBytes, f}
  /\ blobs' = [blobs EXCEPT ![u] = f]
  /\ UNCHANGED <<sources, orphans, scope, extracted, coverage, cited>>

\* read() returns bytes or throws.
Readable(u) == sources[u] # NoSource /\ ~sources[u].revoked /\ blobs[u] = sources[u].bytes

-----------------------------------------------------------------------------
(* Inventory and scope *)

\* Ranges of rows [upload, first, last]; a file without rows still has one.
UnitsOf(u, rows) ==
  LET end == IF rows = 0 THEN 1 ELSE rows
  IN {[of |-> u, first |-> n, last |-> IF n + RowsPerRange - 1 < end THEN n + RowsPerRange - 1 ELSE end] :
        n \in {RowsPerRange * k + 1 : k \in 0..rows} \cap 1..end}

Inventory(u) == UnitsOf(u, blobs[u].rows)
Inventoried(us) == UNION {Inventory(u) : u \in us}

BuildScope(us) ==
  /\ \A u \in us : Readable(u)
  /\ scope = NoScope
  /\ scope' = [units |-> Inventoried(us), selected |-> FALSE]
  /\ UNCHANGED <<sources, blobs, orphans, extracted, coverage, cited>>

\* Selected units have to be in the inventory.
SelectUnits(us, units) ==
  /\ \A u \in us : Readable(u)
  /\ scope = NoScope /\ units \subseteq Inventoried(us)
  /\ scope' = [units |-> units, selected |-> TRUE]
  /\ UNCHANGED <<sources, blobs, orphans, extracted, coverage, cited>>

\* The cursor of rowCoverage() past some ranges is the largest of these.
Cursors(units) == {1} \cup {unit.last + 1 : unit \in units}

\* rowCoverage(): walks the ranges of a sheet in the order of their first rows.
\* Of two that begin alike the second leaves no gap the first did not leave.  A
\* row is counted as often as it is in a range.
RowsComplete(units, name) ==
  LET mine == {unit \in units : sources[unit.of].bytes.sheet = name}
      before(unit) == {other \in mine : other.first < unit.first}
      gaps == {unit \in mine : \A cursor \in Cursors(before(unit)) : unit.first > cursor}
      counted == UNION {{unit} \X (unit.first..unit.last) : unit \in mine}
      head == CHOOSE unit \in mine : before(unit) = {}
      rows == IF mine = {} THEN 0 ELSE sources[head.of].bytes.rows
  IN gaps = {} /\ (\E cursor \in Cursors(mine) : cursor > rows) /\ Cardinality(counted) >= rows

-----------------------------------------------------------------------------
(* Extraction and coverage *)

\* A page without a text layer, and a page the tool is missing for, is unreadable.
HasText(u, pdfText) == sources[u].bytes.declared = "pdf" => pdfText /\ sources[u].bytes.sheet = "text layer"

\* The whole inventory of the version, whatever the scope selected.
ExtractWholeVersion(u, units, pdfText) ==
  /\ Readable(u)
  /\ extracted' = extracted \cup {[unit |-> unit, readable |-> HasText(u, pdfText)] : unit \in Inventory(u)}
  /\ UNCHANGED <<sources, blobs, orphans, scope, coverage, cited>>

\* A run may stop after any part of a version's units.
ExtractUnits(u, units, pdfText) ==
  /\ Readable(u)
  /\ units # {} /\ units \subseteq {unit \in scope.units : unit.of = u}
  /\ extracted' = extracted \cup {[unit |-> unit, readable |-> HasText(u, pdfText)] : unit \in units}
  /\ UNCHANGED <<sources, blobs, orphans, scope, coverage, cited>>

\* Only what was attempted.
CoverageOfAttempted == IF \A e \in extracted : e.readable THEN "COMPLETE" ELSE "PARTIAL"

\* coverageOf(): units never attempted count, and so does one that was unreadable once.
CoverageOf ==
  IF /\ \A unit \in scope.units : \E e \in extracted : e.unit = unit
     /\ \A e \in extracted : e.readable
  THEN "COMPLETE" ELSE "PARTIAL"

ReportCoverage ==
  /\ scope # NoScope
  /\ coverage' = CoverageOf
  /\ UNCHANGED <<sources, blobs, orphans, scope, extracted, cited>>

\* resolveCitation(): the version it names, with those bytes; the place inside
\* it; and the excerpt, a row of some file, among the rows of the place.
ResolveCitation(c, pdfText) ==
  /\ Readable(c.of) /\ sources[c.of].bytes = c.bytes
  /\ 1 <= c.first /\ c.first <= c.last /\ c.last <= c.bytes.rows
  /\ c.excerpt # NoBytes => HasText(c.of, pdfText) /\ c.excerpt \in {c.bytes} \X (c.first .. c.last)
  /\ cited' = c
  /\ UNCHANGED <<sources, blobs, orphans, scope, extracted, coverage>>

ReadingNext ==
  \/ \E u \in Uploads, f \in Files : StoreUpload(u, f) \/ DieStoring(u, f) \/ Overwritten(u, f)
  \/ \E u \in Uploads : Revoke(u)
  \/ \E us \in (SUBSET Uploads) \ {{}} :
       BuildScope(us) \/ \E units \in SUBSET Inventoried({u \in us : Readable(u)}) \ {{}} : SelectUnits(us, units)
  \/ \E u \in Uploads, pdfText \in BOOLEAN, units \in SUBSET scope.units : ExtractUnits(u, units, pdfText)
  \/ ReportCoverage
  \/ \E c \in Citations, pdfText \in BOOLEAN : ResolveCitation(c, pdfText)

ReadingSpec == ReadingInit /\ [][ReadingNext]_readingVars

-----------------------------------------------------------------------------
(* Properties *)

ReadingTypeOK ==
  /\ \A u \in Uploads : /\ sources[u].bytes \in Files \cup {NoBytes} /\ sources[u].revoked \in BOOLEAN
                        /\ blobs[u] \in Files \cup {NoBytes}
  /\ orphans \subseteq Files
  /\ scope.selected \in BOOLEAN /\ \A unit \in scope.units : unit.of \in Uploads
  /\ \A e \in extracted : e.unit \in scope.units
  /\ coverage \in {"NONE", "COMPLETE", "PARTIAL"} /\ cited \in Citations \cup {NoBytes}

RowsOf(units, u) == UNION {unit.first..unit.last : unit \in {x \in units : x.of = u}}

SameSheet(u, v) == sources[u].bytes.sheet = sources[v].bytes.sheet

\* A coverage reported COMPLETE is of the whole: every row of the versions the
\* scope was built from, or every unit that was selected, has been extracted
\* from the bytes of the upload and was readable, through any number of partial
\* runs; and rowCoverage() finds a gap in a sheet exactly
\* where the scope has one, as long as no two versions of the scope name a sheet
\* alike.  What resolved as a citation is in a unit of the inventory, of the bytes
\* that were uploaded (extract.ts:160, 179, inventory.ts:82, 170).
CompleteIsWhole ==
  /\ coverage = "COMPLETE" =>
       LET read == {e.unit : e \in {x \in extracted : x.readable}}
       IN /\ scope.units \subseteq read
          /\ \A u \in {unit.of : unit \in scope.units} :
               ~scope.selected => 1..sources[u].bytes.rows \subseteq RowsOf(read, u)
  /\ \A u \in {unit.of : unit \in scope.units} :
       (\A unit \in scope.units : SameSheet(unit.of, u) => unit.of = u) =>
         (RowsComplete(scope.units, sources[u].bytes.sheet)
            <=> 1..sources[u].bytes.rows \subseteq RowsOf(scope.units, u))
  /\ cited # NoBytes =>
       /\ sources[cited.of].bytes = cited.bytes
       /\ cited.excerpt # NoBytes => cited.excerpt[1] = sources[cited.of].bytes
       /\ Readable(cited.of) => cited.first .. cited.last \subseteq RowsOf(Inventory(cited.of), cited.of)
=============================================================================
