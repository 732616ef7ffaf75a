------------------------------ MODULE Editing ------------------------------
(***************************************************************************)
(* Edits of a document and the download of the result:                     *)
(* packages/documents/src/{edit,ooxml,pdf}.ts and downloadArtifact() of    *)
(* apps/controller/src/document-routes.ts.  An edit reads a DOCX and       *)
(* builds a new one; its caller keeps the outputs whose meaning check      *)
(* passes, edits them again, and offers one as an artifact, whose file may *)
(* change before a client asks for it.  A text is a member of a small set  *)
(* with the values the meaning rules find in it.                           *)
(***************************************************************************)
EXTENDS Naturals, Sequences, FiniteSets, SequencesExt

CONSTANTS
  Originals,   \* DOCX files: [body, header, footer, notes, comments, others]
  Blank,       \* the text of an empty paragraph
  Rules,       \* DEFAULT_MEANING_RULES
  ValuesIn,    \* [text -> [Rules -> Seq(value)]]
  DocxEdits,   \* requested edits, functions from block indexes to texts
  Sections,    \* the texts a reopened output has to have
  Projects,
  Pdfs,        \* PDFs that are rendered: sequences of BOOLEAN, is there ink on the page
  MaxOutputs,  \* bound of the outputs that are kept
  NoDocument

Texts == DOMAIN ValuesIn
Blocks == [kind : {"paragraph", "heading", "table", "revision"}, text : Texts, attributes : BOOLEAN]
Documents == [body : Seq(Blocks), header : Seq(Texts), footer : Seq(Texts), notes : Seq(Texts),
              comments : Seq(Texts), others : SUBSET STRING]

ASSUME EditingConstantsOK ==
  /\ Originals \subseteq Documents
  /\ \A e \in DocxEdits : \A i \in DOMAIN e : e[i] \in Texts
  /\ Blank \in Texts /\ \A r \in Rules : ValuesIn[Blank][r] = <<>>
  /\ MaxOutputs \in Nat

VARIABLES
  original,   \* the client's bytes
  document,   \* the version the next edit is made on
  outputs,    \* outputs kept so far
  touched,    \* the blocks any kept edit named
  outcome,    \* what editDocx() returned last: [edits, output, preserved]
  artifact,   \* the ArtifactRecord and its project
  disk,       \* the bytes of the artifact now
  served,     \* the bytes a client was given
  pageImages, \* the page images in the render workspace
  rendered    \* the PDF and the pages checkRender() reported

editingVars == <<original, document, outputs, touched, outcome, artifact, disk, served, pageImages, rendered>>
renderVars == <<pageImages, rendered>>

EditingInit ==
  /\ original \in Originals
  /\ document = original
  /\ outputs = 0 /\ touched = {}
  /\ outcome = NoDocument /\ artifact = NoDocument /\ disk = NoDocument /\ served = NoDocument
  /\ pageImages = <<>> /\ rendered = NoDocument

-----------------------------------------------------------------------------
(* Reading and building *)

\* The elements of a sequence at some of its places, in their order.
ElementsAt(s, places) ==
  [k \in 1..Cardinality(places) |->
     s[CHOOSE i \in places : Cardinality({j \in places : j <= i}) = k]]

\* readDocx() finds the elements that are written without attributes.
ReadDocx(d) ==
  [d EXCEPT !.body = ElementsAt(d.body, {i \in DOMAIN d.body : ~d.body[i].attributes})]

BlockTexts(blocks) == [i \in DOMAIN blocks |-> blocks[i].text]

\* The order the text of a document is joined in.
AllText(d) ==
  LET read == ReadDocx(d)
  IN BlockTexts(read.body) \o read.header \o read.footer \o read.notes \o read.comments

NewBlock(kind, text) == [kind |-> kind, text |-> text, attributes |-> FALSE]

\* The revisions come after the blocks, then a reference for every footnote.
BuildDocx(blocks, revisions, header, footer, notes, comments) ==
  [body |-> blocks \o [i \in DOMAIN revisions |-> NewBlock("revision", revisions[i])]
              \o [i \in DOMAIN notes |-> NewBlock("paragraph", Blank)],
   header |-> header, footer |-> footer, notes |-> notes, comments |-> comments, others |-> {}]

RevisionsOf(blocks) == ElementsAt(blocks, {i \in DOMAIN blocks : blocks[i].kind = "revision"})
BlocksOf(blocks) == ElementsAt(blocks, {i \in DOMAIN blocks : blocks[i].kind # "revision"})

Revisions(d) == RevisionsOf(ReadDocx(d).body)
BodyBlocks(d) == BlocksOf(ReadDocx(d).body)

\* Of a header and a footer the first paragraph is kept; headings become level 1.
FirstParagraph(s) == SubSeq(s, 1, IF s = <<>> THEN 0 ELSE 1)

\* An edit that looks for its block among the revisions too.
EditedByPosition(d, edits) ==
  LET read == ReadDocx(d).body
      changed == [i \in DOMAIN read |->
                    NewBlock(read[i].kind, IF i \in DOMAIN edits THEN edits[i] ELSE read[i].text)]
  IN BuildDocx(BlocksOf(changed), BlockTexts(RevisionsOf(changed)),
               FirstParagraph(d.header), FirstParagraph(d.footer), d.notes, d.comments)

Edited(d, edits) ==
  LET body == BodyBlocks(d)
  IN BuildDocx([i \in DOMAIN body |->
                  NewBlock(body[i].kind, IF i \in DOMAIN edits THEN edits[i] ELSE body[i].text)],
               BlockTexts(Revisions(d)), FirstParagraph(d.header), FirstParagraph(d.footer), d.notes, d.comments)

-----------------------------------------------------------------------------
(* editDocx() and the checks of its output *)

MeaningOf(texts) ==
  [r \in Rules |-> FlattenSeq([i \in DOMAIN texts |-> ValuesIn[texts[i]][r]])]

\* As many values under every rule, and the same one at every place.
MeaningPreserved(before, after) == MeaningOf(before) = MeaningOf(after)

EditDocx(edits) ==
  /\ artifact = NoDocument
  /\ outcome' = [edits |-> edits, output |-> Edited(document, edits),
                 preserved |-> MeaningPreserved(AllText(document), AllText(Edited(document, edits)))]
  /\ UNCHANGED <<original, document, outputs, touched, artifact, disk, served, renderVars>>

\* reopen(): the sections that were asked for are in the text of the output.
Reopens(d) == Sections \subseteq ToSet(AllText(d))

Keep ==
  /\ outcome # NoDocument /\ artifact = NoDocument /\ outputs < MaxOutputs
  /\ outcome.preserved /\ Reopens(outcome.output)
  /\ document' = outcome.output /\ outcome' = NoDocument
  /\ outputs' = outputs + 1 /\ touched' = touched \cup DOMAIN outcome.edits
  /\ UNCHANGED <<original, artifact, disk, served, renderVars>>

-----------------------------------------------------------------------------
(* Rendering *)

\* Page images are listed in the order of their names, page-10 before page-2.
NameDigits(n) == IF n < 10 THEN <<n>> ELSE <<n \div 10, n % 10>>
NamedBefore(m, n) ==
  LET this == NameDigits(m)
      that == NameDigits(n)
  IN \/ this[1] < that[1]
     \/ /\ this[1] = that[1]
        /\ Len(this) < Len(that) \/ (Len(this) = 2 /\ Len(that) = 2 /\ this[2] < that[2])

\* The images of an earlier render stay in the workspace, replaced page by page.
RenderPdf(pdf) ==
  pageImages' = [n \in DOMAIN pageImages \cup DOMAIN pdf |-> IF n \in DOMAIN pdf THEN pdf[n] ELSE pageImages[n]]

BlankPages(images) ==
  LET listed == SetToSortSeq(DOMAIN images, NamedBefore)
  IN {i \in DOMAIN listed : ~images[listed[i]]}

CheckRender(pdf) ==
  /\ RenderPdf(pdf)
  /\ rendered' = [pdf |-> pdf, blank |-> BlankPages(pageImages')]
  /\ UNCHANGED <<original, document, outputs, touched, outcome, artifact, disk, served>>

-----------------------------------------------------------------------------
(* Artifacts *)

DescribeArtifact(project, html) ==
  /\ artifact = NoDocument
  /\ artifact' = [digest |-> document, html |-> html, project |-> project]
  /\ disk' = document
  /\ UNCHANGED <<original, document, outputs, touched, outcome, served, renderVars>>

FileChanges(d) ==
  /\ artifact # NoDocument /\ disk # d
  /\ disk' = d
  /\ UNCHANGED <<original, document, outputs, touched, outcome, artifact, served, renderVars>>

PrepareDownload == disk = artifact.digest /\ ~artifact.html

DownloadArtifact(project) ==
  /\ artifact # NoDocument
  /\ served' = IF artifact.project = project /\ PrepareDownload THEN disk ELSE NoDocument
  /\ UNCHANGED <<original, document, outputs, touched, outcome, artifact, disk, renderVars>>

EditingNext ==
  \/ \E edits \in DocxEdits : EditDocx(edits)
  \/ Keep
  \/ \E pdf \in Pdfs : CheckRender(pdf)
  \/ \E project \in Projects, html \in BOOLEAN : DescribeArtifact(project, html)
  \/ \E d \in Originals : FileChanges(d)
  \/ \E project \in Projects : DownloadArtifact(project)

EditingSpec == EditingInit /\ [][EditingNext]_editingVars

-----------------------------------------------------------------------------
(* Properties *)

EditingTypeOK ==
  /\ original \in Originals
  /\ document \in Documents
  /\ outputs \in 0..MaxOutputs
  /\ outcome # NoDocument => outcome.edits \in DocxEdits /\ outcome.preserved \in BOOLEAN
  /\ artifact # NoDocument => artifact.project \in Projects
  /\ \A n \in DOMAIN pageImages : pageImages[n] \in BOOLEAN

\* What a client downloads says what the document said that was read first,
\* after any chain of edits each made on the output of the last, and whatever
\* happened to the file: the rules find the same values in the same order, the
\* blocks no edit named are where they were with the text they had, and no
\* footnote, comment or revision is lost (edit.ts:49, 72, 222, ooxml.ts:46).
\* It is the document as readDocx() reads it.
ServedMeansSource ==
  served # NoDocument =>
    LET first == BodyBlocks(original)
        body == BodyBlocks(served)
    IN /\ MeaningOf(AllText(served)) = MeaningOf(AllText(original))
       /\ \A i \in DOMAIN first \ touched :
            i \in DOMAIN body /\ body[i].text = first[i].text /\ body[i].kind = first[i].kind
       /\ BlockTexts(Revisions(served)) = BlockTexts(Revisions(original))
       /\ served.notes = original.notes /\ served.comments = original.comments

\* edit.ts:5: a change of meaning fails the edit rather than shipping quietly.  A
\* paragraph written with attributes is read neither before nor after the edit,
\* and is not in the output (ooxml.ts:127).
WrittenText(d) == AllText([d EXCEPT !.body = [i \in DOMAIN @ |-> [@[i] EXCEPT !.attributes = FALSE]]])

NothingChangesQuietly ==
  outcome # NoDocument /\ outcome.preserved =>
    MeaningOf(WrittenText(outcome.output)) = MeaningOf(WrittenText(document))
=============================================================================
