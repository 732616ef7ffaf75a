------------------------------ MODULE Workbook ------------------------------
(***************************************************************************)
(* Recalculation of a workbook, packages/documents/src/calc.ts on what     *)
(* ooxml.ts reads of it.  A person edits a workbook and hands it over; a   *)
(* later edit is of another workbook.  A cell is its place in the file; a  *)
(* formula applies one operation to cells, a nested expression is a cell   *)
(* of its own.  Numbers are minor units.  The cache of a recalculation is  *)
(* left out: what it holds would be evaluated to the same value.           *)
(***************************************************************************)
EXTENDS Integers, Sequences, FiniteSets, SequencesExt

CONSTANTS
  Cells,       \* places, numbered in the order of the file
  ColumnOf,    \* the column of a place, a sequence of letters 1..26
  Contents,    \* what may stand in a cell: [node, cached]
  Overrides,   \* the values a request may put over cells
  NoValue,     \* a cell that is not in the file, a value that is not there
  MaxEdits     \* bound of the edits a person makes

Operations == {"number", "ref", "+", "/", "SUM", "MAX", "COUNT", "RANGE",
               "external", "unsupported"}

ASSUME WorkbookConstantsOK ==
  /\ Cells \subseteq Nat /\ IsFiniteSet(Cells) /\ NoValue \notin Cells /\ MaxEdits \in Nat
  /\ ColumnOf \in [Cells -> Seq(1..26)]
  /\ \A c \in Contents :
       /\ c.node.op \in Operations /\ c.node.args \in Seq(Cells)
       /\ c.node.op \in {"number", "external", "unsupported"} => c.node.args = <<>>
       /\ c.node.op = "ref" => Len(c.node.args) = 1
       /\ c.node.op \in {"/", "RANGE"} => Len(c.node.args) = 2
  /\ \A o \in Overrides : DOMAIN o \subseteq Cells

VARIABLES
  book,        \* the content of each cell, or NoValue
  entries,     \* edits so far
  calculation, \* what calculate() returned, or NoValue
  readiness    \* what numericReadiness() made of it, or NoValue

workbookVars == <<book, entries, calculation, readiness>>

WorkbookInit ==
  /\ book = [c \in Cells |-> NoValue]
  /\ entries = 0 /\ calculation = NoValue /\ readiness = NoValue

\* A person types a value or a formula; the node is what parseFormula() makes of it.
EnterCell(c, content) ==
  /\ calculation = NoValue /\ entries < MaxEdits
  /\ book' = [book EXCEPT ![c] = content] /\ entries' = entries + 1
  /\ UNCHANGED <<calculation, readiness>>

-----------------------------------------------------------------------------
(* Evaluation *)

Number(n) == [kind |-> "number", value |-> n]
Error(e) == [kind |-> "error", value |-> e]
Empty == [kind |-> "empty", value |-> 0]

\* A quotient at the minor unit, halves away from zero.
RoundMinorUnit(n, d) ==
  LET size == (2 * (IF n < 0 THEN -n ELSE n) + (IF d < 0 THEN -d ELSE d))
                \div (2 * (IF d < 0 THEN -d ELSE d))
  IN IF (n < 0) = (d < 0) THEN size ELSE -size

\* Columns are compared as the strings they are written with.
ColumnAtMost(s, t) ==
  \/ IsPrefix(s, t)
  \/ \E i \in DOMAIN s \cap DOMAIN t : s[i] < t[i] /\ \A k \in 1..i - 1 : s[k] = t[k]

InRange(first, last) ==
  {c \in Cells : /\ book[c] # NoValue
                 /\ ColumnAtMost(ColumnOf[first], ColumnOf[c])
                 /\ ColumnAtMost(ColumnOf[c], ColumnOf[last])}

\* The cells a node is applied to, each at its place among the operands.
Operands(node) ==
  IF node.op = "RANGE" THEN [c \in InRange(node.args[1], node.args[2]) |-> c] ELSE node.args

\* Every operand is evaluated; the first error is the error of the whole.
Apply(node, values) ==
  LET failures == {i \in DOMAIN values : values[i].kind = "error"}
      numbers == {i \in DOMAIN values : values[i].kind = "number"}
      total == FoldFunctionOnSet(LAMBDA v, n : v.value + n, 0, values, numbers)
  IN CASE node.op = "number" -> Number(node.n)
       [] node.op = "external" -> Error("#EXTERNAL!")
       [] node.op = "unsupported" -> Error("#UNSUPPORTED!")
       [] node.op = "ref" -> values[1]
       [] node.op \notin {"number", "external", "unsupported", "ref"} /\ failures # {} -> values[Min(failures)]
       [] node.op = "/" /\ failures = {} ->
            IF values[2].value = 0 THEN Error("#DIV/0!")
            ELSE Number(RoundMinorUnit(values[1].value, values[2].value))
       [] node.op \in {"+", "SUM", "RANGE"} /\ failures = {} -> Number(total)
       [] node.op = "COUNT" /\ failures = {} -> Number(Cardinality(numbers))
       [] node.op = "MAX" /\ failures = {} ->
            Number(IF numbers = {} THEN 0 ELSE Max({values[i].value : i \in numbers}))

Evaluate(node, cellValue) ==
  Apply(node, [i \in DOMAIN Operands(node) |-> cellValue[Operands(node)[i]]])

\* A cell that is being evaluated already, read as an empty one.
CycleIsEmpty(over) ==
  LET value[visiting \in SUBSET Cells] ==
        [c \in Cells |->
           CASE c \in DOMAIN over -> Number(over[c])
             [] c \notin DOMAIN over /\ (c \in visiting \/ book[c] = NoValue) -> Empty
             [] c \notin DOMAIN over \cup visiting /\ book[c] # NoValue ->
                  Evaluate(book[c].node, value[visiting \cup {c}])]
  IN value

\* cellValue() of each cell, by the cells that are being evaluated already: an
\* override first, then one of them.
CellValue(over) ==
  LET value[visiting \in SUBSET Cells] ==
        [c \in Cells |->
           CASE c \in DOMAIN over -> Number(over[c])
             [] c \notin DOMAIN over /\ c \in visiting -> Error("#CYCLE!")
             [] c \notin DOMAIN over \cup visiting ->
                  IF book[c] = NoValue THEN Empty
                  ELSE Evaluate(book[c].node, value[visiting \cup {c}])]
  IN value

\* The cells whose formulas a target's evaluation comes to, the target included:
\* past a cell, what its operands come to, but those seen and those put over.
Follow(c, seen, over, comesTo) ==
  IF book[c] = NoValue THEN {}
  ELSE {c} \cup UNION {comesTo[d] : d \in Range(Operands(book[c].node)) \ (seen \cup {c} \cup DOMAIN over)}

Trail(t, over) ==
  LET trail[seen \in SUBSET Cells] ==
        [c \in Cells |-> Follow(c, seen, over, trail[seen \cup {c}])]
  IN trail[{}][t]

-----------------------------------------------------------------------------
(* calculate() and numericReadiness() *)

\* A formula that is asked for is evaluated itself, whatever is put over its cell.
Target(t, over) ==
  CASE book[t] = NoValue -> NoValue
    [] book[t] # NoValue -> IF book[t].node.op = "number" THEN CellValue(over)[{}][t]
                           ELSE Evaluate(book[t].node, CellValue(over)[{}])

StatusOf(value) ==
  CASE value = NoValue -> "CACHED_ONLY"
    [] value = Error("#EXTERNAL!") -> "EXTERNAL_DEPENDENCY"
    [] value = Error("#UNSUPPORTED!") -> "UNSUPPORTED"
    [] value = Error("#CYCLE!") -> "CYCLE"
    [] OTHER -> "COMPUTED"

CachedOf(t) == IF book[t] = NoValue THEN NoValue ELSE book[t].cached

\* "yes" and "no" only between two numbers, "unknown" otherwise.
Matches(t, value) ==
  IF CachedOf(t) = NoValue \/ value = NoValue \/ value.kind # "number" THEN "unknown"
  ELSE IF CachedOf(t) = value.value THEN "yes" ELSE "no"

Depends(targets, over, op) ==
  \E t \in targets : \E c \in Trail(t, over) : book[c].node.op = op

\* A target that is not in the file is none of them.
WhyNot(targets, over) ==
  {op \in {"external", "unsupported"} : Depends(targets, over, op)}
    \cup {s \in {"CYCLE"} : \E t \in targets : StatusOf(Target(t, over)) = s}

Outcome(targets, over) ==
  [engine |-> TRUE, over |-> over,
   cells |-> [t \in targets |-> [value |-> Target(t, over), cached |-> CachedOf(t),
                                 status |-> StatusOf(Target(t, over)),
                                 matches |-> Matches(t, Target(t, over))]],
   reasons |-> WhyNot(targets, over),
   verified |-> /\ WhyNot(targets, over) = {}
                /\ \A t \in targets : StatusOf(Target(t, over)) = "COMPUTED"]

Calculate(targets, over) ==
  /\ calculation = NoValue /\ calculation' = Outcome(targets, over)
  /\ UNCHANGED <<book, entries, readiness>>

\* Without an engine every target is unresolved.
CalculateWithoutEngine(targets) ==
  /\ calculation = NoValue
  /\ calculation' =
       [engine |-> FALSE, over |-> <<>>, verified |-> FALSE, reasons |-> {"NO_CALCULATION_ENGINE_AVAILABLE"},
        cells |-> [t \in targets |-> [value |-> NoValue, cached |-> NoValue,
                                      status |-> "NO_ENGINE", matches |-> "unknown"]]]
  /\ UNCHANGED <<book, entries, readiness>>

StaleTargets == {t \in DOMAIN calculation.cells : calculation.cells[t].matches = "no"}

\* An unverified calculation counts by the reasons it gives, and one may give none.
NumericReady(declared) ==
  /\ declared # "NOT_APPLICABLE"
  /\ calculation # NoValue /\ calculation.engine
  /\ ~calculation.verified => calculation.reasons = {} /\ declared # "VERIFIED"
  /\ StaleTargets = {}

CalculationStatus ==
  IF calculation # NoValue /\ calculation.verified THEN "VERIFIED" ELSE "UNVERIFIED"

\* A request that does not depend on numbers has to say so, and is ready.
Judge(dependsOnNumbers, declared) ==
  /\ readiness = NoValue
  /\ readiness' = [numeric |-> dependsOnNumbers,
                   status |-> IF dependsOnNumbers THEN CalculationStatus ELSE "NOT_APPLICABLE",
                   ready |-> IF dependsOnNumbers THEN NumericReady(declared)
                             ELSE declared = "NOT_APPLICABLE"]
  /\ UNCHANGED <<book, entries, calculation>>

WorkbookNext ==
  \/ \E c \in Cells, content \in Contents : EnterCell(c, content)
  \/ \E targets \in (SUBSET Cells) \ {{}} :
       CalculateWithoutEngine(targets) \/ \E over \in Overrides : Calculate(targets, over)
  \/ \E numeric \in BOOLEAN, declared \in {"VERIFIED", "UNVERIFIED", "NOT_APPLICABLE"} :
       Judge(numeric, declared)

WorkbookSpec == WorkbookInit /\ [][WorkbookNext]_workbookVars

-----------------------------------------------------------------------------
(* Properties *)

WorkbookTypeOK ==
  /\ \A c \in Cells : book[c] = NoValue \/ book[c] \in Contents
  /\ entries \in 0..MaxEdits
  /\ calculation # NoValue => /\ DOMAIN calculation.cells \subseteq Cells
                             /\ calculation.engine \in BOOLEAN /\ calculation.verified \in BOOLEAN
  /\ readiness # NoValue =>
       readiness.ready \in BOOLEAN /\ readiness.status \in {"VERIFIED", "UNVERIFIED", "NOT_APPLICABLE"}

\* What the workbook means, without an order of evaluation: a cell has a value
\* once all it refers to have one.  A range is of the columns whose names are
\* between, as the code takes it.
\* The values that are known when those of some cells are.
NextStage(known) ==
  [c \in DOMAIN known \cup {d \in Cells \ DOMAIN known :
                             Range(Operands(book[d].node)) \subseteq DOMAIN known} |->
     IF c \in DOMAIN known THEN known[c]
     ELSE Evaluate(book[c].node, known)]

Meaning(over) ==
  LET stage[n \in 0..Cardinality(Cells) + 1] ==
        IF n = 0
        THEN [c \in {d \in Cells : d \in DOMAIN over \/ book[d] = NoValue} |->
                IF c \in DOMAIN over THEN Number(over[c]) ELSE Empty]
        ELSE NextStage(stage[n - 1])
  IN stage

ReadyNumbers == readiness # NoValue /\ readiness.ready /\ readiness.numeric

\* A numeric result that is called ready was recalculated: each number it gives
\* is the one the workbook means, the number in the file is that number, and no cell
\* it comes from is external or unsupported or waits for itself.  A target that is
\* not in the file leaves the status UNVERIFIED (calc.ts:187, 215, 411).
ReadyIsRecalculated ==
  ReadyNumbers =>
    \A t \in DOMAIN calculation.cells \ DOMAIN calculation.over :
      LET cell == calculation.cells[t]
          meant == Meaning(calculation.over)[Cardinality(Cells) + 1]
      IN /\ IF cell.value = NoValue
            THEN readiness.status = "UNVERIFIED"
            ELSE cell.value.kind = "number" => /\ t \in DOMAIN meant /\ cell.value = meant[t]
                                               /\ cell.cached \in {NoValue, cell.value.value}
         /\ \A c \in Trail(t, calculation.over) :
              book[c].node.op \notin {"external", "unsupported"}

\* What could not be calculated does not pass (calc.ts:195, 407-410).  A target that
\* is not in the file makes the outcome UNVERIFIED and gives no reason, so a result
\* declared UNVERIFIED is ready.
ReadyIsComputed ==
  ReadyNumbers => \A t \in DOMAIN calculation.cells : calculation.cells[t].value # NoValue

\* A range A:B holds the columns from A to B (calc.ts:243).  The names are compared
\* as text, and AA is between A and B.
ColumnIndex(s) == FoldLeft(LAMBDA n, letter : n * 26 + letter, 0, s)

RangesAreColumns ==
  \A first, last \in Cells : \A c \in InRange(first, last) :
    ColumnIndex(ColumnOf[first]) <= ColumnIndex(ColumnOf[c]) /\ ColumnIndex(ColumnOf[c]) <= ColumnIndex(ColumnOf[last])
=============================================================================
