SPECIFICATION EditingSpec
CONSTANTS
  Originals <- MCOriginals
  Blank = ""
  Rules = {"figures"}
  ValuesIn <- MCValuesIn
  DocxEdits <- MCDocxEdits
  Sections = {}
  Projects = {p1}
  Pdfs <- MCPdfs
  MaxOutputs = 1
  NoDocument = NoDocument
INVARIANTS
  NothingChangesQuietly
