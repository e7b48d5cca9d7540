CONSTANTS
  Texts <- MCTexts
  Quality <- MCQuality
  Names <- MCNames
  First <- MCFirst
  Layouts <- MCLayouts
  Requests <- MCRequests
  Parts <- MCParts
  None = None
  Torn = Torn
  Foreign = Foreign
  MaxNumber = 2
  MaxFaults = 1
SPECIFICATION Spec
INVARIANTS RecordedConfigIsTheBuilt
