SPECIFICATION Spec
CONSTANTS
  e1 = e1
  e2 = e2
  A = A
  B = B
  Ids = {A, B}
  Contents = {"contradictory", "invalid"}
  Findings <- MCFindings
  Gaps <- MCGaps
  Claims <- MCClaims
  Editors = {e1, e2}
  MaxRevision = 3
  MaxStored = 4
  MaxEdits = 3
SYMMETRY EditorAndIdSymmetry
INVARIANTS VerdictIsOfAllValidators StatusAgreesWithGate HistoryIsAChain
