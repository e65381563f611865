SPECIFICATION Spec
CONSTANTS
  None = None
  head = head
  own = own
  panel = panel
  Editors = {e1, e2}
  Ids = {head, own, panel}
  Bodies <- EditorBodies
  Patches <- EditorPatches
  Drafts <- Unsaved
  Releases <- Shipments
  First <- ReleaseOne
  MaxDepth = 2
  MaxSaves = 5
  MaxRestarts = 1
SYMMETRY Symmetry
INVARIANTS HistoryIsComplete IncludesResolve RunsAreFiltered
PROPERTY EditsSurviveRestarts
