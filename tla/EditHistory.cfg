\* Two rows, three edits, a history of two steps, edits and replays under way at once.
CONSTANTS
  Row = {r1, r2}
  Value = {v1, v2}
  Builder <- HistoryBuilders
  Depth = 2
  MaxEdits = 3
VIEW HistoryView
SYMMETRY HistorySymmetry
SPECIFICATION HistorySpec
INVARIANT OnOneStack
INVARIANT SetAsideIsExcused
INVARIANT RangeRunsChosen
INVARIANT BothWithinDepth
PROPERTY ReplayOverwritesNobody
CHECK_DEADLOCK FALSE
