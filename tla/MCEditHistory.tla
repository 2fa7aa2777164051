---------------------------- MODULE MCEditHistory ----------------------------
(* Instances of EditHistory for TLC.                                       *)
EXTENDS EditHistory, TLC

\* Neither rows nor values are told apart.
HistorySymmetry == Permutations(Row) \cup Permutations(Value)

\* A command about one row names what it writes (a lane, a lag); one about all
\* of them writes those that differ (a definition).
HistoryBuilders ==
  {[rows |-> {r}, fixed |-> TRUE] : r \in Row} \cup {[rows |-> Row, fixed |-> FALSE]}

\* States that differ in what the rest of the behaviour does not look at are
\* one: no action reads foreign or the steps of a range, beyond their number;
\* a property does until an edit has overlapped a replay.  A crossed step that
\* is on no stack and in no replay is not met again.
HistoryView ==
  <<value, moved, sent, undo, redo, window, replay, edits, range.dir,
    Len(range.steps),
    {id \in crossed : \E c \in {undo[i] : i \in DOMAIN undo}
                               \cup {redo[i] : i \in DOMAIN redo}
                               \cup (IF Running THEN {replay.step} ELSE {}) : c.id = id},
    IF overlap THEN <<>> ELSE <<foreign, range.steps>>>>
=============================================================================
