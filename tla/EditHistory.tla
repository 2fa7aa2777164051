----------------------------- MODULE EditHistory -----------------------------
(***************************************************************************)
(* Undo and redo of a plan's edits in one page (use-plan-edit-history,     *)
(* use-plan-undo-redo), against the rows on the server and everybody else  *)
(* who writes them.                                                        *)
(*                                                                         *)
(* An edit is a request; when its answer comes, a step that spans the rows *)
(* before and after is pushed on the undo stack.  A replay reads the rows  *)
(* afresh, compares what the step wrote with what it left there, writes    *)
(* the other side at the versions just read, and only when that has been   *)
(* answered moves the step across.  All of these interleave: requests are  *)
(* awaited, and the stacks are what they are when the answer comes.        *)
(*                                                                         *)
(* A row stands for one field of one activity or link; a deleted row is    *)
(* one of the values, and a step that deletes or creates one that writes a *)
(* value too.  Versions are only compared for equality with those a replay *)
(* read, so what is kept of them is which have moved since.  Any row may   *)
(* be written by somebody else at any time, whoever has the pen: that      *)
(* covers the pen's passing, and the histories of other pages.             *)
(***************************************************************************)
EXTENDS Integers, Sequences

CONSTANTS
  Row,         \* fields of the plan's rows
  Value,       \* what one may hold
  Builder,     \* the commands there are: the rows of one, whether it is fixed
  Depth,       \* MAX_HISTORY_DEPTH
  MaxEdits     \* bound on the edits of the page (model checking only)

ASSUME HistoryAssumption ==
  /\ Builder \subseteq [rows: (SUBSET Row) \ {{}}, fixed: BOOLEAN]
  /\ Depth \in Nat \ {0}
  /\ MaxEdits \in Nat

VARIABLES
  value,    \* the server's rows
  moved,    \* rows whose version has moved since the replay in flight read it
  sent,     \* edits the server has made and the page has no answer to
  undo,     \* undoStackRef, the next to be undone last
  redo,     \* redoStackRef, the next to be redone last
  window,   \* may the next edit be merged into the top step (lastRecordAtRef)
  replay,   \* the replay in flight (runningRef)
  range,    \* the steps an "undo to here" has still to run, the next first
  edits,    \* edits made so far, which number the steps
  foreign,  \* rows changed by what neither stack accounts for (a witness)
  overlap,  \* history: have an edit and a replay ever been under way at once?
  crossed   \* history: the steps (their ids) that an edit was recorded above
            \* while they were being undone

server == <<value, moved>>
stacks == <<undo, redo, window>>
witnesses == <<foreign, overlap, crossed>>
historyVars ==
  <<value, moved, sent, undo, redo, window, replay, range, edits, foreign, overlap, crossed>>

Direction == {"undo", "redo"}

\* A command: the rows it is about, before and after, and whether its builder
\* names the fields it writes (a lane, a placement, a lag) or takes those that
\* differ (a definition).
Rows(c) == DOMAIN c.before
Step == UNION {[id: 1..MaxEdits, before: [R -> Value], after: [R -> Value],
                fixed: BOOLEAN] : R \in SUBSET Row}

\* A replay awaits the fresh read, the write, or hears what it came to.
\* Refused is that the rows have changed; barred that others stand in the way.
Outcome == {"applied", "refused", "barred", "failed"}
NoReplay == [at |-> "idle"]
Replay == [at: {"check", "write"} \cup Outcome, dir: Direction, step: Step]

NoRange == [dir |-> "undo", steps |-> <<>>]

HistoryTypeOK ==
  /\ value \in [Row -> Value] /\ moved \subseteq Row
  /\ sent \subseteq Step
  /\ undo \in Seq(Step) /\ redo \in Seq(Step)
  /\ window \in BOOLEAN
  /\ replay \in Replay \cup {NoReplay}
  /\ range \in [dir: Direction, steps: Seq(Step)]
  /\ edits \in 0..MaxEdits
  /\ foreign \subseteq Row /\ overlap \in BOOLEAN /\ crossed \subseteq 1..MaxEdits

HistoryInit ==
  /\ value \in [Row -> Value] /\ moved = {}
  /\ sent = {}
  /\ undo = <<>> /\ redo = <<>> /\ window = FALSE
  /\ replay = NoReplay /\ range = NoRange
  /\ edits = 0
  /\ foreign = {} /\ overlap = FALSE /\ crossed = {}

-----------------------------------------------------------------------------
(* Stacks and steps.                                                       *)

Top(stack) == stack[Len(stack)]
Popped(stack) == SubSeq(stack, 1, Len(stack) - 1)

\* Mutant of Pushed: nothing falls off the bottom.
PushedUnbounded(stack, c) == Append(stack, c)

Pushed(stack, c) ==
  IF Len(stack) < Depth THEN Append(stack, c) ELSE Append(Tail(stack), c)

StackOf(dir) == IF dir = "undo" THEN undo ELSE redo

\* Mutant of Merged: the newer step's own pre-edit state is kept.
MergedShort(previous, c) == c

\* coalescing.merge: the first pre-edit and the latest post-edit state.
Merged(previous, c) == [c EXCEPT !.before = previous.before]

\* The fields a step wrote.  One that takes those that differ may have none:
\* merged, it ends where it began.
Written(c) == {r \in Rows(c) : c.fixed \/ c.before[r] # c.after[r]}

\* What a replay expects to find, and what it writes.
Expected(dir, c) == IF dir = "undo" THEN c.after ELSE c.before
Target(dir, c) == IF dir = "undo" THEN c.before ELSE c.after

Running == replay.at # "idle"
Quiet == ~Running /\ range.steps = <<>>
Undoing == Running /\ replay.dir = "undo"

\* What the rows hold once some of them have been written.
Saved(rows, to) == [r \in Row |-> IF r \in rows THEN to[r] ELSE value[r]]

\* A write that is not a replay's; a replay about to write has read versions.
Save(rows, to) ==
  /\ value' = Saved(rows, to)
  /\ moved' = IF replay.at = "write" THEN moved \cup rows ELSE {}

-----------------------------------------------------------------------------
(* Edits.                                                                  *)

\* The page writes some rows.  It knows their versions, so none of them has an
\* edit that is not answered.
Edit(to, fixed) ==
  /\ edits < MaxEdits
  /\ fixed \/ \A r \in DOMAIN to : to[r] # value[r]
  /\ \A c \in sent : Rows(c) \cap DOMAIN to = {}
  /\ Save(DOMAIN to, to)
  /\ edits' = edits + 1
  /\ sent' = sent \cup {[id |-> edits + 1, after |-> to, fixed |-> fixed,
                          before |-> [r \in DOMAIN to |-> value[r]]]}
  /\ overlap' = (overlap \/ ~Quiet)
  /\ UNCHANGED <<stacks, replay, range, foreign, crossed>>

\* The answer comes, and the seam records the step, replay in flight or not.
Record(c) ==
  /\ c \in sent
  /\ sent' = sent \ {c}
  /\ undo' = Pushed(undo, c)
  /\ redo' = <<>>
  /\ window' = TRUE
  /\ crossed' = IF Undoing THEN crossed \cup {replay.step.id} ELSE crossed
  /\ UNCHANGED <<server, replay, range, edits, foreign, overlap>>

\* A step with the key of the top one (its builder and what it is of), in its
\* window, folds into it.  One that has no key, or comes late, is recorded.
Coalesce(c) ==
  /\ c \in sent
  /\ window
  /\ undo # <<>> /\ Top(undo).fixed = c.fixed /\ Rows(Top(undo)) = Rows(c)
  /\ sent' = sent \ {c}
  /\ undo' = [undo EXCEPT ![Len(undo)] = Merged(@, c)]
  /\ redo' = <<>>
  /\ UNCHANGED <<server, window, replay, range, edits, witnesses>>

\* The answer is lost: the rows have changed and there is no step for it.
AnswerLost(c) ==
  /\ c \in sent
  /\ sent' = sent \ {c}
  /\ foreign' = foreign \cup Rows(c)
  /\ UNCHANGED <<server, stacks, replay, range, edits, overlap, crossed>>

\* An edit of several requests fails and takes back what it did (clearRedo).
ClearRedo ==
  /\ redo' = <<>>
  /\ overlap' = (overlap \/ ~Quiet)
  /\ UNCHANGED <<server, sent, undo, window, replay, range, edits, foreign, crossed>>

\* Somebody else writes a row, or another field of it.
OthersWrite(r, v) ==
  /\ Save({r}, [q \in {r} |-> v])
  /\ foreign' = foreign \cup {r}
  /\ UNCHANGED <<sent, stacks, replay, range, edits, overlap, crossed>>

-----------------------------------------------------------------------------
(* Replays.                                                                *)

Started(dir) ==
  replay' = [at |-> "check", dir |-> dir, step |-> Top(StackOf(dir))]

\* Mutant of Press: a press is taken while a run of several is under way.
PressInRange(dir) ==
  /\ ~Running
  /\ StackOf(dir) # <<>>
  /\ Started(dir)
  /\ overlap' = (overlap \/ sent # {})
  /\ UNCHANGED <<server, sent, stacks, range, edits, foreign, crossed>>

\* Undo or redo is pressed; nothing happens while one is in flight.
Press(dir) ==
  /\ Quiet
  /\ StackOf(dir) # <<>>
  /\ Started(dir)
  /\ overlap' = (overlap \/ sent # {})
  /\ UNCHANGED <<server, sent, stacks, range, edits, foreign, crossed>>

\* The history menu's "to here": n steps, of which the planner sees the list.
PressTo(dir, n) ==
  /\ Quiet
  /\ n \in 2..Len(StackOf(dir))
  /\ range' = [dir |-> dir,
               steps |-> [i \in 1..n |-> StackOf(dir)[Len(StackOf(dir)) + 1 - i]]]
  /\ Started(dir)
  /\ overlap' = (overlap \/ sent # {})
  /\ UNCHANGED <<server, sent, stacks, edits, foreign, crossed>>

\* The next step of a run, or its end when the stack ran out.
RunOn ==
  /\ ~Running /\ range.steps # <<>>
  /\ IF StackOf(range.dir) = <<>>
     THEN range' = NoRange /\ UNCHANGED replay
     ELSE Started(range.dir) /\ UNCHANGED range
  /\ UNCHANGED <<server, sent, stacks, edits, witnesses>>

ReplayAt(at) == replay' = [replay EXCEPT !.at = at] /\ moved' = {}

\* checkActivities on a fresh read; with no field to write there is no read.
Check ==
  LET c == replay.step
      dir == replay.dir
  IN  /\ replay.at = "check"
      /\ \/ /\ Written(c) = {}
            /\ ReplayAt("applied")
         \/ /\ Written(c) # {}
            /\ \A r \in Written(c) : value[r] = Expected(dir, c)[r]
            /\ ReplayAt("write")
         \/ /\ \E r \in Written(c) : value[r] # Expected(dir, c)[r]
            /\ ReplayAt("refused")
      /\ UNCHANGED <<value, sent, stacks, range, edits, witnesses>>

SameVersions == Written(replay.step) \cap moved = {}

\* Mutant of Write: the write is sent without the versions.
WriteUnversioned ==
  /\ replay.at = "write"
  /\ value' = Saved(Written(replay.step), Target(replay.dir, replay.step))
  /\ ReplayAt("applied")
  /\ UNCHANGED <<sent, stacks, range, edits, witnesses>>

\* The server makes the write if every row still has the version read.
Write ==
  /\ replay.at = "write"
  /\ SameVersions
  /\ value' = Saved(Written(replay.step), Target(replay.dir, replay.step))
  /\ ReplayAt("applied")
  /\ UNCHANGED <<sent, stacks, range, edits, witnesses>>

\* The 409 of a stale version reads as a step that cannot apply.
WriteStale ==
  /\ replay.at = "write"
  /\ ~SameVersions
  /\ ReplayAt("refused")
  /\ UNCHANGED <<value, sent, stacks, range, edits, witnesses>>

\* What other rows hold bars it: a link would now close a cycle or exist twice,
\* a parent is deleted, more hangs on what it would delete.
ReplayBarred ==
  /\ replay.at \in {"check", "write"}
  /\ ReplayAt("barred")
  /\ UNCHANGED <<value, sent, stacks, range, edits, witnesses>>

\* The write is made and its answer lost: to the page it has failed.
WriteLost ==
  /\ replay.at = "write"
  /\ SameVersions
  /\ value' = Saved(Written(replay.step), Target(replay.dir, replay.step))
  /\ ReplayAt("failed")
  /\ foreign' = foreign \cup Written(replay.step)
  /\ UNCHANGED <<sent, stacks, range, edits, overlap, crossed>>

\* A lost pen (423) or a failed request, before anything is written.
ReplayFails ==
  /\ replay.at \in {"check", "write"}
  /\ ReplayAt("failed")
  /\ UNCHANGED <<value, sent, stacks, range, edits, witnesses>>

-----------------------------------------------------------------------------
(* What the history makes of it, when the replay's promise settles.        *)

Settled(outcome, dir) ==
  replay.at = outcome /\ replay.dir = dir /\ replay' = NoReplay

RangeGoesOn == range' = IF range.steps = <<>> THEN range
                        ELSE [range EXCEPT !.steps = Tail(@)]

\* Mutant of UndoApplied: the step stays on the undo stack.
UndoAppliedInPlace ==
  /\ Settled("applied", "undo")
  /\ redo' = Pushed(redo, replay.step)
  /\ window' = FALSE
  /\ RangeGoesOn
  /\ UNCHANGED <<server, sent, undo, edits, witnesses>>

\* The step moves across: whatever is on top is popped, and the step pushed.
UndoApplied ==
  /\ Settled("applied", "undo")
  /\ undo' = Popped(undo)
  /\ redo' = Pushed(redo, replay.step)
  /\ window' = FALSE
  /\ RangeGoesOn
  /\ UNCHANGED <<server, sent, edits, witnesses>>

RedoApplied ==
  /\ Settled("applied", "redo")
  /\ redo' = Popped(redo)
  /\ undo' = Pushed(undo, replay.step)
  /\ window' = FALSE
  /\ RangeGoesOn
  /\ UNCHANGED <<server, sent, edits, witnesses>>

SettledAside(dir) == Settled("refused", dir) \/ Settled("barred", dir)

\* Set aside: off the stack, and the redo branch with it.  What the step wrote
\* stays, and no stack accounts for it any more.
UndoSetAside ==
  /\ SettledAside("undo")
  /\ undo' = Popped(undo)
  /\ redo' = <<>>
  /\ window' = FALSE
  /\ range' = NoRange
  /\ foreign' = foreign \cup Written(replay.step)
  /\ UNCHANGED <<server, sent, edits, overlap, crossed>>

RedoSetAside ==
  /\ SettledAside("redo")
  /\ redo' = <<>>
  /\ window' = FALSE
  /\ range' = NoRange
  /\ UNCHANGED <<server, sent, undo, edits, witnesses>>

\* A throw leaves the stacks as they are.
ReplayThrew ==
  /\ \E dir \in Direction : Settled("failed", dir)
  /\ range' = NoRange
  /\ UNCHANGED <<server, sent, stacks, edits, witnesses>>

-----------------------------------------------------------------------------

HistoryNext ==
  \/ \E b \in Builder : \E to \in [b.rows -> Value] : Edit(to, b.fixed)
  \/ \E c \in sent : Record(c) \/ Coalesce(c) \/ AnswerLost(c)
  \/ ClearRedo
  \/ \E r \in Row, v \in Value : OthersWrite(r, v)
  \/ \E dir \in Direction : Press(dir) \/ \E n \in 2..Len(StackOf(dir)) : PressTo(dir, n)
  \/ RunOn
  \/ Check \/ Write \/ WriteStale \/ ReplayBarred \/ WriteLost \/ ReplayFails
  \/ UndoApplied \/ RedoApplied \/ UndoSetAside \/ RedoSetAside \/ ReplayThrew

HistorySpec == HistoryInit /\ [][HistoryNext]_historyVars

-----------------------------------------------------------------------------
(* Properties.                                                             *)

\* The two stacks together hold no more than MAX_HISTORY_DEPTH steps, whatever
\* is recorded while a replay is in flight.
BothWithinDepth == Len(undo) + Len(redo) <= Depth

\* A replay changes no row but those its step wrote, and those only from what
\* the step left there: it overwrites nobody's later work, however the pen has
\* passed and whoever writes between its check and its write.
ReplayOverwritesNobody ==
  [][Running /\ replay' # replay =>
       \A r \in Row : value'[r] # value[r] =>
         /\ r \in Written(replay.step)
         /\ value[r] = Expected(replay.dir, replay.step)[r]]_historyVars

\* A step is on one stack, once, whatever is edited, recorded, merged, lost or
\* cleared while it is replayed: but for one above which an edit was recorded
\* while it was being undone, which stays on the undo stack in the place of
\* that edit (README, section 4).
OnOneStack ==
  /\ \A i, j \in DOMAIN undo : undo[i].id = undo[j].id => i = j \/ undo[i].id \in crossed
  /\ \A i, j \in DOMAIN redo : redo[i].id = redo[j].id => i = j \/ redo[i].id \in crossed
  /\ \A i \in DOMAIN undo, j \in DOMAIN redo :
       undo[i].id = redo[j].id => undo[i].id \in crossed

\* A step is refused for what its rows hold only if one that it wrote was
\* changed by somebody else, by a write whose answer was lost, or by a step
\* that was itself set aside: the page's own edits, merged, undone and redone
\* in any order, never refuse each other, until one overlaps a replay.
SetAsideIsExcused ==
  ~overlap /\ replay.at = "refused"
    => Written(replay.step) \cap foreign # {}

\* "Undo to here" runs the steps that were chosen, one after the other, and no
\* press comes between them, until an edit overlaps a replay.
RangeRunsChosen ==
  ~overlap /\ Running /\ range.steps # <<>> => replay.step = Head(range.steps)
=============================================================================
