------------------------------ MODULE History ------------------------------
(***************************************************************************)
(* Undo history, the gestures that coalesce into it, the transactions      *)
(* around it and the background saves that mark its revisions as saved.    *)
(*                                                                         *)
(* The main thread edits, undoes and starts saves; each save is written by *)
(* a worker thread that waits for its predecessor, and its outcome is      *)
(* applied when the main thread polls.                                     *)
(*                                                                         *)
(* The document is one device: a value per parameter.  A patch is a pair   *)
(* of snapshots of it, as DeviceValuesPatch is; the composite of several   *)
(* patches goes from the first one's before to the last one's after.       *)
(***************************************************************************)
EXTENDS Integers, Sequences, SequencesExt

CONSTANTS
    Params,        \* the parameters of the device
    Values,        \* what a parameter may be set to
    BlankValue,    \* every parameter of a new project
    SliceParams,   \* parameters dragged by a sampler slice gesture
    Files,         \* project names
    MaxEntries,    \* HistoryBudget.max_entries
    MaxRevision,   \* bound on next_revision
    MaxSaves,      \* bound on the saves started
    MaxGeneration, \* bound on the projects opened
    None

ASSUME ValuesAssumption  == BlankValue \in Values /\ SliceParams \subseteq Params
ASSUME BudgetAssumption  == MaxEntries \in Nat \ {0}
ASSUME BoundsAssumption  == MaxRevision \in Nat /\ MaxSaves \in Nat /\ MaxGeneration \in Nat
ASSUME NoneAssumption ==
    LET documents == [Params -> Values]
    IN None \notin Params \cup Files \cup Nat \cup documents
                   \cup [before : documents, after : documents]

VARIABLES
    doc,       \* the live document
    history,   \* App.history: UndoManager
    name,      \* current_project_name
    disk,      \* the project files
    queue,     \* the save workers that have not written yet, oldest first
    outcomes,  \* the channel the workers report to
    saves,     \* ProjectSaves: in_flight and pending
    txn,       \* the authoring transaction being drained: its checkpoint
    fits       \* whether the history still describes the document (ghost)

save_vars == <<disk, queue, outcomes, saves>>
vars == <<doc, history, name, save_vars, txn, fits>>

-----------------------------------------------------------------------------
(* UndoManager                                                             *)

Documents == [Params -> Values]
Blank     == [p \in Params |-> BlankValue]

Patch(before, after) == [before |-> before, after |-> after]

NewHistory(generation) ==
    [undo |-> <<>>, redo |-> <<>>, current |-> 0, next |-> 1, saved |-> None,
     generation |-> generation, gesture |-> None, pending |-> None]

\* The oldest entry goes first: the front of undo, then the top of redo.  The
\* entry of the protected revision stays, and with it everything newer.
EnforceBudget(h, protected) ==
    LET all == h.undo \o Reverse(h.redo)
        drop == CHOOSE n \in 0..Len(all) :
            /\ Len(all) - n <= MaxEntries \/ all[n + 1].after = protected
            /\ \A m \in 0..(n - 1) : Len(all) - m > MaxEntries /\ all[m + 1].after # protected
        fromUndo == IF drop <= Len(h.undo) THEN drop ELSE Len(h.undo)
    IN [h EXCEPT !.undo = SubSeq(@, fromUndo + 1, Len(@)),
                 !.redo = SubSeq(@, 1, Len(@) - (drop - fromUndo))]

Commit(h, patch) ==
    EnforceBudget(
        [h EXCEPT !.undo = Append(@, [revision |-> h.current, after |-> h.next, patch |-> patch]),
                  !.redo = <<>>, !.current = h.next, !.next = @ + 1],
        h.next)

FinishGesture(h) ==
    LET closed == [h EXCEPT !.gesture = None, !.pending = None]
    IN IF h.pending = None THEN closed ELSE Commit(closed, h.pending)

Barrier(h) ==
    [h EXCEPT !.undo = <<>>, !.redo = <<>>, !.current = h.next, !.next = @ + 1,
              !.gesture = None, !.pending = None]

UndoEntry(h) ==
    LET e == Last(h.undo)
    IN [h EXCEPT !.undo = Front(@), !.redo = Append(@, e), !.current = e.revision]

RedoEntry(h) ==
    LET e == Last(h.redo)
    IN [h EXCEPT !.redo = Front(@), !.undo = Append(@, e), !.current = e.after]

\* insert_undo_entry_before: the inserted entry takes the revision its successor
\* started from, and a fresh one becomes the boundary between them.
InsertBefore(h, i, patch) ==
    LET below == [revision |-> h.undo[i].revision, after |-> h.next, patch |-> patch]
        above == [h.undo EXCEPT ![i].revision = h.next]
    IN EnforceBudget([h EXCEPT !.undo = InsertAt(above, i, below), !.next = @ + 1], h.current)

SquashRecent(h, count) ==
    LET first == Len(h.undo) - count + 1
        inner == {h.undo[i].after : i \in first..(Len(h.undo) - 1)}
        entry == [revision |-> h.undo[first].revision, after |-> Last(h.undo).after,
                  patch |-> Patch(h.undo[first].patch.before, Last(h.undo).patch.after)]
    IN EnforceBudget(
           [h EXCEPT !.saved = IF @ \in inner \ {entry.revision} THEN None ELSE @,
                     !.undo = Append(SubSeq(@, 1, first - 1), entry)],
           entry.after)

Mark(h) == [generation |-> h.generation, revision |-> h.current]

IsAt(h, mark) == h.pending = None /\ mark = Mark(h)

HasUnsavedChanges(h, pending) ==
    /\ ~(h.pending = None /\ h.saved = h.current)
    /\ ~(pending # None /\ IsAt(h, pending.mark))
    /\ ~(h.saved = None /\ h.current = 0)

-----------------------------------------------------------------------------
Init ==
    /\ doc = Blank
    /\ history = NewHistory(0)
    /\ name = None
    /\ disk = [f \in Files |-> None]
    /\ queue = <<>> /\ outcomes = <<>>
    /\ saves = [inFlight |-> 0, pending |-> None, started |-> 0]
    /\ txn = None
    /\ fits = TRUE

Room(h) == h.next + 2 <= MaxRevision

(* Edits                                                                   *)

\* A recorded command ends the gesture and commits an entry of its own.
Edit(p, v) ==
    /\ doc[p] # v /\ Room(history)
    /\ doc' = [doc EXCEPT ![p] = v]
    /\ history' = Commit(FinishGesture(history), Patch(doc, doc'))
    /\ UNCHANGED <<name, save_vars, txn, fits>>

\* A frame of a drag stages one entry that starts where the drag did.  A frame
\* that is back where it started discards the entry and the gesture.
Drag(p, v) ==
    LET mine == history.gesture = p
        start == IF mine /\ history.pending # None THEN history.pending.before ELSE doc
        opened == IF mine THEN history ELSE [FinishGesture(history) EXCEPT !.gesture = p]
    IN /\ doc[p] # v /\ Room(history) /\ txn = None
       /\ doc' = [doc EXCEPT ![p] = v]
       /\ history' = IF doc' = start /\ mine /\ history.pending # None
                     THEN [history EXCEPT !.gesture = None, !.pending = None]
                     ELSE [opened EXCEPT !.pending = Patch(start, doc')]
       /\ UNCHANGED <<name, save_vars, txn, fits>>

\* The pointer is released, or the gesture was idle for 250 ms.
FinishActiveGesture ==
    /\ history.gesture # None /\ txn = None
    /\ history' = FinishGesture(history)
    /\ UNCHANGED <<doc, name, save_vars, txn, fits>>

CancelActiveGesture ==
    /\ history.gesture # None /\ txn = None
    /\ doc' = IF history.pending = None THEN doc ELSE history.pending.before
    /\ history' = [history EXCEPT !.gesture = None, !.pending = None]
    /\ UNCHANGED <<name, save_vars, txn, fits>>

\* rebase_edit: the edit's value where the edit moved the parameter, base's
\* elsewhere; none when the drag moved that parameter too.
Conflicts(base, from, to) == \E p \in Params : from[p] # to[p] /\ base[p] # from[p]
Rebase(base, from, to) == [p \in Params |-> IF from[p] = to[p] THEN base[p] ELSE to[p]]

\* (mutant of RebaseDragBeside: the drag resumes as it was)
RebaseNothing(h, suspended, i) ==
    [h EXCEPT !.gesture = suspended.gesture, !.pending = suspended.pending]

\* The drag's entry and the edit that landed beside it, once both are whole
\* snapshots of the device: the edit goes below the drag, or splits it.
RebaseDragBeside(h, suspended, i) ==
    LET drag == suspended.pending
        edit == h.undo[i].patch
        under == Rebase(drag.before, edit.before, edit.after)
    IN IF drag = None
       THEN [h EXCEPT !.gesture = suspended.gesture]
       ELSE IF Conflicts(drag.before, edit.before, edit.after)
       THEN [InsertBefore(h, i, drag) EXCEPT
                !.gesture = IF suspended.gesture \in SliceParams THEN None ELSE suspended.gesture]
       ELSE [h EXCEPT !.undo[i].patch = Patch(drag.before, under),
                      !.gesture = suspended.gesture,
                      !.pending = Patch(under, edit.after)]

\* apply_beside_gesture: a script's edit of the device while the user drags.
EditBeside(p, v) ==
    LET suspended == [gesture |-> history.gesture, pending |-> history.pending]
        own == Commit([history EXCEPT !.gesture = None, !.pending = None], Patch(doc, doc'))
    IN /\ doc[p] # v /\ Room(history) /\ history.gesture # None
       /\ doc' = [doc EXCEPT ![p] = v]
       /\ history' = RebaseDragBeside(own, suspended, Len(own.undo))
       /\ UNCHANGED <<name, save_vars, txn, fits>>

\* A command with no patch: everything before it can no longer be undone.
BarrierEdit(p, v) ==
    /\ doc[p] # v /\ Room(history)
    /\ doc' = [doc EXCEPT ![p] = v]
    /\ history' = Barrier(history)
    /\ UNCHANGED <<name, save_vars, txn, fits>>

-----------------------------------------------------------------------------
(* Undo and redo; a replay that fails changes neither document nor stacks  *)

Undo ==
    LET h == FinishGesture(history)
    IN /\ txn = None
       /\ \/ /\ h.undo # <<>>
             /\ doc' = Last(h.undo).patch.before
             /\ history' = UndoEntry(h)
          \/ /\ history' = h /\ UNCHANGED doc
       /\ UNCHANGED <<name, save_vars, txn, fits>>

Redo ==
    LET h == FinishGesture(history)
    IN /\ txn = None
       /\ \/ /\ h.redo # <<>>
             /\ doc' = Last(h.redo).patch.after
             /\ history' = RedoEntry(h)
          \/ /\ history' = h /\ UNCHANGED doc
       /\ UNCHANGED <<name, save_vars, txn, fits>>

-----------------------------------------------------------------------------
(* Authoring transactions: a script's commands between two markers, or the *)
(* actions of an agent's request.  They are drained in one pass.           *)

TransactionBegin ==
    /\ txn = None
    /\ txn' = [checkpoint |-> history, doc |-> doc]
    /\ UNCHANGED <<doc, history, name, save_vars, fits>>

\* (mutant of TargetLength: off by one)
TargetAbove(checkpoint) == Len(checkpoint.undo) + 1

TargetLength(checkpoint) == Len(checkpoint.undo)

\* squash_history_since
TransactionSucceeds ==
    LET h == FinishGesture(history)
        count == Len(h.undo) - TargetLength(txn.checkpoint)
    IN /\ txn # None
       /\ history' = IF count < 2 THEN h ELSE SquashRecent(h, count)
       /\ txn' = None
       /\ UNCHANGED <<doc, name, save_vars, fits>>

\* rollback_history_to undoes down to the checkpoint's length, then restores the
\* checkpoint itself.  An undo that fails ends the rollback where it stands.
TransactionFails ==
    LET h == FinishGesture(history)
        target == TargetLength(txn.checkpoint)
        UndoneTo(n) == IF n < Len(h.undo) THEN h.undo[n + 1].patch.before ELSE doc
    IN /\ txn # None
       /\ \/ /\ doc' = UndoneTo(target)
             /\ history' = txn.checkpoint
             /\ fits' = (fits /\ doc' = txn.doc)
          \/ \E n \in (target + 1)..Len(h.undo) :
             /\ doc' = UndoneTo(n)
             /\ history' = [h EXCEPT
                    !.undo = SubSeq(@, 1, n),
                    !.redo = @ \o Reverse(SubSeq(h.undo, n + 1, Len(h.undo))),
                    !.current = h.undo[n].after]
             /\ UNCHANGED fits
       /\ txn' = None
       /\ UNCHANGED <<name, save_vars>>

-----------------------------------------------------------------------------
(* Background saves                                                        *)

\* A save with no name of its own keeps the one a save under way gives the
\* project, or the one the project has.
SaveName(requested) ==
    CASE requested # None -> requested
      [] saves.pending # None /\ saves.pending.mark.generation = history.generation
             -> saves.pending.name
      [] OTHER -> name

StartSave(job) ==
    /\ saves.started < MaxSaves /\ job.name # None
    /\ queue' = Append(queue, job)
    /\ saves' = [inFlight |-> saves.inFlight + 1, started |-> saves.started + 1,
                 pending |-> [name |-> job.name, mark |-> job.mark]]
    /\ UNCHANGED <<doc, name, disk, outcomes, txn, fits>>

BeginSave(requested) ==
    /\ txn = None
    /\ history' = FinishGesture(history)
    /\ StartSave([name |-> SaveName(requested), mark |-> Mark(history'), content |-> doc])

\* The oldest worker writes beside the file and renames, or fails.
WriteFile ==
    /\ queue # <<>>
    /\ \E ok \in BOOLEAN :
        /\ disk' = IF ok THEN [disk EXCEPT ![Head(queue).name] = Head(queue).content] ELSE disk
        /\ outcomes' = Append(outcomes,
               [name |-> Head(queue).name, mark |-> Head(queue).mark, ok |-> ok])
    /\ queue' = Tail(queue)
    /\ UNCHANGED <<doc, history, name, saves, txn, fits>>

\* (mutant of MarksSaved: a save of the project closed meanwhile counts too)
MarksAnySaved(o) == o.ok

\* mark_saved_at, for a save that was written.
MarksSaved(o) == o.ok /\ o.mark.generation = history.generation

\* apply_project_save_outcomes: of this project, the last one written counts.
ApplyOutcomes ==
    LET landed == {i \in DOMAIN outcomes : MarksSaved(outcomes[i])}
        left == IF saves.inFlight > Len(outcomes) THEN saves.inFlight - Len(outcomes) ELSE 0
    IN /\ outcomes # <<>> /\ txn = None
       /\ \/ landed = {} /\ UNCHANGED <<history, name>>
          \/ \E i \in landed :
                /\ \A j \in landed : j <= i
                /\ history' = [history EXCEPT !.saved = outcomes[i].mark.revision]
                /\ name' = outcomes[i].name
       /\ saves' = [saves EXCEPT !.inFlight = left, !.pending = IF left = 0 THEN None ELSE @]
       /\ outcomes' = <<>>
       /\ UNCHANGED <<doc, disk, queue, txn, fits>>

-----------------------------------------------------------------------------
(* Opening projects                                                        *)

NewProject ==
    /\ txn = None /\ history.generation < MaxGeneration
    /\ doc' = Blank /\ name' = None
    /\ history' = NewHistory(history.generation + 1)
    /\ fits' = TRUE
    /\ UNCHANGED <<save_vars, txn>>

\* mark_saved follows the reset.  A file a worker is about to replace is not
\* opened: see the README.
OpenProject(f) ==
    /\ txn = None /\ history.generation < MaxGeneration
    /\ disk[f] # None /\ \A i \in DOMAIN queue : queue[i].name # f
    /\ doc' = disk[f] /\ name' = f
    /\ history' = [NewHistory(history.generation + 1) EXCEPT !.saved = 0]
    /\ fits' = TRUE
    /\ UNCHANGED <<save_vars, txn>>

Change(p, v) == Edit(p, v) \/ Drag(p, v) \/ EditBeside(p, v) \/ BarrierEdit(p, v)

Next ==
    \/ \E p \in Params, v \in Values : Change(p, v)
    \/ FinishActiveGesture \/ CancelActiveGesture
    \/ Undo \/ Redo
    \/ TransactionBegin \/ TransactionSucceeds \/ TransactionFails
    \/ \E f \in Files \cup {None} : BeginSave(f)
    \/ WriteFile \/ ApplyOutcomes
    \/ NewProject \/ \E f \in Files : OpenProject(f)

Spec == Init /\ [][Next]_vars

-----------------------------------------------------------------------------
(* Properties                                                              *)

Patches == [before : Documents, after : Documents]
Entries == [revision : Nat, after : Nat, patch : Patches]
Histories ==
    [undo : Seq(Entries), redo : Seq(Entries), current : Nat, next : Nat \ {0},
     saved : Nat \cup {None}, generation : Nat, gesture : Params \cup {None},
     pending : Patches \cup {None}]
Marks == [generation : Nat, revision : Nat]

\* The types of the variables.
TypeOK ==
    /\ doc \in Documents
    /\ history \in Histories
    /\ name \in Files \cup {None}
    /\ disk \in [Files -> Documents \cup {None}]
    /\ queue \in Seq([name : Files, mark : Marks, content : Documents])
    /\ outcomes \in Seq([name : Files, mark : Marks, ok : BOOLEAN])
    /\ saves \in [inFlight : Nat, started : Nat,
                  pending : [name : Files, mark : Marks] \cup {None}]
    /\ txn \in [checkpoint : Histories, doc : Documents] \cup {None}
    /\ fits \in BOOLEAN

\* Two entries next to each other meet in one revision and one document.
Meet(older, newer) ==
    /\ older.after = newer.revision
    /\ older.patch.after = newer.patch.before

\* The document without the frames of an unfinished drag.
Settled == IF history.pending = None THEN doc ELSE history.pending.before

\* The stacks are one walk through documents, and the live document is where
\* they meet: undoing walks back through what was edited, and redoing forth,
\* whatever drags, edits beside them, splits, squashes and evictions came
\* between.
HistoryDescribesDocument ==
    fits =>
        /\ \A i \in 1..(Len(history.undo) - 1) : Meet(history.undo[i], history.undo[i + 1])
        /\ \A i \in 1..(Len(history.redo) - 1) : Meet(history.redo[i + 1], history.redo[i])
        /\ history.undo # <<>> =>
               /\ Last(history.undo).after = history.current
               /\ Last(history.undo).patch.after = Settled
        /\ history.redo # <<>> =>
               /\ Last(history.redo).revision = history.current
               /\ Last(history.redo).patch.before = Settled
        /\ history.pending # None => history.pending.after = doc

Unsaved == HasUnsavedChanges(history, saves.pending)

\* With every save landed, a project the program takes for saved is on disk as
\* it is open, and one it takes for never edited is blank.  The exception is
\* the first drag of a new project, which counts only once it has ended.
CleanMeansNothingToLose ==
    fits /\ saves.inFlight = 0 /\ ~Unsaved /\ (history.saved = None => history.pending = None)
        => doc = IF history.saved = None THEN Blank ELSE disk[name]

\* While the newest save is under way the project may count as saved: that save
\* is then writing, or has written or failed to write, this very document.
BeingSavedIsThisDocument ==
    fits /\ saves.pending # None /\ IsAt(history, saves.pending.mark)
        => IF queue # <<>>
           THEN Last(queue).content = doc /\ Last(queue).name = saves.pending.name
           ELSE Last(outcomes).ok => disk[saves.pending.name] = doc

\* A project taken for saved is on disk, or its own save is on the way there.
CleanMeansSaved == CleanMeansNothingToLose /\ BeingSavedIsThisDocument

\* The entries of the transaction, and no others, lie above its checkpoint: none
\* of those below was evicted and no barrier cleared them.
Reachable(h, checkpoint) ==
    LET n == Len(checkpoint.undo)
    IN /\ IsPrefix(checkpoint.undo, h.undo)
       /\ checkpoint.current = IF n = Len(h.undo) THEN h.current ELSE h.undo[n + 1].revision

Undisturbed ==
    /\ txn # None /\ txn.checkpoint.pending = None
    /\ Reachable(FinishGesture(history), txn.checkpoint)

\* rollback_history_to: a failed transaction leaves the document and the history
\* it began with, unless an undo fails in the middle.
RolledBack == TransactionFails /\ history' = txn.checkpoint
RollbackRestores == [][RolledBack /\ Undisturbed => doc' = txn.doc]_vars

\* failed_authoring_request_rolls_back_and_preserves_prior_history says so of
\* every failed request.  With a drag still open at the beginning the rollback
\* undoes the drag too, and restores a history in which it is still open; with
\* the undo stack at its limit the rollback undoes nothing.  So no run checks
\* this: the code does not do it.
RollbackAlwaysRestores == [][RolledBack => doc' = txn.doc]_vars

\* squash_history_since: a successful transaction is one undo, back to the
\* document it began with.
SquashedIntoOne ==
    \/ history'.undo = txn.checkpoint.undo /\ doc = txn.doc
    \/ /\ Len(history'.undo) = Len(txn.checkpoint.undo) + 1
       /\ Last(history'.undo).patch = Patch(txn.doc, doc)
TransactionIsOneEntry == [][TransactionSucceeds /\ Undisturbed => SquashedIntoOne]_vars

\* An authoring transaction is all or nothing, for the document and for undo.
TransactionIsAtomic == RollbackRestores /\ TransactionIsOneEntry
=============================================================================
