------------------------------ MODULE RootEdit ------------------------------
(***************************************************************************)
(* The text editor (source/editor/rootedit.c).  One step is one input      *)
(* event, handled to the end as the loop of rootedit_open does.            *)
(*                                                                         *)
(* `ed' holds the file's static variables; rows, caret and status are what *)
(* the body, the text cursor and the status row show.  Buffer indices      *)
(* count from 0 as in the code: index i is buffer[i + 1].  A file is a     *)
(* sequence of code points, where Bad is a byte that is not UTF-8.         *)
(* Ghosts: original is the text loaded, dropped tells that a snapshot fell *)
(* out of the undo ring, stale that the code has not drawn what changed: a *)
(* double click moved the view, a tab replaced lines, or a file was opened *)
(* whose end is out of view.  The pixels of the highlighted selection, and *)
(* tabs inside files, are left out.                                        *)
(***************************************************************************)
EXTENDS Text, SequencesExt, FiniteSetsExt

CONSTANTS
    ROOTEDIT_MAX_CODEPOINTS, ROOTEDIT_UNDO_DEPTH,
    EDITOR_COLUMNS, BODY_ROWS,
    Files,              \* contents a file may have when it is opened
    Clips,              \* texts other programs may have left in the clipboard
    Keys,               \* code points that can be typed
    Bad, Replacement,   \* an invalid byte, and what it is read as
    Old,                \* a code point left in the array behind the text
    MaxEdits            \* bound on the snapshots taken

VARIABLES ed, file, clipboard

editVars == <<ed, file, clipboard>>

\* What a text in the editor is made of.
CodePoints ==
    (Keys \cup {"LF", " ", Replacement, Old} \cup UNION {Range(text) : text \in Files \cup Clips}) \ {Bad}

ASSUME EditAssumption ==
    /\ ROOTEDIT_MAX_CODEPOINTS \in Nat /\ ROOTEDIT_UNDO_DEPTH \in Nat \ {0}
    /\ Bad \notin Keys \cup {"LF", " ", Replacement, Old}
    /\ \A text \in Files : text \in Seq(CodePoints \cup {Bad})
    /\ \A text \in Clips : text \in Seq(CodePoints)

-----------------------------------------------------------------------------
(* Lines.                                                                  *)

LineStart(b, i) == Max({0} \cup {k \in 1 .. i : b[k] = "LF"})
LineEnd(b, i) == Min({Len(b)} \cup {k \in i .. Len(b) - 1 : b[k + 1] = "LF"})
LineNumber(b, i) == Cardinality({k \in 1 .. i : b[k] = "LF"})
LineStartByNumber(b, line) ==
    IF line = 0 THEN 0
    ELSE Min({Len(b)} \cup {k \in 1 .. Len(b) : b[k] = "LF" /\ LineNumber(b, k) = line})

Width(text) == FoldLeft(LAMBDA sum, cp : sum + CellsNeeded(cp), 0, text)
VisualColumn(b, start, i) == Width(SubSeq(b, start + 1, i))

CaretLine(e) == LineNumber(e.buffer, e.cursor)
CaretColumn(e) == VisualColumn(e.buffer, LineStart(e.buffer, e.cursor), e.cursor)

-----------------------------------------------------------------------------
(* View and drawing.                                                       *)

editor_ensure_cursor_visible(e) ==
    LET line == CaretLine(e)
        column == CaretColumn(e)
        Into(at, from, size) ==
          IF at < from THEN at ELSE IF at >= from + size THEN at - size + 1 ELSE from
    IN  [e EXCEPT !.view = Into(line, @, BODY_ROWS), !.offset = Into(column, @, EDITOR_COLUMNS)]

editor_place_cursor(e) ==
    LET x == Max({0, CaretColumn(e) - e.offset})
        y == CaretLine(e) - e.view
    IN  [e EXCEPT !.caret = <<Min({x, EDITOR_COLUMNS - 1}), Min({y, BODY_ROWS - 1})>>]

\* The row for a line: code points left of the offset are skipped, and the
\* first that does not fit ends the row.
DrawnLine(e, line) ==
    LET start == LineStartByNumber(e.buffer, line)
        text == SubSeq(e.buffer, start + 1, LineEnd(e.buffer, start))
        Draw(d, cp) ==
          LET n == CellsNeeded(cp)
          IN  IF d.full THEN d
              ELSE IF d.source + n <= e.offset THEN [d EXCEPT !.source = @ + n]
              ELSE IF Len(d.row) + n > EDITOR_COLUMNS THEN [d EXCEPT !.full = TRUE]
              ELSE [d EXCEPT !.row = @ \o Cells(cp), !.source = @ + n]
        row == FoldLeft(Draw, [row |-> <<>>, source |-> 0, full |-> FALSE], text).row
    IN  [x \in 1 .. EDITOR_COLUMNS |-> IF x <= Len(row) THEN row[x] ELSE " "]

editor_draw_line(e, line) ==
    IF line \in e.view .. e.view + BODY_ROWS - 1
    THEN [e EXCEPT !.rows[line - e.view] = DrawnLine(e, line)] ELSE e

\* Every row, as editor_draw_line draws it.
editor_draw_document(e) == [e EXCEPT !.rows = [r \in 0 .. BODY_ROWS - 1 |-> DrawnLine(e, e.view + r)]]

editor_draw_status(e) ==
    [e EXCEPT !.status = IF e.save_error THEN "SAVE ERROR" ELSE IF e.dirty THEN "MODIFIED" ELSE "SAVED"]

editor_redraw_full(e) ==
    [editor_place_cursor(editor_draw_status(editor_draw_document(e))) EXCEPT !.stale = FALSE]

editor_redraw_current_line(e) ==
    editor_place_cursor(editor_draw_status(editor_draw_line(e, CaretLine(e))))

Moved(e, f) == f.view # e.view \/ f.offset # e.offset

editor_after_cursor_move(e) ==
    LET f == editor_ensure_cursor_visible(e)
    IN  IF Moved(e, f) THEN editor_redraw_full(f) ELSE editor_place_cursor(f)

\* After a change of the text.
AfterEdit(e, structural) ==
    LET f == editor_ensure_cursor_visible(e)
    IN  IF structural \/ Moved(e, f) THEN editor_redraw_full(f) ELSE editor_redraw_current_line(f)

-----------------------------------------------------------------------------
(* Undo and redo.                                                          *)

Snapshot(e) == [buffer |-> e.buffer, cursor |-> e.cursor]

snapshot_stack_push(stack, s) ==
    IF Len(stack) < ROOTEDIT_UNDO_DEPTH THEN Append(stack, s) ELSE Append(Tail(stack), s)

editor_break_undo_group(e) == [e EXCEPT !.group = "NONE"]

\* The first edit of a group takes a snapshot, and nothing can be redone then.
editor_record_undo(e, group, force_new) ==
    IF ~force_new /\ e.group = group THEN e
    ELSE [e EXCEPT !.undo = snapshot_stack_push(@, Snapshot(e)), !.redo = <<>>, !.group = group,
                   !.dropped = @ \/ Len(e.undo) = ROOTEDIT_UNDO_DEPTH, !.edits = @ + 1]

\* Mutant: what comes back counts as saved.
RestoreAsSaved(e, s) ==
    [e EXCEPT !.buffer = s.buffer, !.cursor = s.cursor, !.anchor = s.cursor, !.active = FALSE,
              !.selecting = FALSE, !.save_error = FALSE]

editor_snapshot_restore(e, s) ==
    [e EXCEPT !.buffer = s.buffer, !.cursor = s.cursor, !.anchor = s.cursor, !.active = FALSE,
              !.selecting = FALSE, !.dirty = TRUE, !.save_error = FALSE]

Restored(e, s) ==
    editor_redraw_full(editor_ensure_cursor_visible(
      editor_break_undo_group(editor_snapshot_restore(e, s))))

editor_undo(e) ==
    IF e.undo = <<>> THEN e
    ELSE Restored([e EXCEPT !.undo = Front(@), !.redo = snapshot_stack_push(@, Snapshot(e))],
                  Last(e.undo))

editor_redo(e) ==
    IF e.redo = <<>> THEN e
    ELSE Restored([e EXCEPT !.redo = Front(@), !.undo = snapshot_stack_push(@, Snapshot(e))],
                  Last(e.redo))

-----------------------------------------------------------------------------
(* Editing.  Results are [e, s]: the editor, and whether lines changed.    *)

editor_selection_start(e) == Min({e.anchor, e.cursor})
editor_selection_end(e) == Max({e.anchor, e.cursor})

\* The selection is kept by two indices.  When the text shrinks while the mouse
\* button is down, the anchor stays behind the end of the text; what the array
\* holds there is Old.
PastEnd(e) == e.active /\ editor_selection_end(e) > Len(e.buffer)
SelectedPart(e) ==
    [i \in 1 .. editor_selection_end(e) - editor_selection_start(e) |->
       IF editor_selection_start(e) + i <= Len(e.buffer) THEN e.buffer[editor_selection_start(e) + i] ELSE Old]

HasNewline(text) == \E i \in DOMAIN text : text[i] = "LF"

editor_selection_clear(e) == [e EXCEPT !.active = FALSE, !.anchor = e.cursor]

Same(e) == [e |-> e, s |-> FALSE]

\* The text without the indices from `from' up to `to', the caret at `from'.
Removed(e, from, to) ==
    [e EXCEPT !.buffer = SubSeq(@, 1, from) \o SubSeq(@, to + 1, Len(@)), !.cursor = from,
              !.dirty = TRUE]

\* Deleting more than there is wraps editor_length, which is unsigned, or
\* leaves the caret behind the end.
Broken(e) ==
    [e EXCEPT !.broken = IF editor_selection_end(e) - editor_selection_start(e) > Len(e.buffer) THEN "length"
                         ELSE "cursor"]

editor_delete_selection(e) ==
    IF ~e.active THEN Same(e)
    ELSE IF e.anchor = e.cursor THEN Same(editor_selection_clear(e))
    ELSE IF PastEnd(e) THEN Same(Broken(e))
    ELSE [e |-> editor_selection_clear(Removed(e, editor_selection_start(e), editor_selection_end(e))),
          s |-> HasNewline(SelectedPart(e))]

Put(e, text) ==
    [e EXCEPT !.buffer = SubSeq(@, 1, e.cursor) \o text \o SubSeq(@, e.cursor + 1, Len(@)),
              !.cursor = @ + Len(text), !.dirty = TRUE, !.save_error = FALSE]

Inserted(r, text) ==
    IF r.e.broken # "no" \/ Len(r.e.buffer) + Len(text) > ROOTEDIT_MAX_CODEPOINTS THEN r
    ELSE [e |-> Put(r.e, text), s |-> r.s \/ HasNewline(text)]

editor_insert(e, cp) == Inserted(editor_delete_selection(e), <<cp>>)
editor_paste(e, text) == Inserted(editor_delete_selection(e), text)

\* Mutant: joining two lines is drawn as a change of one.
BackspaceOneLine(e) ==
    IF e.active THEN editor_delete_selection(e)
    ELSE IF e.cursor = 0 THEN Same(e)
    ELSE [e |-> [Removed(e, e.cursor - 1, e.cursor) EXCEPT !.save_error = FALSE], s |-> FALSE]

editor_backspace(e) ==
    IF e.active THEN editor_delete_selection(e)
    ELSE IF e.cursor = 0 THEN Same(e)
    ELSE [e |-> [Removed(e, e.cursor - 1, e.cursor) EXCEPT !.save_error = FALSE],
          s |-> e.buffer[e.cursor] = "LF"]

editor_delete(e) ==
    IF e.active THEN editor_delete_selection(e)
    ELSE IF e.cursor >= Len(e.buffer) THEN Same(e)
    ELSE [e |-> [Removed(e, e.cursor, e.cursor + 1) EXCEPT !.save_error = FALSE],
          s |-> e.buffer[e.cursor + 1] = "LF"]

editor_move_up(e) ==
    LET start == LineStart(e.buffer, e.cursor)
        above == LineStart(e.buffer, start - 1)
    IN  IF start = 0 THEN e
        ELSE [e EXCEPT !.cursor = above + Min({@ - start, start - 1 - above})]

editor_move_down(e) ==
    LET start == LineStart(e.buffer, e.cursor)
        below == LineEnd(e.buffer, e.cursor) + 1
    IN  IF below > Len(e.buffer) THEN e
        ELSE [e EXCEPT !.cursor = below + Min({@ - start, LineEnd(e.buffer, below) - below})]

editor_index_from_mouse(e, column, row) ==
    LET start == LineStartByNumber(e.buffer, e.view + row)
        end == LineEnd(e.buffer, start)
    IN  Min({end} \cup {i \in start .. end - 1 :
                          e.offset + column < VisualColumn(e.buffer, start, i + 1)})

-----------------------------------------------------------------------------
(* Opening and saving.                                                     *)

Decode(f) == [i \in DOMAIN f |-> IF f[i] = Bad THEN Replacement ELSE f[i]]

\* What a file is read as; the rest of a long one is cut off.
Loaded(f) == SubSeq(Decode(f), 1, Min({Len(f), ROOTEDIT_MAX_CODEPOINTS}))

editor_load(e, f) ==
    [e EXCEPT !.buffer = Loaded(f), !.original = Loaded(f), !.cursor = Len(Loaded(f)),
              !.dirty = FALSE, !.save_error = FALSE, !.view = 0, !.offset = 0, !.active = FALSE,
              !.selecting = FALSE, !.undo = <<>>, !.redo = <<>>, !.group = "NONE",
              !.dropped = FALSE, !.stale = FALSE, !.open = TRUE, !.broken = "no"]

\* The first lines are drawn, wherever the caret is.
rootedit_open ==
    LET e == editor_load(ed, file)
    IN  /\ ~ed.open /\ UNCHANGED <<file, clipboard>>
        /\ ed' = [editor_place_cursor(editor_draw_status(editor_draw_document(e)))
                    EXCEPT !.stale = Moved(e, editor_ensure_cursor_visible(e))]

EditorBecomes(e) == ed' = e /\ UNCHANGED <<file, clipboard>>

\* A write that fails may have changed the first part of the file.
editor_save ==
    LET e == editor_break_undo_group(ed)
        Done(ok) == editor_place_cursor(editor_draw_status(
                      IF ok THEN [e EXCEPT !.dirty = FALSE, !.save_error = FALSE]
                      ELSE [e EXCEPT !.save_error = TRUE]))
    IN  /\ ed.open /\ ed.broken = "no" /\ UNCHANGED clipboard
        /\ \/ file' = ed.buffer /\ ed' = Done(TRUE)
           \/ /\ \E k \in 0 .. Len(ed.buffer) :
                   file' = SubSeq(ed.buffer, 1, k) \o SubSeq(file, k + 1, Len(file))
              /\ ed' = Done(FALSE)

Exit == ed.open /\ EditorBecomes([editor_break_undo_group(ed) EXCEPT !.open = FALSE])

-----------------------------------------------------------------------------
(* Events.                                                                 *)

Plain == editor_break_undo_group(ed)
Unselected == editor_selection_clear(Plain)

Extended(e, to) ==
    LET f == IF e.active THEN e ELSE [e EXCEPT !.anchor = e.cursor]
    IN  [f EXCEPT !.cursor = to, !.active = to # f.anchor]

\* Left, right, up, down, home and end.
Targets(e) ==
    {Max({0, e.cursor - 1}), Min({Len(e.buffer), e.cursor + 1}),
     editor_move_up(e).cursor, editor_move_down(e).cursor}
LineEnds(e) == {LineStart(e.buffer, e.cursor), LineEnd(e.buffer, e.cursor)}

MoveEditorCaret ==
    \/ \E to \in Targets(ed) \cup LineEnds(ed) :
         EditorBecomes(editor_after_cursor_move([Unselected EXCEPT !.cursor = to]))
    \/ \E to \in Targets(ed) : EditorBecomes(editor_after_cursor_move(Extended(Plain, to)))
    \/ LET all == [Plain EXCEPT !.anchor = 0, !.cursor = Len(ed.buffer), !.active = ed.buffer # <<>>]
       IN  EditorBecomes(editor_redraw_full(editor_ensure_cursor_visible(all)))

EditorMouse ==
    \/ ed.selecting /\ EditorBecomes([ed EXCEPT !.selecting = FALSE])
    \/ \E column \in 0 .. EDITOR_COLUMNS, row \in 0 .. BODY_ROWS - 1 :
         LET i == editor_index_from_mouse(ed, column, row)
         IN  \/ EditorBecomes(editor_after_cursor_move(
                          [Plain EXCEPT !.cursor = i, !.anchor = i, !.active = FALSE,
                                        !.selecting = TRUE]))
             \/ ed.selecting /\ EditorBecomes(editor_after_cursor_move(
                                          [ed EXCEPT !.cursor = i, !.active = i # ed.anchor]))

editor_word_character(cp) == cp # " "

\* The word, or the run of other characters, around index i.
WordStart(b, i) ==
    Min({k \in 0 .. i : \A j \in k .. i : /\ b[j + 1] # "LF"
                                          /\ editor_word_character(b[j + 1]) = editor_word_character(b[i + 1])})
WordEnd(b, i) ==
    Max({k \in i + 1 .. Len(b) : \A j \in i + 1 .. k : /\ b[j] # "LF"
                                                       /\ editor_word_character(b[j]) = editor_word_character(b[i + 1])})

\* The view follows the caret, and is not drawn.
editor_select_word_from_mouse(column, row) ==
    LET i == editor_index_from_mouse(ed, column, row)
        e == [Plain EXCEPT !.anchor = WordStart(ed.buffer, i), !.cursor = WordEnd(ed.buffer, i),
                           !.active = TRUE, !.selecting = FALSE]
        f == editor_ensure_cursor_visible(e)
    IN  /\ i < Len(ed.buffer) /\ ed.buffer[i + 1] # "LF"
        /\ EditorBecomes([editor_place_cursor(f) EXCEPT !.stale = @ \/ Moved(e, f)])

Recording == ed.edits < MaxEdits

\* Mutant: a cut takes no snapshot.
CutUnrecorded == editor_delete_selection(Plain)

\* A snapshot, then the text is gone.
editor_cut_selection == editor_delete_selection(editor_record_undo(Plain, "NONE", TRUE))

CopyCut ==
    \/ /\ clipboard' = IF ed.active THEN rootclipboard_set(clipboard, SelectedPart(ed)) ELSE clipboard
       /\ ed' = Plain /\ UNCHANGED file
    \/ /\ ed.active /\ Recording /\ UNCHANGED file
       /\ clipboard' = rootclipboard_set(clipboard, SelectedPart(ed))
       /\ LET r == editor_cut_selection
          IN  ed' = editor_break_undo_group(AfterEdit(r.e, r.s))

\* A snapshot, the edit, and the group ends if a selection was replaced.
Grouped(group, Op(_)) ==
    LET r == Op(editor_record_undo(ed, group, ed.active))
        f == AfterEdit(r.e, r.s)
    IN  EditorBecomes(IF ed.active THEN editor_break_undo_group(f) ELSE f)

EditText ==
    /\ Recording
    /\ \/ Grouped("BACKSPACE", editor_backspace)
       \/ Grouped("DELETE", editor_delete)
       \/ \E cp \in Keys : Grouped("INSERT", LAMBDA e : editor_insert(e, cp))
       \/ LET r == editor_insert(editor_record_undo(Plain, "NONE", TRUE), "LF")
          IN  EditorBecomes(editor_redraw_full(editor_ensure_cursor_visible(editor_break_undo_group(r.e))))
       \/ /\ clipboard # <<>>
          /\ LET r == editor_paste(editor_record_undo(Plain, "NONE", TRUE), clipboard)
             IN  EditorBecomes(editor_break_undo_group(AfterEdit(r.e, r.s)))

\* Tab inserts four blanks; lines it replaces are not drawn anew.
Tab ==
    LET Blank(f) == editor_insert(f, " ")
        first == Blank(editor_record_undo(Plain, "NONE", TRUE))
        e == Blank(Blank(Blank(first.e).e).e).e
        f == AfterEdit(editor_break_undo_group(e), FALSE)
    IN  /\ Recording
        /\ EditorBecomes([f EXCEPT !.stale = @ \/ (first.s /\ ~Moved(e, editor_ensure_cursor_visible(e)))])

Undoing == EditorBecomes(editor_undo(ed)) \/ EditorBecomes(editor_redo(ed))

EditInit ==
    /\ file \in Files /\ clipboard \in Clips
    /\ ed = [buffer |-> <<>>, cursor |-> 0, dirty |-> FALSE, save_error |-> FALSE, view |-> 0,
             offset |-> 0, active |-> FALSE, anchor |-> 0, selecting |-> FALSE, undo |-> <<>>,
             redo |-> <<>>, group |-> "NONE", open |-> FALSE, status |-> "none",
             rows |-> [r \in 0 .. BODY_ROWS - 1 |-> [x \in 1 .. EDITOR_COLUMNS |-> " "]],
             caret |-> <<0, 0>>, original |-> <<>>, dropped |-> FALSE, stale |-> FALSE, edits |-> 0,
             broken |-> "no"]

\* Once the indices are wrong, only leaving the editor is modelled.
Editing ==
    /\ ed.open /\ ed.broken = "no"
    /\ \/ MoveEditorCaret \/ EditorMouse \/ CopyCut \/ EditText \/ Tab \/ Undoing
       \/ \E column \in 0 .. EDITOR_COLUMNS, row \in 0 .. BODY_ROWS - 1 :
            editor_select_word_from_mouse(column, row)

EditNext == rootedit_open \/ editor_save \/ Exit \/ Editing

EditSpec == EditInit /\ [][EditNext]_editVars

-----------------------------------------------------------------------------
(* Properties, of states with sound indices.                               *)

\* The comment on the undo ring: memory use is bounded.  editor_length, which
\* every snapshot copies, stays within the buffer.
LengthBounded == ed.broken # "length"

Sound == ed.open /\ ed.broken = "no"

\* The status row says SAVED only while the file, opened again, would give
\* the very text in the editor: across failed saves, undo, redo and edits
\* that change nothing.
SavedIsOnDisk == Sound /\ ed.status = "SAVED" => Loaded(file) = ed.buffer

\* Every edit can be undone back to the text that was opened, as long as no
\* snapshot fell out of the ring.
UndoReachesStart ==
    Sound /\ ~ed.dropped =>
      ed.original = IF ed.undo = <<>> THEN ed.buffer ELSE Head(ed.undo).buffer

LineCells(line) ==
    LET start == LineStartByNumber(ed.buffer, line)
    IN  FoldLeft(LAMBDA s, cp : s \o Cells(cp), <<>>,
                 SubSeq(ed.buffer, start + 1, LineEnd(ed.buffer, start)))

\* The body shows the lines in view cell by cell, and the text cursor stands
\* on the caret, though most edits draw one row only.  Rows where a wide
\* glyph crosses the left edge are drawn one cell off and not compared.
BodyShowsText ==
    Sound /\ ~ed.stale =>
      /\ ed.caret = <<CaretColumn(ed) - ed.offset, CaretLine(ed) - ed.view>>
      /\ \A r \in 0 .. BODY_ROWS - 1 :
           LET cells == LineCells(ed.view + r)
               At(x) == IF x <= Len(cells) THEN cells[x] ELSE " "
           IN  At(ed.offset + 1) # TERMINAL_CONTINUATION =>
                 \A x \in 1 .. EDITOR_COLUMNS :
                   \/ ed.rows[r][x] = At(ed.offset + x)
                   \/ x = EDITOR_COLUMNS /\ At(ed.offset + x) \in Wide /\ ed.rows[r][x] = " "
=============================================================================
