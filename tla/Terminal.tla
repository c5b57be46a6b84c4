------------------------------ MODULE Terminal ------------------------------
(***************************************************************************)
(* The text terminal of RootOS (source/terminal/terminal.c) in graphics    *)
(* mode: live cells, the ring of lines that scrolled away, the view into   *)
(* it, render transactions with their deferred redraw, the mouse selection *)
(* and the pixels all of them leave on the screen.                         *)
(*                                                                         *)
(* `terminal' holds the file's static variables.  scr stands for the       *)
(* framebuffer, one entry per cell: the glyph parts drawn there, whether   *)
(* they are inverted, and the bar of the text cursor ("on", or "off" when  *)
(* it was inverted).  Ghosts: pushed lists the lines that scrolled away;   *)
(* smudge tells that pixels may be wrong, because the cursor was redrawn   *)
(* or the view repainted under a selection, or because half a wide glyph   *)
(* was overwritten, which the code does not always repaint.                *)
(***************************************************************************)
EXTENDS Text, SequencesExt, FiniteSetsExt

CONSTANTS
    TERMINAL_SCROLLBACK_LINES, TERMINAL_OUTPUT_DEFER_THRESHOLD,
    Geometries,     \* <<columns, rows>> the display may have room for
    Texts,          \* sequences of code points callers print
    MaxBatches      \* bound on nested batches

\* What callers print.
Codes == UNION {{text[i] : i \in DOMAIN text} : text \in Texts}

\* The display has one size, with room for many more columns than one wide
\* glyph takes; TERMINAL_CONTINUATION is no code point, and a space is narrow.
ASSUME TerminalAssumption ==
    /\ TERMINAL_SCROLLBACK_LINES \in Nat \ {0}
    /\ \A g \in Geometries : g[1] \in Nat \ {0, 1} /\ g[2] \in Nat \ {0}
    /\ Texts \subseteq Seq(Codes)
    /\ TERMINAL_CONTINUATION \notin Codes
    /\ Wide \cap {" ", TERMINAL_CONTINUATION} = {}

VARIABLE terminal

IsText(cp) == cp \notin {" ", TERMINAL_CONTINUATION}
Columns(t) == 0 .. t.cols - 1
Rows(t) == 0 .. t.rows - 1

\* A row whose wide glyphs all have both halves.
Paired(data) ==
    \A x \in DOMAIN data :
      /\ data[x] \in Wide => x + 1 \in DOMAIN data /\ data[x + 1] = TERMINAL_CONTINUATION
      /\ data[x] = TERMINAL_CONTINUATION => x > 0 /\ data[x - 1] \in Wide

Torn(t) == \E r \in Rows(t) : ~Paired(t.cells[r])

-----------------------------------------------------------------------------
(* Rendering.                                                              *)

Shown(parts) == [g |-> parts, inv |-> FALSE, bar |-> "none"]
Part(cp, half) == IF cp = " " THEN {} ELSE {<<cp, half>>}
Flipped(cell) ==
    [cell EXCEPT !.inv = ~@,
                 !.bar = CASE @ = "on" -> "off" [] @ = "off" -> "on" [] OTHER -> @]

graphics_clear_cell(t, c, r) == [t EXCEPT !.scr[r][c] = Shown({})]

graphics_draw_glyph(t, cp, c, r) ==
    [t EXCEPT !.scr[r] = [x \in Columns(t) |->
        IF x \in c .. c + CellsNeeded(cp) - 1 THEN Shown(Part(cp, x - c)) ELSE @[x]]]

graphics_render_live_cell(t, c, r) ==
    LET cp == t.cells[r][c]
    IN  IF IsText(cp) THEN graphics_draw_glyph(t, cp, c, r)
        ELSE IF cp = TERMINAL_CONTINUATION /\ c > 0 /\ IsText(t.cells[r][c - 1])
          THEN graphics_draw_glyph(t, t.cells[r][c - 1], c - 1, r)
        ELSE graphics_clear_cell(t, c, r)

scrollback_oldest_index(t) ==
    (t.head + TERMINAL_SCROLLBACK_LINES - t.count) % TERMINAL_SCROLLBACK_LINES

visible_row_data(t, screen_row) ==
    LET logical == t.count - t.offset + screen_row
    IN  IF logical < t.count
          THEN t.ring[(scrollback_oldest_index(t) + logical) % TERMINAL_SCROLLBACK_LINES]
          ELSE t.cells[logical - t.count]

\* Glyphs are drawn one over the other on a cleared row.
graphics_render_row_data(data) ==
    [x \in DOMAIN data |->
       Shown({<<data[y], x - y>> : y \in {z \in {x - 1, x} \cap DOMAIN data :
                                    IsText(data[z]) /\ x < z + CellsNeeded(data[z])}})]

graphics_redraw_view(t) ==
    [t EXCEPT !.scr = [r \in Rows(t) |-> graphics_render_row_data(visible_row_data(t, r))],
              !.smudge = t.drawn \/ Torn(t)]

\* Pixels move by delta rows; only the rows exposed are drawn.
graphics_shift_view(t, delta) ==
    [t EXCEPT !.scr = [r \in Rows(t) |->
        IF r - delta \in Rows(t) THEN t.scr[r - delta]
        ELSE graphics_render_row_data(visible_row_data(t, r))]]

graphics_erase_cursor(t) ==
    IF t.offset # 0 THEN t ELSE graphics_render_live_cell(t, t.col, t.row)

graphics_draw_cursor(t) ==
    IF t.offset # 0 THEN t ELSE [t EXCEPT !.scr[t.row][t.col].bar = "on"]

-----------------------------------------------------------------------------
(* The selection; cells are counted row by row.                            *)

cell_linear(t, c, r) == r * t.cols + c

selection_invert_linear_range(t, first, last) ==
    [t EXCEPT !.scr = [r \in Rows(t) |-> [c \in Columns(t) |->
        IF cell_linear(t, c, r) \in first .. last THEN Flipped(@[r][c]) ELSE @[r][c]]]]

SelectionStart(t) == IF t.anchor <= t.focus THEN t.anchor ELSE t.focus
SelectionEnd(t) == IF t.anchor <= t.focus THEN t.focus ELSE t.anchor

\* The bounds of a range that is not drawn are not read again; 0 stands for
\* what the code leaves in them, here and in terminal_selection_clear.
selection_hide(t) ==
    IF ~t.drawn THEN t
    ELSE [selection_invert_linear_range(t, t.drawn_start, t.drawn_end) EXCEPT
            !.drawn = FALSE, !.drawn_start = 0, !.drawn_end = 0]

\* Only what differs between the range on the screen and the new one is
\* inverted.
selection_show(t) ==
    LET s == SelectionStart(t)
        e == SelectionEnd(t)
        Invert(u, a, b) == selection_invert_linear_range(u, a, b)
        new == IF ~t.drawn THEN Invert(t, s, e)
               ELSE IF e < t.drawn_start \/ s > t.drawn_end
                 THEN Invert(Invert(t, t.drawn_start, t.drawn_end), s, e)
               ELSE LET left == IF s < t.drawn_start THEN Invert(t, s, t.drawn_start - 1)
                                ELSE Invert(t, t.drawn_start, s - 1)
                    IN  IF e > t.drawn_end THEN Invert(left, t.drawn_end + 1, e)
                        ELSE Invert(left, e + 1, t.drawn_end)
    IN  IF ~t.active THEN selection_hide(t)
        ELSE [new EXCEPT !.drawn = TRUE, !.drawn_start = s, !.drawn_end = e]

terminal_selection_clear(t) ==
    [selection_hide(t) EXCEPT !.tracking = FALSE, !.active = FALSE, !.anchor = 0, !.focus = 0]

-----------------------------------------------------------------------------
(* View and transactions.                                                  *)

terminal_set_scrollback_offset(t, offset) ==
    LET u == terminal_selection_clear(t)
        erased == IF t.offset = 0 THEN graphics_erase_cursor(u) ELSE u
    IN  IF offset = t.offset THEN t
        ELSE graphics_shift_view([erased EXCEPT !.offset = offset], offset - t.offset)

WithoutCursor(t) == [graphics_erase_cursor(t) EXCEPT !.smudge = @ \/ t.drawn]

terminal_begin_update(t, clear_selection) ==
    LET live == terminal_set_scrollback_offset(t, 0)
        outer == IF t.depth > 0 THEN t
                 ELSE WithoutCursor(IF clear_selection THEN terminal_selection_clear(live) ELSE live)
    IN  [outer EXCEPT !.depth = @ + 1]

terminal_end_update(t) ==
    LET u == [t EXCEPT !.depth = @ - 1]
    IN  IF t.depth = 0 THEN t ELSE IF u.depth = 0 THEN graphics_draw_cursor(u) ELSE u

BeginBatch(t, threshold) ==
    LET u == IF t.batch > 0 THEN t ELSE [t EXCEPT !.outputs = 0, !.threshold = threshold]
    IN  terminal_begin_update([u EXCEPT !.batch = @ + 1], FALSE)

\* Mutant: a deferred redraw is forgotten.
EndBatchNoRedraw(t) ==
    terminal_end_update([t EXCEPT !.batch = @ - 1, !.pending = FALSE])

EndBatch(t) ==
    LET u == [t EXCEPT !.batch = @ - 1]
        outermost == t.batch = 1
        v == IF outermost /\ t.pending THEN [graphics_redraw_view(u) EXCEPT !.pending = FALSE] ELSE u
        w == IF outermost THEN [v EXCEPT !.outputs = 0, !.threshold = 0] ELSE v
    IN  terminal_end_update(w)

-----------------------------------------------------------------------------
(* Output.                                                                 *)

BlankRow(t) == [c \in Columns(t) |-> " "]

LatestLines(lines, n) == SubSeq(lines, Len(lines) - n + 1, Len(lines))

scrollback_push_top_row(t) ==
    LET count == IF t.count < TERMINAL_SCROLLBACK_LINES THEN t.count + 1 ELSE t.count
    IN  [t EXCEPT !.ring[t.head] = t.cells[0],
                  !.head = (@ + 1) % TERMINAL_SCROLLBACK_LINES,
                  !.count = count,
                  !.pushed = LatestLines(Append(@, t.cells[0]), count)]

terminal_scroll(t) ==
    LET u == [scrollback_push_top_row(t) EXCEPT
                !.cells = [r \in Rows(t) |-> IF r + 1 \in Rows(t) THEN t.cells[r + 1]
                                             ELSE BlankRow(t)],
                !.row = t.rows - 1]
    IN  IF t.row < t.rows THEN t
        ELSE IF t.batch > 0 THEN [u EXCEPT !.pending = TRUE]
        ELSE [u EXCEPT !.scr = [r \in Rows(t) |-> IF r + 1 \in Rows(t) THEN @[r + 1]
                                                  ELSE [c \in Columns(t) |-> Shown({})]]]

NewLine(t) == terminal_scroll([t EXCEPT !.col = 0, !.row = @ + 1])

Unless(pending, t, drawn) == [t EXCEPT !.scr = IF pending THEN @ ELSE drawn.scr]

\* An overwritten half of a wide glyph takes the other half with it.
ClearHalves(t) ==
    LET r == t.row
        c == t.col
        left == [t EXCEPT !.cells[r][c - 1] = " "]
        u == IF t.cells[r][c] = TERMINAL_CONTINUATION /\ c > 0
               THEN Unless(t.pending, left, graphics_render_live_cell(left, c - 1, r)) ELSE t
        right == [u EXCEPT !.cells[r][c + 1] = " "]
    IN  IF /\ u.cells[r][c] # TERMINAL_CONTINUATION
           /\ c + 1 < t.cols /\ u.cells[r][c + 1] = TERMINAL_CONTINUATION
          THEN Unless(t.pending, right, graphics_clear_cell(right, c + 1, r)) ELSE u

StoreGlyph(t, cp, n) ==
    LET v == [t EXCEPT !.cells[t.row] = [x \in Columns(t) |->
                IF x = t.col THEN cp
                ELSE IF n = 2 /\ x = t.col + 1 THEN TERMINAL_CONTINUATION ELSE @[x]]]
    IN  [Unless(t.pending, v, graphics_draw_glyph(v, cp, t.col, t.row)) EXCEPT !.col = @ + n]

NewLineIf(full, t) == IF full THEN NewLine(t) ELSE t
Wrapped(t) == NewLineIf(t.col >= t.cols, t)

PutGlyph(t, cp) ==
    LET n == CellsNeeded(cp)
    IN  Wrapped(StoreGlyph(ClearHalves(NewLineIf(t.col + n > t.cols, t)), cp, n))

Backspace(t) ==
    LET u == [t EXCEPT !.col = @ - 1, !.cells[t.row][t.col - 1] = " "]
    IN  IF t.col = 0 THEN t
        ELSE Unless(t.pending, u, graphics_render_live_cell(u, u.col, u.row))

\* Every code point of a batch counts towards the point where drawing is
\* put off to the end of the batch.
Counted(t) ==
    IF t.batch = 0 THEN t
    ELSE [t EXCEPT !.outputs = Min({@ + 1, TERMINAL_OUTPUT_DEFER_THRESHOLD}),
                   !.pending = @ \/ (t.threshold # 0 /\ t.outputs + 1 >= t.threshold)]

MarkTorn(t) == [t EXCEPT !.smudge = @ \/ Torn(t)]

\* A tab is one to four spaces, each of them counted.
PutSpace(t) == PutGlyph(Counted(t), " ")
PutTab(t) ==
    LET one == PutSpace(t)
        two == PutSpace(one)
        three == PutSpace(two)
    IN  CASE t.col % 4 = 3 -> one
          [] t.col % 4 = 2 -> two
          [] t.col % 4 = 1 -> three
          [] OTHER -> PutSpace(three)

terminal_putcodepoint_internal(t, cp) ==
    LET u == Counted(t)
    IN  MarkTorn(
          CASE cp = "LF" -> NewLine(u)
            [] cp = "CR" -> [u EXCEPT !.col = 0]
            [] cp = "TAB" -> PutTab(u)
            [] cp = "BS" -> Backspace(u)
            [] OTHER -> PutGlyph(u, cp))

terminal_print(t, text) ==
    LET printed[n \in 0 .. Len(text)] ==
          IF n = 0 THEN terminal_begin_update(t, TRUE)
          ELSE terminal_putcodepoint_internal(printed[n - 1], text[n])
    IN  terminal_end_update(printed[Len(text)])

terminal_set_cursor(t, x, y) ==
    IF x >= t.cols \/ y >= t.rows THEN t
    ELSE terminal_end_update([terminal_begin_update(t, FALSE) EXCEPT !.col = x, !.row = y])

terminal_clear(t) ==
    LET u == terminal_begin_update(t, TRUE)
    IN  terminal_end_update(
          [u EXCEPT !.row = 0, !.col = 0, !.offset = 0, !.pending = FALSE, !.smudge = u.drawn,
                    !.cells = [r \in Rows(t) |-> BlankRow(t)],
                    !.scr = [r \in Rows(t) |-> [c \in Columns(t) |-> Shown({})]]])

terminal_clear_row(t, r) ==
    LET u == terminal_begin_update(t, FALSE)
    IN  IF r >= t.rows THEN t
        ELSE terminal_end_update([u EXCEPT !.cells[r] = BlankRow(t),
                                           !.scr[r] = [c \in Columns(t) |-> Shown({})]])

-----------------------------------------------------------------------------
(* Mouse and scrollback, handled by the shell between commands.            *)

terminal_selection_begin(t, c, r) ==
    LET at == cell_linear(t, c, r)
    IN  [terminal_selection_clear(t) EXCEPT !.anchor = at, !.focus = at, !.tracking = TRUE]

terminal_selection_drag(t, c, r) ==
    LET at == cell_linear(t, c, r)
    IN  IF ~t.tracking \/ at = t.focus THEN t
        ELSE selection_show([t EXCEPT !.focus = at, !.active = at # t.anchor])

word_separator(cp) == cp \in {" ", "TAB", TERMINAL_CONTINUATION}

terminal_selection_select_word(t, c, r) ==
    LET data == visible_row_data(t, r)
        InWord(a, b) == \A x \in a .. b : ~word_separator(data[x])
        start == Min({x \in 0 .. c : InWord(x, c)})
        end == Max({x \in c .. t.cols - 1 : InWord(c, x)})
    IN  IF word_separator(data[c]) THEN t
        ELSE selection_show([terminal_selection_clear(t) EXCEPT
               !.anchor = cell_linear(t, start, r), !.focus = cell_linear(t, end, r),
               !.active = TRUE])

\* The text of a row from a to b without the unused cells at its end.
RowText(data, a, b) ==
    LET used == {x \in a .. b : x = a \/ data[x] # " "}
    IN  SelectSeq([i \in 1 .. Max(used) - a + 1 |-> data[a + i - 1]],
                  LAMBDA cp : cp # TERMINAL_CONTINUATION)

\* Mutant: the text is taken from the live cells whatever is in view.
SelectedLive(t) ==
    LET all == FoldLeft(LAMBDA text, i : Append(text, t.cells[i \div t.cols][i % t.cols]), <<>>,
                 [k \in 1 .. SelectionEnd(t) - SelectionStart(t) + 1 |-> SelectionStart(t) + k - 1])
    IN  SelectSeq(all, LAMBDA cp : cp # TERMINAL_CONTINUATION)

\* What terminal_selection_copy puts on the clipboard.
SelectedText(t) ==
    LET s == SelectionStart(t)
        e == SelectionEnd(t)
        first == s \div t.cols
        last == e \div t.cols
        Line(r) == RowText(visible_row_data(t, r), IF r = first THEN s % t.cols ELSE 0,
                           IF r = last THEN e % t.cols ELSE t.cols - 1)
                   \o (IF r = last THEN <<>> ELSE <<"LF">>)
        all == FoldLeft(LAMBDA text, i : text \o Line(first + i - 1), <<>>,
                        [i \in 1 .. last - first + 1 |-> i])
    IN  SubSeq(all, 1, Min({Len(all), ROOT_CLIPBOARD_MAX_CODEPOINTS - 1}))

terminal_selection_end(t) ==
    [t EXCEPT !.tracking = FALSE, !.anchor = IF t.active THEN @ ELSE 0,
              !.focus = IF t.active THEN @ ELSE 0]

terminal_scrollback_up(t, lines) ==
    terminal_set_scrollback_offset(t, Min({t.offset + lines, t.count}))

terminal_scrollback_down(t, lines) ==
    LET u == terminal_set_scrollback_offset(t, Max({0, t.offset - lines}))
    IN  IF t.offset # 0 THEN graphics_draw_cursor(u) ELSE t

terminal_scrollback_bottom(t) == terminal_scrollback_down(t, t.offset)

-----------------------------------------------------------------------------
terminal_init(g) ==
    [cols |-> g[1], rows |-> g[2], row |-> 0, col |-> 0,
     cells |-> [r \in 0 .. g[2] - 1 |-> [c \in 0 .. g[1] - 1 |-> " "]],
     scr |-> [r \in 0 .. g[2] - 1 |-> [c \in 0 .. g[1] - 1 |-> Shown({})]],
     ring |-> [i \in 0 .. TERMINAL_SCROLLBACK_LINES - 1 |-> [c \in 0 .. g[1] - 1 |-> " "]],
     head |-> 0, count |-> 0, offset |-> 0, pushed |-> <<>>,
     depth |-> 0, batch |-> 0, outputs |-> 0, threshold |-> 0, pending |-> FALSE,
     tracking |-> FALSE, active |-> FALSE, drawn |-> FALSE, drawn_start |-> 0, drawn_end |-> 0,
     anchor |-> 0, focus |-> 0, smudge |-> FALSE]

\* The kernel clears the screen right after terminal_init.
TerminalInit == \E g \in Geometries : terminal = terminal_clear(terminal_init(g))

Idle == terminal.depth = 0

Printing ==
    \/ \E text \in Texts : terminal' = terminal_print(terminal, text)
    \/ \E c \in Columns(terminal), r \in Rows(terminal) :
         terminal' = terminal_set_cursor(terminal, c, r)
    \/ \E r \in Rows(terminal) : terminal' = terminal_clear_row(terminal, r)
    \/ terminal' = terminal_clear(terminal)

Batching ==
    \/ /\ terminal.batch < MaxBatches
       /\ \E n \in {0, TERMINAL_OUTPUT_DEFER_THRESHOLD} : terminal' = BeginBatch(terminal, n)
    \/ terminal.batch > 0 /\ terminal' = EndBatch(terminal)

Mouse ==
    /\ Idle
    /\ \/ \E c \in Columns(terminal), r \in Rows(terminal) :
            \/ terminal' = terminal_selection_begin(terminal, c, r)
            \/ terminal' = terminal_selection_drag(terminal, c, r)
            \/ terminal' = terminal_selection_select_word(terminal, c, r)
       \/ terminal' = terminal_selection_end(terminal)

View ==
    /\ Idle
    /\ \/ \E n \in 1 .. terminal.rows :
            \/ terminal' = terminal_scrollback_up(terminal, n)
            \/ terminal' = terminal_scrollback_down(terminal, n)
       \/ terminal' = terminal_scrollback_bottom(terminal)

TerminalNext == Printing \/ Batching \/ Mouse \/ View

TerminalSpec == TerminalInit /\ [][TerminalNext]_terminal

-----------------------------------------------------------------------------
(* Properties.                                                             *)

CursorAt(t, c, r) == t.offset = 0 /\ c = t.col /\ r = t.row
Selected(t, c, r) == t.drawn /\ cell_linear(t, c, r) \in t.drawn_start .. t.drawn_end

\* Between transactions the screen shows the rows in view: whatever was
\* scrolled, shifted, redrawn in part or put off to the end of a batch, each
\* cell has its glyph, the cells shown inverted are those of the selection, and
\* the cursor's bar is at the cursor and nowhere else, in the live view only.
\* The ring the rows come from holds the lines that scrolled away last.
ScreenShowsText ==
    /\ terminal.pushed =
         [i \in 1 .. terminal.count |->
            terminal.ring[(scrollback_oldest_index(terminal) + i - 1) % TERMINAL_SCROLLBACK_LINES]]
    /\ Idle /\ ~terminal.smudge => \A r \in Rows(terminal), c \in Columns(terminal) :
         LET cell == terminal.scr[r][c]
         IN  /\ cell.g = graphics_render_row_data(visible_row_data(terminal, r))[c].g
             /\ cell.inv = Selected(terminal, c, r)
             /\ (cell.bar # "none") = CursorAt(terminal, c, r)

\* A copy takes what is highlighted: the glyphs of the inverted cells in
\* order, up to the size of the clipboard, in whatever part of the
\* scrollback is in view.
CopyIsHighlight ==
    LET t == terminal
        lit == {i \in 0 .. t.rows * t.cols - 1 :
                  LET cell == t.scr[i \div t.cols][i % t.cols]
                  IN  cell.inv /\ \E part \in cell.g : part[2] = 0}
        glyph(i) == (CHOOSE part \in t.scr[i \div t.cols][i % t.cols].g : TRUE)[1]
        shown == [k \in 1 .. Cardinality(lit) |-> glyph(SetToSortSeq(lit, <)[k])]
        text == SelectedText(t)
        copied == SelectSeq(text, LAMBDA cp : cp \notin {" ", "LF"})
    IN  Idle /\ ~t.smudge /\ t.active =>
          /\ IsPrefix(copied, shown)
          /\ Len(text) < ROOT_CLIPBOARD_MAX_CODEPOINTS - 1 => copied = shown
=============================================================================
