------------------------------ MODULE ShellLine ------------------------------
(***************************************************************************)
(* The shell's input loop (source/shell/shell.c): the command line, its    *)
(* history, paste and mouse, on top of the terminal of module Terminal.    *)
(* One step is one input event, handled to the end as shell_run does.      *)
(*                                                                         *)
(* A command is what execute_command prints and the length of the prompt   *)
(* it leaves behind (the current directory is part of the prompt).  The    *)
(* clipboard is filled by copies from the terminal.  Ghost: wrapped tells  *)
(* that the line of this prompt has once been drawn past the last column.  *)
(***************************************************************************)
EXTENDS Terminal

CONSTANTS
    COMMAND_BUFFER_SIZE, SHELL_HISTORY_SIZE,
    PROMPT_LIMIT,       \* a longer prompt gets a line of its own
    Prompts,            \* lengths of prompts
    Typed,              \* code points that can be typed
    Outputs             \* what a command may print

VARIABLE shell

shellVars == <<terminal, shell>>

\* e = [t, l]: the terminal and the line.
Here == [t |-> terminal, l |-> shell]
Becomes(e) == terminal' = e.t /\ shell' = e.l

shell_cells_until(l, n) == FoldLeft(LAMBDA sum, cp : sum + CellsNeeded(cp), 0, SubSeq(l.buffer, 1, n))
shell_total_cells(l) == shell_cells_until(l, Len(l.buffer))

\* The input begins where the prompt ends, in the next row if it is too long.
InputAfter(t, l) ==
    [t |-> t, l |-> [l EXCEPT !.start_row = t.row, !.start_col = t.col, !.rendered = 0,
                              !.wrapped = FALSE]]
RoomAfter(t) == IF t.col > PROMPT_LIMIT THEN terminal_print(t, <<"LF", "$">>) ELSE t

shell_prompt(e, length) ==
    InputAfter(RoomAfter(terminal_print(e.t, [i \in 1 .. length |-> "$"])),
               [e.l EXCEPT !.prompt = length])

shell_update_cursor(e) ==
    [e EXCEPT !.t = terminal_set_cursor(@, e.l.start_col + shell_cells_until(e.l, e.l.cursor),
                                        e.l.start_row)]

\* Every code point is printed on its own.
PrintEach(e, text) ==
    FoldLeft(LAMBDA u, cp : terminal_print(u, <<cp>>),
             terminal_set_cursor(e.t, e.l.start_col, e.l.start_row), text)

\* Mutant: what is left of a longer line is not wiped.
RedrawNoWipe(e) ==
    shell_update_cursor([t |-> PrintEach(e, e.l.buffer),
                         l |-> [e.l EXCEPT !.rendered = shell_total_cells(e.l)]])

\* The line, then blanks over the rest of the line drawn before.
shell_redraw_line(e) ==
    LET total == shell_total_cells(e.l)
        wipe == [i \in 1 .. Max({0, e.l.rendered - total}) |-> " "]
    IN  shell_update_cursor(
          [t |-> PrintEach(e, e.l.buffer \o wipe),
           l |-> [e.l EXCEPT !.rendered = total,
                             !.wrapped = @ \/ e.l.start_col + total >= e.t.cols]])

-----------------------------------------------------------------------------
(* History.                                                                *)

shell_history_load(e, i) ==
    LET text == e.l.history[i + 1]
    IN  shell_redraw_line([e EXCEPT !.l.buffer = text, !.l.cursor = Len(text), !.l.position = i])

shell_history_add_current(l) ==
    LET n == Len(l.history)
        kept == IF n >= SHELL_HISTORY_SIZE THEN Tail(l.history) ELSE l.history
    IN  IF l.buffer = <<>> \/ (n > 0 /\ l.history[n] = l.buffer) THEN [l EXCEPT !.position = -1]
        ELSE [l EXCEPT !.position = -1, !.history = Append(kept, l.buffer)]

shell_history_previous(e) ==
    LET n == Len(e.l.history)
        p == e.l.position
    IN  IF n = 0 THEN e
        ELSE shell_history_load(e, IF p < 0 THEN n - 1 ELSE IF p > 0 THEN p - 1 ELSE p)

Emptied(l) == [l EXCEPT !.buffer = <<>>, !.cursor = 0]

shell_history_next(e) ==
    LET p == e.l.position
    IN  IF p < 0 THEN e
        ELSE IF p < Len(e.l.history) - 1 THEN shell_history_load(e, p + 1)
        ELSE shell_redraw_line([e EXCEPT !.l = [Emptied(@) EXCEPT !.position = -1]])

-----------------------------------------------------------------------------
(* Editing.                                                                *)

Fits(e, cp) ==
    /\ Len(e.l.buffer) < COMMAND_BUFFER_SIZE - 1
    /\ e.l.start_col + shell_total_cells(e.l) + CellsNeeded(cp) < e.t.cols

shell_insert_codepoint_raw(e, cp) ==
    IF ~Fits(e, cp) THEN e
    ELSE [e EXCEPT !.l.buffer = InsertAt(@, e.l.cursor + 1, cp), !.l.cursor = @ + 1]

shell_insert_codepoint(e, cp) ==
    LET f == [e EXCEPT !.l.position = -1]
        g == shell_insert_codepoint_raw(f, cp)
    IN  IF g = f THEN f ELSE shell_redraw_line(g)

\* As much of the clipboard as there is room for, as one line.
shell_paste_clipboard(e) ==
    LET Insert(f, cp) ==
          LET c == IF cp = "LF" THEN " " ELSE cp
          IN  IF f.stop \/ ~Fits(f.e, c) THEN [f EXCEPT !.stop = TRUE]
              ELSE [f EXCEPT !.e = shell_insert_codepoint_raw(@, c)]
        g == FoldLeft(Insert, [e |-> e, stop |-> FALSE], e.l.clipboard).e
    IN  IF g = e THEN e ELSE shell_redraw_line([g EXCEPT !.l.position = -1])

Without(l, i) == [l EXCEPT !.buffer = RemoveAt(@, i)]

shell_backspace(e) ==
    LET l == [e.l EXCEPT !.position = -1]
    IN  IF l.cursor = 0 THEN [e EXCEPT !.l = l]
        ELSE shell_redraw_line([e EXCEPT !.l = [Without(l, l.cursor) EXCEPT !.cursor = @ - 1]])

shell_delete(e) ==
    LET l == [e.l EXCEPT !.position = -1]
    IN  IF l.cursor >= Len(l.buffer) THEN [e EXCEPT !.l = l]
        ELSE shell_redraw_line([e EXCEPT !.l = Without(l, l.cursor + 1)])

shell_clear_input(e) ==
    [shell_redraw_line([e EXCEPT !.l = Emptied(@)]) EXCEPT !.l.position = -1]

MoveCaret(e, to) == shell_update_cursor([e EXCEPT !.l.cursor = to])

\* The code point whose cells hold the column clicked on.
shell_mouse_click(e, c, r) ==
    LET target == c - e.l.start_col
        at == Min({Len(e.l.buffer)} \cup
                  {n \in 0 .. Len(e.l.buffer) - 1 : target < shell_cells_until(e.l, n + 1)})
    IN  IF r # e.l.start_row \/ target < 0 THEN e ELSE MoveCaret(e, at)

-----------------------------------------------------------------------------
(* Events.                                                                 *)

ClearScreen(e) ==
    shell_redraw_line(shell_prompt([e EXCEPT !.t = terminal_clear(@)], e.l.prompt))

Fresh(l) == [Emptied(l) EXCEPT !.rendered = 0, !.position = -1]

Interrupt(e) ==
    shell_prompt([t |-> terminal_print(e.t, <<"^", "C", "LF">>), l |-> Fresh(e.l)], e.l.prompt)

\* A command prints `output' in one batch unless it owns the terminal.
Executed(t, output, batched) ==
    IF batched
      THEN EndBatch(terminal_print(BeginBatch(t, TERMINAL_OUTPUT_DEFER_THRESHOLD), output))
      ELSE terminal_print(t, output)

\* The command leaves a prompt of another length.
Enter(e, output, batched, length) ==
    LET end == MoveCaret(e, Len(e.l.buffer))
    IN  shell_prompt([t |-> Executed(terminal_print(end.t, <<"LF">>), output, batched),
                      l |-> Fresh(shell_history_add_current(end.l))], length)

\* A key goes to the live view first.
Live == [Here EXCEPT !.t = terminal_scrollback_bottom(@)]

EmptyLine ==
    [buffer |-> <<>>, cursor |-> 0, rendered |-> 0, start_row |-> 0, start_col |-> 0,
     history |-> <<>>, position |-> -1, clipboard |-> <<>>, prompt |-> 0, wrapped |-> FALSE]

Begins(e) == terminal = e.t /\ shell = e.l

ShellInit ==
    \E g \in Geometries, length \in Prompts :
      Begins(shell_prompt([t |-> terminal_clear(terminal_init(g)), l |-> EmptyLine], length))

Edit ==
    \/ \E cp \in Typed : Becomes(shell_insert_codepoint(Live, cp))
    \/ Becomes(shell_backspace(Live))
    \/ Becomes(shell_delete(Live))
    \/ Becomes(shell_clear_input(Live))
    \/ Becomes(shell_paste_clipboard([Live EXCEPT !.t = terminal_selection_clear(@)]))

Caret ==
    \/ \E to \in {0, Len(shell.buffer)} : Becomes(MoveCaret(Live, to))
    \/ shell.cursor > 0 /\ Becomes(MoveCaret(Live, shell.cursor - 1))
    \/ shell.cursor < Len(shell.buffer) /\ Becomes(MoveCaret(Live, shell.cursor + 1))
    \/ /\ ~terminal.active
       /\ \E c \in Columns(terminal), r \in Rows(terminal) : Becomes(shell_mouse_click(Here, c, r))

History ==
    \/ Becomes(shell_history_previous(Live))
    \/ Becomes(shell_history_next(Live))

Command ==
    \/ \E output \in Outputs, batched \in BOOLEAN, length \in Prompts :
         Becomes(Enter(Live, output, batched, length))
    \/ Becomes(Interrupt(Live))
    \/ Becomes(ClearScreen(Live))

Select ==
    \/ (Mouse \/ View) /\ UNCHANGED shell
    \/ /\ terminal.active /\ UNCHANGED terminal
       /\ shell' = [shell EXCEPT !.clipboard = rootclipboard_set(@, SelectedText(terminal))]

ShellNext == Edit \/ Caret \/ History \/ Command \/ Select

-----------------------------------------------------------------------------
(* Properties.                                                             *)

\* What the cells from the start of the line on should hold.
Expected(i) ==
    LET text == FoldLeft(LAMBDA s, cp : s \o Cells(cp), <<>>, shell.buffer)
    IN  IF i <= Len(text) THEN text[i] ELSE " "
Actual(i) == terminal.cells[shell.start_row][shell.start_col + i - 1]
InputCells == 1 .. terminal.cols - shell.start_col

\* Until the line of a prompt has been drawn past the last column, after every
\* event the input row shows the command with blanks behind it, and the text
\* cursor stands at the caret: whatever was recalled, pasted, deleted or
\* scrolled before.  Only the second half of a wide glyph may be missing
\* (GlyphsWhole).
LineShown ==
    ~shell.wrapped =>
      /\ terminal.row = shell.start_row
      /\ terminal.col = shell.start_col + shell_cells_until(shell, shell.cursor)
      /\ \A i \in InputCells :
           Actual(i) = Expected(i) \/ (Expected(i) = TERMINAL_CONTINUATION /\ Actual(i) = " ")

\* terminal_putcodepoint clears the glyph whose half it overwrites and no
\* other: a line that is one visual line shows its wide glyphs whole.
GlyphsWhole ==
    ~shell.wrapped =>
      \A i \in InputCells : Expected(i) = TERMINAL_CONTINUATION => Actual(i) = TERMINAL_CONTINUATION
==============================================================================
