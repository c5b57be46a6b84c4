-------------------------------- MODULE Text --------------------------------
(***************************************************************************)
(* What the terminal, the shell and the editor share about text: widths    *)
(* (terminal_codepoint_cells) and the clipboard (input/rootclipboard.c).   *)
(***************************************************************************)
EXTENDS Integers, Sequences

CONSTANTS
    ROOT_CLIPBOARD_MAX_CODEPOINTS,
    Wide            \* code points with a glyph of two cells

\* The second cell of a wide glyph.
TERMINAL_CONTINUATION == "~"

CellsNeeded(cp) == IF cp \in Wide THEN 2 ELSE 1

Cells(cp) == IF cp \in Wide THEN <<cp, TERMINAL_CONTINUATION>> ELSE <<cp>>

\* The clipboard after `text' was copied: a text that does not fit is refused.
rootclipboard_set(clipboard, text) ==
    IF Len(text) >= ROOT_CLIPBOARD_MAX_CODEPOINTS THEN clipboard ELSE text
=============================================================================
