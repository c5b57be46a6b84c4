------------------------------ MODULE MCConsole ------------------------------
(***************************************************************************)
(* The display, and the terminal under any caller.  The initial state      *)
(* chooses one of the two; the other stays as it starts.                   *)
(***************************************************************************)
EXTENDS Display, Terminal

VARIABLE part

\* A screen of three pixels in a column; the pointer's lower pixel is clear.
MC_Shape == [l \in {0} \X {0, 1} |-> IF l = <<0, 0>> THEN "B" ELSE " "]
MC_Multiboot == [framebuffer |-> TRUE, rgb |-> TRUE, bpp |-> 32, pitch |-> 4,
                 bits |-> 5, pae |-> TRUE, addr |-> 71]
MC_Multiboots == {MC_Multiboot,
                  [MC_Multiboot EXCEPT !.pae = FALSE, !.addr = 16, !.pitch = 5, !.bits = 9],
                  [MC_Multiboot EXCEPT !.pitch = 6], [MC_Multiboot EXCEPT !.pitch = 3],
                  [MC_Multiboot EXCEPT !.pae = FALSE], [MC_Multiboot EXCEPT !.addr = 0],
                  [MC_Multiboot EXCEPT !.bpp = 16], [MC_Multiboot EXCEPT !.addr = 255]}
MC_Rects == {<<0, 1, 15, 9>>, <<1, 0, 1, 1>>}
MC_Shifts == {<<0, 2, 1>>, <<1, 5, -1>>, <<0, 1, 0>>}

MC_Geometries == {<<2, 2>>}
MC_Texts == {<<"a">>, <<"w">>, <<"LF">>, <<"BS", "CR">>, <<"a", "TAB">>}

OneDisplay == multiboot = MC_Multiboot

Init ==
    /\ DisplayInit /\ TerminalInit
    /\ \/ part = "display"
       \/ part = "terminal" /\ OneDisplay

Next ==
    \/ part = "display" /\ DisplayNext /\ UNCHANGED <<terminal, part>>
    \/ part = "terminal" /\ TerminalNext /\ UNCHANGED <<displayVars, part>>

\* At most two cells in use; nothing is explored behind a smudge, where the
\* properties about pixels say nothing.
Used(row) == Cardinality({c \in DOMAIN row : row[c] # " "})
FewGlyphs ==
    /\ MapThenSumSet(LAMBDA r : Used(terminal.cells[r]), Rows(terminal))
       + MapThenSumSet(LAMBDA r : Used(terminal.ring[r]), DOMAIN terminal.ring) <= 2
    /\ ~terminal.smudge
=============================================================================
