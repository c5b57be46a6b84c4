--------------------------- MODULE MCInteractive ---------------------------
(***************************************************************************)
(* What a user at the machine meets: the devices and the event queue, the  *)
(* shell's command line, the editor and the clock.  The initial state      *)
(* chooses one of them; the others stay as they start.                     *)
(***************************************************************************)
EXTENDS ShellLine, RootEdit, Input, Timer

VARIABLE part

\* Terminals of one row, where a wide glyph has room beside another character,
\* and of two, with a scrollback of one line.
MC_Geometries == {<<5, 1>>, <<4, 2>>}
MC_Pasted == {<<"w", "a">>, <<"a", "LF">>}
MC_Outputs == {<<"o", "LF">>}

\* A file with a wide glyph in its second line, and one that is not UTF-8.
MC_Files == {<<"a", "LF", "w">>, <<"?">>}
MC_Clips == {<<"LF">>}

MC_Caps == {<<cap, FALSE>> : cap \in {"ctrl", "shift", "pause", "print", "e", "accent", "7", "num", "caps"}}
           \cup {<<cap, TRUE>> : cap \in {"ctrl", "alt", "7"}}

\* Two actions of any kind, three motions, or two clicks.
All(i) == i["key"] + i["motion"] + i["button"]
MC_Sessions ==
    {i \in [{"key", "button", "motion"} -> 0 .. 4] :
       All(i) <= 2 \/ (All(i) = i["motion"] /\ All(i) <= 3) \/ (All(i) = i["button"] /\ All(i) <= 4)}

Init ==
    /\ ShellInit /\ EditInit /\ InputInit /\ TimerInit
    /\ \/ part = "shell" /\ file = <<"?">> /\ ~user.wheel /\ timer.order = "low"
       \/ part = "editor" /\ terminal.cols = 5 /\ shell.prompt = 2 /\ ~user.wheel /\ timer.order = "low"
       \/ part = "input" /\ file = <<"?">> /\ terminal.cols = 5 /\ shell.prompt = 2 /\ timer.order = "low"
       \/ part = "timer" /\ file = <<"?">> /\ terminal.cols = 5 /\ shell.prompt = 2 /\ ~user.wheel

Next ==
    \/ part = "shell" /\ ShellNext /\ UNCHANGED <<editVars, inputVars, timerVars, part>>
    \/ part = "editor" /\ EditNext /\ UNCHANGED <<shellVars, inputVars, timerVars, part>>
    \/ part = "input" /\ InputNext /\ UNCHANGED <<shellVars, editVars, timerVars, part>>
    \/ part = "timer" /\ TimerNext /\ UNCHANGED <<shellVars, editVars, inputVars, part>>

Count(S) == Cardinality({i \in DOMAIN S : S[i]})

\* Of the features of a part that multiply its states, one at a time.
FocusShell ==
    LET copied == shell.clipboard # <<>>
        selecting == terminal.active \/ terminal.tracking
        n == Count(<<terminal.smudge, shell.history # <<>>, copied, selecting>>)
    IN  /\ copied => shell.clipboard \in MC_Pasted
        /\ n <= 1 \/ (n = 2 /\ copied /\ selecting /\ ~terminal.tracking)
FocusEditor ==
    Count(<<file \notin MC_Files, clipboard \notin MC_Clips, ed.active \/ ed.selecting, ed.edits > 1>>) <= 1
FocusInput ==
    /\ seen.lost \/ seen.late => All(user.inputs) <= 1
    /\ All(user.inputs) > 2 => mouse.buttons \subseteq {1} /\ ~mouse.last[2].valid
Focus == FocusShell /\ FocusEditor /\ FocusInput
=============================================================================
