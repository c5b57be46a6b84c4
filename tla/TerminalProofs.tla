--------------------------- MODULE TerminalProofs ---------------------------
(***************************************************************************)
(* Proofs about the terminal: what the screen shows between transactions.  *)
(***************************************************************************)
EXTENDS Terminal, SequenceTheorems, WellFoundedInduction, TLAPS

\* What a row holds.
Values == Codes \cup {" ", TERMINAL_CONTINUATION}
ScreenCell == [g : SUBSET (Values \X {0, 1}), inv : BOOLEAN, bar : {"none", "on", "off"}]

TerminalFields ==
    {"cols", "rows", "row", "col", "cells", "scr", "ring", "head", "count", "offset", "pushed",
     "depth", "batch", "outputs", "threshold", "pending", "tracking", "active", "drawn",
     "drawn_start", "drawn_end", "anchor", "focus", "smudge"}

\* The types of the fields; the cursor may stand past the last cell.
GridType(t) ==
    /\ t.cols \in Nat /\ t.cols >= 2 /\ t.rows \in Nat /\ t.rows >= 1
    /\ t.col \in Nat /\ t.row \in Nat
    /\ t.cells \in [Rows(t) -> [Columns(t) -> Values]]
    /\ t.scr \in [Rows(t) -> [Columns(t) -> ScreenCell]]
RingType(t) ==
    /\ t.ring \in [0 .. TERMINAL_SCROLLBACK_LINES - 1 -> [Columns(t) -> Values]]
    /\ t.head \in 0 .. TERMINAL_SCROLLBACK_LINES - 1
    /\ t.count \in 0 .. TERMINAL_SCROLLBACK_LINES
    /\ t.offset \in 0 .. t.count
UpdateType(t) ==
    /\ t.depth \in Nat /\ t.batch \in Nat /\ t.pending \in BOOLEAN /\ t.smudge \in BOOLEAN
    /\ t.pending => t.batch > 0
SelectionType(t) ==
    /\ t.tracking \in BOOLEAN /\ t.active \in BOOLEAN /\ t.drawn \in BOOLEAN
    /\ t.anchor \in Nat /\ t.focus \in Nat /\ t.drawn_start \in Nat /\ t.drawn_end \in Nat
    /\ t.drawn => t.drawn_start <= t.drawn_end
Shape(t) ==
    /\ DOMAIN t = TerminalFields
    /\ GridType(t) /\ RingType(t) /\ UpdateType(t) /\ SelectionType(t)
InGrid(t) == t.col < t.cols /\ t.row < t.rows

\* The ring holds the lines that scrolled away last.
Kept(t) ==
    t.pushed = [i \in 1 .. t.count |->
                  t.ring[(scrollback_oldest_index(t) + i - 1) % TERMINAL_SCROLLBACK_LINES]]

Body(t) == Shape(t) /\ InGrid(t) /\ Kept(t)

\* What one cell of a row whose wide glyphs are whole looks like.
Pix(data, x) ==
    IF IsText(data[x]) THEN {<<data[x], 0>>}
    ELSE IF data[x] = TERMINAL_CONTINUATION THEN {<<data[x - 1], 1>>} ELSE {}
Live(t) == \A r \in Rows(t) : \A x \in Columns(t) : t.scr[r][x].g = Pix(t.cells[r], x)
Plain(t) == \A r \in Rows(t) : \A x \in Columns(t) : ~t.scr[r][x].inv /\ t.scr[r][x].bar = "none"

\* Within a transaction: no selection, no cursor, and the live cells on the
\* screen unless their drawing has been put off.
Good(t) == ~t.drawn /\ ~Torn(t) /\ Plain(t) /\ (t.pending \/ Live(t))
Moving(t) == t.offset = 0 /\ (~t.smudge => Good(t))

\* Between transactions: the rows in view on the screen.
CellShown(t, r, x, bar) ==
    LET cell == t.scr[r][x]
    IN  /\ cell.g = graphics_render_row_data(visible_row_data(t, r))[x].g
        /\ cell.inv <=> Selected(t, x, r)
        /\ (cell.bar # "none") <=> (bar /\ CursorAt(t, x, r))
Faithful(t, bar) == \A r \in Rows(t) : \A x \in Columns(t) : CellShown(t, r, x, bar)
Still(t) == ~t.smudge => ~Torn(t) /\ Faithful(t, TRUE)

TermInv(t) ==
    /\ Body(t) /\ t.depth = t.batch
    /\ t.depth = 0 => Still(t)
    /\ t.depth > 0 => Moving(t)

-----------------------------------------------------------------------------
(* States that differ in the pixels alone.                                 *)

SameText(t, u) ==
    /\ u.cols = t.cols /\ u.rows = t.rows /\ u.cells = t.cells
    /\ u.ring = t.ring /\ u.head = t.head /\ u.count = t.count /\ u.pushed = t.pushed
SameUpdate(t, u) == u.depth = t.depth /\ u.batch = t.batch /\ u.pending = t.pending
SameSelection(t, u) ==
    /\ u.tracking = t.tracking /\ u.active = t.active /\ u.anchor = t.anchor /\ u.focus = t.focus
    /\ u.drawn = t.drawn /\ u.drawn_start = t.drawn_start /\ u.drawn_end = t.drawn_end
OnlyScr(t, u) ==
    /\ DOMAIN u = TerminalFields
    /\ SameText(t, u) /\ SameUpdate(t, u) /\ SameSelection(t, u)
    /\ u.col = t.col /\ u.row = t.row /\ u.offset = t.offset /\ u.smudge = t.smudge

ScrType(t, scr) == scr \in [Rows(t) -> [Columns(t) -> ScreenCell]]

LEMMA ScrFact ==
    ASSUME NEW t, DOMAIN t = TerminalFields, NEW S, NEW u, u = [t EXCEPT !.scr = S]
    PROVE  OnlyScr(t, u) /\ u.scr = S
BY DEF OnlyScr, SameText, SameUpdate, SameSelection, TerminalFields

LEMMA OnlyScrTwice ==
    ASSUME NEW t, NEW u, NEW v, OnlyScr(t, u), OnlyScr(u, v)
    PROVE  OnlyScr(t, v)
BY DEF OnlyScr, SameText, SameUpdate, SameSelection

LEMMA OnlyScrShape ==
    ASSUME NEW t, NEW u, OnlyScr(t, u), Shape(t), ScrType(t, u.scr)
    PROVE  /\ Shape(u) /\ Rows(u) = Rows(t) /\ Columns(u) = Columns(t)
           /\ InGrid(t) => InGrid(u)
           /\ Kept(t) => Kept(u)
           /\ Torn(u) = Torn(t)
           /\ \A r : visible_row_data(u, r) = visible_row_data(t, r)
<1> USE DEF OnlyScr, SameText, SameUpdate, SameSelection
<1>1. Rows(u) = Rows(t) /\ Columns(u) = Columns(t) BY DEF Rows, Columns
<1>2. GridType(u) BY <1>1 DEF Shape, GridType, ScrType
<1>3. RingType(u) BY <1>1 DEF Shape, RingType
<1>4. UpdateType(u) BY DEF Shape, UpdateType
<1>5. SelectionType(u) BY DEF Shape, SelectionType
<1>6. Shape(u) BY <1>2, <1>3, <1>4, <1>5 DEF Shape
<1>7. InGrid(t) => InGrid(u) BY DEF InGrid
<1>8. Kept(t) => Kept(u) BY DEF Kept, scrollback_oldest_index
<1>9. Torn(u) = Torn(t) BY <1>1 DEF Torn
<1>10. \A r : visible_row_data(u, r) = visible_row_data(t, r) BY DEF visible_row_data, scrollback_oldest_index
<1> QED BY <1>1, <1>6, <1>7, <1>8, <1>9, <1>10

-----------------------------------------------------------------------------
(* Cells.                                                                  *)

LEMMA TermConstants ==
    /\ TERMINAL_SCROLLBACK_LINES \in Nat /\ TERMINAL_SCROLLBACK_LINES >= 1
    /\ " " \notin Wide /\ TERMINAL_CONTINUATION \notin Wide
    /\ TERMINAL_CONTINUATION # " "
    /\ " " \in Values /\ TERMINAL_CONTINUATION \in Values
<1>1. TERMINAL_SCROLLBACK_LINES \in Nat \ {0} BY TerminalAssumption, Zenon
<1>2. Wide \cap {" ", TERMINAL_CONTINUATION} = {} BY TerminalAssumption, Zenon
<1>3. TERMINAL_CONTINUATION # " " BY DEF TERMINAL_CONTINUATION
<1>4. " " \notin Wide /\ TERMINAL_CONTINUATION \notin Wide BY <1>2, Zenon
<1>5. " " \in Values /\ TERMINAL_CONTINUATION \in Values BY DEF Values
<1>6. TERMINAL_SCROLLBACK_LINES \in Nat /\ TERMINAL_SCROLLBACK_LINES >= 1 BY <1>1
<1> QED BY <1>3, <1>4, <1>5, <1>6, Zenon

LEMMA WideFact ==
    ASSUME NEW cp
    PROVE  /\ cp \in Wide => CellsNeeded(cp) = 2 /\ IsText(cp)
           /\ cp \notin Wide => CellsNeeded(cp) = 1
BY TermConstants DEF CellsNeeded, IsText

LEMMA ShownFact ==
    ASSUME NEW parts \in SUBSET (Values \X {0, 1})
    PROVE  /\ Shown(parts) \in ScreenCell /\ Shown(parts).g = parts
           /\ ~Shown(parts).inv /\ Shown(parts).bar = "none"
BY DEF Shown, ScreenCell

LEMMA PartFact ==
    ASSUME NEW cp \in Values, NEW half \in {0, 1}
    PROVE  Part(cp, half) \in SUBSET (Values \X {0, 1})
<1>1. <<cp, half>> \in Values \X {0, 1} OBVIOUS
<1>2. Part(cp, half) \subseteq {<<cp, half>>} BY DEF Part
<1> QED BY <1>1, <1>2

LEMMA PixFact ==
    ASSUME NEW C \in Nat, NEW data \in [0 .. C - 1 -> Values], Paired(data), NEW x \in 0 .. C - 1
    PROVE  Pix(data, x) \in SUBSET (Values \X {0, 1})
<1>1. data[x] = TERMINAL_CONTINUATION => x - 1 \in 0 .. C - 1 BY DEF Paired
<1> QED BY <1>1 DEF Pix

\* A row drawn at once.
LEMMA RowPix ==
    ASSUME NEW C \in Nat, NEW data \in [0 .. C - 1 -> Values], Paired(data), NEW x \in 0 .. C - 1
    PROVE  graphics_render_row_data(data)[x] = Shown(Pix(data, x))
<1> DEFINE Z == {z \in {x - 1, x} \cap DOMAIN data : IsText(data[z]) /\ x < z + CellsNeeded(data[z])}
<1>1. graphics_render_row_data(data)[x] = Shown({<<data[y], x - y>> : y \in Z})
  BY DEF graphics_render_row_data
<1>2. DOMAIN data = 0 .. C - 1 OBVIOUS
<1>3. CASE IsText(data[x])
  <2>1. x \in Z BY <1>2, <1>3, WideFact
  <2>2. x - 1 \notin Z
    <3> SUFFICES ASSUME x - 1 \in Z PROVE FALSE OBVIOUS
    <3>1. x - 1 \in 0 .. C - 1 /\ x < (x - 1) + CellsNeeded(data[x - 1]) BY <1>2
    <3>2. data[x - 1] \in Wide BY <3>1, WideFact
    <3>3. data[x] = TERMINAL_CONTINUATION BY <1>2, <3>1, <3>2 DEF Paired
    <3> QED BY <1>3, <3>3 DEF IsText
  <2>3. Z = {x} BY <2>1, <2>2
  <2> HIDE DEF Z
  <2>4. {<<data[y], x - y>> : y \in Z} = {<<data[x], 0>>} BY <2>3
  <2> QED BY <1>1, <1>3, <2>4 DEF Pix
<1>4. CASE data[x] = TERMINAL_CONTINUATION
  <2>1. x > 0 /\ data[x - 1] \in Wide BY <1>2, <1>4 DEF Paired
  <2>2. x - 1 \in Z BY <1>2, <2>1, WideFact
  <2>3. x \notin Z BY <1>4 DEF IsText
  <2>4. Z = {x - 1} BY <2>2, <2>3
  <2> HIDE DEF Z
  <2>5. {<<data[y], x - y>> : y \in Z} = {<<data[x - 1], 1>>} BY <2>4
  <2>6. ~IsText(data[x]) BY <1>4 DEF IsText
  <2> QED BY <1>1, <1>4, <2>5, <2>6 DEF Pix
<1>5. CASE data[x] = " "
  <2>1. x \notin Z BY <1>5 DEF IsText
  <2>2. x - 1 \notin Z
    <3> SUFFICES ASSUME x - 1 \in Z PROVE FALSE OBVIOUS
    <3>1. x - 1 \in 0 .. C - 1 /\ x < (x - 1) + CellsNeeded(data[x - 1]) BY <1>2
    <3>2. data[x - 1] \in Wide BY <3>1, WideFact
    <3>3. data[x] = TERMINAL_CONTINUATION BY <1>2, <3>1, <3>2 DEF Paired
    <3> QED BY <1>5, <3>3, TermConstants
  <2>3. Z = {} BY <2>1, <2>2
  <2> HIDE DEF Z
  <2>4. {<<data[y], x - y>> : y \in Z} = {} BY <2>3
  <2>6. ~IsText(data[x]) /\ data[x] # TERMINAL_CONTINUATION BY <1>5, TermConstants DEF IsText
  <2> QED BY <1>1, <2>4, <2>6 DEF Pix
<1> QED BY <1>3, <1>4, <1>5 DEF IsText


-----------------------------------------------------------------------------
(* Drawing a cell.                                                         *)

LEMMA GridFact ==
    ASSUME NEW t, Shape(t)
    PROVE  /\ DOMAIN t = TerminalFields
           /\ \A r \in Rows(t) : t.scr[r] \in [Columns(t) -> ScreenCell]
           /\ \A r \in Rows(t) : t.cells[r] \in [Columns(t) -> Values]
           /\ t.scr \in [Rows(t) -> [Columns(t) -> ScreenCell]]
           /\ t.cells \in [Rows(t) -> [Columns(t) -> Values]]
           /\ t.cols \in Nat /\ t.rows \in Nat /\ t.cols >= 2 /\ t.rows >= 1
           /\ t.col \in Nat /\ t.row \in Nat
BY DEF Shape, GridType

LEMMA ClearCell ==
    ASSUME NEW t, Shape(t), NEW c \in Columns(t), NEW r \in Rows(t),
           NEW u, u = graphics_clear_cell(t, c, r)
    PROVE  /\ OnlyScr(t, u) /\ ScrType(t, u.scr)
           /\ \A s \in Rows(t) : \A x \in Columns(t) :
                u.scr[s][x] = IF s = r /\ x = c THEN Shown({}) ELSE t.scr[s][x]
<1>1. DOMAIN t = TerminalFields /\ t.scr \in [Rows(t) -> [Columns(t) -> ScreenCell]] BY GridFact
<1> DEFINE row == [t.scr[r] EXCEPT ![c] = Shown({})]
<1>2. u = [t EXCEPT !.scr = [t.scr EXCEPT ![r] = row]] BY Zenon DEF graphics_clear_cell
<1>3. OnlyScr(t, u) /\ u.scr = [t.scr EXCEPT ![r] = row] BY <1>1, <1>2, ScrFact
<1>4. {} \in SUBSET (Values \X {0, 1}) BY Zenon
<1>5. Shown({}) \in ScreenCell BY <1>4, ShownFact
<1>6. row \in [Columns(t) -> ScreenCell] BY <1>1, <1>5
<1>7. ScrType(t, u.scr) BY <1>1, <1>3, <1>6 DEF ScrType
<1>8. ASSUME NEW s \in Rows(t), NEW x \in Columns(t)
      PROVE  u.scr[s][x] = IF s = r /\ x = c THEN Shown({}) ELSE t.scr[s][x]
  BY <1>1, <1>3
<1> QED BY <1>3, <1>7, <1>8

LEMMA DrawGlyph ==
    ASSUME NEW t, Shape(t), NEW c \in Columns(t), NEW r \in Rows(t), NEW cp \in Values,
           NEW u, u = graphics_draw_glyph(t, cp, c, r)
    PROVE  /\ OnlyScr(t, u) /\ ScrType(t, u.scr)
           /\ \A s \in Rows(t) : \A x \in Columns(t) :
                u.scr[s][x] = IF s = r /\ (x = c \/ (x = c + 1 /\ cp \in Wide))
                              THEN Shown(Part(cp, x - c)) ELSE t.scr[s][x]
<1>1. DOMAIN t = TerminalFields /\ t.scr \in [Rows(t) -> [Columns(t) -> ScreenCell]] BY GridFact
<1>0. c \in Nat /\ \A x \in Columns(t) : x \in Nat BY DEF Columns
<1> DEFINE over(x) == x \in c .. c + CellsNeeded(cp) - 1
           row == [x \in Columns(t) |-> IF over(x) THEN Shown(Part(cp, x - c)) ELSE t.scr[r][x]]
<1>2. u = [t EXCEPT !.scr = [t.scr EXCEPT ![r] = row]] BY Zenon DEF graphics_draw_glyph
<1> HIDE DEF row
<1>3. OnlyScr(t, u) /\ u.scr = [t.scr EXCEPT ![r] = row] BY <1>1, <1>2, ScrFact
<1> USE DEF row
<1>4. \A x \in Columns(t) : over(x) <=> (x = c \/ (x = c + 1 /\ cp \in Wide)) BY <1>0, WideFact
<1>5. \A x \in Columns(t) : over(x) => x - c \in {0, 1} BY <1>0, <1>4
<1> HIDE DEF over
<1>6. \A x \in Columns(t) : over(x) => Shown(Part(cp, x - c)) \in ScreenCell
  <2> SUFFICES ASSUME NEW x \in Columns(t), over(x) PROVE Shown(Part(cp, x - c)) \in ScreenCell OBVIOUS
  <2>1. PICK h \in {0, 1} : h = x - c BY <1>5
  <2>2. Part(cp, h) \in SUBSET (Values \X {0, 1}) BY PartFact
  <2>3. Shown(Part(cp, h)) \in ScreenCell BY <2>2, ShownFact
  <2> QED BY <2>1, <2>3
<1>7. row \in [Columns(t) -> ScreenCell] BY <1>1, <1>6
<1>8. ScrType(t, u.scr) BY <1>1, <1>3, <1>7 DEF ScrType
<1>9. ASSUME NEW s \in Rows(t), NEW x \in Columns(t)
      PROVE  u.scr[s][x] = IF s = r /\ (x = c \/ (x = c + 1 /\ cp \in Wide))
                           THEN Shown(Part(cp, x - c)) ELSE t.scr[s][x]
  <2>1. u.scr[s][x] = IF s = r THEN row[x] ELSE t.scr[s][x] BY <1>1, <1>3
  <2>2. row[x] = IF over(x) THEN Shown(Part(cp, x - c)) ELSE t.scr[r][x] OBVIOUS
  <2> HIDE DEF row
  <2> QED BY <1>4, <2>1, <2>2
<1> QED BY <1>3, <1>8, <1>9

\* Every cell is drawn as it is or left alone; the cell asked for is drawn.
LEMMA LiveCell ==
    ASSUME NEW t, Shape(t), NEW c \in Columns(t), NEW r \in Rows(t),
           NEW u, u = graphics_render_live_cell(t, c, r)
    PROVE  /\ OnlyScr(t, u) /\ ScrType(t, u.scr)
           /\ \A s \in Rows(t) : s # r => \A x \in Columns(t) : u.scr[s][x] = t.scr[s][x]
           /\ Paired(t.cells[r]) =>
                /\ u.scr[r][c] = Shown(Pix(t.cells[r], c))
                /\ \A x \in Columns(t) : \/ u.scr[r][x] = t.scr[r][x]
                                         \/ u.scr[r][x] = Shown(Pix(t.cells[r], x))
<1> DEFINE d == t.cells[r]
<1>1. d \in [Columns(t) -> Values] BY GridFact
<1>2. c \in Nat /\ c < t.cols /\ t.cols \in Nat /\ DOMAIN d = Columns(t)
  BY <1>1, GridFact DEF Columns
<1>3. \A x \in Columns(t) : x \in Int BY DEF Columns
<1>4. CASE IsText(d[c])
  <2>1. u = graphics_draw_glyph(t, d[c], c, r) BY <1>4 DEF graphics_render_live_cell
  <2>2. d[c] \in Values BY <1>1
  <2>3. /\ OnlyScr(t, u) /\ ScrType(t, u.scr)
        /\ \A s \in Rows(t) : \A x \in Columns(t) :
             u.scr[s][x] = IF s = r /\ (x = c \/ (x = c + 1 /\ d[c] \in Wide))
                           THEN Shown(Part(d[c], x - c)) ELSE t.scr[s][x]
    BY <2>1, <2>2, DrawGlyph
  <2>4. d[c] # " " BY <1>4 DEF IsText
  <2>5. Part(d[c], c - c) = Pix(d, c)
    <3>1. c - c = 0 BY <1>2
    <3>2. Part(d[c], 0) = Pix(d, c) BY <1>4, <2>4, Zenon DEF Part, Pix
    <3> QED BY <3>1, <3>2, Zenon
  <2>6. ASSUME Paired(d), d[c] \in Wide, c + 1 \in Columns(t) PROVE Part(d[c], (c + 1) - c) = Pix(d, c + 1)
    <3>1. d[c + 1] = TERMINAL_CONTINUATION BY <1>2, <2>6 DEF Paired
    <3>2. ~IsText(d[c + 1]) BY <3>1 DEF IsText
    <3>3. (c + 1) - c = 1 /\ (c + 1) - 1 = c BY <1>2
    <3>4. Part(d[c], 1) = {<<d[c], 1>>} BY <2>4, Zenon DEF Part
    <3>5. Pix(d, c + 1) = {<<d[(c + 1) - 1], 1>>} BY <3>1, <3>2, Zenon DEF Pix
    <3> QED BY <3>3, <3>4, <3>5, Zenon
  <2> QED BY <2>3, <2>5, <2>6
<1>5. CASE ~IsText(d[c]) /\ d[c] = TERMINAL_CONTINUATION /\ c > 0 /\ IsText(d[c - 1])
  <2>1. u = graphics_draw_glyph(t, d[c - 1], c - 1, r) BY <1>5 DEF graphics_render_live_cell
  <2>2. c - 1 \in Columns(t) BY <1>2, <1>5 DEF Columns
  <2>0. d[c - 1] \in Values BY <1>1, <2>2
  <2>9. PICK p \in Columns(t) : p = c - 1 BY <2>2
  <2>3. /\ OnlyScr(t, u) /\ ScrType(t, u.scr)
        /\ \A s \in Rows(t) : \A x \in Columns(t) :
             u.scr[s][x] = IF s = r /\ (x = p \/ (x = p + 1 /\ d[p] \in Wide))
                           THEN Shown(Part(d[p], x - p)) ELSE t.scr[s][x]
    BY <2>0, <2>1, <2>9, DrawGlyph
  <2>4. d[p] # " " /\ IsText(d[p]) BY <1>5, <2>9, Zenon DEF IsText
  <2>8. p \in Int /\ p + 1 = c /\ p - p = 0 /\ (p + 1) - p = 1 BY <1>2, <2>9
  <2>5. Part(d[p], p - p) = Pix(d, p)
    <3>2. Part(d[p], 0) = Pix(d, p) BY <2>4, Zenon DEF Part, Pix
    <3> QED BY <2>8, <3>2, Zenon
  <2>6. Part(d[p], (p + 1) - p) = Pix(d, c)
    <3>2. Part(d[p], 1) = {<<d[p], 1>>} BY <2>4, Zenon DEF Part
    <3>3. Pix(d, c) = {<<d[c - 1], 1>>} BY <1>5, Zenon DEF Pix
    <3> QED BY <2>8, <2>9, <3>2, <3>3, Zenon
  <2>7. Paired(d) => d[p] \in Wide BY <1>2, <1>5, <2>9 DEF Paired
  <2> QED BY <2>3, <2>5, <2>6, <2>7, <2>8
<1>6. CASE ~IsText(d[c]) /\ ~(d[c] = TERMINAL_CONTINUATION /\ c > 0 /\ IsText(d[c - 1]))
  <2>1. u = graphics_clear_cell(t, c, r) BY <1>6 DEF graphics_render_live_cell
  <2>2. /\ OnlyScr(t, u) /\ ScrType(t, u.scr)
        /\ \A s \in Rows(t) : \A x \in Columns(t) :
             u.scr[s][x] = IF s = r /\ x = c THEN Shown({}) ELSE t.scr[s][x]
    BY <2>1, ClearCell
  <2>3. ASSUME Paired(d) PROVE Pix(d, c) = {}
    <3>1. d[c] # TERMINAL_CONTINUATION
      <4> SUFFICES ASSUME d[c] = TERMINAL_CONTINUATION PROVE FALSE OBVIOUS
      <4>1. c > 0 /\ d[c - 1] \in Wide BY <1>2, <2>3 DEF Paired
      <4>2. IsText(d[c - 1]) BY <4>1, WideFact
      <4> QED BY <1>6, <4>1, <4>2
    <3> QED BY <1>6, <3>1 DEF Pix
  <2> QED BY <2>2, <2>3
<1> QED BY <1>4, <1>5, <1>6


-----------------------------------------------------------------------------
(* The ring of lines and the rows in view.                                 *)

LEMMA Wrap ==
    ASSUME NEW u \in Nat, u >= 1, NEW x \in Nat
    PROVE  /\ x % u \in 0 .. u - 1
           /\ x < u => x % u = x
           /\ (x >= u /\ x < 2 * u) => x % u = x - u
<1>1. x % u \in 0 .. u - 1 BY SMT
<1>2. x < u => x % u = x BY SMT
<1>3. (x >= u /\ x < 2 * u) => x % u = x - u
  <2>1. x = u * (x \div u) + (x % u) BY SMT
  <2>2. (x \div u) \in Nat BY SMT
  <2> QED BY <1>1, <2>1, <2>2, SMT
<1> QED BY <1>1, <1>2, <1>3

LEMMA OldestFact ==
    ASSUME NEW t, RingType(t)
    PROVE  scrollback_oldest_index(t) \in 0 .. TERMINAL_SCROLLBACK_LINES - 1
<1>1. PICK N \in Nat : N = TERMINAL_SCROLLBACK_LINES /\ N >= 1 BY TermConstants
<1>2. PICK x \in Nat : x = t.head + N - t.count BY <1>1 DEF RingType
<1> QED BY <1>1, <1>2, Wrap DEF scrollback_oldest_index

LEMMA RingFact ==
    ASSUME NEW t, Shape(t)
    PROVE  /\ t.head \in Nat /\ t.head < TERMINAL_SCROLLBACK_LINES
           /\ t.count \in Nat /\ t.count <= TERMINAL_SCROLLBACK_LINES
           /\ t.offset \in Nat /\ t.offset <= t.count
           /\ t.ring \in [0 .. TERMINAL_SCROLLBACK_LINES - 1 -> [Columns(t) -> Values]]
<1>1. RingType(t) BY DEF Shape
<1>2. PICK N \in Nat : N = TERMINAL_SCROLLBACK_LINES BY TermConstants
<1>3. t.head \in 0 .. N - 1 /\ t.count \in 0 .. N /\ t.offset \in 0 .. t.count BY <1>1, <1>2 DEF RingType
<1>4. t.count \in Nat BY <1>3
<1> QED BY <1>1, <1>2, <1>3, <1>4 DEF RingType

LEMMA RowInt ==
    ASSUME NEW t, Shape(t)
    PROVE  /\ \A r \in Rows(t) : r \in Nat /\ r < t.rows
           /\ \A x \in Columns(t) : x \in Nat /\ x < t.cols
           /\ \A r \in Nat : r < t.rows => r \in Rows(t)
           /\ \A x \in Nat : x < t.cols => x \in Columns(t)
BY GridFact DEF Rows, Columns

LEMMA VisibleType ==
    ASSUME NEW t, Shape(t), NEW r \in Rows(t)
    PROVE  visible_row_data(t, r) \in [Columns(t) -> Values]
<1>1. PICK N \in Nat : N = TERMINAL_SCROLLBACK_LINES /\ N >= 1 BY TermConstants
<1>2. PICK o \in 0 .. N - 1 : o = scrollback_oldest_index(t) BY <1>1, OldestFact DEF Shape
<1>3. PICK l \in Nat : l = t.count - t.offset + r /\ l - t.count <= r /\ l - t.count \in Int
  BY RingFact, RowInt
<1>4. CASE l < t.count
  <2>1. PICK x \in Nat : x = o + l BY <1>2
  <2>2. x % N \in 0 .. N - 1 BY <1>1, <2>1, Wrap
  <2>3. t.ring \in [0 .. N - 1 -> [Columns(t) -> Values]] BY <1>1 DEF Shape, RingType
  <2>4. visible_row_data(t, r) = t.ring[(o + l) % N] BY <1>1, <1>2, <1>3, <1>4 DEF visible_row_data
  <2> QED BY <2>1, <2>2, <2>3, <2>4
<1>5. CASE ~(l < t.count)
  <2>1. l - t.count \in Rows(t)
    <3>1. l - t.count \in Nat /\ l - t.count < t.rows BY <1>3, <1>5, RingFact, RowInt, GridFact
    <3> QED BY <3>1, RowInt
  <2>2. visible_row_data(t, r) = t.cells[l - t.count] BY <1>3, <1>5 DEF visible_row_data
  <2> QED BY <2>1, <2>2, GridFact
<1> QED BY <1>4, <1>5

LEMMA VisibleLive ==
    ASSUME NEW t, Shape(t), t.offset = 0, NEW r \in Rows(t)
    PROVE  visible_row_data(t, r) = t.cells[r]
<1>1. t.count \in Nat /\ r \in Nat BY RingFact, RowInt
<1>2. t.count - t.offset + r = t.count + r /\ ~(t.count + r < t.count) /\ (t.count + r) - t.count = r
  BY <1>1
<1> QED BY <1>2 DEF visible_row_data

\* Rows drawn in the live view.
LEMMA FaithfulLive ==
    ASSUME NEW t, Shape(t), t.offset = 0, ~Torn(t), NEW r \in Rows(t), NEW x \in Columns(t)
    PROVE  /\ Paired(t.cells[r]) /\ Pix(t.cells[r], x) \in SUBSET (Values \X {0, 1})
           /\ graphics_render_row_data(visible_row_data(t, r))[x] = Shown(Pix(t.cells[r], x))
           /\ graphics_render_row_data(visible_row_data(t, r))[x].g = Pix(t.cells[r], x)
<1>1. Paired(t.cells[r]) BY DEF Torn
<1>2. t.cells[r] \in [0 .. t.cols - 1 -> Values] /\ t.cols \in Nat /\ x \in 0 .. t.cols - 1
  BY GridFact DEF Columns
<1>3. PICK C \in Nat : C = t.cols BY <1>2
<1>4. PICK d \in [0 .. C - 1 -> Values] : d = t.cells[r] BY <1>2, <1>3
<1>5. Pix(d, x) \in SUBSET (Values \X {0, 1}) BY <1>1, <1>2, <1>3, <1>4, PixFact
<1>6. graphics_render_row_data(d)[x] = Shown(Pix(d, x)) BY <1>1, <1>2, <1>3, <1>4, RowPix
<1>7. Shown(Pix(d, x)).g = Pix(d, x) BY <1>5, ShownFact
<1>8. visible_row_data(t, r) = d BY <1>4, VisibleLive
<1> QED BY <1>1, <1>4, <1>5, <1>6, <1>7, <1>8

\* A row drawn at once shows no inverted cell and no cursor.
LEMMA RowType ==
    ASSUME NEW C \in Nat, NEW data \in [0 .. C - 1 -> Values]
    PROVE  /\ graphics_render_row_data(data) \in [0 .. C - 1 -> ScreenCell]
           /\ \A x \in 0 .. C - 1 : /\ ~graphics_render_row_data(data)[x].inv
                                    /\ graphics_render_row_data(data)[x].bar = "none"
<1> DEFINE Z(x) == {z \in {x - 1, x} \cap DOMAIN data : IsText(data[z]) /\ x < z + CellsNeeded(data[z])}
           G(x) == {<<data[y], x - y>> : y \in Z(x)}
<1>1. graphics_render_row_data(data) = [x \in 0 .. C - 1 |-> Shown(G(x))]
  BY DEF graphics_render_row_data
<1>2. ASSUME NEW x \in 0 .. C - 1 PROVE G(x) \in SUBSET (Values \X {0, 1})
  <2>1. \A y \in Z(x) : data[y] \in Values /\ x - y \in {0, 1} OBVIOUS
  <2> HIDE DEF Z
  <2>2. \A y \in Z(x) : <<data[y], x - y>> \in Values \X {0, 1} BY <2>1
  <2> QED BY <2>2
<1> HIDE DEF G
<1>3. \A x \in 0 .. C - 1 : /\ Shown(G(x)) \in ScreenCell
                           /\ ~Shown(G(x)).inv /\ Shown(G(x)).bar = "none"
  BY <1>2, ShownFact
<1> QED BY <1>1, <1>3


-----------------------------------------------------------------------------
(* The selection.                                                          *)

LEMMA LinearInt ==
    ASSUME NEW t, Shape(t), NEW r \in Rows(t), NEW x \in Columns(t)
    PROVE  cell_linear(t, x, r) \in Nat
<1>1. PICK a \in Nat : a = r BY RowInt
<1>2. PICK b \in Nat : b = t.cols BY GridFact
<1>3. PICK c \in Nat : c = x BY RowInt
<1>4. a * b + c \in Nat OBVIOUS
<1> QED BY <1>1, <1>2, <1>3, <1>4 DEF cell_linear

LEMMA FlippedFact ==
    ASSUME NEW cell \in ScreenCell
    PROVE  /\ Flipped(cell) \in ScreenCell /\ Flipped(cell).g = cell.g
           /\ Flipped(cell).inv = ~cell.inv
           /\ (Flipped(cell).bar # "none") = (cell.bar # "none")
<1>1. cell = [g |-> cell.g, inv |-> cell.inv, bar |-> cell.bar] /\ cell.inv \in BOOLEAN
      /\ cell.bar \in {"none", "on", "off"} /\ cell.g \in SUBSET (Values \X {0, 1})
  BY DEF ScreenCell
<1> DEFINE bar == CASE cell.bar = "on" -> "off" [] cell.bar = "off" -> "on" [] OTHER -> cell.bar
<1>2. bar \in {"none", "on", "off"} /\ (bar # "none") = (cell.bar # "none") BY <1>1
<1>3. Flipped(cell) = [cell EXCEPT !.inv = ~cell.inv, !.bar = bar] BY Zenon DEF Flipped
<1> HIDE DEF bar
<1>4. PICK i \in BOOLEAN : i = ~cell.inv BY Zenon
<1>5. Flipped(cell) = [g |-> cell.g, inv |-> i, bar |-> bar] BY <1>1, <1>3, <1>4
<1>6. Flipped(cell) \in ScreenCell BY <1>1, <1>2, <1>5 DEF ScreenCell
<1>7. Flipped(cell).g = cell.g /\ Flipped(cell).inv = i /\ Flipped(cell).bar = bar BY <1>5
<1> QED BY <1>2, <1>4, <1>6, <1>7, Zenon

\* The glyphs and the cursor on the screen are the same.
SameLook(t, u) ==
    \A r \in Rows(t) : \A x \in Columns(t) :
      /\ u.scr[r][x].g = t.scr[r][x].g
      /\ (u.scr[r][x].bar # "none") = (t.scr[r][x].bar # "none")
Lit(t, r, x) == t.scr[r][x].inv
InRange(t, x, r, a, b) == cell_linear(t, x, r) \in a .. b

LEMMA InvertFact ==
    ASSUME NEW t, Shape(t), NEW a, NEW b, NEW u, u = selection_invert_linear_range(t, a, b)
    PROVE  /\ OnlyScr(t, u) /\ ScrType(t, u.scr) /\ SameLook(t, u)
           /\ \A r \in Rows(t) : \A x \in Columns(t) :
                Lit(u, r, x) <=> (Lit(t, r, x) <=> ~InRange(t, x, r, a, b))
<1> DEFINE cell(r, x) == IF cell_linear(t, x, r) \in a .. b THEN Flipped(t.scr[r][x]) ELSE t.scr[r][x]
           S == [r \in Rows(t) |-> [x \in Columns(t) |-> cell(r, x)]]
<1>1. DOMAIN t = TerminalFields /\ t.scr \in [Rows(t) -> [Columns(t) -> ScreenCell]] BY GridFact
<1>2. u = [t EXCEPT !.scr = S] BY Zenon DEF selection_invert_linear_range
<1>3. ASSUME NEW r \in Rows(t), NEW x \in Columns(t)
      PROVE  /\ cell(r, x) \in ScreenCell /\ cell(r, x).g = t.scr[r][x].g
             /\ (cell(r, x).bar # "none") = (t.scr[r][x].bar # "none")
             /\ cell(r, x).inv <=> (Lit(t, r, x) <=> ~InRange(t, x, r, a, b))
  <2>1. t.scr[r][x] \in ScreenCell BY <1>1
  <2>2. PICK k \in ScreenCell : k = t.scr[r][x] BY <2>1
  <2>3. k.inv \in BOOLEAN BY DEF ScreenCell
  <2>4. /\ Flipped(k) \in ScreenCell /\ Flipped(k).g = k.g
        /\ Flipped(k).inv = ~k.inv /\ (Flipped(k).bar # "none") = (k.bar # "none")
    BY FlippedFact
  <2>5. CASE cell_linear(t, x, r) \in a .. b
    <3>1. cell(r, x) = Flipped(k) BY <2>2, <2>5, Zenon
    <3> QED BY <2>2, <2>3, <2>4, <2>5, <3>1, Zenon DEF Lit, InRange
  <2>6. CASE cell_linear(t, x, r) \notin a .. b
    <3>1. cell(r, x) = k BY <2>2, <2>6, Zenon
    <3> QED BY <2>2, <2>3, <2>6, <3>1, Zenon DEF Lit, InRange
  <2> QED BY <2>5, <2>6
<1> HIDE DEF cell
<1>4. S \in [Rows(t) -> [Columns(t) -> ScreenCell]] BY <1>3
<1>5. \A r \in Rows(t) : \A x \in Columns(t) : S[r][x] = cell(r, x) OBVIOUS
<1> HIDE DEF S
<1>6. OnlyScr(t, u) /\ u.scr = S BY <1>1, <1>2, ScrFact
<1>7. ScrType(t, u.scr) BY <1>4, <1>6 DEF ScrType
<1>8. SameLook(t, u) BY <1>3, <1>5, <1>6, Zenon DEF SameLook
<1>9. \A r \in Rows(t) : \A x \in Columns(t) :
        Lit(u, r, x) <=> (Lit(t, r, x) <=> ~InRange(t, x, r, a, b))
  <2> SUFFICES ASSUME NEW r \in Rows(t), NEW x \in Columns(t)
               PROVE  Lit(u, r, x) <=> (Lit(t, r, x) <=> ~InRange(t, x, r, a, b))
    OBVIOUS
  <2>1. Lit(u, r, x) = cell(r, x).inv BY <1>5, <1>6, Zenon DEF Lit
  <2> QED BY <1>3, <2>1, Zenon
<1> QED BY <1>6, <1>7, <1>8, <1>9

\* What differs is the selection and what of it is inverted.
OnlySelection(t, u) ==
    /\ DOMAIN u = TerminalFields
    /\ SameText(t, u) /\ SameUpdate(t, u)
    /\ u.col = t.col /\ u.row = t.row /\ u.offset = t.offset /\ u.smudge = t.smudge
    /\ ScrType(t, u.scr) /\ SameLook(t, u) /\ SelectionType(u)
Marked(t) == \A r \in Rows(t) : \A x \in Columns(t) : Lit(t, r, x) <=> Selected(t, x, r)
SelectionEffect(t, u) == OnlySelection(t, u) /\ (Marked(t) => Marked(u))

LEMMA SelectionShape ==
    ASSUME NEW t, NEW u, Shape(t), OnlySelection(t, u)
    PROVE  /\ Shape(u) /\ Rows(u) = Rows(t) /\ Columns(u) = Columns(t)
           /\ InGrid(t) => InGrid(u)
           /\ Kept(t) => Kept(u)
           /\ Torn(u) = Torn(t)
           /\ \A r : visible_row_data(u, r) = visible_row_data(t, r)
<1> USE DEF OnlySelection, SameText, SameUpdate
<1>1. Rows(u) = Rows(t) /\ Columns(u) = Columns(t) BY DEF Rows, Columns
<1>2. GridType(u) BY <1>1 DEF Shape, GridType, ScrType
<1>3. RingType(u) BY <1>1 DEF Shape, RingType
<1>4. UpdateType(u) BY DEF Shape, UpdateType
<1>6. Shape(u) BY <1>2, <1>3, <1>4 DEF Shape
<1>7. InGrid(t) => InGrid(u) BY DEF InGrid
<1>8. Kept(t) => Kept(u) BY DEF Kept, scrollback_oldest_index
<1>9. Torn(u) = Torn(t) BY <1>1 DEF Torn
<1>10. \A r : visible_row_data(u, r) = visible_row_data(t, r) BY DEF visible_row_data, scrollback_oldest_index
<1> QED BY <1>1, <1>6, <1>7, <1>8, <1>9, <1>10

LEMMA EffectTwice ==
    ASSUME NEW t, NEW u, NEW v, SelectionEffect(t, u), SelectionEffect(u, v)
    PROVE  SelectionEffect(t, v)
<1>1. OnlySelection(t, u) /\ OnlySelection(u, v) /\ (Marked(t) => Marked(v)) BY DEF SelectionEffect
<1>2. Rows(u) = Rows(t) /\ Columns(u) = Columns(t) BY <1>1 DEF OnlySelection, SameText, Rows, Columns
<1>3. SameLook(t, v) BY <1>1, <1>2 DEF OnlySelection, SameLook
<1>4. ScrType(t, v.scr) BY <1>1, <1>2 DEF OnlySelection, ScrType
<1>5. SameText(t, v) /\ SameUpdate(t, v) BY <1>1 DEF OnlySelection, SameText, SameUpdate
<1>6. OnlySelection(t, v) BY <1>1, <1>3, <1>4, <1>5 DEF OnlySelection
<1> QED BY <1>1, <1>6 DEF SelectionEffect

LEMMA SelectedFact ==
    ASSUME NEW t, Shape(t)
    PROVE  \A r : \A x : Selected(t, x, r) <=> (t.drawn /\ InRange(t, x, r, t.drawn_start, t.drawn_end))
BY DEF Selected, InRange

LEMMA SelectionFact ==
    ASSUME NEW t, Shape(t)
    PROVE  /\ SelectionType(t) /\ t.drawn \in BOOLEAN /\ t.active \in BOOLEAN /\ t.tracking \in BOOLEAN
           /\ t.anchor \in Nat /\ t.focus \in Nat /\ t.drawn_start \in Nat /\ t.drawn_end \in Nat
           /\ t.drawn => t.drawn_start <= t.drawn_end
           /\ ScrType(t, t.scr)
BY DEF Shape, SelectionType, GridType, ScrType


\* Everything but the fields of the selection.
ButSelection(v, u) ==
    /\ DOMAIN u = TerminalFields
    /\ SameText(v, u) /\ SameUpdate(v, u)
    /\ u.col = v.col /\ u.row = v.row /\ u.offset = v.offset /\ u.smudge = v.smudge
    /\ u.scr = v.scr

LEMMA SelectionOf ==
    ASSUME NEW t, NEW v, NEW u, OnlyScr(t, v), ScrType(t, v.scr), SameLook(t, v),
           ButSelection(v, u), SelectionType(u)
    PROVE  OnlySelection(t, u)
<1>1. SameLook(t, u) BY DEF ButSelection, SameLook
<1> QED BY <1>1 DEF ButSelection, OnlyScr, OnlySelection, SameText, SameUpdate

LEMMA ScrItself ==
    ASSUME NEW t, Shape(t)
    PROVE  OnlyScr(t, t) /\ ScrType(t, t.scr) /\ SameLook(t, t)
<1>1. DOMAIN t = TerminalFields /\ ScrType(t, t.scr) BY GridFact, SelectionFact
<1> QED BY <1>1 DEF OnlyScr, SameText, SameUpdate, SameSelection, SameLook

LEMMA EffectOfFields ==
    ASSUME NEW t, NEW u, Shape(t), ButSelection(t, u), SelectionType(u),
           u.drawn = t.drawn, u.drawn_start = t.drawn_start, u.drawn_end = t.drawn_end
    PROVE  SelectionEffect(t, u)
<1>1. OnlySelection(t, u) BY ScrItself, SelectionOf
<1>2. Rows(u) = Rows(t) /\ Columns(u) = Columns(t) BY DEF ButSelection, SameText, Rows, Columns
<1>3. Marked(t) => Marked(u)
  BY <1>2 DEF Marked, Lit, Selected, cell_linear, ButSelection, SameText
<1> QED BY <1>1, <1>3 DEF SelectionEffect

LEMMA EffectItself ==
    ASSUME NEW t, Shape(t)
    PROVE  SelectionEffect(t, t)
<1>1. DOMAIN t = TerminalFields /\ SelectionType(t) BY GridFact, SelectionFact
<1>2. ButSelection(t, t) BY <1>1 DEF ButSelection, SameText, SameUpdate
<1> QED BY <1>1, <1>2, EffectOfFields

LEMMA HideFact ==
    ASSUME NEW t, Shape(t), NEW u, u = selection_hide(t)
    PROVE  SelectionEffect(t, u) /\ u.drawn = FALSE
<1>1. CASE t.drawn = FALSE
  <2>1. u = t BY <1>1, Zenon DEF selection_hide
  <2> QED BY <1>1, <2>1, EffectItself
<1>2. CASE t.drawn = TRUE
  <2>1. PICK v : v = selection_invert_linear_range(t, t.drawn_start, t.drawn_end) OBVIOUS
  <2>2. u = [v EXCEPT !.drawn = FALSE, !.drawn_start = 0, !.drawn_end = 0]
    BY <1>2, <2>1, Zenon DEF selection_hide
  <2>3. /\ OnlyScr(t, v) /\ ScrType(t, v.scr) /\ SameLook(t, v)
        /\ \A r \in Rows(t) : \A x \in Columns(t) :
             Lit(v, r, x) <=> (Lit(t, r, x) <=> ~InRange(t, x, r, t.drawn_start, t.drawn_end))
    BY <2>1, InvertFact
  <2>4. /\ ButSelection(v, u) /\ u.drawn = FALSE /\ u.drawn_start = 0 /\ u.drawn_end = 0
        /\ u.tracking = v.tracking /\ u.active = v.active /\ u.anchor = v.anchor /\ u.focus = v.focus
    BY <2>2, <2>3 DEF OnlyScr, ButSelection, SameText, SameUpdate, TerminalFields
  <2>5. SelectionType(u)
    <3>1. u.tracking = t.tracking /\ u.active = t.active /\ u.anchor = t.anchor /\ u.focus = t.focus
      BY <2>3, <2>4, Zenon DEF OnlyScr, SameSelection
    <3>2. u.tracking \in BOOLEAN /\ u.active \in BOOLEAN BY <3>1, SelectionFact, Zenon
    <3>3. u.anchor \in Nat /\ u.focus \in Nat BY <3>1, SelectionFact
    <3>4. u.drawn_start \in Nat /\ u.drawn_end \in Nat BY <2>4
    <3>5. u.drawn \in BOOLEAN /\ ~u.drawn BY <2>4, Zenon
    <3> QED BY <3>2, <3>3, <3>4, <3>5, Zenon DEF SelectionType
  <2>6. OnlySelection(t, u) BY <2>3, <2>4, <2>5, SelectionOf
  <2>7. ASSUME Marked(t) PROVE Marked(u)
    <3>1. Rows(u) = Rows(t) /\ Columns(u) = Columns(t) BY <2>6, SelectionShape
    <3>2. ASSUME NEW r \in Rows(t), NEW x \in Columns(t) PROVE ~Lit(u, r, x)
      <4>1. Lit(u, r, x) <=> Lit(v, r, x) BY <2>4 DEF Lit, ButSelection
      <4>2. Lit(t, r, x) <=> InRange(t, x, r, t.drawn_start, t.drawn_end)
        BY <1>2, <2>7, SelectedFact DEF Marked
      <4> QED BY <2>3, <4>1, <4>2
    <3>3. \A r, x : ~Selected(u, x, r) BY <2>4 DEF Selected
    <3> QED BY <3>1, <3>2, <3>3 DEF Marked
  <2> QED BY <2>4, <2>6, <2>7 DEF SelectionEffect
<1> QED BY <1>1, <1>2, SelectionFact

LEMMA SelectionClear ==
    ASSUME NEW t, Shape(t), NEW u, u = terminal_selection_clear(t)
    PROVE  SelectionEffect(t, u) /\ u.drawn = FALSE
<1>1. PICK v : v = selection_hide(t) OBVIOUS
<1>2. SelectionEffect(t, v) /\ v.drawn = FALSE BY <1>1, HideFact
<1>3. u = [v EXCEPT !.tracking = FALSE, !.active = FALSE, !.anchor = 0, !.focus = 0]
  BY <1>1, Zenon DEF terminal_selection_clear
<1>4. Shape(v) BY <1>2, SelectionShape DEF SelectionEffect
<1>5. DOMAIN v = TerminalFields BY <1>4, GridFact
<1>6. /\ ButSelection(v, u) /\ u.drawn = v.drawn /\ u.drawn_start = v.drawn_start
      /\ u.drawn_end = v.drawn_end /\ u.tracking = FALSE /\ u.active = FALSE /\ u.anchor = 0 /\ u.focus = 0
  BY <1>3, <1>5 DEF ButSelection, SameText, SameUpdate, TerminalFields
<1>7. SelectionType(u)
  <2>1. u.tracking \in BOOLEAN /\ u.active \in BOOLEAN BY <1>6, Zenon
  <2>2. u.anchor \in Nat /\ u.focus \in Nat BY <1>6
  <2>3. u.drawn_start \in Nat /\ u.drawn_end \in Nat /\ u.drawn = FALSE BY <1>2, <1>4, <1>6, SelectionFact
  <2>4. u.drawn \in BOOLEAN /\ ~u.drawn BY <2>3, Zenon
  <2> QED BY <2>1, <2>2, <2>3, <2>4, Zenon DEF SelectionType
<1>8. SelectionEffect(v, u) BY <1>4, <1>6, <1>7, EffectOfFields
<1> QED BY <1>2, <1>6, <1>8, EffectTwice

LEMMA BoundsFact ==
    ASSUME NEW t, Shape(t)
    PROVE  SelectionStart(t) \in Nat /\ SelectionEnd(t) \in Nat /\ SelectionStart(t) <= SelectionEnd(t)
BY SelectionFact DEF SelectionStart, SelectionEnd


\* selection_show, with the range the selection has now.
LEMMA ShowFact ==
    ASSUME NEW t, Shape(t), NEW u, u = selection_show(t)
    PROVE  SelectionEffect(t, u)
<1>1. PICK s \in Nat : s = SelectionStart(t) BY BoundsFact
<1>2. PICK e \in Nat : e = SelectionEnd(t) BY BoundsFact
<1>3. s <= e BY <1>1, <1>2, BoundsFact
<1> DEFINE Invert(w, a, b) == selection_invert_linear_range(w, a, b)
           ds == t.drawn_start
           de == t.drawn_end
           In(r, x, a, b) == InRange(t, x, r, a, b)
<1>4. t.drawn \in BOOLEAN /\ t.active \in BOOLEAN /\ ds \in Nat /\ de \in Nat /\ (t.drawn => ds <= de)
  BY SelectionFact
<1>5. CASE t.active = FALSE
  <2>1. u = selection_hide(t) BY <1>5, Zenon DEF selection_show
  <2> QED BY <2>1, HideFact
<1>6. ASSUME NEW w, OnlyScr(t, w), ScrType(t, w.scr), SameLook(t, w), NEW a, NEW b, NEW v, v = Invert(w, a, b)
      PROVE  /\ OnlyScr(t, v) /\ ScrType(t, v.scr) /\ SameLook(t, v)
             /\ \A r \in Rows(t) : \A x \in Columns(t) : Lit(v, r, x) <=> (Lit(w, r, x) <=> ~In(r, x, a, b))
  <2>1. Shape(w) /\ Rows(w) = Rows(t) /\ Columns(w) = Columns(t) BY <1>6, OnlyScrShape
  <2>2. /\ OnlyScr(w, v) /\ ScrType(w, v.scr) /\ SameLook(w, v)
        /\ \A r \in Rows(w) : \A x \in Columns(w) :
             Lit(v, r, x) <=> (Lit(w, r, x) <=> ~InRange(w, x, r, a, b))
    BY <1>6, <2>1, InvertFact
  <2>3. OnlyScr(t, v) BY <1>6, <2>2, OnlyScrTwice
  <2>4. ScrType(t, v.scr) BY <2>1, <2>2 DEF ScrType
  <2>5. SameLook(t, v) BY <1>6, <2>1, <2>2 DEF SameLook
  <2>6. \A r, x : InRange(w, x, r, a, b) <=> In(r, x, a, b)
    BY <1>6 DEF InRange, cell_linear, OnlyScr, SameText
  <2> QED BY <2>1, <2>2, <2>3, <2>4, <2>5, <2>6
<1>7. ASSUME t.active = TRUE, NEW w, OnlyScr(t, w), ScrType(t, w.scr), SameLook(t, w),
             u = [w EXCEPT !.drawn = TRUE, !.drawn_start = s, !.drawn_end = e],
             Marked(t) => \A r \in Rows(t) : \A x \in Columns(t) : Lit(w, r, x) <=> In(r, x, s, e)
      PROVE  SelectionEffect(t, u)
  <2>1. /\ ButSelection(w, u) /\ u.drawn = TRUE /\ u.drawn_start = s /\ u.drawn_end = e
        /\ u.tracking = w.tracking /\ u.active = w.active /\ u.anchor = w.anchor /\ u.focus = w.focus
    BY <1>7 DEF OnlyScr, ButSelection, SameText, SameUpdate, TerminalFields
  <2>2. SelectionType(u)
    <3>1. u.tracking = t.tracking /\ u.active = t.active /\ u.anchor = t.anchor /\ u.focus = t.focus
      BY <1>7, <2>1, Zenon DEF OnlyScr, SameSelection
    <3>2. u.tracking \in BOOLEAN /\ u.active \in BOOLEAN BY <3>1, SelectionFact, Zenon
    <3>3. u.anchor \in Nat /\ u.focus \in Nat BY <3>1, SelectionFact
    <3>4. u.drawn_start \in Nat /\ u.drawn_end \in Nat /\ u.drawn_start <= u.drawn_end BY <1>3, <2>1
    <3>5. u.drawn \in BOOLEAN BY <2>1, Zenon
    <3> QED BY <3>2, <3>3, <3>4, <3>5, Zenon DEF SelectionType
  <2>3. OnlySelection(t, u) BY <1>7, <2>1, <2>2, SelectionOf
  <2>4. ASSUME Marked(t) PROVE Marked(u)
    <3>1. Rows(u) = Rows(t) /\ Columns(u) = Columns(t) BY <2>3, SelectionShape
    <3>2. ASSUME NEW r \in Rows(t), NEW x \in Columns(t) PROVE Lit(u, r, x) <=> Selected(u, x, r)
      <4>1. Lit(u, r, x) <=> Lit(w, r, x) BY <2>1 DEF Lit, ButSelection
      <4>2. u.cols = t.cols BY <2>3 DEF OnlySelection, SameText
      <4>3. Selected(u, x, r) <=> In(r, x, s, e) BY <2>1, <4>2 DEF Selected, InRange, cell_linear
      <4> QED BY <1>7, <2>4, <4>1, <4>3
    <3> QED BY <3>1, <3>2 DEF Marked
  <2> QED BY <2>3, <2>4 DEF SelectionEffect
<1>8. \A r \in Rows(t) : \A x \in Columns(t) : cell_linear(t, x, r) \in Int BY LinearInt
<1>9. Marked(t) => \A r \in Rows(t) : \A x \in Columns(t) :
        Lit(t, r, x) <=> (t.drawn /\ In(r, x, ds, de))
  BY SelectedFact DEF Marked
<1>10. OnlyScr(t, t) /\ ScrType(t, t.scr) /\ SameLook(t, t) BY ScrItself
<1> HIDE DEF Invert, In
<1>11. CASE t.active = TRUE /\ t.drawn = FALSE
  <2>1. PICK w : w = Invert(t, s, e) OBVIOUS
  <2>2. u = [w EXCEPT !.drawn = TRUE, !.drawn_start = s, !.drawn_end = e]
    BY <1>1, <1>2, <1>11, <2>1, Zenon DEF selection_show, Invert
  <2>3. /\ OnlyScr(t, w) /\ ScrType(t, w.scr) /\ SameLook(t, w)
        /\ \A r \in Rows(t) : \A x \in Columns(t) : Lit(w, r, x) <=> (Lit(t, r, x) <=> ~In(r, x, s, e))
    BY <1>6, <1>10, <2>1
  <2>4. Marked(t) => \A r \in Rows(t) : \A x \in Columns(t) : Lit(w, r, x) <=> In(r, x, s, e)
    BY <1>9, <1>11, <2>3
  <2> QED BY <1>7, <1>11, <2>2, <2>3, <2>4
<1> DEFINE Result(v) == u = [v EXCEPT !.drawn = TRUE, !.drawn_start = s, !.drawn_end = e]
           Differ(i, j, a, b, c, d) ==
             \A p \in Int : (p \in s .. e) <=> (((p \in i .. j) <=> ~(p \in a .. b)) <=> ~(p \in c .. d))
<1>12. ASSUME t.active = TRUE, t.drawn = TRUE, NEW a, NEW b, NEW c, NEW d,
              Result(Invert(Invert(t, a, b), c, d)), Differ(ds, de, a, b, c, d)
       PROVE  SelectionEffect(t, u)
  <2>1. PICK w : w = Invert(t, a, b) OBVIOUS
  <2>2. PICK v : v = Invert(w, c, d) OBVIOUS
  <2>3. /\ OnlyScr(t, w) /\ ScrType(t, w.scr) /\ SameLook(t, w)
        /\ \A r \in Rows(t) : \A x \in Columns(t) : Lit(w, r, x) <=> (Lit(t, r, x) <=> ~In(r, x, a, b))
    BY <1>6, <1>10, <2>1
  <2>4. /\ OnlyScr(t, v) /\ ScrType(t, v.scr) /\ SameLook(t, v)
        /\ \A r \in Rows(t) : \A x \in Columns(t) : Lit(v, r, x) <=> (Lit(w, r, x) <=> ~In(r, x, c, d))
    BY <1>6, <2>2, <2>3
  <2>5. ASSUME Marked(t), NEW r \in Rows(t), NEW x \in Columns(t) PROVE Lit(v, r, x) <=> In(r, x, s, e)
    <3>1. PICK p \in Int : p = cell_linear(t, x, r) BY <1>8
    <3>2. \A i, j : In(r, x, i, j) <=> p \in i .. j BY <3>1 DEF In, InRange
    <3>3. Lit(t, r, x) <=> In(r, x, ds, de) BY <1>9, <1>12, <2>5
    <3>4. Lit(w, r, x) <=> (Lit(t, r, x) <=> ~In(r, x, a, b)) BY <2>3
    <3>5. Lit(v, r, x) <=> (Lit(w, r, x) <=> ~In(r, x, c, d)) BY <2>4
    <3>6. In(r, x, s, e) <=> ((In(r, x, ds, de) <=> ~In(r, x, a, b)) <=> ~In(r, x, c, d))
      BY <1>12, <3>2
    <3> QED BY <3>3, <3>4, <3>5, <3>6
  <2>6. u = [v EXCEPT !.drawn = TRUE, !.drawn_start = s, !.drawn_end = e] BY <1>12, <2>1, <2>2
  <2> QED BY <1>7, <1>12, <2>4, <2>5, <2>6
<1>13. CASE t.active = TRUE /\ t.drawn = TRUE
  <2>1. PICK a \in Int : a = ds BY <1>4
  <2>2. PICK b \in Int : b = de BY <1>4
  <2>3. a <= b BY <1>4, <1>13, <2>1, <2>2
  <2>4. CASE e < a \/ s > b
    <3>1. Result(Invert(Invert(t, a, b), s, e))
      BY <1>1, <1>2, <1>13, <2>1, <2>2, <2>4, Zenon DEF selection_show, Invert
    <3>2. Differ(a, b, a, b, s, e) OBVIOUS
    <3> HIDE DEF Result, Differ
    <3> QED BY <1>12, <1>13, <2>1, <2>2, <3>1, <3>2, Zenon
  <2>5. CASE ~(e < a \/ s > b)
    <3>0. e >= a /\ s <= b BY <2>5
    <3> DEFINE left == IF s < a THEN Invert(t, s, a - 1) ELSE Invert(t, a, s - 1)
               new == IF e > b THEN Invert(left, b + 1, e) ELSE Invert(left, e + 1, b)
    <3>1. Result(new)
      BY <1>1, <1>2, <1>13, <2>1, <2>2, <2>5, Zenon DEF selection_show, Invert
    <3>3. CASE s < a /\ e > b
      <4>1. new = Invert(Invert(t, s, a - 1), b + 1, e) BY <3>3
      <4>2. Differ(a, b, s, a - 1, b + 1, e)
        BY <1>3, <2>3, <3>0, <3>3
      <4>3. Result(new) BY <3>1
      <4> HIDE DEF Result, Differ, new
      <4> QED BY <1>12, <1>13, <2>1, <2>2, <4>1, <4>2, <4>3, Zenon
    <3>4. CASE s < a /\ ~(e > b)
      <4>1. new = Invert(Invert(t, s, a - 1), e + 1, b) BY <3>4
      <4>2. Differ(a, b, s, a - 1, e + 1, b)
        BY <1>3, <2>3, <3>0, <3>4
      <4>3. Result(new) BY <3>1
      <4> HIDE DEF Result, Differ, new
      <4> QED BY <1>12, <1>13, <2>1, <2>2, <4>1, <4>2, <4>3, Zenon
    <3>5. CASE ~(s < a) /\ e > b
      <4>1. new = Invert(Invert(t, a, s - 1), b + 1, e) BY <3>5
      <4>2. Differ(a, b, a, s - 1, b + 1, e)
        BY <1>3, <2>3, <3>0, <3>5
      <4>3. Result(new) BY <3>1
      <4> HIDE DEF Result, Differ, new
      <4> QED BY <1>12, <1>13, <2>1, <2>2, <4>1, <4>2, <4>3, Zenon
    <3>6. CASE ~(s < a) /\ ~(e > b)
      <4>1. new = Invert(Invert(t, a, s - 1), e + 1, b) BY <3>6
      <4>2. Differ(a, b, a, s - 1, e + 1, b)
        BY <1>3, <2>3, <3>0, <3>6
      <4>3. Result(new) BY <3>1
      <4> HIDE DEF Result, Differ, new
      <4> QED BY <1>12, <1>13, <2>1, <2>2, <4>1, <4>2, <4>3, Zenon
    <3> QED BY <3>3, <3>4, <3>5, <3>6
  <2> QED BY <2>4, <2>5
<1> QED BY <1>4, <1>5, <1>11, <1>13, Zenon


-----------------------------------------------------------------------------
(* The cursor, and the pixels between and within transactions.             *)

LEMMA FaithfulMarked ==
    ASSUME NEW t, NEW b, Faithful(t, b)
    PROVE  Marked(t)
BY DEF Faithful, CellShown, Marked, Lit

LEMMA FaithfulEffect ==
    ASSUME NEW t, NEW u, NEW b, Shape(t), SelectionEffect(t, u), Faithful(t, b)
    PROVE  Faithful(u, b)
<1>1. OnlySelection(t, u) /\ Marked(u) BY FaithfulMarked DEF SelectionEffect
<1>2. /\ Rows(u) = Rows(t) /\ Columns(u) = Columns(t)
      /\ \A r : visible_row_data(u, r) = visible_row_data(t, r)
  BY <1>1, SelectionShape
<1>3. ASSUME NEW r \in Rows(t), NEW x \in Columns(t) PROVE CellShown(u, r, x, b)
  <2>1. CellShown(t, r, x, b) BY DEF Faithful
  <2>2. CursorAt(u, x, r) <=> CursorAt(t, x, r) BY <1>1 DEF CursorAt, OnlySelection
  <2>3. /\ u.scr[r][x].g = t.scr[r][x].g
        /\ (u.scr[r][x].bar # "none") <=> (t.scr[r][x].bar # "none")
    BY <1>1 DEF OnlySelection, SameLook
  <2>4. u.scr[r][x].inv <=> Selected(u, x, r) BY <1>1, <1>2 DEF Marked, Lit
  <2> QED BY <1>2, <2>1, <2>2, <2>3, <2>4 DEF CellShown
<1> QED BY <1>2, <1>3 DEF Faithful

\* With nothing selected, no inverted cell.
LEMMA NotSelected ==
    ASSUME NEW t, t.drawn = FALSE
    PROVE  \A x, r : ~Selected(t, x, r)
BY DEF Selected

LEMMA GoodOf ==
    ASSUME NEW t, Shape(t), t.offset = 0, ~Torn(t), t.drawn = FALSE, Faithful(t, FALSE)
    PROVE  Good(t)
<1>1. ASSUME NEW r \in Rows(t), NEW x \in Columns(t)
      PROVE  ~t.scr[r][x].inv /\ t.scr[r][x].bar = "none" /\ t.scr[r][x].g = Pix(t.cells[r], x)
  <2>1. CellShown(t, r, x, FALSE) BY DEF Faithful
  <2>2. graphics_render_row_data(visible_row_data(t, r))[x].g = Pix(t.cells[r], x) BY FaithfulLive
  <2> QED BY <2>1, <2>2, NotSelected DEF CellShown
<1> QED BY <1>1 DEF Good, Plain, Live

LEMMA FaithfulOf ==
    ASSUME NEW t, Shape(t), t.offset = 0, Good(t), ~t.pending
    PROVE  Faithful(t, FALSE)
<1>1. ~t.drawn /\ ~Torn(t) /\ Plain(t) /\ Live(t) BY DEF Good
<1>2. ASSUME NEW r \in Rows(t), NEW x \in Columns(t) PROVE CellShown(t, r, x, FALSE)
  <2>1. graphics_render_row_data(visible_row_data(t, r))[x].g = Pix(t.cells[r], x) BY <1>1, FaithfulLive
  <2>2. ~Selected(t, x, r) BY <1>1 DEF Selected
  <2>3. ~t.scr[r][x].inv /\ t.scr[r][x].bar = "none" /\ t.scr[r][x].g = Pix(t.cells[r], x)
    BY <1>1 DEF Plain, Live
  <2> QED BY <2>1, <2>2, <2>3 DEF CellShown
<1> QED BY <1>2 DEF Faithful

LEMMA InGridCells ==
    ASSUME NEW t, Shape(t), InGrid(t)
    PROVE  t.col \in Columns(t) /\ t.row \in Rows(t)
BY GridFact, RowInt DEF InGrid

LEMMA EraseFact ==
    ASSUME NEW t, Shape(t), InGrid(t), NEW u, u = graphics_erase_cursor(t), NEW b
    PROVE  /\ OnlyScr(t, u) /\ ScrType(t, u.scr)
           /\ (~Torn(t) /\ t.drawn = FALSE /\ Faithful(t, b)) => Faithful(u, FALSE)
<1>1. CASE t.offset # 0
  <2>1. u = t BY <1>1 DEF graphics_erase_cursor
  <2>2. OnlyScr(t, u) /\ ScrType(t, u.scr) BY <2>1, ScrItself
  <2>3. Faithful(t, b) => Faithful(t, FALSE) BY <1>1 DEF Faithful, CellShown, CursorAt
  <2> QED BY <2>1, <2>2, <2>3
<1>2. CASE t.offset = 0
  <2>1. u = graphics_render_live_cell(t, t.col, t.row) BY <1>2 DEF graphics_erase_cursor
  <2>2. t.col \in Columns(t) /\ t.row \in Rows(t) BY InGridCells
  <2>3. PICK c \in Columns(t) : c = t.col BY <2>2
  <2>4. PICK r \in Rows(t) : r = t.row BY <2>2
  <2>5. /\ OnlyScr(t, u) /\ ScrType(t, u.scr)
        /\ \A s \in Rows(t) : s # r => \A x \in Columns(t) : u.scr[s][x] = t.scr[s][x]
        /\ Paired(t.cells[r]) =>
             /\ u.scr[r][c] = Shown(Pix(t.cells[r], c))
             /\ \A x \in Columns(t) : \/ u.scr[r][x] = t.scr[r][x]
                                      \/ u.scr[r][x] = Shown(Pix(t.cells[r], x))
    BY <2>1, <2>3, <2>4, LiveCell
  <2>6. /\ Rows(u) = Rows(t) /\ Columns(u) = Columns(t)
        /\ \A s : visible_row_data(u, s) = visible_row_data(t, s)
    BY <2>5, OnlyScrShape
  <2>7. ASSUME ~Torn(t), t.drawn = FALSE, Faithful(t, b), NEW s \in Rows(t), NEW x \in Columns(t)
        PROVE  CellShown(u, s, x, FALSE)
    <3>1. Paired(t.cells[r]) BY <2>7 DEF Torn
    <3>2. graphics_render_row_data(visible_row_data(t, s))[x].g = Pix(t.cells[s], x) BY <1>2, <2>7, FaithfulLive
    <3>3. Pix(t.cells[s], x) \in SUBSET (Values \X {0, 1}) BY <1>2, <2>7, FaithfulLive
    <3>4. CellShown(t, s, x, b) BY <2>7 DEF Faithful
    <3>5. ~Selected(t, x, s) /\ ~Selected(u, x, s)
      BY <2>5, <2>7, NotSelected DEF OnlyScr, SameSelection
    <3>6. CASE u.scr[s][x] = Shown(Pix(t.cells[s], x))
      <4>1. /\ Shown(Pix(t.cells[s], x)).g = Pix(t.cells[s], x)
            /\ ~Shown(Pix(t.cells[s], x)).inv /\ Shown(Pix(t.cells[s], x)).bar = "none"
        BY <3>3, ShownFact
      <4> QED BY <2>6, <3>2, <3>5, <3>6, <4>1 DEF CellShown
    <3>7. CASE u.scr[s][x] = t.scr[s][x] /\ ~(s = r /\ x = c)
      <4>1. ~CursorAt(t, x, s) BY <2>3, <2>4, <3>7 DEF CursorAt
      <4> QED BY <2>6, <3>4, <3>5, <3>7, <4>1 DEF CellShown
    <3> QED BY <2>5, <3>1, <3>6, <3>7
  <2>8. (~Torn(t) /\ t.drawn = FALSE /\ Faithful(t, b)) => Faithful(u, FALSE) BY <2>6, <2>7 DEF Faithful
  <2> QED BY <2>5, <2>8
<1> QED BY <1>1, <1>2

LEMMA DrawCursor ==
    ASSUME NEW t, Shape(t), InGrid(t), NEW u, u = graphics_draw_cursor(t)
    PROVE  /\ OnlyScr(t, u) /\ ScrType(t, u.scr)
           /\ Faithful(t, FALSE) => Faithful(u, TRUE)
<1>1. CASE t.offset # 0
  <2>1. u = t BY <1>1 DEF graphics_draw_cursor
  <2>2. OnlyScr(t, u) /\ ScrType(t, u.scr) BY <2>1, ScrItself
  <2>3. Faithful(t, FALSE) => Faithful(t, TRUE) BY <1>1 DEF Faithful, CellShown, CursorAt
  <2> QED BY <2>1, <2>2, <2>3
<1>2. CASE t.offset = 0
  <2>1. t.col \in Columns(t) /\ t.row \in Rows(t) BY InGridCells
  <2>2. PICK c \in Columns(t) : c = t.col BY <2>1
  <2>3. PICK r \in Rows(t) : r = t.row BY <2>1
  <2>4. DOMAIN t = TerminalFields /\ t.scr \in [Rows(t) -> [Columns(t) -> ScreenCell]] BY GridFact
  <2>5. PICK k \in ScreenCell : k = t.scr[r][c] BY <2>4
  <2> DEFINE lit == [k EXCEPT !.bar = "on"]
             row == [t.scr[r] EXCEPT ![c] = lit]
  <2>6. u = [t EXCEPT !.scr = [t.scr EXCEPT ![r] = row]]
    BY <1>2, <2>2, <2>3, <2>5, Zenon DEF graphics_draw_cursor
  <2>7. lit \in ScreenCell /\ lit.g = k.g /\ lit.inv = k.inv /\ lit.bar = "on" BY DEF ScreenCell
  <2> HIDE DEF lit
  <2>8. row \in [Columns(t) -> ScreenCell] BY <2>4, <2>7
  <2>9. \A x \in Columns(t) : row[x] = IF x = c THEN lit ELSE t.scr[r][x] BY <2>4
  <2> HIDE DEF row
  <2>10. OnlyScr(t, u) /\ u.scr = [t.scr EXCEPT ![r] = row] BY <2>4, <2>6, ScrFact
  <2>11. ScrType(t, u.scr) BY <2>4, <2>8, <2>10 DEF ScrType
  <2>12. \A s \in Rows(t) : \A x \in Columns(t) :
           u.scr[s][x] = IF s = r /\ x = c THEN lit ELSE t.scr[s][x]
    BY <2>4, <2>9, <2>10
  <2>13. /\ Rows(u) = Rows(t) /\ Columns(u) = Columns(t)
         /\ \A s : visible_row_data(u, s) = visible_row_data(t, s)
    BY <2>10, <2>11, OnlyScrShape
  <2>14. ASSUME Faithful(t, FALSE), NEW s \in Rows(t), NEW x \in Columns(t)
         PROVE  CellShown(u, s, x, TRUE)
    <3>1. CellShown(t, s, x, FALSE) BY <2>14 DEF Faithful
    <3>2. Selected(u, x, s) <=> Selected(t, x, s)
      BY <2>10 DEF Selected, cell_linear, OnlyScr, SameSelection, SameText
    <3>3. CursorAt(u, x, s) <=> (s = r /\ x = c) BY <1>2, <2>2, <2>3, <2>10 DEF CursorAt, OnlyScr
    <3>4. CASE s = r /\ x = c
      <4>1. u.scr[s][x] = lit /\ t.scr[s][x] = k BY <2>5, <2>12, <3>4
      <4>2. lit.bar # "none" BY <2>7
      <4>3. lit.inv <=> t.scr[s][x].inv BY <2>7, <4>1, Zenon
      <4> QED BY <2>7, <2>13, <3>1, <3>2, <3>3, <3>4, <4>1, <4>2, <4>3, Zenon DEF CellShown
    <3>5. CASE ~(s = r /\ x = c)
      <4>1. u.scr[s][x] = t.scr[s][x] BY <2>12, <3>5
      <4> QED BY <2>13, <3>1, <3>2, <3>3, <3>5, <4>1, Zenon DEF CellShown
    <3> QED BY <3>4, <3>5
  <2>15. Faithful(t, FALSE) => Faithful(u, TRUE) BY <2>13, <2>14 DEF Faithful
  <2> QED BY <2>10, <2>11, <2>15
<1> QED BY <1>1, <1>2


-----------------------------------------------------------------------------
(* Moving the view.                                                        *)

\* Other rows are in view, nothing is selected.
Moved(t, u) ==
    /\ DOMAIN u = TerminalFields
    /\ SameText(t, u) /\ SameUpdate(t, u)
    /\ u.col = t.col /\ u.row = t.row /\ u.smudge = t.smudge
    /\ ScrType(t, u.scr) /\ SelectionType(u) /\ u.offset \in 0 .. t.count

LEMMA MovedShape ==
    ASSUME NEW t, NEW u, Shape(t), Moved(t, u)
    PROVE  /\ Shape(u) /\ Rows(u) = Rows(t) /\ Columns(u) = Columns(t)
           /\ InGrid(t) => InGrid(u)
           /\ Kept(t) => Kept(u)
           /\ Torn(u) = Torn(t)
<1> USE DEF Moved, SameText, SameUpdate
<1>1. Rows(u) = Rows(t) /\ Columns(u) = Columns(t) BY DEF Rows, Columns
<1>2. GridType(u) BY <1>1 DEF Shape, GridType, ScrType
<1>3. RingType(u) BY <1>1 DEF Shape, RingType
<1>4. UpdateType(u) BY DEF Shape, UpdateType
<1>6. Shape(u) BY <1>2, <1>3, <1>4 DEF Shape
<1>7. InGrid(t) => InGrid(u) BY DEF InGrid
<1>8. Kept(t) => Kept(u) BY DEF Kept, scrollback_oldest_index
<1>9. Torn(u) = Torn(t) BY <1>1 DEF Torn
<1> QED BY <1>1, <1>6, <1>7, <1>8, <1>9

LEMMA ShiftView ==
    ASSUME NEW w, Shape(w), NEW k \in 0 .. w.count, NEW x, x = [w EXCEPT !.offset = k],
           NEW u, u = graphics_shift_view(x, k - w.offset)
    PROVE  /\ Moved(w, u) /\ SameSelection(w, u) /\ u.offset = k
           /\ (w.drawn = FALSE /\ Faithful(w, FALSE)) => Faithful(u, FALSE)
<1>1. DOMAIN w = TerminalFields BY GridFact
<1>2. /\ DOMAIN x = TerminalFields /\ x.offset = k /\ x.scr = w.scr
      /\ SameText(w, x) /\ SameUpdate(w, x) /\ SameSelection(w, x)
      /\ x.col = w.col /\ x.row = w.row /\ x.smudge = w.smudge
  BY <1>1 DEF SameText, SameUpdate, SameSelection, TerminalFields
<1>3. Rows(x) = Rows(w) /\ Columns(x) = Columns(w) BY <1>2 DEF SameText, Rows, Columns
<1>4. w.scr \in [Rows(w) -> [Columns(w) -> ScreenCell]] BY GridFact
<1>5. Moved(w, x) BY <1>2, <1>4, SelectionFact DEF Moved, SelectionType, SameSelection, ScrType
<1>6. Shape(x) BY <1>5, MovedShape
<1>7. PICK delta \in Int : delta = k - w.offset BY RingFact
<1> DEFINE row(r) == IF r - delta \in Rows(w) THEN w.scr[r - delta]
                     ELSE graphics_render_row_data(visible_row_data(x, r))
<1>0. PICK S : S = [r \in Rows(w) |-> row(r)] OBVIOUS
<1>8. u = [x EXCEPT !.scr = S] BY <1>0, <1>2, <1>3, <1>7, Zenon DEF graphics_shift_view
<1>9. \A r \in Rows(w) : visible_row_data(x, r) \in [0 .. w.cols - 1 -> Values]
  BY <1>3, <1>6, VisibleType DEF Columns
<1>10. \A r \in Rows(w) : graphics_render_row_data(visible_row_data(x, r)) \in [Columns(w) -> ScreenCell]
  BY <1>9, RowType, GridFact DEF Columns
<1>11. \A r \in Rows(w) : row(r) \in [Columns(w) -> ScreenCell] BY <1>4, <1>10
<1>12. \A r \in Rows(w) : S[r] = row(r) BY <1>0
<1>13. S \in [Rows(w) -> [Columns(w) -> ScreenCell]]
  <2> HIDE DEF row
  <2> QED BY <1>0, <1>11
<1>14. OnlyScr(x, u) /\ u.scr = S
  <2>1. DOMAIN x = TerminalFields BY <1>2
  <2> QED BY <1>8, <2>1, ScrFact
<1>15. ScrType(x, u.scr) BY <1>3, <1>13, <1>14 DEF ScrType
<1>16. Moved(w, u) /\ SameSelection(w, u) /\ u.offset = k
  BY <1>2, <1>5, <1>13, <1>14, SelectionFact
     DEF Moved, OnlyScr, SameText, SameUpdate, SameSelection, SelectionType, ScrType
<1>17. \A r : visible_row_data(u, r) = visible_row_data(x, r) BY <1>6, <1>14, <1>15, OnlyScrShape
<1>18. ASSUME w.drawn = FALSE, Faithful(w, FALSE) PROVE Faithful(u, FALSE)
  <2>1. u.drawn = FALSE BY <1>16, <1>18 DEF SameSelection
  <2>2. ASSUME NEW r \in Rows(w), NEW c \in Columns(w) PROVE CellShown(u, r, c, FALSE)
    <3>1. ~Selected(u, c, r) /\ \A q : ~Selected(w, c, q) BY <1>18, <2>1, NotSelected
    <3>2. u.scr[r][c] = row(r)[c] BY <1>12, <1>14
    <3>3. CASE r - delta \in Rows(w)
      <4>1. PICK q \in Rows(w) : q = r - delta BY <3>3
      <4>2. u.scr[r][c] = w.scr[q][c] BY <3>2, <3>3, <4>1
      <4>3. visible_row_data(x, r) = visible_row_data(w, q)
        <5>1. w.count \in Nat /\ w.offset \in Nat /\ x.count = w.count /\ r \in Int
          BY <1>2, RingFact, RowInt DEF SameText
        <5>2. x.count - x.offset + r = w.count - w.offset + q BY <1>2, <1>7, <4>1, <5>1
        <5>3. SameText(w, x) BY <1>2
        <5>4. scrollback_oldest_index(x) = scrollback_oldest_index(w)
          BY <5>3, Zenon DEF scrollback_oldest_index, SameText
        <5> QED BY <5>2, <5>3, <5>4 DEF visible_row_data, SameText
      <4>4. CellShown(w, q, c, FALSE) BY <1>18 DEF Faithful
      <4> QED BY <1>17, <3>1, <4>2, <4>3, <4>4 DEF CellShown
    <3>4. CASE r - delta \notin Rows(w)
      <4>1. u.scr[r][c] = graphics_render_row_data(visible_row_data(x, r))[c] BY <3>2, <3>4
      <4>2. PICK d \in [0 .. w.cols - 1 -> Values] : d = visible_row_data(x, r) BY <1>9
      <4>3. c \in 0 .. w.cols - 1 /\ w.cols \in Nat BY GridFact DEF Columns
      <4>4. ~graphics_render_row_data(d)[c].inv /\ graphics_render_row_data(d)[c].bar = "none"
        BY <4>3, RowType
      <4> QED BY <1>17, <3>1, <4>1, <4>2, <4>4 DEF CellShown
    <3> QED BY <3>3, <3>4
  <2>3. Rows(u) = Rows(w) /\ Columns(u) = Columns(w) BY <1>16, MovedShape
  <2> QED BY <2>2, <2>3 DEF Faithful
<1> QED BY <1>16, <1>18

LEMMA OffsetFact ==
    ASSUME NEW t, Shape(t), InGrid(t), NEW k \in 0 .. t.count, NEW u, u = terminal_set_scrollback_offset(t, k)
    PROVE  /\ Moved(t, u) /\ u.offset = k
           /\ k = t.offset => u = t
           /\ k # t.offset => u.drawn = FALSE
           /\ (k # t.offset /\ ~Torn(t) /\ Faithful(t, TRUE)) => Faithful(u, FALSE)
<1>1. CASE k = t.offset
  <2>1. u = t BY <1>1 DEF terminal_set_scrollback_offset
  <2>2. Moved(t, t)
    BY GridFact, SelectionFact, <1>1 DEF Moved, SameText, SameUpdate
  <2> QED BY <1>1, <2>1, <2>2
<1>2. CASE k # t.offset
  <2>1. PICK v : v = terminal_selection_clear(t) OBVIOUS
  <2>2. SelectionEffect(t, v) /\ v.drawn = FALSE BY <2>1, SelectionClear
  <2>3. OnlySelection(t, v) BY <2>2 DEF SelectionEffect
  <2>4. Shape(v) /\ InGrid(v) /\ Torn(v) = Torn(t) BY <2>3, SelectionShape
  <2>5. PICK w : w = IF t.offset = 0 THEN graphics_erase_cursor(v) ELSE v OBVIOUS
  <2>6. OnlyScr(v, w) /\ ScrType(v, w.scr) BY <2>4, <2>5, EraseFact, ScrItself
  <2>7. /\ Shape(w) /\ InGrid(w) /\ w.drawn = FALSE /\ w.count = t.count /\ w.offset = t.offset
    BY <2>2, <2>3, <2>4, <2>6, OnlyScrShape DEF OnlyScr, OnlySelection, SameText, SameSelection
  <2>8. (~Torn(t) /\ Faithful(t, TRUE)) => Faithful(w, FALSE)
    <3> SUFFICES ASSUME ~Torn(t), Faithful(t, TRUE) PROVE Faithful(w, FALSE) OBVIOUS
    <3>1. Faithful(v, TRUE) BY <2>2, FaithfulEffect
    <3>2. CASE t.offset = 0
      BY <2>2, <2>4, <2>5, <3>1, <3>2, EraseFact
    <3>3. CASE t.offset # 0
      <4>1. w = v /\ v.offset # 0 BY <2>3, <2>5, <3>3 DEF OnlySelection
      <4> QED BY <3>1, <4>1 DEF Faithful, CellShown, CursorAt
    <3> QED BY <3>2, <3>3
  <2>9. PICK x : x = [w EXCEPT !.offset = k] OBVIOUS
  <2>10. u = graphics_shift_view(x, k - w.offset)
    BY <1>2, <2>1, <2>5, <2>7, <2>9, Zenon DEF terminal_set_scrollback_offset
  <2>11. k \in 0 .. w.count BY <2>7
  <2>12. /\ Moved(w, u) /\ SameSelection(w, u) /\ u.offset = k
         /\ (w.drawn = FALSE /\ Faithful(w, FALSE)) => Faithful(u, FALSE)
    BY <2>7, <2>9, <2>10, <2>11, ShiftView
  <2>13. Rows(w) = Rows(t) /\ Columns(w) = Columns(t)
    BY <2>3, <2>6 DEF OnlyScr, OnlySelection, SameText, Rows, Columns
  <2>14. Moved(t, u)
    BY <2>3, <2>6, <2>12, <2>13 DEF Moved, OnlyScr, OnlySelection, SameText, SameUpdate, ScrType
  <2>15. u.drawn = FALSE BY <2>7, <2>12 DEF SameSelection
  <2> QED BY <1>2, <2>7, <2>8, <2>12, <2>14, <2>15
<1> QED BY <1>1, <1>2

\* The view of t, moved to offset k.
ViewAt(t, k, u) ==
    /\ Moved(t, u) /\ u.offset = k
    /\ (k # t.offset /\ ~Torn(t) /\ Faithful(t, TRUE)) => Faithful(u, FALSE)

LEMMA OffsetView ==
    ASSUME NEW t, Shape(t), InGrid(t), NEW k \in 0 .. t.count, NEW u, u = terminal_set_scrollback_offset(t, k)
    PROVE  ViewAt(t, k, u)
BY OffsetFact DEF ViewAt


-----------------------------------------------------------------------------
(* Transactions.                                                           *)

\* Only the bookkeeping of transactions differs.
ButUpdate(t, u) ==
    /\ DOMAIN u = TerminalFields
    /\ SameText(t, u) /\ SameSelection(t, u)
    /\ u.col = t.col /\ u.row = t.row /\ u.offset = t.offset /\ u.scr = t.scr

LEMMA UpdateShape ==
    ASSUME NEW t, NEW u, Shape(t), ButUpdate(t, u), UpdateType(u)
    PROVE  /\ Shape(u) /\ Rows(u) = Rows(t) /\ Columns(u) = Columns(t)
           /\ InGrid(t) => InGrid(u)
           /\ Kept(t) => Kept(u)
           /\ Torn(u) = Torn(t)
           /\ (Good(t) /\ (t.pending => u.pending)) => Good(u)
           /\ \A b : Faithful(t, b) => Faithful(u, b)
<1> USE DEF ButUpdate, SameText, SameSelection
<1>1. Rows(u) = Rows(t) /\ Columns(u) = Columns(t) BY DEF Rows, Columns
<1>2. GridType(u) BY <1>1 DEF Shape, GridType
<1>3. RingType(u) BY <1>1 DEF Shape, RingType
<1>4. SelectionType(u) BY DEF Shape, SelectionType
<1>6. Shape(u) BY <1>2, <1>3, <1>4 DEF Shape
<1>7. InGrid(t) => InGrid(u) BY DEF InGrid
<1>8. Kept(t) => Kept(u) BY DEF Kept, scrollback_oldest_index
<1>9. Torn(u) = Torn(t) BY <1>1 DEF Torn
<1>10. Plain(t) => Plain(u) BY <1>1 DEF Plain
<1>11. Live(t) => Live(u) BY <1>1 DEF Live
<1>12. (Good(t) /\ (t.pending => u.pending)) => Good(u) BY <1>9, <1>10, <1>11 DEF Good
<1>13. \A r : visible_row_data(u, r) = visible_row_data(t, r) BY DEF visible_row_data, scrollback_oldest_index
<1>14. \A x, r : /\ Selected(u, x, r) <=> Selected(t, x, r)
                 /\ CursorAt(u, x, r) <=> CursorAt(t, x, r)
  BY DEF Selected, CursorAt, cell_linear
<1>15. \A b : Faithful(t, b) => Faithful(u, b) BY <1>1, <1>13, <1>14 DEF Faithful, CellShown
<1> QED BY <1>1, <1>6, <1>7, <1>8, <1>9, <1>12, <1>15

LEMMA UpdateFact ==
    ASSUME NEW t, Shape(t)
    PROVE  /\ t.depth \in Nat /\ t.batch \in Nat /\ t.pending \in BOOLEAN /\ t.smudge \in BOOLEAN
           /\ t.pending => t.batch > 0
           /\ DOMAIN t = TerminalFields
BY DEF Shape, UpdateType

LEMMA DepthFact ==
    ASSUME NEW t, Shape(t), NEW d \in Nat, NEW u, u = [t EXCEPT !.depth = d]
    PROVE  /\ ButUpdate(t, u) /\ UpdateType(u)
           /\ u.depth = d /\ u.batch = t.batch /\ u.pending = t.pending /\ u.smudge = t.smudge
<1>1. DOMAIN t = TerminalFields BY GridFact
<1>2. /\ ButUpdate(t, u)
      /\ u.depth = d /\ u.batch = t.batch /\ u.pending = t.pending /\ u.smudge = t.smudge
  BY <1>1 DEF ButUpdate, SameText, SameSelection, TerminalFields
<1>3. u.depth \in Nat /\ u.batch \in Nat BY <1>2, UpdateFact
<1>4. UpdateType(u) BY <1>2, <1>3, UpdateFact DEF UpdateType
<1> QED BY <1>2, <1>4

\* Where a transaction may begin.
Ready(t) == Body(t) /\ (t.depth = 0 => Still(t)) /\ (t.depth > 0 => Moving(t))

LEMMA EndFact ==
    ASSUME NEW t, Body(t), Moving(t), t.depth = t.batch + 1, NEW u, u = terminal_end_update(t)
    PROVE  TermInv(u)
<1>1. Shape(t) /\ InGrid(t) /\ Kept(t) BY DEF Body
<1>2. t.depth \in Nat /\ t.batch \in Nat /\ t.depth # 0 /\ t.depth - 1 \in Nat /\ t.depth - 1 = t.batch
  BY <1>1, UpdateFact
<1>3. PICK v : v = [t EXCEPT !.depth = t.depth - 1] OBVIOUS
<1>4. /\ ButUpdate(t, v) /\ UpdateType(v) /\ v.depth = t.batch /\ v.batch = t.batch
      /\ v.pending = t.pending /\ v.smudge = t.smudge
  BY <1>1, <1>2, <1>3, DepthFact
<1>5. /\ Shape(v) /\ InGrid(v) /\ Kept(v) /\ Torn(v) = Torn(t) /\ v.offset = 0
      /\ Good(t) => Good(v)
  BY <1>1, <1>4, UpdateShape DEF ButUpdate, Moving
<1>6. u = IF v.depth = 0 THEN graphics_draw_cursor(v) ELSE v
  BY <1>2, <1>3, Zenon DEF terminal_end_update
<1>7. CASE v.depth = 0
  <2>1. u = graphics_draw_cursor(v) BY <1>6, <1>7
  <2>2. OnlyScr(v, u) /\ ScrType(v, u.scr) /\ (Faithful(v, FALSE) => Faithful(u, TRUE))
    BY <1>5, <2>1, DrawCursor
  <2>3. Shape(u) /\ InGrid(u) /\ Kept(u) /\ Torn(u) = Torn(v) BY <1>5, <2>2, OnlyScrShape
  <2>4. u.depth = 0 /\ u.batch = 0 /\ u.smudge = t.smudge BY <1>4, <1>7, <2>2 DEF OnlyScr, SameUpdate
  <2>5. ~v.pending
    <3>1. ~(t.batch > 0) BY <1>2, <1>4, <1>7
    <3> QED BY <1>1, <1>4, <3>1, UpdateFact, Zenon
  <2>6. Still(u)
    <3> SUFFICES ASSUME ~u.smudge PROVE ~Torn(u) /\ Faithful(u, TRUE) BY DEF Still
    <3>1. Good(v) BY <1>5, <2>4 DEF Moving
    <3>2. Faithful(v, FALSE) BY <1>5, <2>5, <3>1, FaithfulOf
    <3> QED BY <2>2, <2>3, <3>1, <3>2 DEF Good
  <2> QED BY <2>3, <2>4, <2>6 DEF TermInv, Body
<1>8. CASE v.depth # 0
  <2>1. u = v BY <1>6, <1>8
  <2>2. Moving(v) BY <1>4, <1>5 DEF Moving
  <2> QED BY <1>4, <1>5, <1>8, <2>1, <2>2 DEF TermInv, Body
<1> QED BY <1>7, <1>8

AtLive(t) == t.depth > 0 => t.offset = 0

\* The pixels are right afterwards if they were before.
LEMMA BeginAny ==
    ASSUME NEW t, Body(t), AtLive(t),
           NEW b \in BOOLEAN, NEW u, u = terminal_begin_update(t, b)
    PROVE  /\ Body(u) /\ u.offset = 0 /\ u.depth = t.depth + 1 /\ u.batch = t.batch
           /\ u.rows = t.rows /\ u.cols = t.cols
           /\ Ready(t) => Moving(u)
<1>1. Shape(t) /\ InGrid(t) /\ Kept(t) BY DEF Body
<1>2. t.depth \in Nat /\ t.depth + 1 \in Nat /\ t.depth + 1 > 0 BY <1>1, UpdateFact
<1>3. ASSUME NEW v, Body(v), v.offset = 0, Ready(t) => Moving(v), v.depth = t.depth, v.batch = t.batch, v.rows = t.rows, v.cols = t.cols,
             u = [v EXCEPT !.depth = t.depth + 1]
      PROVE  /\ Body(u) /\ u.offset = 0 /\ u.depth = t.depth + 1 /\ u.batch = t.batch
             /\ u.rows = t.rows /\ u.cols = t.cols
             /\ Ready(t) => Moving(u)
  <2>1. /\ ButUpdate(v, u) /\ UpdateType(u) /\ u.depth = t.depth + 1 /\ u.batch = v.batch
        /\ u.pending = v.pending /\ u.smudge = v.smudge
    BY <1>2, <1>3, DepthFact DEF Body
  <2>2. /\ Shape(u) /\ InGrid(u) /\ Kept(u) /\ u.offset = 0 /\ u.rows = v.rows /\ u.cols = v.cols
        /\ Good(v) => Good(u)
    BY <1>3, <2>1, UpdateShape DEF Body, ButUpdate, SameText
  <2> QED BY <1>3, <2>1, <2>2 DEF Body, Moving
<1>4. CASE t.depth > 0
  <2>1. u = [t EXCEPT !.depth = t.depth + 1] BY <1>4, Zenon DEF terminal_begin_update
  <2> QED BY <1>3, <1>4, <2>1 DEF Ready, AtLive
<1>5. CASE t.depth = 0
  <2>1. PICK live : live = terminal_set_scrollback_offset(t, 0) OBVIOUS
  <2>2. PICK z \in 0 .. t.count : z = 0 BY <1>1, RingFact
  <2>3. /\ Moved(t, live) /\ live.offset = 0
        /\ 0 = t.offset => live = t
        /\ (0 # t.offset /\ ~Torn(t) /\ Faithful(t, TRUE)) => Faithful(live, FALSE)
    <3>1. Shape(t) /\ InGrid(t) BY <1>1
    <3>2. live = terminal_set_scrollback_offset(t, z) BY <2>1, <2>2
    <3>3. /\ Moved(t, live) /\ live.offset = z
          /\ z = t.offset => live = t
          /\ (z # t.offset /\ ~Torn(t) /\ Faithful(t, TRUE)) => Faithful(live, FALSE)
      BY <3>1, <3>2, OffsetFact
    <3> QED BY <2>2, <3>3, Zenon
  <2>4. Shape(live) /\ InGrid(live) /\ Kept(live) /\ Torn(live) = Torn(t) BY <1>1, <2>3, MovedShape
  <2>5. PICK w : w = IF b THEN terminal_selection_clear(live) ELSE live OBVIOUS
  <2>6. SelectionEffect(live, w) BY <2>4, <2>5, SelectionClear, EffectItself
  <2>7. /\ Shape(w) /\ InGrid(w) /\ Kept(w) /\ Torn(w) = Torn(t)
        /\ w.offset = 0 /\ w.depth = t.depth /\ w.batch = t.batch /\ w.smudge = t.smudge
        /\ w.rows = t.rows /\ w.cols = t.cols
    BY <2>3, <2>4, <2>6, SelectionShape
       DEF SelectionEffect, OnlySelection, Moved, SameUpdate, SameText
  <2>8. (Ready(t) /\ ~t.smudge) => ~Torn(w) /\ \E c : Faithful(w, c)
    <3> SUFFICES ASSUME Ready(t), ~t.smudge PROVE ~Torn(w) /\ \E c : Faithful(w, c) OBVIOUS
    <3>1. ~Torn(t) /\ Faithful(t, TRUE) BY <1>5 DEF Ready, Still
    <3>2. CASE t.offset = 0
      <4>1. Faithful(live, TRUE) BY <2>3, <3>1, <3>2
      <4>2. Faithful(w, TRUE) BY <2>4, <2>6, <4>1, FaithfulEffect
      <4> QED BY <2>7, <3>1, <4>2
    <3>3. CASE t.offset # 0
      <4>1. Faithful(live, FALSE) BY <2>3, <3>1, <3>3
      <4>2. Faithful(w, FALSE) BY <2>4, <2>6, <4>1, FaithfulEffect
      <4> QED BY <2>7, <3>1, <4>2
    <3> QED BY <3>2, <3>3
  <2>9. PICK e : e = graphics_erase_cursor(w) OBVIOUS
  <2>10. /\ OnlyScr(w, e) /\ ScrType(w, e.scr)
         /\ \A c : (~Torn(w) /\ w.drawn = FALSE /\ Faithful(w, c)) => Faithful(e, FALSE)
    BY <2>7, <2>9, EraseFact
  <2>11. Shape(e) /\ InGrid(e) /\ Kept(e) /\ Torn(e) = Torn(w) BY <2>7, <2>10, OnlyScrShape
  <2>12. PICK v : v = WithoutCursor(w) OBVIOUS
  <2>13. v = [e EXCEPT !.smudge = e.smudge \/ w.drawn] BY <2>9, <2>12, Zenon DEF WithoutCursor
  <2>14. PICK m \in BOOLEAN : m = (e.smudge \/ w.drawn) BY Zenon
  <2>15. v = [e EXCEPT !.smudge = m] BY <2>13, <2>14
  <2>16. /\ ButUpdate(e, v) /\ v.smudge = m /\ v.depth = e.depth /\ v.batch = e.batch
         /\ v.pending = e.pending
    BY <2>11, <2>15, GridFact DEF ButUpdate, SameText, SameSelection, TerminalFields
  <2>17. UpdateType(v)
    <3>1. v.depth \in Nat /\ v.batch \in Nat /\ v.pending \in BOOLEAN /\ (v.pending => v.batch > 0)
      BY <2>11, <2>16, UpdateFact
    <3>2. v.smudge \in BOOLEAN BY <2>14, <2>16
    <3> QED BY <3>1, <3>2 DEF UpdateType
  <2>18. /\ Shape(v) /\ InGrid(v) /\ Kept(v)
         /\ (Good(e) /\ (e.pending => v.pending)) => Good(v)
    BY <2>11, <2>16, <2>17, UpdateShape
  <2>19. v.offset = 0 /\ e.offset = 0 /\ v.depth = t.depth /\ v.batch = t.batch /\ v.rows = t.rows /\ v.cols = t.cols
    BY <2>7, <2>10, <2>16 DEF OnlyScr, SameUpdate, SameText, ButUpdate
  <2>20. Ready(t) => Moving(v)
    <3> SUFFICES ASSUME Ready(t), ~v.smudge PROVE Good(v) BY <2>19 DEF Moving
    <3>1. ~e.smudge /\ ~w.drawn BY <2>14, <2>16, Zenon
    <3>2. e.smudge = t.smudge /\ e.drawn = w.drawn BY <2>7, <2>10 DEF OnlyScr, SameSelection
    <3>3. w.drawn = FALSE BY <2>7, <3>1, SelectionFact, Zenon
    <3>4. Faithful(e, FALSE) BY <2>8, <2>10, <3>1, <3>2, <3>3
    <3>5. ~Torn(e) BY <2>8, <2>11, <3>1, <3>2
    <3>6. e.drawn = FALSE BY <3>2, <3>3
    <3>7. Good(e) BY <2>11, <2>19, <3>4, <3>5, <3>6, GoodOf
    <3> QED BY <2>16, <2>18, <3>7
  <2>21. u = [v EXCEPT !.depth = t.depth + 1]
    <3>1. ~(t.depth > 0) BY <1>5
    <3>2. u = [v EXCEPT !.depth = v.depth + 1]
      BY <2>1, <2>5, <2>12, <3>1, Zenon DEF terminal_begin_update
    <3> QED BY <2>19, <3>2
  <2>22. Body(v) BY <2>18 DEF Body
  <2> QED BY <1>3, <2>19, <2>20, <2>21, <2>22
<1> QED BY <1>2, <1>4, <1>5

LEMMA BeginFact ==
    ASSUME NEW t, Ready(t), NEW b \in BOOLEAN, NEW u, u = terminal_begin_update(t, b)
    PROVE  /\ Body(u) /\ Moving(u) /\ u.depth = t.depth + 1 /\ u.batch = t.batch
           /\ u.rows = t.rows /\ u.cols = t.cols
<1>1. Body(t) /\ AtLive(t) BY DEF Ready, Moving, AtLive
<1> QED BY <1>1, BeginAny


-----------------------------------------------------------------------------
(* Lines that scroll away.                                                 *)

\* A ring of N whose next line goes to h and then to g: c lines, the oldest at
\* o, and one more.
RingSteps(N, h, c, o, g) ==
    /\ o \in 0 .. N - 1 /\ g \in 0 .. N - 1
    /\ c < N => /\ (g + N - (c + 1)) % N = o /\ (o + c) % N = h
                /\ \A i \in 1 .. c : (o + i - 1) % N # h
    /\ c = N => /\ (g + N - N) % N = g /\ (g + N - 1) % N = h
                /\ \A i \in 1 .. N - 1 : /\ (g + i - 1) % N = (o + (i + 1) - 1) % N
                                         /\ (g + i - 1) % N # h

LEMMA RingStep ==
    ASSUME NEW N \in Nat, N >= 1, NEW h \in 0 .. N - 1, NEW c \in 0 .. N,
           NEW o, o = (h + N - c) % N, NEW g, g = (h + 1) % N
    PROVE  RingSteps(N, h, c, o, g)
<1> DEFINE M(x) == IF x < N THEN x ELSE x - N
<1>1. \A x \in Nat : x < 2 * N => (x % N = M(x) /\ M(x) \in 0 .. N - 1)
  <2>1. ASSUME NEW x \in Nat, x < 2 * N PROVE x % N = M(x) /\ M(x) \in 0 .. N - 1
    <3>1. PICK y : y = x % N OBVIOUS
    <3>2. (x < N => y = x) /\ ((x >= N /\ x < 2 * N) => y = x - N) BY <3>1, Wrap
    <3>3. y = M(x) BY <2>1, <3>2
    <3>4. M(x) \in 0 .. N - 1 BY <2>1
    <3> QED BY <3>1, <3>3, <3>4
  <2> QED BY <2>1
<1>3. o = M(h + N - c) BY <1>1
<1>4. g = M(h + 1)
  <2>1. h + 1 \in Nat /\ h + 1 < 2 * N OBVIOUS
  <2> QED BY <1>1, <2>1
<1>5. o \in 0 .. N - 1 /\ g \in 0 .. N - 1 BY <1>3, <1>4
<1>6. ASSUME c < N
      PROVE  /\ (g + N - (c + 1)) % N = o /\ (o + c) % N = h
             /\ \A i \in 1 .. c : (o + i - 1) % N # h
  <2>1. (g + N - (c + 1)) % N = M(g + N - (c + 1)) BY <1>1, <1>5, <1>6
  <2>2. (o + c) % N = M(o + c) BY <1>1, <1>5, <1>6
  <2>3. \A i \in 1 .. c : (o + i - 1) % N = M(o + i - 1) BY <1>1, <1>5, <1>6
  <2>4. M(g + N - (c + 1)) = o BY <1>3, <1>4, <1>6
  <2>5. M(o + c) = h BY <1>3, <1>6
  <2>6. \A i \in 1 .. c : M(o + i - 1) # h BY <1>3, <1>6
  <2> QED BY <2>1, <2>2, <2>3, <2>4, <2>5, <2>6
<1>7. ASSUME c = N
      PROVE  /\ (g + N - N) % N = g /\ (g + N - 1) % N = h
             /\ \A i \in 1 .. N - 1 : /\ (g + i - 1) % N = (o + (i + 1) - 1) % N
                                      /\ (g + i - 1) % N # h
  <2>1. o = h BY <1>3, <1>7
  <2>2. (g + N - N) % N = M(g) BY <1>1, <1>5
  <2>3. (g + N - 1) % N = M(g + N - 1) BY <1>1, <1>5
  <2>4. ASSUME NEW i \in 1 .. N - 1
        PROVE  (g + i - 1) % N = M(g + i - 1) /\ (o + (i + 1) - 1) % N = M(o + i)
    <3>1. g + i - 1 \in Nat /\ g + i - 1 < 2 * N BY <1>5
    <3>2. o + (i + 1) - 1 = o + i /\ o + i \in Nat /\ o + i < 2 * N BY <1>5
    <3> QED BY <1>1, <3>1, <3>2
  <2>5. M(g) = g /\ M(g + N - 1) = h BY <1>4, <1>5
  <2>6. \A i \in 1 .. N - 1 : M(g + i - 1) = M(o + i) /\ M(g + i - 1) # h BY <1>4, <2>1
  <2> HIDE DEF M
  <2>7. \A i \in 1 .. N - 1 : (g + i - 1) % N = (o + (i + 1) - 1) % N /\ (g + i - 1) % N # h
    BY <2>4, <2>6, Zenon
  <2> QED BY <2>2, <2>3, <2>5, <2>7, Zenon
<1> QED BY <1>5, <1>6, <1>7, Zenon DEF RingSteps

\* The last lines of a sequence with one line more.
Latest(old, top, c, n) == [i \in 1 .. n |-> IF i = n THEN top ELSE old[c + 1 - n + i]]

LEMMA LatestFact ==
    ASSUME NEW R, NEW c \in Nat, NEW old \in [1 .. c -> R], NEW top \in R, NEW n \in Nat, n <= c + 1
    PROVE  LatestLines(Append(old, top), n) = Latest(old, top, c, n)
<1>1. old \in Seq(R) /\ Len(old) = c BY LenProperties
<1>2. PICK A : A = Append(old, top) OBVIOUS
<1>3. /\ A \in Seq(R) /\ Len(A) = c + 1
      /\ \A i \in 1 .. c + 1 : A[i] = IF i = c + 1 THEN top ELSE old[i]
  BY <1>1, <1>2, AppendProperties
<1>4. LatestLines(A, n) = SubSeq(A, c + 1 - n + 1, c + 1) BY <1>3 DEF LatestLines
<1>5. PICK m \in Nat : m = c + 1 - n OBVIOUS
<1>6. SubSeq(A, c + 1 - n + 1, c + 1) = [i \in 1 .. n |-> A[m + i]]
  <2>1. SubSeq(A, m + 1, c + 1) = [i \in 1 .. (1 + (c + 1) - (m + 1)) |-> A[i + (m + 1) - 1]]
    OBVIOUS
  <2>2. 1 + (c + 1) - (m + 1) = n BY <1>5
  <2>3. \A i \in 1 .. n : i + (m + 1) - 1 = m + i OBVIOUS
  <2> QED BY <1>5, <2>1, <2>2, <2>3
<1>7. \A i \in 1 .. n : A[m + i] = IF i = n THEN top ELSE old[c + 1 - n + i]
  BY <1>3, <1>5
<1> QED BY <1>2, <1>4, <1>6, <1>7 DEF Latest


\* What a line leaves as it is when it scrolls away.
ButRing(t, u) ==
    /\ DOMAIN u = TerminalFields
    /\ u.cols = t.cols /\ u.rows = t.rows /\ u.cells = t.cells /\ u.scr = t.scr
    /\ u.col = t.col /\ u.row = t.row /\ u.offset = t.offset /\ u.smudge = t.smudge
    /\ SameUpdate(t, u) /\ SameSelection(t, u)

LEMMA PushFact ==
    ASSUME NEW t, Shape(t), Kept(t), NEW u, u = scrollback_push_top_row(t)
    PROVE  /\ ButRing(t, u) /\ Kept(u)
           /\ u.ring \in [0 .. TERMINAL_SCROLLBACK_LINES - 1 -> [Columns(t) -> Values]]
           /\ u.head \in 0 .. TERMINAL_SCROLLBACK_LINES - 1
           /\ u.count \in 0 .. TERMINAL_SCROLLBACK_LINES /\ t.count <= u.count
<1>1. PICK N \in Nat : N = TERMINAL_SCROLLBACK_LINES /\ N >= 1 BY TermConstants
<1>2. PICK h \in 0 .. N - 1 : h = t.head BY <1>1, RingFact
<1>3. PICK c \in 0 .. N : c = t.count BY <1>1, RingFact
<1>4. PICK R : R = [Columns(t) -> Values] OBVIOUS
<1>5. t.ring \in [0 .. N - 1 -> R] BY <1>1, <1>4, RingFact
<1>6. 0 \in Rows(t) BY GridFact, RowInt
<1>7. PICK top \in R : top = t.cells[0] BY <1>4, <1>6, GridFact
<1>8. PICK n \in 0 .. N : n = IF c < N THEN c + 1 ELSE c OBVIOUS
<1>9. PICK g : g = (h + 1) % N OBVIOUS
<1>10. PICK o : o = (h + N - c) % N OBVIOUS
<1>11. PICK ring : ring = [t.ring EXCEPT ![h] = top] OBVIOUS
<1>12. PICK pushed : pushed = LatestLines(Append(t.pushed, top), n) OBVIOUS
<1>13. u = [t EXCEPT !.ring = ring, !.head = g, !.count = n, !.pushed = pushed]
  BY <1>1, <1>2, <1>3, <1>7, <1>8, <1>9, <1>11, <1>12, Zenon DEF scrollback_push_top_row
<1>14. /\ ButRing(t, u) /\ u.ring = ring /\ u.head = g /\ u.count = n /\ u.pushed = pushed
  BY <1>13, GridFact DEF ButRing, SameUpdate, SameSelection, TerminalFields
<1>15. /\ o \in 0 .. N - 1 /\ g \in 0 .. N - 1
       /\ c < N => /\ (g + N - (c + 1)) % N = o /\ (o + c) % N = h
                   /\ \A i \in 1 .. c : (o + i - 1) % N # h
       /\ c = N => /\ (g + N - N) % N = g /\ (g + N - 1) % N = h
                   /\ \A i \in 1 .. N - 1 : /\ (g + i - 1) % N = (o + (i + 1) - 1) % N
                                            /\ (g + i - 1) % N # h
  <2>1. RingSteps(N, h, c, o, g) BY <1>1, <1>9, <1>10, RingStep
  <2> QED BY <2>1, Zenon DEF RingSteps
<1>16. ring \in [0 .. N - 1 -> R] /\ ring[h] = top
       /\ \A i \in 0 .. N - 1 : i # h => ring[i] = t.ring[i]
  BY <1>5, <1>11
<1>17. PICK old : old = t.pushed OBVIOUS
<1>18. old = [i \in 1 .. c |-> t.ring[(o + i - 1) % N]]
  BY <1>1, <1>2, <1>3, <1>10, <1>17, Zenon DEF Kept, scrollback_oldest_index
<1>19. \A x \in Nat : x % N \in 0 .. N - 1 BY <1>1, Wrap
<1>20. \A i \in 1 .. N : (o + i - 1) % N \in 0 .. N - 1 /\ (g + i - 1) % N \in 0 .. N - 1
  <2>1. \A i \in 1 .. N : o + i - 1 \in Nat /\ g + i - 1 \in Nat BY <1>15
  <2> QED BY <1>19, <2>1
<1>21. old \in [1 .. c -> R]
  <2>1. \A i \in 1 .. c : t.ring[(o + i - 1) % N] \in R BY <1>5, <1>20
  <2> QED BY <1>18, <2>1
<1>22. pushed = [i \in 1 .. n |-> IF i = n THEN top ELSE old[c + 1 - n + i]]
  <2>1. c \in Nat /\ n \in Nat /\ n <= c + 1 BY <1>8
  <2>2. pushed = LatestLines(Append(old, top), n) BY <1>12, <1>17
  <2>3. pushed = Latest(old, top, c, n) BY <1>21, <2>1, <2>2, LatestFact
  <2> QED BY <2>3, Zenon DEF Latest
<1>23. PICK p : p = (g + N - n) % N OBVIOUS
<1>24. \A i \in 1 .. n : pushed[i] = ring[(p + i - 1) % N]
  <2>1. CASE c < N
    <3>1. n = c + 1 /\ p = o BY <1>8, <1>15, <1>23, <2>1
    <3>2. ASSUME NEW i \in 1 .. n PROVE pushed[i] = ring[(p + i - 1) % N]
      <4>1. CASE i = n
        <5>1. (p + i - 1) % N = h
          <6>1. p + i - 1 = o + c BY <1>15, <3>1, <4>1
          <6> QED BY <1>15, <2>1, <6>1
        <5> QED BY <1>16, <1>22, <4>1, <5>1
      <4>2. CASE i # n
        <5>1. i \in 1 .. c /\ c + 1 - n + i = i BY <3>1, <4>2
        <5>2. pushed[i] = old[i] BY <1>22, <4>2, <5>1
        <5>3. old[i] = t.ring[(o + i - 1) % N] BY <1>18, <5>1, Zenon
        <5>4. (o + i - 1) % N # h /\ (o + i - 1) % N \in 0 .. N - 1 BY <1>15, <1>20, <2>1, <5>1
        <5>5. PICK j : j = (o + i - 1) % N OBVIOUS
        <5> QED BY <1>16, <3>1, <5>2, <5>3, <5>4, <5>5
      <4> QED BY <4>1, <4>2
    <3> QED BY <3>2
  <2>2. CASE c = N
    <3>1. n = N /\ p = g BY <1>8, <1>15, <1>23, <2>2
    <3>2. ASSUME NEW i \in 1 .. n PROVE pushed[i] = ring[(p + i - 1) % N]
      <4>1. CASE i = n
        <5>1. (p + i - 1) % N = h BY <1>15, <2>2, <3>1, <4>1
        <5> QED BY <1>16, <1>22, <4>1, <5>1
      <4>2. CASE i # n
        <5>1. i \in 1 .. N - 1 /\ c + 1 - n + i = i + 1 /\ i + 1 \in 1 .. c BY <2>2, <3>1, <4>2
        <5>2. pushed[i] = old[i + 1] BY <1>22, <4>2, <5>1
        <5>3. old[i + 1] = t.ring[(o + (i + 1) - 1) % N] BY <1>18, <5>1, Zenon
        <5>4. (g + i - 1) % N = (o + (i + 1) - 1) % N /\ (g + i - 1) % N # h BY <1>15, <2>2, <5>1
        <5>5. PICK j : j = (g + i - 1) % N OBVIOUS
        <5>6. j \in 0 .. N - 1 /\ j # h BY <1>20, <3>1, <5>4, <5>5
        <5>7. pushed[i] = t.ring[j] BY <5>2, <5>3, <5>4, <5>5
        <5> QED BY <1>16, <3>1, <5>5, <5>6, <5>7
      <4> QED BY <4>1, <4>2
    <3> QED BY <3>2
  <2> QED BY <2>1, <2>2
<1>25. pushed = [i \in 1 .. n |-> ring[(p + i - 1) % N]] BY <1>22, <1>24
<1>26. Kept(u) BY <1>1, <1>14, <1>23, <1>25, Zenon DEF Kept, scrollback_oldest_index
<1>27. g \in 0 .. N - 1 /\ ring \in [0 .. N - 1 -> R] BY <1>15, <1>16
<1>28. n \in 0 .. N /\ c <= n BY <1>8
<1> QED BY <1>1, <1>3, <1>4, <1>14, <1>26, <1>27, <1>28


\* Within a transaction, where the cursor may stand past the last cell.
Work(t) == Shape(t) /\ Kept(t) /\ t.row < t.rows /\ t.offset = 0

\* What no output changes.
Ahead(t, u) ==
    /\ u.depth = t.depth /\ u.batch = t.batch /\ u.smudge = t.smudge
    /\ u.rows = t.rows /\ u.cols = t.cols

LEMMA BlankFact ==
    ASSUME NEW t, Shape(t)
    PROVE  /\ BlankRow(t) \in [Columns(t) -> Values] /\ Paired(BlankRow(t))
           /\ \A x \in Columns(t) : Pix(BlankRow(t), x) = {}
           /\ [c \in Columns(t) |-> Shown({})] \in [Columns(t) -> ScreenCell]
           /\ Shown({}).g = {} /\ ~Shown({}).inv /\ Shown({}).bar = "none"
<1>1. PICK b : b = BlankRow(t) OBVIOUS
<1>2. b \in [Columns(t) -> Values] /\ \A x \in Columns(t) : b[x] = " "
  BY <1>1, TermConstants, Zenon DEF BlankRow
<1>3. DOMAIN b = Columns(t) BY <1>2
<1>4. Paired(b) BY <1>2, <1>3, TermConstants DEF Paired
<1>5. \A x \in Columns(t) : Pix(b, x) = {}
  BY <1>2, TermConstants, Zenon DEF Pix, IsText
<1>6. {} \in SUBSET (Values \X {0, 1}) BY Zenon
<1>7. Shown({}) \in ScreenCell /\ Shown({}).g = {} /\ ~Shown({}).inv /\ Shown({}).bar = "none"
  BY <1>6, ShownFact
<1>8. [c \in Columns(t) |-> Shown({})] \in [Columns(t) -> ScreenCell] BY <1>7
<1> QED BY <1>1, <1>2, <1>4, <1>5, <1>7, <1>8

LEMMA NewLineFact ==
    ASSUME NEW t, Work(t), NEW u, u = NewLine(t)
    PROVE  Work(u) /\ u.col = 0 /\ Ahead(t, u) /\ (Good(t) => Good(u))
<1>1. Shape(t) /\ Kept(t) /\ t.row < t.rows /\ t.offset = 0 BY DEF Work
<1>2. PICK x : x = [t EXCEPT !.col = 0, !.row = t.row + 1] OBVIOUS
<1>3. u = terminal_scroll(x) BY <1>2, Zenon DEF NewLine
<1>4. /\ DOMAIN x = TerminalFields /\ SameText(t, x) /\ SameUpdate(t, x) /\ SameSelection(t, x)
      /\ x.col = 0 /\ x.row = t.row + 1 /\ x.offset = 0 /\ x.smudge = t.smudge /\ x.scr = t.scr
  BY <1>1, <1>2, GridFact DEF SameText, SameUpdate, SameSelection, TerminalFields
<1>5. Rows(x) = Rows(t) /\ Columns(x) = Columns(t) BY <1>4 DEF SameText, Rows, Columns
<1>6. Shape(x) /\ Kept(x)
  <2>1. GridType(x) BY <1>1, <1>4, <1>5, GridFact DEF GridType, SameText
  <2>2. RingType(x) BY <1>1, <1>4, <1>5 DEF Shape, RingType, SameText
  <2>3. UpdateType(x) BY <1>1, <1>4 DEF Shape, UpdateType, SameUpdate
  <2>4. SelectionType(x) BY <1>1, <1>4 DEF Shape, SelectionType, SameSelection
  <2>5. Kept(x) BY <1>1, <1>4 DEF Kept, scrollback_oldest_index, SameText
  <2> QED BY <1>4, <2>1, <2>2, <2>3, <2>4, <2>5 DEF Shape
<1>7. Good(t) => Good(x)
  BY <1>4, <1>5 DEF Good, Torn, Plain, Live, SameText, SameUpdate, SameSelection
<1>8. CASE x.row < x.rows
  <2>1. u = x BY <1>3, <1>8 DEF terminal_scroll
  <2>2. Ahead(t, x) BY <1>4 DEF Ahead, SameText, SameUpdate
  <2> QED BY <1>4, <1>6, <1>7, <1>8, <2>1, <2>2 DEF Work
<1>9. CASE ~(x.row < x.rows)
  <2>1. PICK p : p = scrollback_push_top_row(x) OBVIOUS
  <2>2. /\ ButRing(x, p) /\ Kept(p)
        /\ p.ring \in [0 .. TERMINAL_SCROLLBACK_LINES - 1 -> [Columns(x) -> Values]]
        /\ p.head \in 0 .. TERMINAL_SCROLLBACK_LINES - 1
        /\ p.count \in 0 .. TERMINAL_SCROLLBACK_LINES /\ x.count <= p.count
    BY <1>6, <2>1, PushFact
  <2> DEFINE cell(r) == IF r + 1 \in Rows(x) THEN x.cells[r + 1] ELSE BlankRow(x)
             line(r) == IF r + 1 \in Rows(x) THEN x.scr[r + 1] ELSE [c \in Columns(x) |-> Shown({})]
  <2>3. PICK C : C = [r \in Rows(x) |-> cell(r)] OBVIOUS
  <2>4. PICK S : S = IF x.batch > 0 THEN x.scr ELSE [r \in Rows(x) |-> line(r)] OBVIOUS
  <2>5. PICK m \in BOOLEAN : m = (IF x.batch > 0 THEN TRUE ELSE x.pending) BY <1>6, UpdateFact
  <2>6. u = [p EXCEPT !.cells = C, !.row = x.rows - 1, !.pending = m, !.scr = S]
    <3>1. DOMAIN p = TerminalFields /\ p.scr = x.scr /\ p.pending = x.pending
      BY <2>2 DEF ButRing, SameUpdate
    <3>2. PICK q : q = [p EXCEPT !.cells = C, !.row = x.rows - 1] OBVIOUS
    <3>3. /\ q.scr = x.scr /\ q.pending = x.pending
      BY <3>1, <3>2 DEF TerminalFields
    <3>4. CASE x.batch > 0
      <4>1. u = [q EXCEPT !.pending = TRUE]
        BY <1>3, <1>9, <2>1, <2>3, <3>2, <3>4, Zenon DEF terminal_scroll
      <4>2. [q EXCEPT !.pending = TRUE] = [p EXCEPT !.cells = C, !.row = x.rows - 1, !.pending = TRUE, !.scr = p.scr]
        BY <3>1, <3>2 DEF TerminalFields
      <4> QED BY <2>4, <2>5, <3>1, <3>4, <4>1, <4>2
    <3>5. CASE ~(x.batch > 0)
      <4>1. u = [q EXCEPT !.scr = S]
        <5>1. u = [q EXCEPT !.scr = [r \in Rows(x) |-> IF r + 1 \in Rows(x) THEN q.scr[r + 1]
                                                  ELSE [c \in Columns(x) |-> Shown({})]]]
          BY <1>3, <1>9, <2>1, <2>3, <3>2, <3>5, Zenon DEF terminal_scroll
        <5>2. S = [r \in Rows(x) |-> line(r)] BY <2>4, <3>5
        <5> QED BY <3>3, <5>1, <5>2
      <4>2. [q EXCEPT !.scr = S] = [p EXCEPT !.cells = C, !.row = x.rows - 1, !.pending = p.pending, !.scr = S]
        BY <3>1, <3>2 DEF TerminalFields
      <4> QED BY <2>5, <3>1, <3>5, <4>1, <4>2
    <3> QED BY <3>4, <3>5
  <2>7. /\ DOMAIN u = TerminalFields /\ u.cells = C /\ u.row = x.rows - 1 /\ u.pending = m /\ u.scr = S
        /\ u.cols = x.cols /\ u.rows = x.rows /\ u.col = 0 /\ u.offset = 0 /\ u.smudge = t.smudge
        /\ u.ring = p.ring /\ u.head = p.head /\ u.count = p.count /\ u.pushed = p.pushed
        /\ u.depth = x.depth /\ u.batch = x.batch /\ SameSelection(x, u)
    BY <1>4, <2>2, <2>6 DEF ButRing, SameUpdate, SameSelection, TerminalFields
  <2>8. Rows(u) = Rows(x) /\ Columns(u) = Columns(x) BY <2>7 DEF Rows, Columns
  <2>9. \A r \in Rows(x) : x.cells[r] \in [Columns(x) -> Values] /\ x.scr[r] \in [Columns(x) -> ScreenCell]
    BY <1>6, GridFact
  <2>10. C \in [Rows(x) -> [Columns(x) -> Values]]
    <3>1. \A r \in Rows(x) : cell(r) \in [Columns(x) -> Values] BY <1>6, <2>9, BlankFact
    <3> HIDE DEF cell
    <3> QED BY <2>3, <3>1
  <2>11. S \in [Rows(x) -> [Columns(x) -> ScreenCell]]
    <3>1. \A r \in Rows(x) : line(r) \in [Columns(x) -> ScreenCell] BY <1>6, <2>9, BlankFact
    <3> HIDE DEF line
    <3> QED BY <1>6, <2>4, <3>1, GridFact
  <2>12. Shape(u) /\ Kept(u)
    <3>1. x.rows - 1 \in Nat /\ 0 \in Nat BY <1>6, GridFact
    <3>2. GridType(u) BY <1>6, <2>7, <2>8, <2>10, <2>11, <3>1, GridFact DEF GridType
    <3>3. RingType(u)
      <4>0. PICK N \in Nat : N = TERMINAL_SCROLLBACK_LINES BY TermConstants
      <4>3. p.count \in 0 .. N BY <2>2, <4>0
      <4>1. 0 \in 0 .. p.count BY <4>3
      <4> QED BY <2>2, <2>7, <2>8, <4>1 DEF RingType
    <3>4. UpdateType(u)
      <4>1. u.depth \in Nat /\ u.batch \in Nat BY <1>6, <2>7, UpdateFact
      <4>2. m => u.batch > 0 BY <1>6, <2>5, <2>7, UpdateFact
      <4>3. u.smudge \in BOOLEAN BY <1>1, <2>7, UpdateFact
      <4> QED BY <2>5, <2>7, <4>1, <4>2, <4>3 DEF UpdateType
    <3>5. SelectionType(u) BY <1>6, <2>7, SelectionFact DEF SelectionType, SameSelection
    <3>6. Kept(u) BY <2>2, <2>7 DEF Kept, scrollback_oldest_index
    <3> QED BY <2>7, <3>2, <3>3, <3>4, <3>5, <3>6 DEF Shape
  <2>13. Good(x) => Good(u)
    <3> SUFFICES ASSUME Good(x) PROVE Good(u) OBVIOUS
    <3>1. ~x.drawn /\ ~Torn(x) /\ Plain(x) /\ (x.pending \/ Live(x)) BY DEF Good
    <3>2. \A r \in Rows(x) : C[r] = cell(r) BY <2>3
    <3>3. ~Torn(u)
      <4>1. \A r \in Rows(x) : Paired(cell(r)) BY <1>6, <3>1, BlankFact DEF Torn
      <4> QED BY <2>7, <2>8, <3>2, <4>1 DEF Torn
    <3>4. ~u.drawn BY <2>7, <3>1 DEF SameSelection
    <3>5. CASE x.batch > 0
      <4>1. u.pending /\ u.scr = x.scr BY <2>4, <2>5, <2>7, <3>5
      <4>2. Plain(u) BY <2>8, <3>1, <4>1 DEF Plain
      <4> QED BY <3>3, <3>4, <4>1, <4>2 DEF Good
    <3>6. CASE ~(x.batch > 0)
      <4>1. Live(x) BY <1>6, <3>1, <3>6, UpdateFact
      <4>2. \A r \in Rows(x) : S[r] = line(r) BY <2>4, <3>6
      <4>3. ASSUME NEW r \in Rows(x), NEW c \in Columns(x)
            PROVE  /\ line(r)[c].g = Pix(cell(r), c)
                   /\ ~line(r)[c].inv /\ line(r)[c].bar = "none"
        <5>1. CASE r + 1 \in Rows(x)
          <6>1. PICK q \in Rows(x) : q = r + 1 BY <5>1
          <6>2. line(r) = x.scr[q] /\ cell(r) = x.cells[q] BY <5>1, <6>1
          <6> QED BY <3>1, <4>1, <6>2 DEF Live, Plain
        <5>2. CASE r + 1 \notin Rows(x)
          <6>1. line(r)[c] = Shown({}) /\ cell(r) = BlankRow(x) BY <5>2
          <6> QED BY <1>6, <6>1, BlankFact
        <5> QED BY <5>1, <5>2
      <4> HIDE DEF cell, line
      <4>4. Plain(u) /\ Live(u) BY <2>7, <2>8, <3>2, <4>2, <4>3 DEF Plain, Live
      <4> QED BY <3>3, <3>4, <4>4 DEF Good
    <3> QED BY <3>5, <3>6
  <2>14. u.row < u.rows BY <1>6, <2>7, GridFact
  <2>15. Ahead(t, u) BY <1>4, <2>7 DEF Ahead, SameText, SameUpdate
  <2> QED BY <1>7, <2>7, <2>12, <2>13, <2>14, <2>15 DEF Work
<1> QED BY <1>8, <1>9


-----------------------------------------------------------------------------
(* Output.                                                                 *)

\* A row d of C cells with cp written at c, the halves it leaves alone cleared.
Cleared(d, c, C, x) ==
    \/ x = c - 1 /\ d[c] = TERMINAL_CONTINUATION
    \/ x = c + 1 /\ d[c] # TERMINAL_CONTINUATION /\ c + 1 < C /\ d[c + 1] = TERMINAL_CONTINUATION
Covered(c, cp, x) == x = c \/ (x = c + 1 /\ cp \in Wide)
Stored(d, c, cp, C) ==
    [x \in 0 .. C - 1 |->
       IF x = c THEN cp
       ELSE IF Covered(c, cp, x) THEN TERMINAL_CONTINUATION
       ELSE IF Cleared(d, c, C, x) THEN " " ELSE d[x]]

\* A narrow glyph leaves no half behind, and neither does a wide one that
\* ends the row.
LEMMA StoredPaired ==
    ASSUME NEW C \in Nat, NEW d \in [0 .. C - 1 -> Values], Paired(d), NEW c \in 0 .. C - 1,
           NEW cp \in Values, cp # TERMINAL_CONTINUATION,
           \/ cp \notin Wide
           \/ c + 2 = C
    PROVE  Paired(Stored(d, c, cp, C))
<1>1. PICK e : e = Stored(d, c, cp, C) OBVIOUS
<1>2. DOMAIN e = 0 .. C - 1 /\ DOMAIN d = 0 .. C - 1 BY <1>1 DEF Stored
<1>3. \A x \in 0 .. C - 1 :
        e[x] = IF x = c THEN cp
               ELSE IF Covered(c, cp, x) THEN TERMINAL_CONTINUATION
               ELSE IF Cleared(d, c, C, x) THEN " " ELSE d[x]
  BY <1>1 DEF Stored
<1>4. /\ " " \notin Wide /\ TERMINAL_CONTINUATION \notin Wide /\ TERMINAL_CONTINUATION # " "
  BY TermConstants
<1>5. \A x \in 0 .. C - 1 :
        /\ d[x] \in Wide => x + 1 \in 0 .. C - 1 /\ d[x + 1] = TERMINAL_CONTINUATION
        /\ d[x] = TERMINAL_CONTINUATION => x > 0 /\ d[x - 1] \in Wide
  BY <1>2 DEF Paired
<1>6. ASSUME NEW x \in 0 .. C - 1, e[x] \in Wide
      PROVE  x + 1 \in 0 .. C - 1 /\ e[x + 1] = TERMINAL_CONTINUATION
  <2>1. CASE x = c
    <3>1. cp \in Wide BY <1>3, <1>6, <2>1
    <3>2. c + 1 \in 0 .. C - 1 /\ c + 1 # c BY <3>1
    <3>3. Covered(c, cp, c + 1) BY <3>1 DEF Covered
    <3> QED BY <1>3, <2>1, <3>2, <3>3
  <2>2. CASE x # c
    <3>1. ~Covered(c, cp, x) /\ ~Cleared(d, c, C, x) /\ e[x] = d[x] BY <1>3, <1>4, <1>6, <2>2
    <3>2. x + 1 \in 0 .. C - 1 /\ d[x + 1] = TERMINAL_CONTINUATION BY <1>5, <1>6, <3>1
    <3>3. x + 1 # c BY <3>1, <3>2 DEF Cleared
    <3>4. CASE Covered(c, cp, x + 1) BY <1>3, <3>2, <3>3, <3>4
    <3>5. CASE ~Covered(c, cp, x + 1)
      <4>1. ~Cleared(d, c, C, x + 1)
        <5> SUFFICES ASSUME Cleared(d, c, C, x + 1) PROVE FALSE OBVIOUS
        <5>1. CASE x + 1 = c - 1 /\ d[c] = TERMINAL_CONTINUATION
          <6>1. d[c - 1] \in Wide BY <1>5, <5>1
          <6> QED BY <1>4, <3>2, <5>1, <6>1
        <5>2. CASE x + 1 = c + 1
          <6>1. x = c BY <5>2
          <6> QED BY <2>2, <6>1
        <5> QED BY <5>1, <5>2 DEF Cleared
      <4> QED BY <1>3, <3>2, <3>3, <3>5, <4>1
    <3> QED BY <3>4, <3>5
  <2> QED BY <2>1, <2>2
<1>7. ASSUME NEW x \in 0 .. C - 1, e[x] = TERMINAL_CONTINUATION
      PROVE  x > 0 /\ e[x - 1] \in Wide
  <2>1. x # c BY <1>3, <1>7
  <2>2. CASE Covered(c, cp, x)
    <3>1. x = c + 1 /\ cp \in Wide BY <2>1, <2>2 DEF Covered
    <3>2. x - 1 = c /\ x > 0 BY <3>1
    <3> QED BY <1>3, <3>1, <3>2
  <2>3. CASE ~Covered(c, cp, x)
    <3>1. ~Cleared(d, c, C, x) /\ e[x] = d[x] BY <1>3, <1>4, <1>7, <2>1, <2>3
    <3>2. x > 0 /\ d[x - 1] \in Wide BY <1>5, <1>7, <3>1
    <3>3. PICK y \in 0 .. C - 1 : y = x - 1 /\ x = y + 1 BY <3>2
    <3>4. y # c
      <4> SUFFICES ASSUME y = c PROVE FALSE OBVIOUS
      <4>0. d[y] \in Wide BY <3>2, <3>3
      <4>1. d[c] # TERMINAL_CONTINUATION BY <1>4, <4>0
      <4>2. x = c + 1 /\ c + 1 < C BY <3>3
      <4>3. e[x] = d[x] BY <3>1
      <4> QED BY <1>7, <3>1, <4>1, <4>2, <4>3 DEF Cleared
    <3>5. ~Cleared(d, c, C, y)
      <4> SUFFICES ASSUME Cleared(d, c, C, y) PROVE FALSE OBVIOUS
      <4>1. CASE y = c - 1
        <5>1. x = c BY <3>3, <4>1
        <5> QED BY <2>1, <5>1
      <4>2. CASE y = c + 1 /\ d[c + 1] = TERMINAL_CONTINUATION BY <1>4, <3>2, <3>3, <4>2
      <4> QED BY <4>1, <4>2 DEF Cleared
    <3>6. ~Covered(c, cp, y)
      <4> SUFFICES ASSUME Covered(c, cp, y) PROVE FALSE OBVIOUS
      <4>1. y = c + 1 /\ cp \in Wide BY <3>4 DEF Covered
      <4>2. c + 2 = C BY <4>1
      <4>3. x = C BY <3>3, <4>1, <4>2
      <4> QED BY <4>3
    <3>7. e[y] = d[y] BY <1>3, <3>4, <3>5, <3>6
    <3> QED BY <3>2, <3>3, <3>7
  <2> QED BY <2>2, <2>3
<1>8. Paired(e) BY <1>2, <1>6, <1>7 DEF Paired
<1> QED BY <1>1, <1>8

\* What a row whose glyphs are whole looks like after the write.
LEMMA StoredPix ==
    ASSUME NEW C \in Nat, NEW d \in [0 .. C - 1 -> Values], NEW c \in 0 .. C - 1,
           NEW cp \in Values, cp # TERMINAL_CONTINUATION,
           NEW e, e = Stored(d, c, cp, C), Paired(e), NEW x \in 0 .. C - 1
    PROVE  /\ Covered(c, cp, x) => Pix(e, x) = Part(cp, x - c)
           /\ (~Covered(c, cp, x) /\ Cleared(d, c, C, x)) => Pix(e, x) = {}
           /\ (~Covered(c, cp, x) /\ ~Cleared(d, c, C, x)) => Pix(e, x) = Pix(d, x)
<1>2. DOMAIN e = 0 .. C - 1 BY DEF Stored
<1>3. \A y \in 0 .. C - 1 :
        e[y] = IF y = c THEN cp
               ELSE IF Covered(c, cp, y) THEN TERMINAL_CONTINUATION
               ELSE IF Cleared(d, c, C, y) THEN " " ELSE d[y]
  BY DEF Stored
<1>4. /\ " " \notin Wide /\ TERMINAL_CONTINUATION \notin Wide /\ TERMINAL_CONTINUATION # " "
  BY TermConstants
<1>5. ASSUME Covered(c, cp, x) PROVE Pix(e, x) = Part(cp, x - c)
  <2>1. CASE x = c
    <3>0. e[c] = cp BY <1>3
    <3>1. e[x] = cp /\ x - c = 0 BY <2>1, <3>0
    <3>2. Pix(e, x) = Part(cp, 0) BY <3>1, Zenon DEF Pix, Part, IsText
    <3> QED BY <3>1, <3>2
  <2>2. CASE x # c
    <3>1. x = c + 1 /\ cp \in Wide BY <1>5, <2>2 DEF Covered
    <3>2. x - c = 1 /\ x - 1 = c BY <3>1
    <3>3. e[x] = TERMINAL_CONTINUATION /\ e[c] = cp BY <1>3, <1>5, <2>2
    <3>4. Pix(e, x) = {<<cp, 1>>} BY <3>2, <3>3, Zenon DEF Pix, IsText
    <3>5. cp # " " BY <1>4, <3>1
    <3>6. Part(cp, 1) = {<<cp, 1>>} BY <3>5, Zenon DEF Part
    <3> QED BY <3>2, <3>4, <3>6
  <2> QED BY <2>1, <2>2
<1>6. ASSUME ~Covered(c, cp, x), Cleared(d, c, C, x) PROVE Pix(e, x) = {}
  <2>1. e[x] = " " BY <1>3, <1>6 DEF Covered
  <2> QED BY <1>4, <2>1, Zenon DEF Pix, IsText
<1>7. ASSUME ~Covered(c, cp, x), ~Cleared(d, c, C, x) PROVE Pix(e, x) = Pix(d, x)
  <2>1. e[x] = d[x] BY <1>3, <1>7 DEF Covered
  <2>2. CASE e[x] = TERMINAL_CONTINUATION
    <3>1. x > 0 /\ e[x - 1] \in Wide BY <1>2, <2>2 DEF Paired
    <3>2. PICK y \in 0 .. C - 1 : y = x - 1 /\ x = y + 1 BY <3>1
    <3>3. y # c
      <4> SUFFICES ASSUME y = c PROVE FALSE OBVIOUS
      <4>1. cp \in Wide BY <1>3, <3>1, <3>2
      <4> QED BY <1>7, <3>2, <4>1 DEF Covered
    <3>4. e[y] = d[y] BY <1>3, <1>4, <3>1, <3>2, <3>3
    <3> QED BY <2>1, <3>2, <3>4, Zenon DEF Pix
  <2>3. CASE e[x] # TERMINAL_CONTINUATION BY <2>1, <2>3, Zenon DEF Pix
  <2> QED BY <2>2, <2>3
<1> QED BY <1>5, <1>6, <1>7


\* What differs is the cursor's row, and the column.
RowOnly(t, u) ==
    /\ DOMAIN u = TerminalFields
    /\ SameUpdate(t, u) /\ SameSelection(t, u)
    /\ u.cols = t.cols /\ u.rows = t.rows
    /\ u.ring = t.ring /\ u.head = t.head /\ u.count = t.count /\ u.pushed = t.pushed
    /\ u.row = t.row /\ u.offset = t.offset /\ u.smudge = t.smudge
    /\ u.cells \in [Rows(t) -> [Columns(t) -> Values]] /\ ScrType(t, u.scr)
    /\ \A s \in Rows(t) : s # t.row => u.cells[s] = t.cells[s] /\ u.scr[s] = t.scr[s]

LEMMA RowOnlyShape ==
    ASSUME NEW t, NEW u, Work(t), RowOnly(t, u), u.col \in Nat
    PROVE  /\ Work(u) /\ Ahead(t, u)
           /\ Rows(u) = Rows(t) /\ Columns(u) = Columns(t)
<1> USE DEF RowOnly, SameUpdate, SameSelection, Work
<1>1. Rows(u) = Rows(t) /\ Columns(u) = Columns(t) BY DEF Rows, Columns
<1>2. GridType(u) BY <1>1 DEF Shape, GridType, ScrType
<1>3. RingType(u) BY <1>1 DEF Shape, RingType
<1>4. UpdateType(u) BY DEF Shape, UpdateType
<1>5. SelectionType(u) BY DEF Shape, SelectionType
<1>6. Shape(u) BY <1>2, <1>3, <1>4, <1>5 DEF Shape
<1>7. Kept(u) BY DEF Kept, scrollback_oldest_index
<1> QED BY <1>1, <1>6, <1>7 DEF Ahead

LEMMA RowOnlyTwice ==
    ASSUME NEW t, NEW u, NEW v, RowOnly(t, u), RowOnly(u, v)
    PROVE  RowOnly(t, v)
<1> USE DEF RowOnly, SameUpdate, SameSelection
<1>1. Rows(u) = Rows(t) /\ Columns(u) = Columns(t) BY DEF Rows, Columns
<1> QED BY <1>1 DEF ScrType

\* A row as it is to be within a transaction.
RowShown(t, r) ==
    \A x \in Columns(t) : /\ ~t.scr[r][x].inv /\ t.scr[r][x].bar = "none"
                          /\ t.pending \/ t.scr[r][x].g = Pix(t.cells[r], x)

LEMMA GoodRows ==
    ASSUME NEW t
    PROVE  Good(t) <=> /\ ~t.drawn
                       /\ \A r \in Rows(t) : Paired(t.cells[r]) /\ RowShown(t, r)
BY DEF Good, Torn, Plain, Live, RowShown

LEMMA RowGood ==
    ASSUME NEW t, NEW u, RowOnly(t, u), Good(t), t.row \in Rows(t),
           Paired(u.cells[t.row]), RowShown(u, t.row)
    PROVE  Good(u)
<1>1. Rows(u) = Rows(t) /\ Columns(u) = Columns(t) BY DEF RowOnly, Rows, Columns
<1>2. ASSUME NEW r \in Rows(t) PROVE Paired(u.cells[r]) /\ RowShown(u, r)
  <2>1. CASE r = t.row BY <2>1
  <2>2. CASE r # t.row
    <3>1. u.cells[r] = t.cells[r] /\ u.scr[r] = t.scr[r] /\ u.pending = t.pending
      BY <2>2 DEF RowOnly, SameUpdate
    <3>2. Paired(t.cells[r]) /\ RowShown(t, r) BY GoodRows
    <3> QED BY <1>1, <3>1, <3>2 DEF RowShown
  <2> QED BY <2>1, <2>2
<1>3. ~u.drawn BY GoodRows DEF RowOnly, SameSelection
<1> QED BY <1>1, <1>2, <1>3, GoodRows

\* One cell of the cursor's row blanked.
Blanked(t, k, r, y) == [t EXCEPT !.col = k, !.cells[r][y] = " "]
BlankDrawn(t, k, r, y) ==
    LET w == Blanked(t, k, r, y) IN Unless(t.pending, w, graphics_clear_cell(w, y, r))
WithBlank(t, u, r, y) ==
    \A x \in Columns(t) :
      /\ u.cells[r][x] = IF x = y THEN " " ELSE t.cells[r][x]
      /\ (x # y \/ t.pending) => u.scr[r][x] = t.scr[r][x]
      /\ (x = y /\ ~t.pending) => u.scr[r][x] = Shown({})

IsBlank(v) == v = " "

LEMMA BlankCell ==
    ASSUME NEW t, Shape(t), NEW r \in Rows(t), r = t.row, NEW y \in Columns(t), NEW k,
           NEW u, u = BlankDrawn(t, k, r, y)
    PROVE  RowOnly(t, u) /\ u.col = k /\ IsBlank(Blanked(t, k, r, y).cells[r][y]) /\ WithBlank(t, u, r, y)
<1>30. PICK w : w = Blanked(t, k, r, y) OBVIOUS
<1>2. /\ DOMAIN t = TerminalFields
      /\ t.scr \in [Rows(t) -> [Columns(t) -> ScreenCell]]
      /\ t.cells \in [Rows(t) -> [Columns(t) -> Values]]
  BY GridFact
<1>3. PICK d : d = [t.cells[r] EXCEPT ![y] = " "] OBVIOUS
<1>4. PICK D : D = [t.cells EXCEPT ![r] = d] OBVIOUS
<1>5. w = [t EXCEPT !.col = k, !.cells = D] BY <1>30, <1>3, <1>4, Zenon DEF Blanked
<1>6. d \in [Columns(t) -> Values] /\ \A x \in Columns(t) : d[x] = IF x = y THEN " " ELSE t.cells[r][x]
  BY <1>2, <1>3, TermConstants
<1>7. /\ D \in [Rows(t) -> [Columns(t) -> Values]] /\ D[r] = d
      /\ \A s \in Rows(t) : s # r => D[s] = t.cells[s]
  BY <1>2, <1>4, <1>6
<1>8. /\ DOMAIN w = TerminalFields /\ w.cells = D /\ w.col = k /\ w.scr = t.scr
  BY <1>2, <1>5 DEF TerminalFields
<1>9. PICK s : s = [t.scr[r] EXCEPT ![y] = Shown({})] OBVIOUS
<1>10. PICK S : S = [t.scr EXCEPT ![r] = s] OBVIOUS
<1>0. PICK g : g = graphics_clear_cell(w, y, r) OBVIOUS
<1>11. g = [w EXCEPT !.scr = S]
  BY <1>0, <1>8, <1>9, <1>10, Zenon DEF graphics_clear_cell
<1>12. g.scr = S BY <1>8, <1>11 DEF TerminalFields
<1>13. PICK Z : Z = IF t.pending THEN t.scr ELSE S OBVIOUS
<1>14. u = [w EXCEPT !.scr = Z]
  <2>1. u = [w EXCEPT !.scr = IF t.pending THEN w.scr ELSE g.scr] BY <1>0, <1>30, Zenon DEF Unless, BlankDrawn
  <2> QED BY <1>8, <1>12, <1>13, <2>1
<1>15. {} \in SUBSET (Values \X {0, 1}) BY Zenon
<1>16. Shown({}) \in ScreenCell BY <1>15, ShownFact
<1>17. /\ s \in [Columns(t) -> ScreenCell]
       /\ \A x \in Columns(t) : s[x] = IF x = y THEN Shown({}) ELSE t.scr[r][x]
  BY <1>2, <1>9, <1>16
<1>18. /\ S \in [Rows(t) -> [Columns(t) -> ScreenCell]] /\ S[r] = s
       /\ \A q \in Rows(t) : q # r => S[q] = t.scr[q]
  BY <1>2, <1>10, <1>17
<1>19. /\ Z \in [Rows(t) -> [Columns(t) -> ScreenCell]]
       /\ \A q \in Rows(t) : q # r => Z[q] = t.scr[q]
       /\ \A x \in Columns(t) :
            /\ (x # y \/ t.pending) => Z[r][x] = t.scr[r][x]
            /\ (x = y /\ ~t.pending) => Z[r][x] = Shown({})
  <2>1. CASE t.pending = TRUE BY <1>2, <1>13, <2>1
  <2>2. CASE t.pending = FALSE BY <1>13, <1>17, <1>18, <2>2
  <2> QED BY <2>1, <2>2, UpdateFact
<1>20. u = [t EXCEPT !.col = k, !.cells = D, !.scr = Z]
  BY <1>2, <1>5, <1>14 DEF TerminalFields
<1>21. /\ DOMAIN u = TerminalFields /\ SameUpdate(t, u) /\ SameSelection(t, u)
       /\ u.cols = t.cols /\ u.rows = t.rows
       /\ u.ring = t.ring /\ u.head = t.head /\ u.count = t.count /\ u.pushed = t.pushed
       /\ u.row = t.row /\ u.offset = t.offset /\ u.smudge = t.smudge
       /\ u.col = k /\ u.cells = D /\ u.scr = Z
  BY <1>2, <1>20 DEF TerminalFields, SameUpdate, SameSelection
<1>22. RowOnly(t, u) BY <1>7, <1>19, <1>21 DEF RowOnly, ScrType
<1>23. WithBlank(t, u, r, y) BY <1>6, <1>7, <1>19, <1>21, Zenon DEF WithBlank
<1>24. w.cells[r][y] = " " BY <1>6, <1>7, <1>8
<1> QED BY <1>30, <1>21, <1>22, <1>23, <1>24, Zenon DEF IsBlank

HalvesCleared(t, u, d, r, c) ==
    \A x \in Columns(t) :
      /\ u.cells[r][x] = IF Cleared(d, c, t.cols, x) THEN " " ELSE d[x]
      /\ (~Cleared(d, c, t.cols, x) \/ t.pending) => u.scr[r][x] = t.scr[r][x]
      /\ (Cleared(d, c, t.cols, x) /\ ~t.pending) => u.scr[r][x] = Shown({})

LEMMA ClearHalvesFact ==
    ASSUME NEW t, Work(t), t.col < t.cols, NEW u, u = ClearHalves(t),
           NEW d, d = t.cells[t.row]
    PROVE  /\ RowOnly(t, u) /\ u.col = t.col
           /\ HalvesCleared(t, u, d, t.row, t.col)
<1>1. Shape(t) /\ InGrid(t) BY DEF Work, InGrid
<1>2. PICK r \in Rows(t) : r = t.row BY <1>1, InGridCells
<1>3. PICK c \in Columns(t) : c = t.col BY <1>1, InGridCells
<1>4. /\ c \in Nat /\ c < t.cols /\ t.cols \in Nat /\ d \in [Columns(t) -> Values]
      /\ \A x \in Columns(t) : x \in Nat
      /\ \A x \in Nat : x < t.cols => x \in Columns(t)
      /\ t.pending \in BOOLEAN
  BY <1>1, <1>2, <1>3, GridFact, RowInt, UpdateFact
<1>5. PICK left : left = [t EXCEPT !.cells[r][c - 1] = " "] OBVIOUS
<1>6. PICK v : v = IF d[c] = TERMINAL_CONTINUATION /\ c > 0
                   THEN Unless(t.pending, left, graphics_render_live_cell(left, c - 1, r)) ELSE t
  OBVIOUS
<1>7. PICK right : right = [v EXCEPT !.cells[r][c + 1] = " "] OBVIOUS
<1>8. u = IF /\ v.cells[r][c] # TERMINAL_CONTINUATION
             /\ c + 1 < t.cols /\ v.cells[r][c + 1] = TERMINAL_CONTINUATION
          THEN Unless(t.pending, right, graphics_clear_cell(right, c + 1, r)) ELSE v
  BY <1>2, <1>3, <1>5, <1>6, <1>7, Zenon DEF ClearHalves
<1>9. DOMAIN t = TerminalFields /\ t.scr \in [Rows(t) -> [Columns(t) -> ScreenCell]] BY <1>1, GridFact
<1>10. CASE d[c] = TERMINAL_CONTINUATION /\ c > 0
  <2>1. PICK y \in Columns(t) : y = c - 1 BY <1>4, <1>10
  <2>2. left = Blanked(t, c, r, y) BY <1>3, <1>5, <1>9, <2>1 DEF TerminalFields, Blanked
  <2>3. PICK z : z = BlankDrawn(t, c, r, y) OBVIOUS
  <2>4. RowOnly(t, z) /\ z.col = c /\ IsBlank(Blanked(t, c, r, y).cells[r][y]) /\ WithBlank(t, z, r, y)
    BY <1>1, <1>2, <2>1, <2>3, BlankCell
  <2>5. graphics_render_live_cell(left, y, r) = graphics_clear_cell(left, y, r)
    BY <2>2, <2>4, TermConstants, Zenon DEF graphics_render_live_cell, IsText, IsBlank
  <2>6. v = z BY <1>6, <1>10, <2>1, <2>2, <2>3, <2>5, Zenon DEF BlankDrawn
  <2>7. c # y BY <1>4, <2>1
  <2>8. v.cells[r][c] = TERMINAL_CONTINUATION BY <1>2, <1>10, <2>4, <2>6, <2>7 DEF WithBlank
  <2>9. u = v BY <1>8, <2>8
  <2>10. \A x \in Columns(t) : Cleared(d, c, t.cols, x) <=> x = y
    BY <1>4, <1>10, <2>1 DEF Cleared
  <2>11. HalvesCleared(t, u, d, r, c) BY <1>2, <2>4, <2>6, <2>9, <2>10, Zenon DEF WithBlank, HalvesCleared
  <2> QED BY <1>2, <1>3, <2>4, <2>6, <2>9, <2>11
<1>11. CASE ~(d[c] = TERMINAL_CONTINUATION /\ c > 0) /\ d[c] # TERMINAL_CONTINUATION
            /\ c + 1 < t.cols /\ d[c + 1] = TERMINAL_CONTINUATION
  <2>1. PICK y \in Columns(t) : y = c + 1 BY <1>4, <1>11
  <2>2. v = t BY <1>6, <1>11
  <2>3. right = Blanked(t, c, r, y) BY <1>3, <1>7, <1>9, <2>1, <2>2 DEF TerminalFields, Blanked
  <2>4. u = BlankDrawn(t, c, r, y)
    BY <1>2, <1>8, <1>11, <2>1, <2>2, <2>3, Zenon DEF BlankDrawn
  <2>5. RowOnly(t, u) /\ u.col = c /\ WithBlank(t, u, r, y)
    BY <1>1, <1>2, <2>1, <2>4, BlankCell
  <2>10. \A x \in Columns(t) : Cleared(d, c, t.cols, x) <=> x = y
    BY <1>4, <1>11, <2>1 DEF Cleared
  <2>11. HalvesCleared(t, u, d, r, c) BY <1>2, <2>5, <2>10, Zenon DEF WithBlank, HalvesCleared
  <2> QED BY <1>2, <1>3, <2>5, <2>11
<1>12. CASE /\ ~(d[c] = TERMINAL_CONTINUATION /\ c > 0)
            /\ ~(d[c] # TERMINAL_CONTINUATION /\ c + 1 < t.cols /\ d[c + 1] = TERMINAL_CONTINUATION)
  <2>1. v = t BY <1>6, <1>12
  <2>2. u = t BY <1>2, <1>8, <1>12, <2>1
  <2>3. \A x \in Columns(t) : ~Cleared(d, c, t.cols, x) BY <1>4, <1>12 DEF Cleared
  <2>4. RowOnly(t, t) BY <1>1, GridFact, SelectionFact DEF RowOnly, SameUpdate, SameSelection
  <2>5. HalvesCleared(t, u, d, r, c) BY <1>2, <2>2, <2>3, Zenon DEF HalvesCleared
  <2> QED BY <1>2, <1>3, <2>2, <2>4, <2>5
<1> QED BY <1>10, <1>11, <1>12


\* The cells of a row that a glyph takes, and its pixels.
GlyphRow(t, r, c, cp) ==
    [x \in Columns(t) |-> IF x = c THEN cp
                          ELSE IF CellsNeeded(cp) = 2 /\ x = c + 1 THEN TERMINAL_CONTINUATION
                          ELSE t.cells[r][x]]
GlyphDrawn(t, u, r, c, cp) ==
    \A x \in Columns(t) :
      /\ (t.pending \/ ~Covered(c, cp, x)) => u.scr[r][x] = t.scr[r][x]
      /\ (~t.pending /\ Covered(c, cp, x)) => u.scr[r][x] = Shown(Part(cp, x - c))

LEMMA StoreGlyphFact ==
    ASSUME NEW t, Work(t), NEW r \in Rows(t), r = t.row, NEW c \in Columns(t), c = t.col,
           NEW cp \in Values, NEW u, u = StoreGlyph(t, cp, CellsNeeded(cp))
    PROVE  /\ RowOnly(t, u) /\ u.col = c + CellsNeeded(cp)
           /\ u.cells[r] = GlyphRow(t, r, c, cp) /\ GlyphDrawn(t, u, r, c, cp)
<1>1. /\ Shape(t) /\ DOMAIN t = TerminalFields
      /\ t.scr \in [Rows(t) -> [Columns(t) -> ScreenCell]]
      /\ t.cells \in [Rows(t) -> [Columns(t) -> Values]]
  BY GridFact DEF Work
<1>2. PICK n : n = CellsNeeded(cp) OBVIOUS
<1>3. PICK d : d = GlyphRow(t, r, c, cp) OBVIOUS
<1>4. PICK D : D = [t.cells EXCEPT ![r] = d] OBVIOUS
<1>5. PICK v : v = [t EXCEPT !.cells = D] OBVIOUS
<1>6. PICK g : g = graphics_draw_glyph(v, cp, c, r) OBVIOUS
<1>7. u = [Unless(t.pending, v, g) EXCEPT !.col = t.col + n]
  <2>1. u = [Unless(t.pending, v, g) EXCEPT !.col = Unless(t.pending, v, g).col + n]
    BY <1>2, <1>3, <1>4, <1>5, <1>6, Zenon DEF StoreGlyph, GlyphRow
  <2>2. Unless(t.pending, v, g).col = t.col BY <1>1, <1>5 DEF Unless, TerminalFields
  <2> QED BY <2>1, <2>2
<1>8. d \in [Columns(t) -> Values]
  <2>1. \A x \in Columns(t) : t.cells[r][x] \in Values BY <1>1
  <2> QED BY <1>3, <2>1, TermConstants, Zenon DEF GlyphRow
<1>9. /\ D \in [Rows(t) -> [Columns(t) -> Values]] /\ D[r] = d
      /\ \A s \in Rows(t) : s # r => D[s] = t.cells[s]
  BY <1>1, <1>4, <1>8
<1>10. /\ DOMAIN v = TerminalFields /\ SameUpdate(t, v) /\ SameSelection(t, v)
       /\ v.cols = t.cols /\ v.rows = t.rows
       /\ v.ring = t.ring /\ v.head = t.head /\ v.count = t.count /\ v.pushed = t.pushed
       /\ v.row = t.row /\ v.col = t.col /\ v.offset = t.offset /\ v.smudge = t.smudge
       /\ v.cells = D /\ v.scr = t.scr
  BY <1>1, <1>5 DEF TerminalFields, SameUpdate, SameSelection
<1>11. RowOnly(t, v) BY <1>1, <1>9, <1>10 DEF RowOnly, ScrType
<1>12. Shape(v) /\ Rows(v) = Rows(t) /\ Columns(v) = Columns(t)
  BY <1>1, <1>10, <1>11, RowOnlyShape, GridFact DEF Work
<1>13. /\ OnlyScr(v, g) /\ ScrType(v, g.scr)
       /\ \A s \in Rows(t) : \A x \in Columns(t) :
            g.scr[s][x] = IF s = r /\ (x = c \/ (x = c + 1 /\ cp \in Wide))
                          THEN Shown(Part(cp, x - c)) ELSE t.scr[s][x]
  BY <1>6, <1>10, <1>12, DrawGlyph
<1>14. PICK S : S = g.scr OBVIOUS
<1>15. /\ S \in [Rows(t) -> [Columns(t) -> ScreenCell]]
       /\ \A s \in Rows(t) : s # r => S[s] = t.scr[s]
       /\ \A x \in Columns(t) : /\ ~Covered(c, cp, x) => S[r][x] = t.scr[r][x]
                                /\ Covered(c, cp, x) => S[r][x] = Shown(Part(cp, x - c))
  <2>1. S \in [Rows(t) -> [Columns(t) -> ScreenCell]] BY <1>12, <1>13, <1>14 DEF ScrType
  <2>2. \A s \in Rows(t) : s # r => S[s] = t.scr[s] BY <1>1, <1>13, <1>14, <2>1
  <2>3. \A x \in Columns(t) : /\ ~Covered(c, cp, x) => S[r][x] = t.scr[r][x]
                              /\ Covered(c, cp, x) => S[r][x] = Shown(Part(cp, x - c))
    BY <1>13, <1>14 DEF Covered
  <2> QED BY <2>1, <2>2, <2>3
<1>16. PICK Z : Z = IF t.pending THEN t.scr ELSE S OBVIOUS
<1>17. u = [t EXCEPT !.cells = D, !.scr = Z, !.col = c + n]
  <2>1. Unless(t.pending, v, g) = [v EXCEPT !.scr = IF t.pending THEN v.scr ELSE S]
    BY <1>14, Zenon DEF Unless
  <2>2. Unless(t.pending, v, g) = [v EXCEPT !.scr = Z] BY <1>10, <1>16, <2>1
  <2>3. u = [[v EXCEPT !.scr = Z] EXCEPT !.col = c + n] BY <1>7, <2>2
  <2> QED BY <1>1, <1>5, <2>3 DEF TerminalFields
<1>18. /\ Z \in [Rows(t) -> [Columns(t) -> ScreenCell]]
       /\ \A s \in Rows(t) : s # r => Z[s] = t.scr[s]
       /\ t.pending => Z = t.scr
       /\ ~t.pending => Z = S
  <2>1. CASE t.pending = TRUE BY <1>1, <1>16, <2>1
  <2>2. CASE t.pending = FALSE BY <1>15, <1>16, <2>2
  <2> QED BY <1>1, <2>1, <2>2, UpdateFact
<1>19. /\ DOMAIN u = TerminalFields /\ SameUpdate(t, u) /\ SameSelection(t, u)
       /\ u.cols = t.cols /\ u.rows = t.rows
       /\ u.ring = t.ring /\ u.head = t.head /\ u.count = t.count /\ u.pushed = t.pushed
       /\ u.row = t.row /\ u.offset = t.offset /\ u.smudge = t.smudge
       /\ u.col = c + n /\ u.cells = D /\ u.scr = Z
  BY <1>1, <1>17 DEF TerminalFields, SameUpdate, SameSelection
<1>20. RowOnly(t, u) BY <1>9, <1>18, <1>19 DEF RowOnly, ScrType
<1>21. GlyphDrawn(t, u, r, c, cp) BY <1>15, <1>18, <1>19, Zenon DEF GlyphDrawn
<1> QED BY <1>2, <1>3, <1>9, <1>19, <1>20, <1>21, Zenon

\* A glyph written where the cursor is: the row and its pixels.
PutCell(t, cp) == StoreGlyph(ClearHalves(t), cp, CellsNeeded(cp))

LEMMA PutCellFact ==
    ASSUME NEW t, Work(t), NEW r \in Rows(t), r = t.row, NEW c \in Columns(t), c = t.col,
           NEW cp \in Values, cp # TERMINAL_CONTINUATION, NEW u, u = PutCell(t, cp)
    PROVE  /\ RowOnly(t, u) /\ u.col = c + CellsNeeded(cp)
           /\ u.cells[r] = Stored(t.cells[r], c, cp, t.cols)
           /\ (RowShown(t, r) /\ Paired(u.cells[r])) => RowShown(u, r)
<1>1. PICK d : d = t.cells[r] OBVIOUS
<1>2. PICK w : w = ClearHalves(t) OBVIOUS
<1>3. Shape(t) /\ t.cols \in Nat /\ c \in Nat /\ c < t.cols /\ d \in [Columns(t) -> Values]
      /\ Columns(t) = 0 .. t.cols - 1 /\ \A x \in Columns(t) : x \in Nat
  BY <1>1, GridFact, RowInt DEF Work, Columns
<1>4. RowOnly(t, w) /\ w.col = t.col /\ HalvesCleared(t, w, d, r, c)
  BY <1>1, <1>2, <1>3, ClearHalvesFact
<1>5. Work(w) /\ Rows(w) = Rows(t) /\ Columns(w) = Columns(t) BY <1>3, <1>4, RowOnlyShape
<1>6. w.row = r /\ w.cols = t.cols /\ w.pending = t.pending BY <1>4 DEF RowOnly, SameUpdate
<1>7. /\ RowOnly(w, u) /\ u.col = c + CellsNeeded(cp)
      /\ u.cells[r] = GlyphRow(w, r, c, cp) /\ GlyphDrawn(w, u, r, c, cp)
  <2>1. u = StoreGlyph(w, cp, CellsNeeded(cp)) BY <1>2, Zenon DEF PutCell
  <2> QED BY <1>4, <1>5, <1>6, <2>1, StoreGlyphFact
<1>8. RowOnly(t, u) BY <1>4, <1>7, RowOnlyTwice
<1>9. u.cells[r] = Stored(d, c, cp, t.cols)
  <2>1. \A x \in Columns(t) : w.cells[r][x] = IF Cleared(d, c, t.cols, x) THEN " " ELSE d[x]
    BY <1>4, Zenon DEF HalvesCleared
  <2>2. \A x \in Columns(t) : (CellsNeeded(cp) = 2 /\ x = c + 1) <=> (x = c + 1 /\ cp \in Wide)
    BY WideFact
  <2> DEFINE a(x) == IF x = c THEN cp
                     ELSE IF CellsNeeded(cp) = 2 /\ x = c + 1 THEN TERMINAL_CONTINUATION
                     ELSE w.cells[r][x]
             b(x) == IF x = c THEN cp
                     ELSE IF Covered(c, cp, x) THEN TERMINAL_CONTINUATION
                     ELSE IF Cleared(d, c, t.cols, x) THEN " " ELSE d[x]
  <2>3. ASSUME NEW x \in Columns(t) PROVE a(x) = b(x)
    <3>1. CASE x = c BY <3>1, Zenon
    <3>2. CASE x # c /\ Covered(c, cp, x) BY <2>2, <3>2, Zenon DEF Covered
    <3>3. CASE x # c /\ ~Covered(c, cp, x)
      <4>1. a(x) = w.cells[r][x] BY <2>2, <3>3, Zenon DEF Covered
      <4> QED BY <2>1, <3>3, <4>1, Zenon
    <3> QED BY <3>1, <3>2, <3>3
  <2>4. u.cells[r] = [x \in Columns(t) |-> a(x)] BY <1>5, <1>7, Zenon DEF GlyphRow
  <2>5. Stored(d, c, cp, t.cols) = [x \in Columns(t) |-> b(x)] BY <1>3, Zenon DEF Stored
  <2> HIDE DEF a, b
  <2> QED BY <2>3, <2>4, <2>5
<1>10. ASSUME RowShown(t, r), Paired(u.cells[r]) PROVE RowShown(u, r)
  <2>1. ASSUME NEW x \in Columns(t)
        PROVE  /\ ~u.scr[r][x].inv /\ u.scr[r][x].bar = "none"
               /\ t.pending \/ u.scr[r][x].g = Pix(u.cells[r], x)
    <3>1. PICK e : e = u.cells[r] OBVIOUS
    <3>2. ~t.scr[r][x].inv /\ t.scr[r][x].bar = "none" /\ (t.pending \/ t.scr[r][x].g = Pix(d, x))
      BY <1>1, <1>10 DEF RowShown
    <3>3. CASE t.pending
      <4>1. u.scr[r][x] = t.scr[r][x]
        BY <1>4, <1>5, <1>6, <1>7, <3>3, Zenon DEF HalvesCleared, GlyphDrawn
      <4> QED BY <3>2, <3>3, <4>1
    <3>4. CASE ~t.pending
      <4>0. PICK C \in Nat : C = t.cols BY <1>3
      <4>1. /\ Covered(c, cp, x) => Pix(e, x) = Part(cp, x - c)
            /\ (~Covered(c, cp, x) /\ Cleared(d, c, C, x)) => Pix(e, x) = {}
            /\ (~Covered(c, cp, x) /\ ~Cleared(d, c, C, x)) => Pix(e, x) = Pix(d, x)
        <5>1. d \in [0 .. C - 1 -> Values] /\ c \in 0 .. C - 1 /\ x \in 0 .. C - 1 BY <1>3, <4>0
        <5>2. e = Stored(d, c, cp, C) /\ Paired(e) BY <1>9, <1>10, <3>1, <4>0
        <5> QED BY <5>1, <5>2, StoredPix
      <4>2. CASE Covered(c, cp, x)
        <5>1. u.scr[r][x] = Shown(Part(cp, x - c))
          BY <1>5, <1>6, <1>7, <3>4, <4>2, Zenon DEF GlyphDrawn
        <5>2. PICK h \in {0, 1} : h = x - c
          <6>1. x - c \in {0, 1} BY <1>3, <4>2 DEF Covered
          <6> QED BY <6>1
        <5>3. Part(cp, h) \in SUBSET (Values \X {0, 1}) BY PartFact
        <5>4. Shown(Part(cp, h)).g = Part(cp, h) /\ ~Shown(Part(cp, h)).inv /\ Shown(Part(cp, h)).bar = "none"
          BY <5>3, ShownFact
        <5> QED BY <3>1, <4>1, <4>2, <5>1, <5>2, <5>4
      <4>3. CASE ~Covered(c, cp, x)
        <5>1. u.scr[r][x] = w.scr[r][x] BY <1>5, <1>7, <4>3, Zenon DEF GlyphDrawn
        <5>2. CASE Cleared(d, c, C, x)
          <6>1. u.scr[r][x] = Shown({}) BY <1>4, <3>4, <4>0, <5>1, <5>2, Zenon DEF HalvesCleared
          <6> QED BY <1>3, <3>1, <4>1, <4>3, <5>2, <6>1, BlankFact
        <5>3. CASE ~Cleared(d, c, C, x)
          <6>1. u.scr[r][x] = t.scr[r][x] BY <1>4, <4>0, <5>1, <5>3, Zenon DEF HalvesCleared
          <6> QED BY <3>1, <3>2, <3>4, <4>1, <4>3, <5>3, <6>1
        <5> QED BY <5>2, <5>3
      <4> QED BY <4>2, <4>3
    <3> QED BY <3>3, <3>4
  <2>2. Columns(u) = Columns(t) /\ u.pending = t.pending BY <1>8 DEF RowOnly, SameUpdate, Columns
  <2> QED BY <2>1, <2>2, Zenon DEF RowShown
<1> QED BY <1>1, <1>7, <1>8, <1>9, <1>10, Zenon


\* One operation of the output within a transaction.
Output(t, u) == Work(u) /\ u.col < u.cols /\ Ahead(t, u)

LEMMA OutputTwice ==
    ASSUME NEW t, NEW u, NEW v, Output(t, u), Output(u, v)
    PROVE  Output(t, v)
BY DEF Output, Ahead

LEMMA NewLineIfFact ==
    ASSUME NEW t, Work(t), NEW full \in BOOLEAN, NEW u, u = NewLineIf(full, t)
    PROVE  /\ Work(u) /\ Ahead(t, u) /\ (Good(t) => Good(u))
           /\ full => u.col = 0
           /\ ~full => u = t
<1>1. CASE full = TRUE
  <2>1. u = NewLine(t) BY <1>1 DEF NewLineIf
  <2> QED BY <1>1, <2>1, NewLineFact
<1>2. CASE full = FALSE
  <2>1. u = t BY <1>2 DEF NewLineIf
  <2> QED BY <1>2, <2>1 DEF Ahead
<1> QED BY <1>1, <1>2

LEMMA WorkFact ==
    ASSUME NEW t, Work(t)
    PROVE  /\ Shape(t) /\ t.cols \in Nat /\ t.cols >= 2 /\ t.rows \in Nat /\ t.col \in Nat /\ t.row \in Nat
           /\ t.row \in Rows(t) /\ (t.col < t.cols => t.col \in Columns(t))
           /\ Columns(t) = 0 .. t.cols - 1 /\ t.cells[t.row] \in [Columns(t) -> Values]
<1>1. Shape(t) /\ t.row < t.rows BY DEF Work
<1>2. /\ t.cols \in Nat /\ t.cols >= 2 /\ t.rows \in Nat /\ t.col \in Nat /\ t.row \in Nat
  BY <1>1, GridFact
<1>3. t.row \in Rows(t) /\ (t.col < t.cols => t.col \in Columns(t)) BY <1>1, <1>2, RowInt
<1>4. t.cells[t.row] \in [Columns(t) -> Values] BY <1>1, <1>3, GridFact
<1> QED BY <1>1, <1>2, <1>3, <1>4 DEF Columns

LEMMA NeededFact ==
    ASSUME NEW cp
    PROVE  CellsNeeded(cp) \in {1, 2} /\ (cp \in Wide <=> CellsNeeded(cp) = 2)
BY WideFact

LEMMA PutGlyphFact ==
    ASSUME NEW t, Work(t), t.col < t.cols, NEW cp \in Values, cp # TERMINAL_CONTINUATION,
           NEW u, u = PutGlyph(t, cp)
    PROVE  /\ Output(t, u)
           /\ Good(t) => (Torn(u) \/ Good(u))
           /\ (Good(t) /\ cp \notin Wide) => Good(u)
<1>1. PICK n \in {1, 2} : n = CellsNeeded(cp) /\ (cp \in Wide <=> n = 2) BY NeededFact
<1>2. PICK full \in BOOLEAN : full <=> t.col + n > t.cols OBVIOUS
<1>3. PICK x : x = NewLineIf(full, t) OBVIOUS
<1>4. /\ Work(x) /\ Ahead(t, x) /\ (Good(t) => Good(x))
      /\ full => x.col = 0
      /\ ~full => x = t
  BY <1>3, NewLineIfFact
<1>5. x.col \in Nat /\ x.cols \in Nat /\ x.col < x.cols /\ x.col + n <= x.cols
  <2>1. /\ t.col \in Nat /\ t.cols \in Nat /\ x.col \in Nat /\ x.cols \in Nat /\ x.cols >= 2
    BY <1>4, WorkFact
  <2>2. CASE full
    <3>1. x.col = 0 BY <1>4, <2>2
    <3> QED BY <2>1, <3>1
  <2>3. CASE ~full
    <3>1. x = t BY <1>4, <2>3
    <3>2. ~(t.col + n > t.cols) BY <1>2, <2>3, Zenon
    <3> QED BY <2>1, <3>1, <3>2
  <2> QED BY <2>2, <2>3
<1>6. PICK r \in Rows(x) : r = x.row BY <1>4, WorkFact
<1>7. PICK c \in Columns(x) : c = x.col BY <1>4, <1>5, WorkFact
<1>8. PICK d : d = x.cells[r] OBVIOUS
<1>9. PICK v : v = PutCell(x, cp) OBVIOUS
<1>10. /\ RowOnly(x, v) /\ v.col = c + n
       /\ v.cells[r] = Stored(d, c, cp, x.cols)
       /\ (RowShown(x, r) /\ Paired(v.cells[r])) => RowShown(v, r)
  BY <1>1, <1>4, <1>6, <1>7, <1>8, <1>9, PutCellFact
<1>11. v.col \in Nat /\ v.cols = x.cols BY <1>5, <1>7, <1>10 DEF RowOnly
<1>12. Work(v) /\ Ahead(x, v) /\ Rows(v) = Rows(x) /\ Columns(v) = Columns(x)
  BY <1>4, <1>10, <1>11, RowOnlyShape
<1>13. PICK done \in BOOLEAN : done <=> v.col >= v.cols OBVIOUS
<1>14. u = NewLineIf(done, v)
  <2>1. v = StoreGlyph(ClearHalves(NewLineIf(t.col + n > t.cols, t)), cp, n)
    BY <1>1, <1>2, <1>3, <1>9, Zenon DEF PutCell, NewLineIf
  <2> QED BY <1>1, <1>13, <2>1, Zenon DEF PutGlyph, Wrapped, NewLineIf
<1>15. /\ Work(u) /\ Ahead(v, u) /\ (Good(v) => Good(u))
       /\ done => u.col = 0
       /\ ~done => u = v
  BY <1>12, <1>14, NewLineIfFact
<1>16. u.col < u.cols
  <2>1. u.cols \in Nat /\ u.cols >= 2 BY <1>15, WorkFact
  <2>2. CASE done
    <3>1. u.col = 0 BY <1>15, <2>2
    <3> QED BY <2>1, <3>1
  <2>3. CASE ~done
    <3>1. u = v BY <1>15, <2>3
    <3>2. ~(v.col >= v.cols) BY <1>13, <2>3, Zenon
    <3> QED BY <1>5, <1>11, <3>1, <3>2
  <2> QED BY <2>2, <2>3
<1>17. Ahead(t, u) BY <1>4, <1>12, <1>15 DEF Ahead
<1>18. Output(t, u) BY <1>15, <1>16, <1>17 DEF Output
<1>19. ASSUME Good(t), Paired(v.cells[r]) PROVE Good(v)
  <2>1. Good(x) BY <1>4, <1>19
  <2>2. RowShown(x, r) BY <2>1, GoodRows
  <2> QED BY <1>6, <1>10, <1>19, <2>1, <2>2, RowGood
<1>20. ASSUME Good(t), cp \notin Wide \/ done PROVE Paired(v.cells[r])
  <2>1. Good(x) BY <1>4, <1>20
  <2>2. Paired(d) BY <1>8, <2>1, GoodRows
  <2>3. PICK C \in Nat : C = x.cols BY <1>5
  <2>4. d \in [0 .. C - 1 -> Values] /\ c \in 0 .. C - 1
    BY <1>4, <1>5, <1>6, <1>7, <1>8, <2>3, WorkFact
  <2>5. cp \notin Wide \/ c + 2 = C
    <3> SUFFICES ASSUME cp \in Wide PROVE c + 2 = C OBVIOUS
    <3>1. done /\ n = 2 BY <1>1, <1>20
    <3>2. v.col >= v.cols BY <1>13, <3>1, Zenon
    <3> QED BY <1>5, <1>7, <1>10, <1>11, <2>3, <3>1, <3>2
  <2>6. Paired(Stored(d, c, cp, C)) BY <2>2, <2>4, <2>5, StoredPaired
  <2> QED BY <1>10, <2>3, <2>6
<1>21. Good(t) => (Torn(u) \/ Good(u))
  <2> SUFFICES ASSUME Good(t), ~Torn(u) PROVE Good(u) OBVIOUS
  <2>1. CASE done BY <1>15, <1>19, <1>20, <2>1
  <2>2. CASE ~done
    <3>1. u = v BY <1>15, <2>2
    <3>2. Paired(v.cells[r]) BY <1>12, <3>1 DEF Torn
    <3> QED BY <1>19, <3>1, <3>2
  <2> QED BY <2>1, <2>2
<1>22. (Good(t) /\ cp \notin Wide) => Good(u) BY <1>15, <1>19, <1>20
<1> QED BY <1>18, <1>21, <1>22

LEMMA BackspaceFact ==
    ASSUME NEW t, Work(t), t.col < t.cols, NEW u, u = Backspace(t)
    PROVE  /\ Output(t, u)
           /\ Good(t) => (Torn(u) \/ Good(u))
<1>1. CASE t.col = 0
  <2>1. u = t BY <1>1 DEF Backspace
  <2> QED BY <2>1 DEF Output, Ahead
<1>2. CASE t.col # 0
  <2>1. PICK r \in Rows(t) : r = t.row BY WorkFact
  <2>2. PICK y \in Columns(t) : y = t.col - 1 /\ y \in Nat /\ y < t.cols
    <3>1. t.col - 1 \in Nat /\ t.col - 1 < t.cols BY <1>2, WorkFact
    <3>2. t.col - 1 \in Columns(t) BY <3>1, WorkFact
    <3> QED BY <3>1, <3>2
  <2>3. PICK w : w = Blanked(t, y, r, y) OBVIOUS
  <2>4. PICK z : z = BlankDrawn(t, y, r, y) OBVIOUS
  <2>5. RowOnly(t, z) /\ z.col = y /\ IsBlank(Blanked(t, y, r, y).cells[r][y]) /\ WithBlank(t, z, r, y)
    <3>1. Shape(t) BY WorkFact
    <3> QED BY <2>1, <2>2, <2>4, <3>1, BlankCell
  <2>6. w.col = y /\ w.row = r
    BY <2>1, <2>3, GridFact, WorkFact DEF Blanked, TerminalFields
  <2>7. graphics_render_live_cell(w, y, r) = graphics_clear_cell(w, y, r)
    BY <2>3, <2>5, TermConstants, Zenon DEF graphics_render_live_cell, IsText, IsBlank
  <2>8. u = Unless(t.pending, w, graphics_render_live_cell(w, w.col, w.row))
    BY <1>2, <2>1, <2>2, <2>3, Zenon DEF Backspace, Blanked
  <2>9. u = z BY <2>3, <2>4, <2>6, <2>7, <2>8, Zenon DEF BlankDrawn
  <2>10. Work(u) /\ Ahead(t, u) /\ Rows(u) = Rows(t) /\ Columns(u) = Columns(t)
    BY <2>2, <2>5, <2>9, RowOnlyShape
  <2>11. Output(t, u) BY <2>2, <2>5, <2>9, <2>10 DEF Output, RowOnly
  <2>12. ASSUME Good(t), ~Torn(u) PROVE Good(u)
    <3>1. Paired(u.cells[r]) BY <2>10, <2>12 DEF Torn
    <3>2. PICK e : e = u.cells[r] OBVIOUS
    <3>3. PICK d : d = t.cells[r] OBVIOUS
    <3>4. \A x \in Columns(t) : e[x] = IF x = y THEN " " ELSE d[x]
      BY <2>5, <2>9, <3>2, <3>3, Zenon DEF WithBlank
    <3>5. DOMAIN e = Columns(t) BY <2>5, <2>9, <3>2 DEF RowOnly
    <3>6. ASSUME NEW x \in Columns(t), x # y PROVE Pix(e, x) = Pix(d, x)
      <4>1. e[x] = d[x] BY <3>4, <3>6
      <4>2. CASE e[x] = TERMINAL_CONTINUATION
        <5>1. x > 0 /\ e[x - 1] \in Wide BY <3>1, <3>2, <3>5, <4>2 DEF Paired
        <5>2. PICK q \in Columns(t) : q = x - 1
          <6>1. x - 1 \in Columns(t) BY <5>1, WorkFact
          <6> QED BY <6>1
        <5>3. q # y BY <3>4, <5>1, <5>2, TermConstants
        <5>4. e[q] = d[q] BY <3>4, <5>3
        <5> QED BY <4>1, <5>2, <5>4, Zenon DEF Pix
      <4>3. CASE e[x] # TERMINAL_CONTINUATION BY <4>1, <4>3, Zenon DEF Pix
      <4> QED BY <4>2, <4>3
    <3>7. Pix(e, y) = {} BY <3>4, TermConstants, Zenon DEF Pix, IsText
    <3>8. RowShown(t, r) BY <2>12, GoodRows
    <3>9. ASSUME NEW x \in Columns(t)
          PROVE  /\ ~u.scr[r][x].inv /\ u.scr[r][x].bar = "none"
                 /\ t.pending \/ u.scr[r][x].g = Pix(e, x)
      <4>1. ~t.scr[r][x].inv /\ t.scr[r][x].bar = "none" /\ (t.pending \/ t.scr[r][x].g = Pix(d, x))
        BY <3>3, <3>8 DEF RowShown
      <4>2. CASE x # y \/ t.pending
        <5>1. u.scr[r][x] = t.scr[r][x] BY <2>5, <2>9, <4>2, Zenon DEF WithBlank
        <5> QED BY <3>6, <4>1, <4>2, <5>1, Zenon
      <4>3. CASE ~(x # y \/ t.pending)
        <5>1. u.scr[r][x] = Shown({}) BY <2>5, <2>9, <4>3, Zenon DEF WithBlank
        <5> QED BY <3>7, <4>3, <5>1, BlankFact, WorkFact, Zenon
      <4> QED BY <4>2, <4>3
    <3>10. u.pending = t.pending BY <2>5, <2>9 DEF RowOnly, SameUpdate
    <3>11. RowShown(u, r) BY <2>10, <3>2, <3>9, <3>10, Zenon DEF RowShown
    <3> QED BY <2>1, <2>5, <2>9, <2>12, <3>1, <3>11, RowGood
  <2> QED BY <2>11, <2>12
<1> QED BY <1>1, <1>2


LEMMA CountedFact ==
    ASSUME NEW t, Work(t), t.col < t.cols, NEW u, u = Counted(t)
    PROVE  Output(t, u) /\ u.col = t.col /\ (Good(t) => Good(u))
<1>1. Shape(t) /\ DOMAIN t = TerminalFields /\ Kept(t) /\ t.offset = 0 /\ t.row < t.rows
  BY GridFact DEF Work
<1>2. CASE t.batch = 0
  <2>1. u = t BY <1>2, Zenon DEF Counted
  <2> QED BY <2>1 DEF Output, Ahead
<1>3. CASE t.batch # 0
  <2>1. PICK m \in BOOLEAN : m = (t.pending \/ (t.threshold # 0 /\ t.outputs + 1 >= t.threshold)) BY Zenon
  <2>2. PICK o : o = Min({t.outputs + 1, TERMINAL_OUTPUT_DEFER_THRESHOLD}) OBVIOUS
  <2>3. u = [t EXCEPT !.outputs = o, !.pending = m] BY <1>3, <2>1, <2>2, Zenon DEF Counted
  <2>4. t.pending => m BY <2>1, Zenon
  <2>5. /\ ButUpdate(t, u) /\ u.depth = t.depth /\ u.batch = t.batch /\ u.pending = m
        /\ u.smudge = t.smudge
    BY <1>1, <2>3 DEF ButUpdate, SameText, SameSelection, TerminalFields
  <2>6. UpdateType(u)
    <3>1. u.depth \in Nat /\ u.batch \in Nat /\ u.batch > 0 BY <1>1, <1>3, <2>5, UpdateFact
    <3>2. u.pending \in BOOLEAN /\ u.smudge \in BOOLEAN BY <1>1, <2>1, <2>5, UpdateFact
    <3> QED BY <3>1, <3>2 DEF UpdateType
  <2>7. Shape(u) /\ Kept(u) /\ (Good(t) => Good(u))
    BY <1>1, <2>4, <2>5, <2>6, UpdateShape, Zenon
  <2>8. Work(u) /\ u.col = t.col /\ u.col < u.cols /\ Ahead(t, u)
    BY <1>1, <2>5, <2>7 DEF Work, ButUpdate, SameText, Ahead
  <2> QED BY <2>7, <2>8 DEF Output
<1> QED BY <1>2, <1>3

LEMMA PutSpaceFact ==
    ASSUME NEW t, Work(t), t.col < t.cols, NEW u, u = PutSpace(t)
    PROVE  Output(t, u) /\ (Good(t) => Good(u))
<1>1. PICK v : v = Counted(t) OBVIOUS
<1>2. Output(t, v) /\ (Good(t) => Good(v)) BY <1>1, CountedFact
<1>3. Work(v) /\ v.col < v.cols BY <1>2 DEF Output
<1>4. PICK space \in Values : space = " " BY TermConstants, Zenon
<1>5. space # TERMINAL_CONTINUATION /\ space \notin Wide BY <1>4, TermConstants, Zenon
<1>6. u = PutGlyph(v, space) BY <1>1, <1>4, Zenon DEF PutSpace
<1>7. Output(v, u) /\ (Good(v) => Good(u)) BY <1>3, <1>5, <1>6, PutGlyphFact
<1> QED BY <1>2, <1>7, OutputTwice

LEMMA PutTabFact ==
    ASSUME NEW t, Work(t), t.col < t.cols, NEW u, u = PutTab(t)
    PROVE  Output(t, u) /\ (Good(t) => Good(u))
<1> DEFINE Next(x, y) == Output(x, y) /\ (Good(x) => Good(y))
<1>1. \A x, y, z : Next(x, y) /\ Next(y, z) => Next(x, z) BY OutputTwice
<1>2. \A x, y : Work(x) /\ x.col < x.cols /\ y = PutSpace(x) => Next(x, y) BY PutSpaceFact
<1>3. \A x, y : Next(x, y) => Work(y) /\ y.col < y.cols BY DEF Output
<1> HIDE DEF Next
<1>4. PICK one : one = PutSpace(t) OBVIOUS
<1>5. PICK two : two = PutSpace(one) OBVIOUS
<1>6. PICK three : three = PutSpace(two) OBVIOUS
<1>7. PICK four : four = PutSpace(three) OBVIOUS
<1>8. Next(t, one) BY <1>2, <1>4
<1>9. Next(one, two) BY <1>2, <1>3, <1>5, <1>8
<1>10. Next(two, three) BY <1>2, <1>3, <1>6, <1>9
<1>11. Next(three, four) BY <1>2, <1>3, <1>7, <1>10
<1>12. Next(t, two) /\ Next(t, three) /\ Next(t, four) BY <1>1, <1>8, <1>9, <1>10, <1>11
<1>13. u = CASE t.col % 4 = 3 -> one [] t.col % 4 = 2 -> two [] t.col % 4 = 1 -> three [] OTHER -> four
  BY <1>4, <1>5, <1>6, <1>7, Zenon DEF PutTab
<1>14. u \in {one, two, three, four}
  <2>1. CASE t.col % 4 = 3 BY <1>13, <2>1
  <2>2. CASE t.col % 4 = 2 BY <1>13, <2>2
  <2>3. CASE t.col % 4 = 1 BY <1>13, <2>3
  <2>4. CASE ~(t.col % 4 = 3) /\ ~(t.col % 4 = 2) /\ ~(t.col % 4 = 1) BY <1>13, <2>4
  <2> QED BY <2>1, <2>2, <2>3, <2>4
<1>15. Next(t, u) BY <1>8, <1>12, <1>14
<1> USE DEF Next
<1> QED BY <1>15

\* Within a transaction, with the cursor on a cell.
LEMMA MovingWork ==
    ASSUME NEW t
    PROVE  (Body(t) /\ Moving(t)) <=> (Work(t) /\ t.col < t.cols /\ (~t.smudge => Good(t)))
BY DEF Body, Moving, Work, InGrid

LEMMA MarkTornFact ==
    ASSUME NEW t, Work(t), t.col < t.cols, NEW s, s \/ Torn(t) \/ Good(t), s \in BOOLEAN, s = t.smudge,
           NEW u, u = MarkTorn(t)
    PROVE  Body(u) /\ Moving(u) /\ u.depth = t.depth /\ u.batch = t.batch /\ u.rows = t.rows /\ u.cols = t.cols
<1>1. Shape(t) /\ DOMAIN t = TerminalFields /\ Kept(t) /\ t.offset = 0 /\ t.row < t.rows
  BY GridFact DEF Work
<1>2. PICK m \in BOOLEAN : m = (t.smudge \/ Torn(t)) BY Zenon
<1>3. u = [t EXCEPT !.smudge = m] BY <1>2, Zenon DEF MarkTorn
<1>4. /\ ButUpdate(t, u) /\ u.depth = t.depth /\ u.batch = t.batch /\ u.pending = t.pending
      /\ u.smudge = m
  BY <1>1, <1>3 DEF ButUpdate, SameText, SameSelection, TerminalFields
<1>5. UpdateType(u)
  <2>1. u.depth \in Nat /\ u.batch \in Nat /\ (u.pending => u.batch > 0) BY <1>1, <1>4, UpdateFact
  <2>2. u.pending \in BOOLEAN /\ u.smudge \in BOOLEAN BY <1>1, <1>2, <1>4, UpdateFact
  <2> QED BY <2>1, <2>2 DEF UpdateType
<1>6. Shape(u) /\ Kept(u) /\ (Good(t) => Good(u)) BY <1>1, <1>4, <1>5, UpdateShape, Zenon
<1>7. Work(u) /\ u.col < u.cols /\ u.rows = t.rows /\ u.cols = t.cols
  BY <1>1, <1>4, <1>6 DEF Work, ButUpdate, SameText
<1>8. ~u.smudge => Good(u) BY <1>2, <1>4, <1>6, Zenon
<1> QED BY <1>4, <1>7, <1>8, MovingWork

\* One code point within a transaction.
LEMMA PutCodepointFact ==
    ASSUME NEW t, Body(t), Moving(t), NEW cp \in Codes, NEW u, u = terminal_putcodepoint_internal(t, cp)
    PROVE  Body(u) /\ Moving(u) /\ u.depth = t.depth /\ u.batch = t.batch /\ u.rows = t.rows /\ u.cols = t.cols
<1>1. Work(t) /\ t.col < t.cols /\ (~t.smudge => Good(t)) BY MovingWork
<1>2. PICK v : v = Counted(t) OBVIOUS
<1>3. Output(t, v) /\ (Good(t) => Good(v)) BY <1>1, <1>2, CountedFact
<1>4. Work(v) /\ v.col < v.cols BY <1>3 DEF Output
<1>5. cp \in Values /\ cp # TERMINAL_CONTINUATION BY TerminalAssumption, Zenon DEF Values
<1>6. PICK w : w = CASE cp = "LF" -> NewLine(v)
                     [] cp = "CR" -> [v EXCEPT !.col = 0]
                     [] cp = "TAB" -> PutTab(v)
                     [] cp = "BS" -> Backspace(v)
                     [] OTHER -> PutGlyph(v, cp)
  OBVIOUS
<1>7. u = MarkTorn(w) BY <1>2, <1>6, Zenon DEF terminal_putcodepoint_internal
<1>8. Output(v, w) /\ (Good(v) => (Torn(w) \/ Good(w)))
  <2>1. CASE cp = "LF"
    <3>1. w = NewLine(v) BY <1>6, <2>1
    <3>2. Work(w) /\ w.col = 0 /\ Ahead(v, w) /\ (Good(v) => Good(w)) BY <1>4, <3>1, NewLineFact
    <3>3. w.col < w.cols
      <4>1. w.cols \in Nat /\ w.cols >= 2 BY <3>2, WorkFact
      <4> QED BY <3>2, <4>1
    <3> QED BY <3>2, <3>3 DEF Output
  <2>2. CASE cp = "CR"
    <3>1. w = [v EXCEPT !.col = 0] BY <1>6, <2>2
    <3>2. DOMAIN v = TerminalFields BY <1>4, GridFact, WorkFact
    <3>3. /\ RowOnly(v, w) /\ w.col = 0 /\ w.cells = v.cells /\ w.scr = v.scr
      <4>1. /\ DOMAIN w = TerminalFields /\ SameUpdate(v, w) /\ SameSelection(v, w)
            /\ w.cols = v.cols /\ w.rows = v.rows
            /\ w.ring = v.ring /\ w.head = v.head /\ w.count = v.count /\ w.pushed = v.pushed
            /\ w.row = v.row /\ w.offset = v.offset /\ w.smudge = v.smudge
            /\ w.col = 0 /\ w.cells = v.cells /\ w.scr = v.scr
        BY <3>1, <3>2 DEF TerminalFields, SameUpdate, SameSelection
      <4>2. Shape(v) BY <1>4, WorkFact
      <4>3. v.cells \in [Rows(v) -> [Columns(v) -> Values]] /\ ScrType(v, v.scr)
        BY <4>2, GridFact DEF ScrType
      <4> QED BY <4>1, <4>3 DEF RowOnly
    <3>4. Work(w) /\ Ahead(v, w) BY <1>4, <3>3, RowOnlyShape
    <3>5. w.col < w.cols
      <4>1. w.cols \in Nat /\ w.cols >= 2 BY <3>4, WorkFact
      <4> QED BY <3>3, <4>1
    <3>6. ASSUME Good(v) PROVE Good(w)
      <4>1. PICK r \in Rows(v) : r = v.row BY <1>4, WorkFact
      <4>2. Paired(v.cells[r]) /\ RowShown(v, r) BY <3>6, GoodRows
      <4>3. Paired(w.cells[r]) BY <3>3, <4>2
      <4>4. Columns(w) = Columns(v) /\ w.pending = v.pending BY <3>3 DEF RowOnly, SameUpdate, Columns
      <4>5. RowShown(w, r) BY <3>3, <4>2, <4>4 DEF RowShown
      <4> QED BY <3>3, <3>6, <4>1, <4>3, <4>5, RowGood
    <3> QED BY <3>4, <3>5, <3>6 DEF Output
  <2>3. CASE cp = "TAB"
    <3>1. w = PutTab(v) BY <1>6, <2>3
    <3> QED BY <1>4, <3>1, PutTabFact
  <2>4. CASE cp = "BS"
    <3>1. w = Backspace(v) BY <1>6, <2>4
    <3> QED BY <1>4, <3>1, BackspaceFact
  <2>5. CASE cp \notin {"LF", "CR", "TAB", "BS"}
    <3>1. w = PutGlyph(v, cp) BY <1>6, <2>5
    <3> QED BY <1>4, <1>5, <3>1, PutGlyphFact
  <2> QED BY <2>1, <2>2, <2>3, <2>4, <2>5
<1>9. Output(t, w) BY <1>3, <1>8, OutputTwice
<1>10. Work(w) /\ w.col < w.cols /\ w.smudge = t.smudge /\ Ahead(t, w) BY <1>9 DEF Output, Ahead
<1>11. PICK s : s = t.smudge OBVIOUS
<1>12. s \in BOOLEAN BY <1>1, <1>11, UpdateFact, WorkFact, Zenon
<1>13. s \/ Torn(w) \/ Good(w) BY <1>1, <1>3, <1>8, <1>11, Zenon
<1>14. /\ Body(u) /\ Moving(u) /\ u.depth = w.depth /\ u.batch = w.batch
       /\ u.rows = w.rows /\ u.cols = w.cols
  BY <1>7, <1>10, <1>11, <1>12, <1>13, MarkTornFact
<1> QED BY <1>10, <1>14 DEF Ahead


-----------------------------------------------------------------------------
(* Printing: the states after each code point.                             *)

LEMMA FirstOne ==
    ASSUME NEW S \in SUBSET Nat, S # {}
    PROVE  \E n \in S : \A m \in Nat : m < n => m \notin S
<1>1. \A T \in SUBSET Nat : T # {} => \E n \in T : \A m \in T : <<m, n>> \notin OpToRel(<, Nat)
  BY NatLessThanWellFounded, WFMin
<1>2. PICK n \in S : \A m \in S : <<m, n>> \notin OpToRel(<, Nat) BY <1>1
<1>3. \A m \in S : ~(m < n) BY <1>2 DEF OpToRel
<1>4. \A m \in Nat : m < n => m \notin S BY <1>3
<1> QED BY <1>3, <1>4

\* s gives the states the first k code points of text lead through from b.
PrintedTo(b, text, s, k) ==
    s = [n \in 0 .. k |-> IF n = 0 THEN b ELSE terminal_putcodepoint_internal(s[n - 1], text[n])]

LEMMA PrintedExists ==
    ASSUME NEW b, NEW text, NEW L \in Nat
    PROVE  \E s : PrintedTo(b, text, s, L)
<1> DEFINE S == {k \in 0 .. L : ~\E s : PrintedTo(b, text, s, k)}
           P(x, n) == terminal_putcodepoint_internal(x, text[n])
<1>0. \A s, k : PrintedTo(b, text, s, k) <=> s = [n \in 0 .. k |-> IF n = 0 THEN b ELSE P(s[n - 1], n)]
  BY Zenon DEF PrintedTo
<1> SUFFICES ASSUME S # {} PROVE FALSE
  <2>1. L \in 0 .. L OBVIOUS
  <2>2. S = {} => \E s : PrintedTo(b, text, s, L) BY <2>1
  <2> QED BY <2>2
<1> HIDE DEF P
<1>2. PICK k \in S : \A m \in Nat : m < k => m \notin S
  <2>1. S \in SUBSET Nat OBVIOUS
  <2> HIDE DEF S
  <2> QED BY <2>1, FirstOne
<1>3. k \in Nat /\ k <= L /\ ~\E s : PrintedTo(b, text, s, k) BY <1>2
<1>4. CASE k = 0
  <2>1. PICK s : s = [n \in 0 .. 0 |-> b] OBVIOUS
  <2>2. s = [n \in 0 .. k |-> IF n = 0 THEN b ELSE P(s[n - 1], n)] BY <1>4, <2>1
  <2> QED BY <1>0, <1>3, <2>2
<1>5. CASE k # 0
  <2>1. k - 1 \in Nat /\ k - 1 < k /\ k - 1 \in 0 .. L BY <1>3, <1>5
  <2>2. k - 1 \notin S BY <1>2, <2>1
  <2>3. PICK t : PrintedTo(b, text, t, k - 1) BY <2>1, <2>2
  <2>4. PICK s : s = [n \in 0 .. k |-> IF n = 0 THEN b ELSE P(t[n - 1], n)] OBVIOUS
  <2>5. \A n \in 0 .. k - 1 : s[n] = t[n]
    <3>1. t = [n \in 0 .. k - 1 |-> IF n = 0 THEN b ELSE P(t[n - 1], n)] BY <1>0, <2>3
    <3>2. ASSUME NEW n \in 0 .. k - 1 PROVE s[n] = t[n]
      <4>1. n \in 0 .. k BY <1>3
      <4>2. s[n] = IF n = 0 THEN b ELSE P(t[n - 1], n) BY <2>4, <4>1
      <4>3. t[n] = IF n = 0 THEN b ELSE P(t[n - 1], n) BY <3>1, Zenon
      <4> QED BY <4>2, <4>3
    <3> QED BY <3>2
  <2>6. \A n \in 0 .. k : n # 0 => n - 1 \in 0 .. k - 1 BY <1>3
  <2>7. \A n \in 0 .. k : (IF n = 0 THEN b ELSE P(t[n - 1], n)) = IF n = 0 THEN b ELSE P(s[n - 1], n)
    BY <2>5, <2>6
  <2>8. s = [n \in 0 .. k |-> IF n = 0 THEN b ELSE P(s[n - 1], n)] BY <2>4, <2>7
  <2> QED BY <1>0, <1>3, <2>8
<1> QED BY <1>3, <1>4, <1>5

\* What holds within the transaction after any number of code points.
Within(t, u) == Body(u) /\ Moving(u) /\ u.depth = t.depth + 1 /\ u.batch = t.batch

LEMMA PrintFact ==
    ASSUME NEW t, Ready(t), t.depth = t.batch, NEW text \in Texts, NEW u, u = terminal_print(t, text)
    PROVE  TermInv(u)
<1>1. text \in Seq(Codes) BY TerminalAssumption
<1>2. PICK L \in Nat : L = Len(text) BY <1>1
<1>3. \A n \in 1 .. L : text[n] \in Codes BY <1>1, <1>2
<1>4. PICK b : b = terminal_begin_update(t, TRUE) OBVIOUS
<1>5. Within(t, b)
  <2>1. TRUE \in BOOLEAN OBVIOUS
  <2>2. Body(b) /\ Moving(b) /\ b.depth = t.depth + 1 /\ b.batch = t.batch BY <1>4, <2>1, BeginFact
  <2> QED BY <2>2 DEF Within
<1>6. PICK s : s = CHOOSE p : PrintedTo(b, text, p, L) OBVIOUS
<1>7. PrintedTo(b, text, s, L) BY <1>6, PrintedExists, Zenon
<1>8. u = terminal_end_update(s[L]) BY <1>2, <1>4, <1>6, Zenon DEF terminal_print, PrintedTo
<1>9. \A n \in 0 .. L : s[n] = IF n = 0 THEN b ELSE terminal_putcodepoint_internal(s[n - 1], text[n])
  BY <1>7, Zenon DEF PrintedTo
<1> DEFINE S == {n \in 0 .. L : ~Within(t, s[n])}
<1>10. S = {}
  <2> SUFFICES ASSUME S # {} PROVE FALSE OBVIOUS
  <2>1. PICK n \in S : \A m \in Nat : m < n => m \notin S
    <3>1. S \in SUBSET Nat OBVIOUS
    <3> HIDE DEF S
    <3> QED BY <3>1, FirstOne
  <2>2. n \in 0 .. L /\ ~Within(t, s[n]) BY <2>1
  <2>3. n # 0
    <3>1. s[0] = b BY <1>9
    <3> QED BY <1>5, <2>2, <3>1
  <2>4. n - 1 \in Nat /\ n - 1 < n /\ n - 1 \in 0 .. L /\ n \in 1 .. L BY <2>2, <2>3
  <2>5. Within(t, s[n - 1]) BY <2>1, <2>4
  <2>6. PICK x : x = s[n - 1] OBVIOUS
  <2>7. PICK cp \in Codes : cp = text[n] BY <1>3, <2>4
  <2>8. PICK y : y = s[n] OBVIOUS
  <2>9. y = terminal_putcodepoint_internal(x, cp) BY <1>9, <2>2, <2>3, <2>6, <2>7, <2>8
  <2>10. Body(x) /\ Moving(x) /\ x.depth = t.depth + 1 /\ x.batch = t.batch BY <2>5, <2>6 DEF Within
  <2>11. Body(y) /\ Moving(y) /\ y.depth = x.depth /\ y.batch = x.batch
    BY <2>7, <2>9, <2>10, PutCodepointFact
  <2> QED BY <2>2, <2>8, <2>10, <2>11 DEF Within
<1>11. Within(t, s[L])
  <2>1. L \in 0 .. L OBVIOUS
  <2> QED BY <1>10, <2>1
<1>12. PICK z : z = s[L] OBVIOUS
<1>13. Body(z) /\ Moving(z) /\ z.depth = z.batch + 1 BY <1>11, <1>12 DEF Within
<1>14. u = terminal_end_update(z) BY <1>8, <1>12
<1> QED BY <1>13, <1>14, EndFact


-----------------------------------------------------------------------------
(* The other operations of the output.                                     *)

\* New contents: the ring, the selection and the view are the same.
Redone(t, w) ==
    /\ DOMAIN w = TerminalFields
    /\ w.cols = t.cols /\ w.rows = t.rows
    /\ w.ring = t.ring /\ w.head = t.head /\ w.count = t.count /\ w.pushed = t.pushed
    /\ SameSelection(t, w) /\ w.offset = t.offset
    /\ w.cells \in [Rows(t) -> [Columns(t) -> Values]] /\ ScrType(t, w.scr)
    /\ w.col \in Columns(t) /\ w.row \in Rows(t)

LEMMA RedoneBody ==
    ASSUME NEW t, NEW w, Shape(t), Kept(t), Redone(t, w), UpdateType(w)
    PROVE  Body(w) /\ Rows(w) = Rows(t) /\ Columns(w) = Columns(t)
<1> USE DEF Redone, SameSelection
<1>1. Rows(w) = Rows(t) /\ Columns(w) = Columns(t) BY DEF Rows, Columns
<1>2. w.col \in Nat /\ w.row \in Nat /\ w.col < w.cols /\ w.row < w.rows BY RowInt
<1>3. GridType(w) BY <1>1, <1>2 DEF Shape, GridType, ScrType
<1>4. RingType(w) BY <1>1 DEF Shape, RingType
<1>5. SelectionType(w) BY DEF Shape, SelectionType
<1>6. Shape(w) BY <1>3, <1>4, <1>5 DEF Shape
<1>7. Kept(w) BY DEF Kept, scrollback_oldest_index
<1> QED BY <1>1, <1>2, <1>6, <1>7 DEF Body, InGrid

LEMMA SetCursorFact ==
    ASSUME NEW t, Ready(t), t.depth = t.batch, NEW x \in Columns(t), NEW y \in Rows(t),
           NEW u, u = terminal_set_cursor(t, x, y)
    PROVE  TermInv(u)
<1>1. Shape(t) BY DEF Ready, Body
<1>2. ~(x >= t.cols \/ y >= t.rows)
  <2>1. x \in Nat /\ y \in Nat /\ x < t.cols /\ y < t.rows /\ t.cols \in Nat /\ t.rows \in Nat
    BY <1>1, RowInt, GridFact
  <2> QED BY <2>1
<1>3. PICK b : b = terminal_begin_update(t, FALSE) OBVIOUS
<1>4. /\ Body(b) /\ Moving(b) /\ b.depth = t.depth + 1 /\ b.batch = t.batch
      /\ b.rows = t.rows /\ b.cols = t.cols
  BY <1>3, BeginFact
<1>5. PICK w : w = [b EXCEPT !.col = x, !.row = y] OBVIOUS
<1>6. u = terminal_end_update(w) BY <1>2, <1>3, <1>5, Zenon DEF terminal_set_cursor
<1>7. Shape(b) /\ Kept(b) /\ DOMAIN b = TerminalFields BY <1>4, GridFact DEF Body
<1>8. /\ DOMAIN w = TerminalFields
      /\ w.cols = b.cols /\ w.rows = b.rows
      /\ w.ring = b.ring /\ w.head = b.head /\ w.count = b.count /\ w.pushed = b.pushed
      /\ SameSelection(b, w) /\ w.offset = b.offset /\ w.cells = b.cells /\ w.scr = b.scr
      /\ w.col = x /\ w.row = y /\ w.smudge = b.smudge /\ SameUpdate(b, w)
  BY <1>5, <1>7 DEF SameSelection, SameUpdate, TerminalFields
<1>9. x \in Columns(b) /\ y \in Rows(b) BY <1>4 DEF Rows, Columns
<1>10. Redone(b, w) BY <1>7, <1>8, <1>9, GridFact DEF Redone, ScrType
<1>11. UpdateType(w) BY <1>7, <1>8 DEF Shape, UpdateType, SameUpdate
<1>12. Body(w) /\ Rows(w) = Rows(b) /\ Columns(w) = Columns(b) BY <1>7, <1>10, <1>11, RedoneBody
<1>13. Good(b) => Good(w)
  BY <1>8, <1>12 DEF Good, Torn, Plain, Live, SameSelection, SameUpdate
<1>14. Moving(w) BY <1>4, <1>8, <1>13 DEF Moving
<1>15. w.depth = w.batch + 1 BY <1>4, <1>8 DEF SameUpdate
<1> QED BY <1>6, <1>12, <1>14, <1>15, EndFact

LEMMA ClearFact ==
    ASSUME NEW t, Body(t), AtLive(t), t.depth = t.batch, NEW u, u = terminal_clear(t)
    PROVE  TermInv(u)
<1>1. Shape(t) BY DEF Body
<1>3. PICK b : b = terminal_begin_update(t, TRUE) OBVIOUS
<1>4. /\ Body(b) /\ b.offset = 0 /\ b.depth = t.depth + 1 /\ b.batch = t.batch
      /\ b.rows = t.rows /\ b.cols = t.cols
  BY <1>3, BeginAny
<1>5. PICK D : D = [r \in Rows(t) |-> BlankRow(t)] OBVIOUS
<1>6. PICK S : S = [r \in Rows(t) |-> [c \in Columns(t) |-> Shown({})]] OBVIOUS
<1>7. PICK w : w = [b EXCEPT !.row = 0, !.col = 0, !.offset = 0, !.pending = FALSE, !.smudge = b.drawn,
                             !.cells = D, !.scr = S]
  OBVIOUS
<1>8. u = terminal_end_update(w) BY <1>3, <1>5, <1>6, <1>7, Zenon DEF terminal_clear
<1>9. Shape(b) /\ Kept(b) /\ DOMAIN b = TerminalFields /\ b.offset = 0 BY <1>4, GridFact DEF Body
<1>10. Rows(t) = Rows(b) /\ Columns(t) = Columns(b) BY <1>4 DEF Rows, Columns
<1>11. /\ DOMAIN w = TerminalFields
       /\ w.cols = b.cols /\ w.rows = b.rows
       /\ w.ring = b.ring /\ w.head = b.head /\ w.count = b.count /\ w.pushed = b.pushed
       /\ SameSelection(b, w) /\ w.offset = b.offset /\ w.cells = D /\ w.scr = S
       /\ w.col = 0 /\ w.row = 0 /\ w.smudge = b.drawn /\ w.pending = FALSE
       /\ w.depth = b.depth /\ w.batch = b.batch
  BY <1>7, <1>9 DEF SameSelection, TerminalFields
<1>12. /\ D \in [Rows(b) -> [Columns(b) -> Values]] /\ S \in [Rows(b) -> [Columns(b) -> ScreenCell]]
       /\ \A r \in Rows(b) : D[r] = BlankRow(t)
       /\ \A r \in Rows(b) : \A c \in Columns(b) : S[r][c] = Shown({})
  BY <1>1, <1>5, <1>6, <1>10, BlankFact
<1>13. 0 \in Columns(b) /\ 0 \in Rows(b) BY <1>9, GridFact, RowInt
<1>14. Redone(b, w) BY <1>11, <1>12, <1>13 DEF Redone, ScrType
<1>15. UpdateType(w)
  <2>1. w.depth \in Nat /\ w.batch \in Nat BY <1>9, <1>11, UpdateFact
  <2>2. w.smudge \in BOOLEAN BY <1>9, <1>11, SelectionFact
  <2> QED BY <1>11, <2>1, <2>2 DEF UpdateType
<1>16. Body(w) /\ Rows(w) = Rows(b) /\ Columns(w) = Columns(b) BY <1>9, <1>14, <1>15, RedoneBody
<1>17. ASSUME ~w.smudge PROVE Good(w)
  <2>1. ~w.drawn BY <1>11, <1>17, Zenon DEF SameSelection
  <2>2. ASSUME NEW r \in Rows(w) PROVE Paired(w.cells[r]) /\ RowShown(w, r)
    <3>1. w.cells[r] = BlankRow(t) BY <1>11, <1>12, <1>16
    <3>2. Paired(BlankRow(t)) BY <1>1, BlankFact
    <3>3. \A c \in Columns(w) : w.scr[r][c] = Shown({}) BY <1>11, <1>12, <1>16
    <3>4. \A c \in Columns(w) : Pix(BlankRow(t), c) = {} BY <1>1, <1>10, <1>16, BlankFact
    <3>5. Shown({}).g = {} /\ ~Shown({}).inv /\ Shown({}).bar = "none" BY <1>1, BlankFact
    <3>6. RowShown(w, r) BY <3>1, <3>3, <3>4, <3>5 DEF RowShown
    <3> QED BY <3>1, <3>2, <3>6
  <2> QED BY <2>1, <2>2, GoodRows
<1>18. Moving(w) BY <1>9, <1>11, <1>17 DEF Moving
<1>19. w.depth = w.batch + 1 BY <1>4, <1>11
<1> QED BY <1>8, <1>16, <1>18, <1>19, EndFact

LEMMA ClearRowFact ==
    ASSUME NEW t, Ready(t), t.depth = t.batch, NEW r \in Rows(t), NEW u, u = terminal_clear_row(t, r)
    PROVE  TermInv(u)
<1>1. Shape(t) BY DEF Ready, Body
<1>2. ~(r >= t.rows)
  <2>1. r \in Nat /\ r < t.rows /\ t.rows \in Nat BY <1>1, RowInt, GridFact
  <2> QED BY <2>1
<1>3. PICK b : b = terminal_begin_update(t, FALSE) OBVIOUS
<1>4. /\ Body(b) /\ Moving(b) /\ b.depth = t.depth + 1 /\ b.batch = t.batch
      /\ b.rows = t.rows /\ b.cols = t.cols
  BY <1>3, BeginFact
<1>5. PICK D : D = [b.cells EXCEPT ![r] = BlankRow(t)] OBVIOUS
<1>6. PICK S : S = [b.scr EXCEPT ![r] = [c \in Columns(t) |-> Shown({})]] OBVIOUS
<1>7. PICK w : w = [b EXCEPT !.cells = D, !.scr = S] OBVIOUS
<1>9. Shape(b) /\ Kept(b) /\ DOMAIN b = TerminalFields /\ b.offset = 0 BY <1>4, GridFact DEF Body, Moving
<1>8. u = terminal_end_update(w)
  <2>1. u = terminal_end_update([b EXCEPT !.cells[r] = BlankRow(t),
                                          !.scr[r] = [c \in Columns(t) |-> Shown({})]])
    BY <1>2, <1>3, Zenon DEF terminal_clear_row
  <2>2. [b EXCEPT !.cells[r] = BlankRow(t), !.scr[r] = [c \in Columns(t) |-> Shown({})]] = w
    BY <1>5, <1>6, <1>7, <1>9 DEF TerminalFields
  <2> QED BY <2>1, <2>2
<1>10. Rows(t) = Rows(b) /\ Columns(t) = Columns(b) BY <1>4 DEF Rows, Columns
<1>11. /\ DOMAIN w = TerminalFields
       /\ w.cols = b.cols /\ w.rows = b.rows
       /\ w.ring = b.ring /\ w.head = b.head /\ w.count = b.count /\ w.pushed = b.pushed
       /\ SameSelection(b, w) /\ w.offset = b.offset /\ w.cells = D /\ w.scr = S
       /\ w.col = b.col /\ w.row = b.row /\ w.smudge = b.smudge /\ SameUpdate(b, w)
  BY <1>7, <1>9 DEF SameSelection, SameUpdate, TerminalFields
<1>12. /\ D \in [Rows(b) -> [Columns(b) -> Values]] /\ S \in [Rows(b) -> [Columns(b) -> ScreenCell]]
       /\ D[r] = BlankRow(t)
       /\ \A c \in Columns(b) : S[r][c] = Shown({})
       /\ \A q \in Rows(b) : q # r => D[q] = b.cells[q] /\ S[q] = b.scr[q]
  BY <1>1, <1>5, <1>6, <1>9, <1>10, BlankFact, GridFact
<1>13. b.col \in Columns(b) /\ b.row \in Rows(b) BY <1>4, <1>9, InGridCells DEF Body
<1>14. Redone(b, w) BY <1>11, <1>12, <1>13 DEF Redone, ScrType
<1>15. UpdateType(w) BY <1>9, <1>11 DEF Shape, UpdateType, SameUpdate
<1>16. Body(w) /\ Rows(w) = Rows(b) /\ Columns(w) = Columns(b) BY <1>9, <1>14, <1>15, RedoneBody
<1>17. ASSUME Good(b) PROVE Good(w)
  <2>1. ~w.drawn BY <1>11, <1>17, GoodRows, Zenon DEF SameSelection
  <2>2. ASSUME NEW q \in Rows(w) PROVE Paired(w.cells[q]) /\ RowShown(w, q)
    <3>1. CASE q = r
      <4>1. w.cells[q] = BlankRow(t) BY <1>11, <1>12, <3>1
      <4>2. Paired(BlankRow(t)) BY <1>1, BlankFact
      <4>3. \A c \in Columns(w) : w.scr[q][c] = Shown({}) BY <1>11, <1>12, <1>16, <3>1
      <4>4. \A c \in Columns(w) : Pix(BlankRow(t), c) = {} BY <1>1, <1>10, <1>16, BlankFact
      <4>5. Shown({}).g = {} /\ ~Shown({}).inv /\ Shown({}).bar = "none" BY <1>1, BlankFact
      <4>6. RowShown(w, q) BY <4>1, <4>3, <4>4, <4>5 DEF RowShown
      <4> QED BY <4>1, <4>2, <4>6
    <3>2. CASE q # r
      <4>1. w.cells[q] = b.cells[q] /\ w.scr[q] = b.scr[q] /\ w.pending = b.pending
        BY <1>11, <1>12, <1>16, <3>2 DEF SameUpdate
      <4>2. Paired(b.cells[q]) /\ RowShown(b, q) BY <1>16, <1>17, GoodRows
      <4> QED BY <1>16, <4>1, <4>2 DEF RowShown
    <3> QED BY <3>1, <3>2
  <2> QED BY <2>1, <2>2, GoodRows
<1>18. Moving(w) BY <1>4, <1>9, <1>11, <1>17 DEF Moving
<1>19. w.depth = w.batch + 1 BY <1>4, <1>11 DEF SameUpdate
<1> QED BY <1>8, <1>16, <1>18, <1>19, EndFact

-----------------------------------------------------------------------------
(* Batches.                                                                *)

LEMMA BeginBatchFact ==
    ASSUME NEW t, Ready(t), t.depth = t.batch, NEW n, NEW u, u = BeginBatch(t, n)
    PROVE  TermInv(u)
<1>1. Shape(t) /\ InGrid(t) /\ Kept(t) /\ DOMAIN t = TerminalFields BY GridFact DEF Ready, Body
<1>2. PICK o : o = IF t.batch > 0 THEN t.outputs ELSE 0 OBVIOUS
<1>3. PICK h : h = IF t.batch > 0 THEN t.threshold ELSE n OBVIOUS
<1>4. PICK v : v = [t EXCEPT !.outputs = o, !.threshold = h, !.batch = t.batch + 1] OBVIOUS
<1>5. u = terminal_begin_update(v, FALSE)
  <2>1. PICK x : x = IF t.batch > 0 THEN t ELSE [t EXCEPT !.outputs = 0, !.threshold = n] OBVIOUS
  <2>2. u = terminal_begin_update([x EXCEPT !.batch = x.batch + 1], FALSE)
    BY <2>1, Zenon DEF BeginBatch
  <2>3. [x EXCEPT !.batch = x.batch + 1] = v
    <3>1. CASE t.batch > 0
      <4>1. x = t /\ o = t.outputs /\ h = t.threshold BY <1>2, <1>3, <2>1, <3>1
      <4> QED BY <1>1, <1>4, <4>1 DEF TerminalFields
    <3>2. CASE ~(t.batch > 0)
      <4>1. x = [t EXCEPT !.outputs = 0, !.threshold = n] /\ o = 0 /\ h = n BY <1>2, <1>3, <2>1, <3>2
      <4> QED BY <1>1, <1>4, <4>1 DEF TerminalFields
    <3> QED BY <3>1, <3>2
  <2> QED BY <2>2, <2>3
<1>6. /\ ButUpdate(t, v) /\ v.depth = t.depth /\ v.batch = t.batch + 1 /\ v.pending = t.pending
      /\ v.smudge = t.smudge
  BY <1>1, <1>4 DEF ButUpdate, SameText, SameSelection, TerminalFields
<1>7. UpdateType(v)
  <2>1. v.depth \in Nat /\ v.batch \in Nat /\ v.batch > 0 BY <1>1, <1>6, UpdateFact
  <2>2. v.pending \in BOOLEAN /\ v.smudge \in BOOLEAN BY <1>1, <1>6, UpdateFact
  <2> QED BY <2>1, <2>2 DEF UpdateType
<1>8. /\ Shape(v) /\ InGrid(v) /\ Kept(v) /\ Torn(v) = Torn(t) /\ (Good(t) => Good(v))
      /\ Faithful(t, TRUE) => Faithful(v, TRUE)
  BY <1>1, <1>6, <1>7, UpdateShape
<1>9. Ready(v)
  <2>1. t.depth = 0 => Still(v) BY <1>6, <1>8 DEF Ready, Still
  <2>2. t.depth > 0 => Moving(v) BY <1>6, <1>8 DEF Ready, Moving, ButUpdate
  <2> QED BY <1>6, <1>8, <2>1, <2>2 DEF Ready, Body
<1>10. FALSE \in BOOLEAN OBVIOUS
<1>11. Body(u) /\ Moving(u) /\ u.depth = v.depth + 1 /\ u.batch = v.batch BY <1>5, <1>9, <1>10, BeginFact
<1>12. u.depth = u.batch /\ u.depth # 0
  <2>1. t.depth \in Nat BY <1>1, UpdateFact
  <2> QED BY <1>6, <1>11, <2>1
<1> QED BY <1>11, <1>12 DEF TermInv

LEMMA EndBatchFact ==
    ASSUME NEW t, Ready(t), t.depth = t.batch, t.batch > 0, NEW u, u = EndBatch(t)
    PROVE  TermInv(u)
<1>1. Shape(t) /\ InGrid(t) /\ Kept(t) /\ DOMAIN t = TerminalFields BY GridFact DEF Ready, Body
<1>2. /\ t.batch \in Nat /\ t.batch - 1 \in Nat /\ t.pending \in BOOLEAN /\ t.smudge \in BOOLEAN
      /\ t.depth = (t.batch - 1) + 1 /\ (t.batch # 1 => t.batch - 1 > 0)
  BY <1>1, UpdateFact
<1>3. Moving(t) /\ t.offset = 0 BY DEF Ready, Moving
<1>4. PICK x : x = [t EXCEPT !.batch = t.batch - 1] OBVIOUS
<1>5. CASE t.batch # 1
  <2>1. u = terminal_end_update(x) BY <1>4, <1>5, Zenon DEF EndBatch
  <2>2. /\ ButUpdate(t, x) /\ x.depth = t.depth /\ x.batch = t.batch - 1 /\ x.pending = t.pending
        /\ x.smudge = t.smudge
    BY <1>1, <1>4 DEF ButUpdate, SameText, SameSelection, TerminalFields
  <2>3. UpdateType(x) BY <1>1, <1>2, <1>5, <2>2, UpdateFact DEF UpdateType
  <2>4. Shape(x) /\ InGrid(x) /\ Kept(x) /\ (Good(t) => Good(x)) BY <1>1, <2>2, <2>3, UpdateShape
  <2>5. Body(x) /\ Moving(x) BY <1>3, <2>2, <2>4 DEF Body, Moving, ButUpdate
  <2>6. x.depth = x.batch + 1 BY <1>2, <2>2
  <2> QED BY <2>1, <2>5, <2>6, EndFact
<1>6. CASE t.batch = 1 /\ ~t.pending
  <2>1. PICK w : w = [x EXCEPT !.outputs = 0, !.threshold = 0] OBVIOUS
  <2>2. u = terminal_end_update(w) BY <1>4, <1>6, <2>1, Zenon DEF EndBatch
  <2>3. /\ ButUpdate(t, w) /\ w.depth = t.depth /\ w.batch = t.batch - 1 /\ w.pending = t.pending
        /\ w.smudge = t.smudge
    BY <1>1, <1>4, <2>1 DEF ButUpdate, SameText, SameSelection, TerminalFields
  <2>4. UpdateType(w) BY <1>1, <1>2, <1>6, <2>3, UpdateFact DEF UpdateType
  <2>5. Shape(w) /\ InGrid(w) /\ Kept(w) /\ (Good(t) => Good(w)) BY <1>1, <2>3, <2>4, UpdateShape
  <2>6. Body(w) /\ Moving(w) BY <1>3, <2>3, <2>5 DEF Body, Moving, ButUpdate
  <2>7. w.depth = w.batch + 1 BY <1>2, <2>3
  <2> QED BY <2>2, <2>6, <2>7, EndFact
<1>7. CASE t.batch = 1 /\ t.pending
  <2>1. PICK S : S = [r \in Rows(t) |-> graphics_render_row_data(visible_row_data(t, r))] OBVIOUS
  <2>2. PICK m \in BOOLEAN : m = (t.drawn \/ Torn(t)) BY Zenon
  <2>3. PICK g : g = graphics_redraw_view(x) OBVIOUS
  <2>4. PICK w : w = [[g EXCEPT !.pending = FALSE] EXCEPT !.outputs = 0, !.threshold = 0] OBVIOUS
  <2>5. u = terminal_end_update(w) BY <1>4, <1>7, <2>3, <2>4, Zenon DEF EndBatch
  <2>6. /\ DOMAIN x = TerminalFields /\ x.rows = t.rows /\ x.cols = t.cols /\ x.cells = t.cells
        /\ x.ring = t.ring /\ x.head = t.head /\ x.count = t.count /\ x.offset = t.offset
        /\ x.drawn = t.drawn
    BY <1>1, <1>4 DEF TerminalFields
  <2>7. Rows(x) = Rows(t) /\ Columns(x) = Columns(t) BY <2>6 DEF Rows, Columns
  <2>8. \A r : visible_row_data(x, r) = visible_row_data(t, r)
    BY <2>6, Zenon DEF visible_row_data, scrollback_oldest_index
  <2>9. Torn(x) = Torn(t) BY <2>6, <2>7 DEF Torn
  <2>10. g = [x EXCEPT !.scr = S, !.smudge = m]
    <3>1. g = [x EXCEPT !.scr = [r \in Rows(t) |-> graphics_render_row_data(visible_row_data(x, r))],
                        !.smudge = x.drawn \/ Torn(x)]
      BY <2>3, <2>7, Zenon DEF graphics_redraw_view
    <3>2. [r \in Rows(t) |-> graphics_render_row_data(visible_row_data(x, r))] = S BY <2>1, <2>8
    <3>3. (x.drawn \/ Torn(x)) = m BY <2>2, <2>6, <2>9, Zenon
    <3> QED BY <3>1, <3>2, <3>3, Zenon
  <2>11. /\ DOMAIN w = TerminalFields
         /\ w.cols = t.cols /\ w.rows = t.rows
         /\ w.ring = t.ring /\ w.head = t.head /\ w.count = t.count /\ w.pushed = t.pushed
         /\ SameSelection(t, w) /\ w.offset = t.offset /\ w.cells = t.cells /\ w.scr = S
         /\ w.col = t.col /\ w.row = t.row /\ w.smudge = m /\ w.pending = FALSE
         /\ w.depth = t.depth /\ w.batch = t.batch - 1
    BY <1>1, <1>4, <2>4, <2>10 DEF SameSelection, TerminalFields
  <2>12. \A r \in Rows(t) : S[r] \in [Columns(t) -> ScreenCell]
                            /\ \A c \in Columns(t) : ~S[r][c].inv /\ S[r][c].bar = "none"
    <3> SUFFICES ASSUME NEW r \in Rows(t)
                 PROVE  S[r] \in [Columns(t) -> ScreenCell]
                        /\ \A c \in Columns(t) : ~S[r][c].inv /\ S[r][c].bar = "none"
      OBVIOUS
    <3>1. PICK C \in Nat : C = t.cols BY <1>1, GridFact
    <3>2. PICK d \in [0 .. C - 1 -> Values] : d = visible_row_data(t, r)
      BY <1>1, <3>1, VisibleType DEF Columns
    <3>3. S[r] = graphics_render_row_data(d) BY <2>1, <3>2
    <3> QED BY <3>1, <3>2, <3>3, RowType DEF Columns
  <2>13. S \in [Rows(t) -> [Columns(t) -> ScreenCell]] BY <2>1, <2>12
  <2>14. t.col \in Columns(t) /\ t.row \in Rows(t) BY <1>1, InGridCells
  <2>15. Redone(t, w) BY <1>1, <2>11, <2>13, <2>14, GridFact DEF Redone, ScrType
  <2>16. UpdateType(w)
    <3>1. w.depth \in Nat /\ w.batch \in Nat BY <1>1, <1>2, <2>11, UpdateFact
    <3> QED BY <2>2, <2>11, <3>1 DEF UpdateType
  <2>17. Body(w) /\ Rows(w) = Rows(t) /\ Columns(w) = Columns(t) BY <1>1, <2>15, <2>16, RedoneBody
  <2>18. ASSUME ~w.smudge PROVE Good(w)
    <3>1. ~t.drawn /\ ~Torn(t) BY <2>2, <2>11, <2>18, Zenon
    <3>2. ~w.drawn BY <2>11, <3>1 DEF SameSelection
    <3>3. ~Torn(w) BY <2>11, <2>17, <3>1 DEF Torn
    <3>4. Plain(w) BY <2>11, <2>12, <2>17 DEF Plain
    <3>5. ASSUME NEW r \in Rows(t), NEW c \in Columns(t) PROVE S[r][c].g = Pix(t.cells[r], c)
      <4>1. graphics_render_row_data(visible_row_data(t, r))[c].g = Pix(t.cells[r], c)
        BY <1>1, <1>3, <3>1, FaithfulLive
      <4> QED BY <2>1, <4>1
    <3>6. Live(w) BY <2>11, <2>17, <3>5 DEF Live
    <3> QED BY <3>2, <3>3, <3>4, <3>6 DEF Good
  <2>19. Moving(w) BY <1>3, <2>11, <2>18 DEF Moving
  <2>20. w.depth = w.batch + 1 BY <1>2, <2>11
  <2> QED BY <2>5, <2>17, <2>19, <2>20, EndFact
<1> QED BY <1>5, <1>6, <1>7


-----------------------------------------------------------------------------
(* The mouse, between transactions.                                        *)

LEMMA MouseFact ==
    ASSUME NEW t, TermInv(t), t.depth = 0, NEW u, SelectionEffect(t, u)
    PROVE  TermInv(u)
<1>1. Shape(t) /\ InGrid(t) /\ Kept(t) /\ Still(t) /\ t.depth = t.batch BY DEF TermInv, Body
<1>2. OnlySelection(t, u) BY DEF SelectionEffect
<1>3. Shape(u) /\ InGrid(u) /\ Kept(u) /\ Torn(u) = Torn(t) BY <1>1, <1>2, SelectionShape
<1>4. u.depth = 0 /\ u.batch = 0 /\ u.smudge = t.smudge BY <1>1, <1>2 DEF OnlySelection, SameUpdate
<1>5. Faithful(t, TRUE) => Faithful(u, TRUE) BY <1>1, FaithfulEffect
<1>6. Still(u) BY <1>1, <1>3, <1>4, <1>5 DEF Still
<1> QED BY <1>3, <1>4, <1>6 DEF TermInv, Body

LEMMA FieldsFact ==
    ASSUME NEW t, Shape(t), NEW m \in BOOLEAN, NEW a \in BOOLEAN, NEW i \in Nat, NEW j \in Nat,
           NEW u, u = [t EXCEPT !.tracking = m, !.active = a, !.anchor = i, !.focus = j]
    PROVE  SelectionEffect(t, u) /\ u.drawn = t.drawn
<1>1. DOMAIN t = TerminalFields BY GridFact
<1>2. /\ ButSelection(t, u) /\ u.drawn = t.drawn /\ u.drawn_start = t.drawn_start
      /\ u.drawn_end = t.drawn_end /\ u.tracking = m /\ u.active = a /\ u.anchor = i /\ u.focus = j
  BY <1>1 DEF ButSelection, SameText, SameUpdate, TerminalFields
<1>3. SelectionType(u) BY <1>2, SelectionFact DEF SelectionType
<1> QED BY <1>2, <1>3, EffectOfFields

LEMMA SelectionBeginFact ==
    ASSUME NEW t, Shape(t), NEW c \in Columns(t), NEW r \in Rows(t),
           NEW u, u = terminal_selection_begin(t, c, r)
    PROVE  SelectionEffect(t, u)
<1>1. PICK v : v = terminal_selection_clear(t) OBVIOUS
<1>2. SelectionEffect(t, v) BY <1>1, SelectionClear
<1>3. Shape(v) BY <1>2, SelectionShape DEF SelectionEffect
<1>4. PICK at \in Nat : at = cell_linear(t, c, r) BY LinearInt
<1>5. PICK a \in BOOLEAN : a = v.active BY <1>3, SelectionFact
<1>6. u = [v EXCEPT !.anchor = at, !.focus = at, !.tracking = TRUE]
  BY <1>1, <1>4, Zenon DEF terminal_selection_begin
<1>7. u = [v EXCEPT !.tracking = TRUE, !.active = a, !.anchor = at, !.focus = at]
  BY <1>3, <1>5, <1>6, GridFact DEF TerminalFields
<1>8. TRUE \in BOOLEAN OBVIOUS
<1>9. SelectionEffect(v, u) BY <1>3, <1>7, <1>8, FieldsFact
<1> QED BY <1>2, <1>9, EffectTwice

LEMMA SelectionDragFact ==
    ASSUME NEW t, Shape(t), NEW c \in Columns(t), NEW r \in Rows(t),
           NEW u, u = terminal_selection_drag(t, c, r)
    PROVE  SelectionEffect(t, u)
<1>1. PICK at \in Nat : at = cell_linear(t, c, r) BY LinearInt
<1>2. CASE ~t.tracking \/ at = t.focus
  <2>1. u = t BY <1>1, <1>2, Zenon DEF terminal_selection_drag
  <2> QED BY <2>1, EffectItself
<1>3. CASE ~(~t.tracking \/ at = t.focus)
  <2>1. PICK a \in BOOLEAN : a = (at # t.anchor) BY Zenon
  <2>2. PICK m \in BOOLEAN : m = t.tracking BY SelectionFact
  <2>3. PICK i \in Nat : i = t.anchor BY SelectionFact
  <2>4. PICK v : v = [t EXCEPT !.focus = at, !.active = a] OBVIOUS
  <2>5. u = selection_show(v) BY <1>1, <1>3, <2>1, <2>4, Zenon DEF terminal_selection_drag
  <2>6. v = [t EXCEPT !.tracking = m, !.active = a, !.anchor = i, !.focus = at]
    BY <2>2, <2>3, <2>4, GridFact DEF TerminalFields
  <2>7. SelectionEffect(t, v) BY <2>6, FieldsFact
  <2>8. Shape(v) BY <2>7, SelectionShape DEF SelectionEffect
  <2>9. SelectionEffect(v, u) BY <2>5, <2>8, ShowFact
  <2> QED BY <2>7, <2>9, EffectTwice
<1> QED BY <1>2, <1>3

LEMMA SelectionEndFact ==
    ASSUME NEW t, Shape(t), NEW u, u = terminal_selection_end(t)
    PROVE  SelectionEffect(t, u)
<1>1. PICK a \in BOOLEAN : a = t.active BY SelectionFact
<1>2. PICK i \in Nat : i = IF a THEN t.anchor ELSE 0 BY SelectionFact
<1>3. PICK j \in Nat : j = IF a THEN t.focus ELSE 0 BY SelectionFact
<1>4. u = [t EXCEPT !.tracking = FALSE, !.anchor = i, !.focus = j]
  BY <1>1, <1>2, <1>3, Zenon DEF terminal_selection_end
<1>5. u = [t EXCEPT !.tracking = FALSE, !.active = a, !.anchor = i, !.focus = j]
  BY <1>1, <1>4, GridFact DEF TerminalFields
<1>6. FALSE \in BOOLEAN OBVIOUS
<1> QED BY <1>5, <1>6, FieldsFact

\* The ends of a range of columns that has a given property.
LEMMA LastOne ==
    ASSUME NEW n \in Nat, NEW S \in SUBSET (0 .. n), S # {}
    PROVE  Max(S) \in S
<1> DEFINE T == {n - x : x \in S}
<1>1. T \in SUBSET Nat /\ T # {}
  <2>1. PICK x \in S : TRUE OBVIOUS
  <2>2. n - x \in T OBVIOUS
  <2>3. \A y \in S : n - y \in Nat OBVIOUS
  <2> QED BY <2>2, <2>3
<1>2. PICK k \in T : \A m \in Nat : m < k => m \notin T
  <2> HIDE DEF T
  <2> QED BY <1>1, FirstOne
<1>3. PICK x \in S : k = n - x BY <1>2
<1>4. \A y \in S : n - y \in T /\ n - y \in Nat OBVIOUS
<1>5. \A y \in S : x >= y
  <2> SUFFICES ASSUME NEW y \in S, ~(x >= y) PROVE FALSE OBVIOUS
  <2>1. n - y < k BY <1>3
  <2> HIDE DEF T
  <2> QED BY <1>2, <1>4, <2>1
<1> QED BY <1>5 DEF Max

LEMMA LeastOne ==
    ASSUME NEW S \in SUBSET Nat, S # {}
    PROVE  Min(S) \in S
<1>1. PICK k \in S : \A m \in Nat : m < k => m \notin S BY FirstOne
<1>2. \A y \in S : k <= y BY <1>1
<1> QED BY <1>2 DEF Min

LEMMA SelectWordFact ==
    ASSUME NEW t, Shape(t), NEW c \in Columns(t), NEW r \in Rows(t),
           NEW u, u = terminal_selection_select_word(t, c, r)
    PROVE  SelectionEffect(t, u)
<1>1. PICK data : data = visible_row_data(t, r) OBVIOUS
<1> DEFINE InWord(a, b) == \A x \in a .. b : ~word_separator(data[x])
<1>2. PICK A : A = {x \in 0 .. c : InWord(x, c)} OBVIOUS
<1>3. PICK B : B = {x \in c .. t.cols - 1 : InWord(c, x)} OBVIOUS
<1>4. PICK s : s = Min(A) OBVIOUS
<1>5. PICK e : e = Max(B) OBVIOUS
<1>6. CASE word_separator(data[c])
  <2>1. u = t BY <1>1, <1>6, Zenon DEF terminal_selection_select_word
  <2> QED BY <2>1, EffectItself
<1>7. CASE ~word_separator(data[c])
  <2>1. c \in Nat /\ t.cols \in Nat /\ c <= t.cols - 1 /\ t.cols - 1 \in Nat BY RowInt, GridFact
  <2>2. InWord(c, c) BY <1>7, <2>1
  <2>3. c \in 0 .. c /\ c \in c .. t.cols - 1 BY <2>1
  <2>4. c \in A /\ c \in B BY <1>2, <1>3, <2>2, <2>3
  <2>5. A \in SUBSET Nat /\ A \in SUBSET (0 .. c)
    <3> HIDE DEF InWord
    <3> QED BY <1>2, <2>1
  <2>6. B \in SUBSET (0 .. t.cols - 1)
    <3> HIDE DEF InWord
    <3> QED BY <1>3, <2>1
  <2>7. s \in A BY <1>4, <2>4, <2>5, LeastOne
  <2>8. e \in B
    <3>1. PICK n \in Nat : n = t.cols - 1 BY <2>1
    <3>2. B \in SUBSET (0 .. n) /\ B # {} BY <2>4, <2>6, <3>1
    <3> QED BY <1>5, <3>2, LastOne
  <2>9. s \in Columns(t) /\ e \in Columns(t) BY <2>1, <2>5, <2>6, <2>7, <2>8 DEF Columns
  <2>10. PICK i \in Nat : i = cell_linear(t, s, r) BY <2>9, LinearInt
  <2>11. PICK j \in Nat : j = cell_linear(t, e, r) BY <2>9, LinearInt
  <2>12. PICK v : v = terminal_selection_clear(t) OBVIOUS
  <2>13. SelectionEffect(t, v) BY <2>12, SelectionClear
  <2>14. Shape(v) BY <2>13, SelectionShape DEF SelectionEffect
  <2>15. PICK m \in BOOLEAN : m = v.tracking BY <2>14, SelectionFact
  <2>16. PICK w : w = [v EXCEPT !.anchor = i, !.focus = j, !.active = TRUE] OBVIOUS
  <2>17. u = selection_show(w)
    BY <1>1, <1>2, <1>3, <1>4, <1>5, <1>7, <2>10, <2>11, <2>12, <2>16, Zenon
       DEF terminal_selection_select_word
  <2>18. w = [v EXCEPT !.tracking = m, !.active = TRUE, !.anchor = i, !.focus = j]
    BY <2>14, <2>15, <2>16, GridFact DEF TerminalFields
  <2>19. TRUE \in BOOLEAN OBVIOUS
  <2>20. SelectionEffect(v, w) BY <2>14, <2>18, <2>19, FieldsFact
  <2>21. Shape(w) BY <2>14, <2>20, SelectionShape DEF SelectionEffect
  <2>22. SelectionEffect(w, u) BY <2>17, <2>21, ShowFact
  <2>23. SelectionEffect(t, w) BY <2>13, <2>20, EffectTwice
  <2> QED BY <2>22, <2>23, EffectTwice
<1> QED BY <1>6, <1>7


-----------------------------------------------------------------------------
(* The view, between transactions.                                         *)

LEMMA NearerFact ==
    ASSUME NEW a \in Int, NEW b \in Int
    PROVE  /\ Max({a, b}) = IF a >= b THEN a ELSE b
           /\ Min({a, b}) = IF a <= b THEN a ELSE b
<1>1. PICK x : x = IF a >= b THEN a ELSE b OBVIOUS
<1>2. x \in {a, b} /\ (\A y \in {a, b} : x >= y)
      /\ \A z \in {a, b} : (\A y \in {a, b} : z >= y) => z = x
  BY <1>1
<1>3. Max({a, b}) = x BY <1>2 DEF Max
<1>4. PICK x2 : x2 = IF a <= b THEN a ELSE b OBVIOUS
<1>5. x2 \in {a, b} /\ (\A y \in {a, b} : x2 <= y)
      /\ \A z \in {a, b} : (\A y \in {a, b} : z <= y) => z = x2
  BY <1>4
<1>6. Min({a, b}) = x2 BY <1>5 DEF Min
<1> QED BY <1>1, <1>3, <1>4, <1>6

LEMMA StillInv ==
    ASSUME NEW u, Body(u), u.depth = 0, u.batch = 0, Still(u)
    PROVE  TermInv(u)
BY DEF TermInv

\* Other rows in view, without the cursor.
Elsewhere(u, k) ==
    /\ Body(u) /\ u.depth = 0 /\ u.batch = 0 /\ u.offset = k
    /\ ~u.smudge => ~Torn(u) /\ Faithful(u, FALSE)

LEMMA ViewMoved ==
    ASSUME NEW t, TermInv(t), t.depth = 0, NEW k \in (0 .. t.count) \ {t.offset},
           NEW u, u = terminal_set_scrollback_offset(t, k)
    PROVE  Elsewhere(u, k)
<1>1. Shape(t) /\ InGrid(t) /\ Kept(t) /\ Still(t) /\ t.depth = t.batch BY DEF TermInv, Body
<1>2. /\ Moved(t, u) /\ u.offset = k
      /\ (~Torn(t) /\ Faithful(t, TRUE)) => Faithful(u, FALSE)
  <2>1. Shape(t) /\ InGrid(t) BY <1>1
  <2>2. k \in 0 .. t.count /\ k # t.offset OBVIOUS
  <2>3. ViewAt(t, k, u) BY <2>1, <2>2, OffsetView
  <2> QED BY <2>2, <2>3, Zenon DEF ViewAt
<1>3. Shape(u) /\ InGrid(u) /\ Kept(u) /\ Torn(u) = Torn(t) BY <1>1, <1>2, MovedShape
<1>4. u.depth = 0 /\ u.batch = 0 /\ u.smudge = t.smudge BY <1>1, <1>2 DEF Moved, SameUpdate
<1> QED BY <1>1, <1>2, <1>3, <1>4 DEF Body, Still, Elsewhere

LEMMA ScrollbackUpFact ==
    ASSUME NEW t, TermInv(t), t.depth = 0, NEW n \in Nat, n >= 1,
           NEW u, u = terminal_scrollback_up(t, n)
    PROVE  TermInv(u)
<1>1. Shape(t) BY DEF TermInv, Body
<1>2. t.offset \in Nat /\ t.count \in Nat /\ t.offset <= t.count BY <1>1, RingFact
<1>3. PICK k : k = Min({t.offset + n, t.count}) OBVIOUS
<1>4. k = IF t.offset + n <= t.count THEN t.offset + n ELSE t.count
  <2>1. t.offset + n \in Int /\ t.count \in Int BY <1>2
  <2> QED BY <1>3, <2>1, NearerFact
<1>5. k \in 0 .. t.count /\ (k # t.offset => k # 0) BY <1>2, <1>4
<1>6. u = terminal_set_scrollback_offset(t, k) BY <1>3, Zenon DEF terminal_scrollback_up
<1>7. CASE k = t.offset
  <2>1. u = t BY <1>6, <1>7, Zenon DEF terminal_set_scrollback_offset
  <2> QED BY <2>1
<1>8. CASE k # t.offset
  <2>1. /\ Body(u) /\ u.depth = 0 /\ u.batch = 0 /\ u.offset = k
        /\ ~u.smudge => ~Torn(u) /\ Faithful(u, FALSE)
    <3>1. k \in (0 .. t.count) \ {t.offset} BY <1>5, <1>8
    <3>2. Elsewhere(u, k) BY <1>6, <3>1, ViewMoved
    <3> QED BY <3>2, Zenon DEF Elsewhere
  <2>2. Faithful(u, FALSE) => Faithful(u, TRUE)
    BY <1>5, <1>8, <2>1 DEF Faithful, CellShown, CursorAt
  <2>3. Still(u) BY <2>1, <2>2 DEF Still
  <2> QED BY <2>1, <2>3, StillInv
<1> QED BY <1>7, <1>8

LEMMA ScrollbackDownFact ==
    ASSUME NEW t, TermInv(t), t.depth = 0, NEW n \in Nat, n >= 1 \/ t.offset = 0,
           NEW u, u = terminal_scrollback_down(t, n)
    PROVE  TermInv(u)
<1>1. Shape(t) BY DEF TermInv, Body
<1>2. t.offset \in Nat /\ t.count \in Nat /\ t.offset <= t.count BY <1>1, RingFact
<1>3. CASE t.offset = 0
  <2>1. u = t BY <1>3, Zenon DEF terminal_scrollback_down
  <2> QED BY <2>1
<1>4. CASE t.offset # 0
  <2>1. PICK k : k = Max({0, t.offset - n}) OBVIOUS
  <2>2. k = IF 0 >= t.offset - n THEN 0 ELSE t.offset - n
    <3>1. t.offset - n \in Int /\ 0 \in Int BY <1>2
    <3> QED BY <2>1, <3>1, NearerFact
  <2>3. k \in 0 .. t.count /\ k # t.offset BY <1>2, <1>4, <2>2
  <2>4. PICK v : v = terminal_set_scrollback_offset(t, k) OBVIOUS
  <2>5. u = graphics_draw_cursor(v) BY <1>4, <2>1, <2>4, Zenon DEF terminal_scrollback_down
  <2>6. /\ Body(v) /\ v.depth = 0 /\ v.batch = 0 /\ v.offset = k
        /\ ~v.smudge => ~Torn(v) /\ Faithful(v, FALSE)
    <3>1. k \in (0 .. t.count) \ {t.offset} BY <2>3
    <3>2. Elsewhere(v, k) BY <2>4, <3>1, ViewMoved
    <3> QED BY <3>2, Zenon DEF Elsewhere
  <2>7. Shape(v) /\ InGrid(v) /\ Kept(v) BY <2>6 DEF Body
  <2>8. OnlyScr(v, u) /\ ScrType(v, u.scr) /\ (Faithful(v, FALSE) => Faithful(u, TRUE))
    BY <2>5, <2>7, DrawCursor
  <2>9. Shape(u) /\ InGrid(u) /\ Kept(u) /\ Torn(u) = Torn(v) BY <2>7, <2>8, OnlyScrShape
  <2>10. u.depth = 0 /\ u.batch = 0 /\ u.smudge = v.smudge BY <2>6, <2>8 DEF OnlyScr, SameUpdate
  <2>11. Still(u) BY <2>6, <2>8, <2>9, <2>10 DEF Still
  <2>12. Body(u) BY <2>9 DEF Body
  <2> QED BY <2>10, <2>11, <2>12, StillInv
<1> QED BY <1>3, <1>4

LEMMA ScrollbackBottomFact ==
    ASSUME NEW t, TermInv(t), t.depth = 0, NEW u, u = terminal_scrollback_bottom(t)
    PROVE  TermInv(u)
<1>1. Shape(t) BY DEF TermInv, Body
<1>2. PICK n \in Nat : n = t.offset BY <1>1, RingFact
<1>3. n >= 1 \/ t.offset = 0 BY <1>2
<1>4. u = terminal_scrollback_down(t, n) BY <1>2 DEF terminal_scrollback_bottom
<1> QED BY <1>3, <1>4, ScrollbackDownFact

-----------------------------------------------------------------------------
(* The start.                                                              *)

LEMMA InitFact ==
    ASSUME NEW g \in Geometries, NEW t, t = terminal_init(g)
    PROVE  Body(t) /\ t.depth = 0 /\ t.batch = 0
<1>1. g[1] \in Nat \ {0, 1} /\ g[2] \in Nat \ {0} BY TerminalAssumption
<1>2. PICK C \in Nat : C = g[1] /\ C >= 2 BY <1>1
<1>3. PICK R \in Nat : R = g[2] /\ R >= 1 BY <1>1
<1>4. PICK N \in Nat : N = TERMINAL_SCROLLBACK_LINES /\ N >= 1 BY TermConstants
<1>5. PICK b : b = [c \in 0 .. C - 1 |-> " "] OBVIOUS
<1>6. PICK p : p = [c \in 0 .. C - 1 |-> Shown({})] OBVIOUS
<1>7. b \in [0 .. C - 1 -> Values]
  <2>1. PICK e \in Values : e = " " BY TermConstants, Zenon
  <2>2. b = [c \in 0 .. C - 1 |-> e] BY <1>5, <2>1, Zenon
  <2> QED BY <2>2
<1>8. p \in [0 .. C - 1 -> ScreenCell]
  <2>1. {} \in SUBSET (Values \X {0, 1}) BY Zenon
  <2>2. PICK e \in ScreenCell : e = Shown({}) BY <2>1, ShownFact
  <2>3. p = [c \in 0 .. C - 1 |-> e] BY <1>6, <2>2, Zenon
  <2> QED BY <2>3
<1>9. t = [cols |-> C, rows |-> R, row |-> 0, col |-> 0,
           cells |-> [r \in 0 .. R - 1 |-> b], scr |-> [r \in 0 .. R - 1 |-> p],
           ring |-> [i \in 0 .. N - 1 |-> b],
           head |-> 0, count |-> 0, offset |-> 0, pushed |-> <<>>,
           depth |-> 0, batch |-> 0, outputs |-> 0, threshold |-> 0, pending |-> FALSE,
           tracking |-> FALSE, active |-> FALSE, drawn |-> FALSE, drawn_start |-> 0, drawn_end |-> 0,
           anchor |-> 0, focus |-> 0, smudge |-> FALSE]
  BY <1>2, <1>3, <1>4, <1>5, <1>6, Zenon DEF terminal_init
<1>10. DOMAIN t = TerminalFields BY <1>9 DEF TerminalFields
<1>11. Rows(t) = 0 .. R - 1 /\ Columns(t) = 0 .. C - 1 BY <1>9 DEF Rows, Columns
<1>12. GridType(t)
  <2>1. t.cols = C /\ t.rows = R /\ t.col = 0 /\ t.row = 0 BY <1>9
  <2>2. t.cells = [r \in 0 .. R - 1 |-> b] /\ t.scr = [r \in 0 .. R - 1 |-> p] BY <1>9
  <2>3. t.cells \in [0 .. R - 1 -> [0 .. C - 1 -> Values]] BY <1>7, <2>2
  <2>4. t.scr \in [0 .. R - 1 -> [0 .. C - 1 -> ScreenCell]] BY <1>8, <2>2
  <2> QED BY <1>2, <1>3, <1>11, <2>1, <2>3, <2>4 DEF GridType
<1>13. RingType(t)
  <2>1. t.ring = [i \in 0 .. N - 1 |-> b] /\ t.head = 0 /\ t.count = 0 /\ t.offset = 0 BY <1>9
  <2>2. t.ring \in [0 .. N - 1 -> [0 .. C - 1 -> Values]] BY <1>7, <2>1
  <2>3. 0 \in 0 .. N - 1 /\ 0 \in 0 .. N /\ 0 \in 0 .. 0 BY <1>4
  <2> QED BY <1>4, <1>11, <2>1, <2>2, <2>3 DEF RingType
<1>14. UpdateType(t) BY <1>9 DEF UpdateType
<1>15. SelectionType(t) BY <1>9 DEF SelectionType
<1>16. InGrid(t) BY <1>2, <1>3, <1>9 DEF InGrid
<1>17. Kept(t)
  <2>1. t.pushed = <<>> /\ t.count = 0 BY <1>9
  <2>2. 1 .. 0 = {} OBVIOUS
  <2> DEFINE f(i) == t.ring[(scrollback_oldest_index(t) + i - 1) % TERMINAL_SCROLLBACK_LINES]
  <2> HIDE DEF f
  <2>3. [i \in 1 .. 0 |-> f(i)] = <<>> OBVIOUS
  <2> USE DEF f
  <2> QED BY <2>1, <2>3, Zenon DEF Kept
<1>18. t.depth = 0 /\ t.batch = 0 BY <1>9
<1> QED BY <1>10, <1>12, <1>13, <1>14, <1>15, <1>16, <1>17, <1>18 DEF Body, Shape

-----------------------------------------------------------------------------
(* The theorems.                                                           *)

LEMMA InvReady ==
    ASSUME NEW t, TermInv(t)
    PROVE  Ready(t) /\ Body(t) /\ AtLive(t) /\ t.depth = t.batch /\ Shape(t)
BY DEF TermInv, Ready, Body, AtLive, Moving

\* Whatever callers print, scroll, select or batch (terminal_putcodepoint_internal
\* and its callers), the cursor is in the grid, the ring holds the lines that
\* scrolled away, and the pixels are right: for the live cells within a
\* transaction, for the rows in view between transactions.
THEOREM TerminalInvariant == TerminalSpec => []TermInv(terminal)
<1>1. TerminalInit => TermInv(terminal)
  <2> SUFFICES ASSUME NEW g \in Geometries, terminal = terminal_clear(terminal_init(g))
               PROVE  TermInv(terminal)
    BY DEF TerminalInit
  <2>1. PICK i : i = terminal_init(g) OBVIOUS
  <2>2. Body(i) /\ i.depth = 0 /\ i.batch = 0 BY <2>1, InitFact
  <2>3. AtLive(i) /\ i.depth = i.batch BY <2>2 DEF AtLive
  <2>4. terminal = terminal_clear(i) BY <2>1
  <2> QED BY <2>2, <2>3, <2>4, ClearFact
<1>2. TermInv(terminal) /\ [TerminalNext]_terminal => TermInv(terminal)'
  <2> SUFFICES ASSUME TermInv(terminal), [TerminalNext]_terminal PROVE TermInv(terminal)' OBVIOUS
  <2>1. PICK t : t = terminal OBVIOUS
  <2>2. PICK u : u = terminal' OBVIOUS
  <2>3. TermInv(t) BY <2>1
  <2>4. Ready(t) /\ Body(t) /\ AtLive(t) /\ t.depth = t.batch /\ Shape(t) BY <2>3, InvReady
  <2>5. SUFFICES TermInv(u) BY <2>2
  <2>6. CASE Printing
    <3>1. ASSUME NEW text \in Texts, u = terminal_print(t, text) PROVE TermInv(u)
      BY <2>4, <3>1, PrintFact
    <3>2. ASSUME NEW c \in Columns(t), NEW r \in Rows(t), u = terminal_set_cursor(t, c, r)
          PROVE  TermInv(u)
      BY <2>4, <3>2, SetCursorFact
    <3>3. ASSUME NEW r \in Rows(t), u = terminal_clear_row(t, r) PROVE TermInv(u)
      BY <2>4, <3>3, ClearRowFact
    <3>4. ASSUME u = terminal_clear(t) PROVE TermInv(u)
      BY <2>4, <3>4, ClearFact
    <3> QED BY <2>1, <2>2, <2>6, <3>1, <3>2, <3>3, <3>4 DEF Printing
  <2>7. CASE Batching
    <3>1. ASSUME NEW n, u = BeginBatch(t, n) PROVE TermInv(u)
      BY <2>4, <3>1, BeginBatchFact
    <3>2. ASSUME t.batch > 0, u = EndBatch(t) PROVE TermInv(u)
      BY <2>4, <3>2, EndBatchFact
    <3> QED BY <2>1, <2>2, <2>7, <3>1, <3>2 DEF Batching
  <2>8. CASE Mouse
    <3>0. t.depth = 0 BY <2>1, <2>8 DEF Mouse, Idle
    <3>1. ASSUME NEW c \in Columns(t), NEW r \in Rows(t), u = terminal_selection_begin(t, c, r)
          PROVE  TermInv(u)
      <4>1. SelectionEffect(t, u) BY <2>4, <3>1, SelectionBeginFact
      <4> QED BY <2>3, <3>0, <4>1, MouseFact
    <3>2. ASSUME NEW c \in Columns(t), NEW r \in Rows(t), u = terminal_selection_drag(t, c, r)
          PROVE  TermInv(u)
      <4>1. SelectionEffect(t, u) BY <2>4, <3>2, SelectionDragFact
      <4> QED BY <2>3, <3>0, <4>1, MouseFact
    <3>3. ASSUME NEW c \in Columns(t), NEW r \in Rows(t), u = terminal_selection_select_word(t, c, r)
          PROVE  TermInv(u)
      <4>1. SelectionEffect(t, u) BY <2>4, <3>3, SelectWordFact
      <4> QED BY <2>3, <3>0, <4>1, MouseFact
    <3>4. ASSUME u = terminal_selection_end(t) PROVE TermInv(u)
      <4>1. SelectionEffect(t, u) BY <2>4, <3>4, SelectionEndFact
      <4> QED BY <2>3, <3>0, <4>1, MouseFact
    <3> QED BY <2>1, <2>2, <2>8, <3>1, <3>2, <3>3, <3>4 DEF Mouse
  <2>9. CASE View
    <3>0. t.depth = 0 BY <2>1, <2>9 DEF View, Idle
    <3>1. \A n \in 1 .. t.rows : n \in Nat /\ n >= 1 BY <2>4, GridFact
    <3>2. ASSUME NEW n \in 1 .. t.rows, u = terminal_scrollback_up(t, n) PROVE TermInv(u)
      BY <2>3, <3>0, <3>1, <3>2, ScrollbackUpFact
    <3>3. ASSUME NEW n \in 1 .. t.rows, u = terminal_scrollback_down(t, n) PROVE TermInv(u)
      BY <2>3, <3>0, <3>1, <3>3, ScrollbackDownFact
    <3>4. ASSUME u = terminal_scrollback_bottom(t) PROVE TermInv(u)
      BY <2>3, <3>0, <3>4, ScrollbackBottomFact
    <3> QED BY <2>1, <2>2, <2>9, <3>2, <3>3, <3>4 DEF View
  <2>10. CASE terminal' = terminal BY <2>1, <2>2, <2>3, <2>10
  <2> QED BY <2>6, <2>7, <2>8, <2>9, <2>10 DEF TerminalNext
<1> QED BY <1>1, <1>2, PTL DEF TerminalSpec

\* Between transactions the screen shows the rows in view, the selection and the
\* cursor, and the ring the lines that scrolled away, with any geometry, ring,
\* texts and nesting of batches (terminal_end_update and what it puts off).
THEOREM ScreenAlwaysShowsText == TerminalSpec => []ScreenShowsText
<1>1. TermInv(terminal) => ScreenShowsText
  <2> SUFFICES ASSUME TermInv(terminal) PROVE ScreenShowsText OBVIOUS
  <2>1. Kept(terminal) /\ Shape(terminal) BY DEF TermInv, Body
  <2>2. ASSUME Idle, ~terminal.smudge, NEW r \in Rows(terminal), NEW x \in Columns(terminal),
               NEW cell, cell = terminal.scr[r][x]
        PROVE  /\ cell.g = graphics_render_row_data(visible_row_data(terminal, r))[x].g
               /\ cell.inv = Selected(terminal, x, r)
               /\ (cell.bar # "none") = CursorAt(terminal, x, r)
    <3>1. Faithful(terminal, TRUE) BY <2>2 DEF TermInv, Still, Idle
    <3>2. CellShown(terminal, r, x, TRUE) BY <3>1 DEF Faithful
    <3>3. terminal.scr[r][x] \in ScreenCell BY <2>1, GridFact
    <3>4. cell.inv \in BOOLEAN BY <2>2, <3>3 DEF ScreenCell
    <3>5. /\ cell.g = graphics_render_row_data(visible_row_data(terminal, r))[x].g
          /\ cell.inv <=> Selected(terminal, x, r)
          /\ (cell.bar # "none") <=> CursorAt(terminal, x, r)
      BY <2>2, <3>2, Zenon DEF CellShown
    <3>6. cell.inv = Selected(terminal, x, r) BY <3>4, <3>5, Zenon DEF Selected
    <3>7. (cell.bar # "none") = CursorAt(terminal, x, r) BY <3>5, Zenon DEF CursorAt
    <3> QED BY <3>5, <3>6, <3>7
  <2> QED BY <2>1, <2>2, Zenon DEF ScreenShowsText, Kept
<1> QED BY <1>1, TerminalInvariant, PTL
====
