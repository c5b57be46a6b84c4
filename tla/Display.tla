------------------------------- MODULE Display -------------------------------
(***************************************************************************)
(* The display of RootOS: the renderer with its software mouse pointer     *)
(* (source/display/rootdisplay_legacy_impl.c) drawing into a shadow        *)
(* framebuffer, and the layer that copies the damaged rectangle of it to   *)
(* the screen when the outermost update ends                               *)
(* (source/display/rootdisplay.c).                                         *)
(*                                                                         *)
(* Every call is one step.  One colour channel stands for the three; a     *)
(* pixel holds a packed value of `size' bits, callers give 8-bit values.   *)
(* `canvas' is a ghost: what callers have drawn, the pointer left out, and *)
(* Undrawn where nobody has drawn since start-up.                          *)
(***************************************************************************)
EXTENDS Integers

CONSTANTS
    DISPLAY_WIDTH, DISPLAY_HEIGHT,
    CURSOR_WIDTH, CURSOR_HEIGHT,
    cursor_shape,       \* <<x, y>> -> "B", "W" or " "
    U32,                \* 2^32: where unsigned sums wrap
    ADDRESS_SPACE, PAGE_SIZE_2M, FB_WINDOW_BASE, FB_WINDOW_SIZE, SHADOW_FRAMEBUFFER_BYTES,
    PHYSICAL_PAGES,     \* pages a page table entry can name
    Multiboots,         \* what the boot loader may report
    Rects,              \* <<x, y, width, height>> callers draw
    Colors,             \* 8-bit values callers draw with
    Shifts,             \* <<region_y, region_height, pixel_delta>>
    MaxUpdates          \* bound on nested updates

Pixel == (0 .. DISPLAY_WIDTH - 1) \X (0 .. DISPLAY_HEIGHT - 1)
Local == (0 .. CURSOR_WIDTH - 1) \X (0 .. CURSOR_HEIGHT - 1)
Undrawn == -1

ASSUME DisplayAssumption ==
    /\ {DISPLAY_WIDTH, DISPLAY_HEIGHT, CURSOR_WIDTH, CURSOR_HEIGHT} \subseteq Nat \ {0}
    /\ DOMAIN cursor_shape = Local
    /\ Colors \subseteq 0 .. 255 /\ MaxUpdates \in Nat
    /\ U32 \in Nat /\ {DISPLAY_WIDTH, DISPLAY_HEIGHT, CURSOR_WIDTH, CURSOR_HEIGHT} \subseteq 0 .. U32 - 1
    /\ Rects \subseteq (0 .. U32 - 1) \X (0 .. U32 - 1) \X (0 .. U32 - 1) \X (0 .. U32 - 1)
    /\ Shifts \subseteq (0 .. U32 - 1) \X (0 .. U32 - 1) \X Int

\* What the boot loader reports is unsigned; the aperture lies on page
\* boundaries inside the address space.
ASSUME ApertureAssumption ==
    /\ PAGE_SIZE_2M \in Nat \ {0}
    /\ {ADDRESS_SPACE, FB_WINDOW_BASE, FB_WINDOW_SIZE} \subseteq Nat
    /\ \A n \in {ADDRESS_SPACE, FB_WINDOW_BASE, FB_WINDOW_SIZE} : n % PAGE_SIZE_2M = 0
    /\ FB_WINDOW_BASE + FB_WINDOW_SIZE <= ADDRESS_SPACE
    /\ \A mb \in Multiboots : mb.addr \in Nat /\ mb.pitch \in Nat /\ mb.pae \in BOOLEAN

VARIABLES
    multiboot,          \* what the boot loader reported
    display_available, rootdisplay_shadow_active,
    size,               \* red_size, green_size, blue_size
    framebuffer,        \* pixel -> packed value, where the renderer draws
    screen,             \* pixel -> packed value, the physical framebuffer
    dirty,              \* {} or {<<x0, y0, x1, y1>>}, the upper bounds exclusive
    cursor,             \* [enabled, drawn, x, y]
    cursor_background,  \* <<x, y>> -> 8-bit value
    update_depth,
    canvas

bootVars == <<multiboot, display_available, rootdisplay_shadow_active, size>>
displayVars == <<bootVars, framebuffer, screen, dirty, cursor, cursor_background,
                 update_depth, canvas>>

-----------------------------------------------------------------------------
(* Start-up: what rootdisplay_init computes once from `multiboot'.          *)

\* rgb_layout_valid: otherwise eight bits are assumed.
ChannelSize(mb) == IF mb.bits \in 1 .. 8 THEN mb.bits ELSE 8

Bytes(mb) == mb.pitch * DISPLAY_HEIGHT
LastByte(mb) == mb.addr + Bytes(mb) - 1

\* uefi_build_identity_map: one entry for every page of the address space.
uefi_build_identity_map == [n \in 0 .. (ADDRESS_SPACE \div PAGE_SIZE_2M) - 1 |-> n]

\* Mutant: the offset of the framebuffer in its first page is not counted.
PagesNoOffset(mb) == (Bytes(mb) + PAGE_SIZE_2M - 1) \div PAGE_SIZE_2M

\* The pages the window needs, the offset in the first one counted.
WindowPages(mb) ==
    ((mb.addr % PAGE_SIZE_2M) + Bytes(mb) + PAGE_SIZE_2M - 1) \div PAGE_SIZE_2M

WindowFits(mb) ==
    LET first == mb.addr \div PAGE_SIZE_2M
    IN  /\ WindowPages(mb) <= FB_WINDOW_SIZE \div PAGE_SIZE_2M
        /\ first + WindowPages(mb) - 1 < PHYSICAL_PAGES

uefi_install_framebuffer_window(map, mb) ==
    LET base == FB_WINDOW_BASE \div PAGE_SIZE_2M
    IN  [n \in DOMAIN map |-> IF n \in base .. base + WindowPages(mb) - 1
                                THEN (mb.addr \div PAGE_SIZE_2M) + (n - base)
                                ELSE map[n]]

\* Every refusal of rootdisplay_init.
Usable(mb) ==
    /\ mb.framebuffer /\ mb.rgb /\ mb.bpp \in {24, 32}
    /\ mb.pitch >= DISPLAY_WIDTH * (mb.bpp \div 8)
    /\ Bytes(mb) <= ADDRESS_SPACE /\ mb.addr # 0
    /\ IF mb.pae THEN WindowFits(mb) ELSE LastByte(mb) < ADDRESS_SPACE

\* Paging is on once the aperture was built; without PAE there is none.
uefi_page_directories ==
    IF display_available /\ multiboot.pae
      THEN uefi_install_framebuffer_window(uefi_build_identity_map, multiboot)
      ELSE uefi_build_identity_map

rootdisplay_physical_framebuffer ==
    IF multiboot.pae THEN FB_WINDOW_BASE + (multiboot.addr % PAGE_SIZE_2M) ELSE multiboot.addr

-----------------------------------------------------------------------------
(* Colours.                                                                *)

channel_mask(bits) == 2^bits - 1

channel_pack(value, bits) ==
    IF bits = 8 THEN value ELSE (value * channel_mask(bits) + 127) \div 255

channel_unpack(value, bits) ==
    IF bits = 8 THEN value
    ELSE (value * 255 + (channel_mask(bits) \div 2)) \div channel_mask(bits)

Packed(c) == channel_pack(c, size)

-----------------------------------------------------------------------------
(* The pointer, as functions of the renderer's state                       *)
(* d = [fb, on, drawn, x, y, bg, depth].                                   *)

State == [fb |-> framebuffer, on |-> cursor.enabled, drawn |-> cursor.drawn,
          x |-> cursor.x, y |-> cursor.y, bg |-> cursor_background,
          depth |-> update_depth]

At(d, l) == <<d.x + l[1], d.y + l[2]>>
InsideCursor(d, p) == <<p[1] - d.x, p[2] - d.y>> \in Local
LocalOf(d, p) == <<p[1] - d.x, p[2] - d.y>>

cursor_restore_background(d) ==
    IF ~d.drawn THEN d
    ELSE [d EXCEPT !.drawn = FALSE,
                   !.fb = [p \in Pixel |-> IF InsideCursor(d, p)
                                             THEN Packed(d.bg[LocalOf(d, p)])
                                             ELSE d.fb[p]]]

cursor_capture_background(d) ==
    [d EXCEPT !.bg = [l \in Local |-> IF At(d, l) \in Pixel
                                        THEN channel_unpack(d.fb[At(d, l)], size)
                                        ELSE 0]]

Opaque(d, p) == InsideCursor(d, p) /\ cursor_shape[LocalOf(d, p)] # " "
Ink(d, p) == Packed(IF cursor_shape[LocalOf(d, p)] = "B" THEN 0 ELSE 255)

cursor_draw(d) ==
    IF ~d.on \/ d.depth # 0 THEN d
    ELSE [d EXCEPT !.drawn = TRUE,
                   !.fb = [p \in Pixel |-> IF Opaque(d, p) THEN Ink(d, p) ELSE d.fb[p]]]

Redraw(d) == cursor_draw(cursor_capture_background(d))

legacy_begin_update(d) ==
    LET e == IF d.depth = 0 THEN cursor_restore_background(d) ELSE d
    IN  [e EXCEPT !.depth = @ + 1]

legacy_end_update(d) ==
    LET e == [d EXCEPT !.depth = @ - 1]
    IN  IF d.depth = 0 THEN d ELSE IF e.depth = 0 /\ e.on THEN Redraw(e) ELSE e

-----------------------------------------------------------------------------
(* What a call draws, as a function from the old pixels to the new.        *)

\* The end of a span from a of length n, clipped; the sum may wrap around.
Clip(a, n, limit) ==
    LET e == (a + n) % U32 IN IF e < a \/ e > limit THEN limit ELSE e

Empty(r) == r[3] = 0 \/ r[4] = 0 \/ r[1] >= DISPLAY_WIDTH \/ r[2] >= DISPLAY_HEIGHT

Covers(r, p) ==
    /\ ~Empty(r)
    /\ r[1] <= p[1] /\ p[1] < Clip(r[1], r[3], DISPLAY_WIDTH)
    /\ r[2] <= p[2] /\ p[2] < Clip(r[2], r[4], DISPLAY_HEIGHT)

Filled(old, r, c) == [p \in Pixel |-> IF Covers(r, p) THEN Packed(c) ELSE old[p]]

\* The packed colour bits are flipped.
Inverted(old, r) ==
    [p \in Pixel |-> IF Covers(r, p) /\ old[p] # Undrawn THEN channel_mask(size) - old[p]
                     ELSE old[p]]

\* A bitmap whose set pixels are `set'.
Bitmap(old, r, set, fg, bg, opaque) ==
    [p \in Pixel |-> IF Covers(r, p) /\ p \in set THEN Packed(fg)
                     ELSE IF Covers(r, p) /\ opaque THEN Packed(bg)
                     ELSE old[p]]

\* Rows y .. y + h - 1 move by delta, rows that get free are filled.
Shifted(old, y, h, delta, c) ==
    [p \in Pixel |->
       IF p[2] < y \/ p[2] >= y + h THEN old[p]
       ELSE IF p[2] - delta >= y /\ p[2] - delta < y + h THEN old[<<p[1], p[2] - delta>>]
       ELSE Packed(c)]

Everything == <<0, 0, DISPLAY_WIDTH, DISPLAY_HEIGHT>>
CursorRect(x, y) == <<x, y, CURSOR_WIDTH, CURSOR_HEIGHT>>

-----------------------------------------------------------------------------
(* Damage.                                                                 *)

Least2(a, b) == IF a < b THEN a ELSE b
Greatest2(a, b) == IF a > b THEN a ELSE b

\* Mutant: only the latest rectangle is remembered.
LatestDamage(D, r) ==
    IF ~rootdisplay_shadow_active \/ Empty(r) THEN D
    ELSE {<<r[1], r[2], Clip(r[1], r[3], DISPLAY_WIDTH), Clip(r[2], r[4], DISPLAY_HEIGHT)>>}

\* The damage D with rectangle r added: the smallest rectangle around both.
rootdisplay_damage(D, r) ==
    LET x1 == Clip(r[1], r[3], DISPLAY_WIDTH)
        y1 == Clip(r[2], r[4], DISPLAY_HEIGHT)
    IN  IF ~rootdisplay_shadow_active \/ Empty(r) THEN D
        ELSE IF D = {} THEN {<<r[1], r[2], x1, y1>>}
        ELSE {<<Least2(r[1], d[1]), Least2(r[2], d[2]),
                Greatest2(x1, d[3]), Greatest2(y1, d[4])>> : d \in D}

InDamage(D, p) ==
    \E d \in D : d[1] <= p[1] /\ p[1] < d[3] /\ d[2] <= p[2] /\ p[2] < d[4]

\* rootdisplay_flush_if_idle after the renderer reached d with damage D.
\* Without a shadow the renderer draws on the screen itself.
Present(d, D) ==
    /\ framebuffer' = d.fb
    /\ cursor' = [enabled |-> d.on, drawn |-> d.drawn, x |-> d.x, y |-> d.y]
    /\ cursor_background' = d.bg
    /\ update_depth' = d.depth
    /\ IF ~rootdisplay_shadow_active THEN screen' = d.fb /\ dirty' = {}
       ELSE IF d.depth = 0
         THEN /\ screen' = [p \in Pixel |-> IF InDamage(D, p) THEN d.fb[p] ELSE screen[p]]
              /\ dirty' = {}
         ELSE screen' = screen /\ dirty' = D
    /\ UNCHANGED bootVars

\* A drawing call: damage r, then the pixels changed by Paint inside an update,
\* unless the call has nothing to do and returns early.
Draws(idle, r, Paint(_)) ==
    LET d == legacy_begin_update(State)
        painted == legacy_end_update([d EXCEPT !.fb = Paint(@)])
    IN  /\ display_available
        /\ Present(IF idle THEN State ELSE painted, rootdisplay_damage(dirty, r))
        /\ canvas' = IF idle THEN canvas ELSE Paint(canvas)

-----------------------------------------------------------------------------
(* The calls.                                                              *)

rootdisplay_begin_update ==
    /\ display_available /\ update_depth < MaxUpdates
    /\ Present(legacy_begin_update(State), dirty)
    /\ UNCHANGED canvas

rootdisplay_end_update ==
    /\ display_available /\ update_depth > 0
    /\ Present(legacy_end_update(State), dirty)
    /\ UNCHANGED canvas

\* One pixel; under the pointer it goes to the saved background.
rootdisplay_put_pixel(x, y, c) ==
    LET p == <<x, y>>
        d == State
        D == rootdisplay_damage(dirty, <<x, y, 1, 1>>)
        put == [d EXCEPT !.fb[p] = Packed(c)]
    IN  /\ display_available /\ p \in Pixel
        /\ IF d.depth = 0 /\ d.drawn /\ InsideCursor(d, p)
             THEN Present([d EXCEPT !.bg[LocalOf(d, p)] = c,
                                    !.fb[p] = IF Opaque(d, p) THEN @ ELSE Packed(c)], D)
             ELSE Present(put, D)
        /\ canvas' = [canvas EXCEPT ![p] = Packed(c)]

rootdisplay_fill_rect(r, c) == Draws(Empty(r), r, LAMBDA old : Filled(old, r, c))
rootdisplay_clear(c) == rootdisplay_fill_rect(Everything, c)
rootdisplay_invert_rect(r) == Draws(Empty(r), r, LAMBDA old : Inverted(old, r))
rootdisplay_draw_mono_bitmap(r, set, fg, bg, opaque) ==
    Draws(Empty(r), r, LAMBDA old : Bitmap(old, r, set, fg, bg, opaque))

rootdisplay_scroll_up(rows, c) ==
    Draws(rows = 0, Everything, LAMBDA old : Shifted(old, 0, DISPLAY_HEIGHT, -rows, c))

rootdisplay_shift_vertical(y, h, delta, c) ==
    Draws(h = 0 \/ delta = 0 \/ y >= DISPLAY_HEIGHT, <<0, y, DISPLAY_WIDTH, h>>,
          LAMBDA old : Shifted(old, y, Least2(h, DISPLAY_HEIGHT - y), delta, c))

rootdisplay_cursor_enable(on) ==
    LET d == State
        off == [cursor_restore_background(d) EXCEPT !.on = FALSE]
        lit == [d EXCEPT !.on = TRUE]
    IN  /\ display_available
        /\ Present(IF ~on THEN off ELSE IF d.on THEN d
                   ELSE IF d.depth = 0 THEN Redraw(lit) ELSE lit,
                   rootdisplay_damage(dirty, CursorRect(d.x, d.y)))
        /\ UNCHANGED canvas

\* Coordinates arrive clamped to the screen.
rootdisplay_cursor_move(x, y) ==
    LET d == State
        to == [cursor_restore_background(d) EXCEPT !.x = x, !.y = y]
        D == rootdisplay_damage(rootdisplay_damage(dirty, CursorRect(d.x, d.y)),
                                CursorRect(x, y))
    IN  /\ display_available /\ <<x, y>> \in Pixel
        /\ Present(IF x = d.x /\ y = d.y THEN d ELSE IF d.on /\ d.depth = 0 THEN Redraw(to) ELSE to, D)
        /\ UNCHANGED canvas

-----------------------------------------------------------------------------
DisplayInit ==
    /\ multiboot \in Multiboots
    /\ display_available = Usable(multiboot)
    /\ rootdisplay_shadow_active = (display_available
                                      /\ Bytes(multiboot) <= SHADOW_FRAMEBUFFER_BYTES)
    /\ size = ChannelSize(multiboot)
    /\ framebuffer = [p \in Pixel |-> 0]
    /\ screen = [p \in Pixel |-> 0]
    /\ dirty = {}
    /\ cursor = [enabled |-> FALSE, drawn |-> FALSE, x |-> 0, y |-> 0]
    /\ cursor_background = [l \in Local |-> 0]
    /\ update_depth = 0
    /\ canvas = [p \in Pixel |-> Undrawn]

Painting ==
    \/ \E r \in Rects, c \in Colors : rootdisplay_fill_rect(r, c)
    \/ \E r \in Rects : rootdisplay_invert_rect(r)
    \/ \E r \in Rects, c \in Colors, opaque \in BOOLEAN :
         rootdisplay_draw_mono_bitmap(r, {<<0, 0>>}, c, 0, opaque)
    \/ \E p \in Pixel, c \in Colors : rootdisplay_put_pixel(p[1], p[2], c)
    \/ \E c \in Colors : rootdisplay_clear(c)

Scroll ==
    \/ \E n \in {0, 1, DISPLAY_HEIGHT + 1}, c \in Colors : rootdisplay_scroll_up(n, c)
    \/ \E s \in Shifts, c \in Colors : rootdisplay_shift_vertical(s[1], s[2], s[3], c)

Pointer ==
    \/ \E on \in BOOLEAN : rootdisplay_cursor_enable(on)
    \/ \E p \in Pixel : rootdisplay_cursor_move(p[1], p[2])

\* Without a framebuffer every call returns at once.
Headless == ~display_available /\ UNCHANGED displayVars

DisplayNext ==
    \/ Painting \/ Scroll \/ Pointer \/ Headless
    \/ rootdisplay_begin_update \/ rootdisplay_end_update

DisplaySpec == DisplayInit /\ [][DisplayNext]_displayVars

-----------------------------------------------------------------------------
(* Properties.                                                             *)

\* Every byte of the framebuffer is reached through the address the renderer
\* uses, and nothing outside the window is mapped anywhere but to itself.  The
\* aperture is built once, so this is about the initial states.
ApertureReachesFramebuffer ==
    LET map == uefi_page_directories
        Physical(a) == map[a \div PAGE_SIZE_2M] * PAGE_SIZE_2M + (a % PAGE_SIZE_2M)
        window == FB_WINDOW_BASE .. FB_WINDOW_BASE + FB_WINDOW_SIZE - 1
    IN  display_available =>
          /\ \A i \in 0 .. Bytes(multiboot) - 1 :
               Physical(rootdisplay_physical_framebuffer + i) = multiboot.addr + i
          /\ \A a \in (0 .. ADDRESS_SPACE - 1) \ window : Physical(a) = a

\* What the screen shows at p when the pointer lies over the drawing.
Overlaid(p) ==
    IF cursor.drawn /\ Opaque(State, p) THEN Ink(State, p) ELSE canvas[p]

\* When no update is open, every pixel anybody drew is on the screen with the
\* pointer on top: no damage is lost however updates nest, however the
\* pointer moves in between and whatever scrolls under it.  While an update is
\* open the pointer is out of the way: the renderer holds exactly what was
\* drawn, so that nothing drawn mixes with the pointer.
ScreenShowsDrawing ==
    /\ display_available /\ update_depth = 0 =>
         \A p \in Pixel : Overlaid(p) # Undrawn => screen[p] = Overlaid(p)
    /\ update_depth > 0 =>
         /\ ~cursor.drawn
         /\ \A p \in Pixel : canvas[p] # Undrawn => framebuffer[p] = canvas[p]
=============================================================================
