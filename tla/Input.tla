-------------------------------- MODULE Input --------------------------------
(***************************************************************************)
(* Keyboard, mouse and the event queue (drivers/input/*.c, input/          *)
(* rootinput*.c, input/keymap_latam.c).                                    *)
(*                                                                         *)
(* Both devices put bytes into the 8042 controller, which hands them out   *)
(* one by one: in order for each device, those of the two in any order.    *)
(* rootinput_poll decodes them and queues events; programs take events.    *)
(* The devices are external and a byte can get lost in the controller.  A  *)
(* scan code is <<name of the key cap, released>> or a prefix; a mouse     *)
(* byte is its value.  Two buttons stand for three and the horizontal axis *)
(* for both.  Ghosts: owed sums up what was decoded and not yet delivered, *)
(* latest is the newest mouse event delivered, and the flags in `seen'     *)
(* tell what excuses a difference.                                         *)
(***************************************************************************)
EXTENDS Integers, Sequences, SequencesExt, FiniteSetsExt

CONSTANTS
    ROOT_INPUT_QUEUE_SIZE,
    MOUSE_MAX_X,
    CLICK_DISTANCE, ROOT_DOUBLE_CLICK_DISTANCE, \* 4 and 6
    WHEEL_LIMIT,                                \* 32
    Caps,           \* key caps the keyboard has
    Moves, Wheels,  \* bytes the mouse sends for motion and wheel
    Sessions        \* bound: how often the user may act, for each kind of action

ASSUME InputAssumption ==
    /\ ROOT_INPUT_QUEUE_SIZE \in Nat /\ ROOT_INPUT_QUEUE_SIZE >= 2
    /\ MOUSE_MAX_X \in Nat
    /\ {CLICK_DISTANCE, ROOT_DOUBLE_CLICK_DISTANCE, WHEEL_LIMIT} \subseteq Nat
    /\ Caps \subseteq (STRING \ {"E0", "E1"}) \X BOOLEAN
    /\ Moves \subseteq 0 .. 255 /\ Wheels \subseteq 0 .. 255

VARIABLES
    kb,         \* static state of keyboard.c and keymap_latam.c
    mouse,      \* of mouse.c, and the mouse half of rootinput_legacy_impl.c
    queue,
    kb_port, mouse_port,    \* bytes of each device in the controller
    user,       \* external: caps held, buttons held, mouse protocol, actions so far
    owed, latest, seen

ports == <<kb_port, mouse_port>>
inputVars == <<kb, mouse, queue, ports, user, owed, latest, seen>>

-----------------------------------------------------------------------------
(* Keyboard.                                                               *)

E0 == "E0"
E1 == "E1"

normal_key(cap) ==
    CASE cap = "ctrl" -> "LEFT_CTRL" [] cap = "alt" -> "LEFT_ALT" [] cap = "shift" -> "LEFT_SHIFT"
      [] cap = "e" -> "E" [] cap = "accent" -> "LEFT_BRACKET" [] cap = "num" -> "NUM_LOCK"
      [] cap = "7" -> "KP_7" [] cap = "caps" -> "CAPS_LOCK" [] OTHER -> "UNKNOWN"

extended_key(cap) ==
    CASE cap = "ctrl" -> "RIGHT_CTRL" [] cap = "alt" -> "RIGHT_ALT" [] cap = "7" -> "HOME"
      [] OTHER -> "UNKNOWN"

Modifiers == {"LEFT_CTRL", "RIGHT_CTRL", "LEFT_ALT", "RIGHT_ALT", "LEFT_SHIFT"}

update_modifier(held, key, pressed) ==
    IF key \notin Modifiers THEN held ELSE IF pressed THEN held \cup {key} ELSE held \ {key}

\* An accent waits for the next character, and is gone after it.
finish(dead, character) == <<dead, character>>

\* The character, and the accent that waits afterwards.  Keypad and euro sign
\* leave a waiting accent alone.
keymap_latam_translate(key, shift, altgr, caps, num, dead) ==
    CASE key = "E" /\ altgr -> [cp |-> <<"none", "euro">>, dead |-> dead]
      [] key = "E" /\ ~altgr -> [cp |-> finish(dead, IF shift # caps THEN "E" ELSE "e"), dead |-> "none"]
      [] key = "LEFT_BRACKET" ->
           [cp |-> <<>>, dead |-> IF altgr THEN "grave" ELSE IF shift THEN "diaeresis" ELSE "acute"]
      [] key = "KP_7" /\ num -> [cp |-> <<"none", "7">>, dead |-> dead]
      [] OTHER -> [cp |-> <<>>, dead |-> dead]

NoKey == [t |-> "none"]

\* Mutant: the bytes of the pause key are decoded like any others.
FeedPause(k, byte) ==
    LET cap == byte[1]
        pressed == ~byte[2]
        key == IF k.extended THEN extended_key(cap) ELSE normal_key(cap)
        held == update_modifier(k.held, key, pressed)
    IN  IF cap \in {E0, E1} THEN [k |-> [k EXCEPT !.extended = cap = E0], ev |-> NoKey]
        ELSE IF key = "UNKNOWN" THEN [k |-> [k EXCEPT !.extended = FALSE], ev |-> NoKey]
        ELSE [k |-> [k EXCEPT !.extended = FALSE, !.held = held],
              ev |-> [t |-> IF pressed THEN "KEY_DOWN" ELSE "KEY_UP", key |-> key, cp |-> <<>>, mods |-> held]]

keyboard_feed_byte(k, byte) ==
    LET cap == byte[1]
        pressed == ~byte[2]
        key == IF k.extended THEN extended_key(cap) ELSE normal_key(cap)
        held == update_modifier(k.held, key, pressed)
        caps == k.caps # (pressed /\ key = "CAPS_LOCK")
        num == k.num # (pressed /\ key = "NUM_LOCK")
        text == pressed /\ held \cap {"LEFT_CTRL", "RIGHT_CTRL", "LEFT_ALT"} = {}
        c == IF text THEN keymap_latam_translate(key, "LEFT_SHIFT" \in held, "RIGHT_ALT" \in held,
                                                 caps, num, k.dead)
             ELSE [cp |-> <<>>, dead |-> k.dead]
    IN  CASE k.pause > 0 -> [k |-> [k EXCEPT !.pause = @ - 1], ev |-> NoKey]
          [] k.pause = 0 /\ cap = E1 -> [k |-> [k EXCEPT !.pause = 5, !.extended = FALSE], ev |-> NoKey]
          [] k.pause = 0 /\ cap = E0 -> [k |-> [k EXCEPT !.extended = TRUE], ev |-> NoKey]
          [] k.pause = 0 /\ cap \notin {E0, E1} /\ key = "UNKNOWN" ->
               [k |-> [k EXCEPT !.extended = FALSE], ev |-> NoKey]
          [] OTHER ->
               [k |-> [k EXCEPT !.extended = FALSE, !.held = held, !.caps = caps, !.num = num,
                                !.dead = c.dead],
                ev |-> [t |-> IF pressed THEN "KEY_DOWN" ELSE "KEY_UP", key |-> key, cp |-> c.cp,
                        mods |-> held]]

keyboard_reset ==
    [held |-> {}, caps |-> FALSE, num |-> FALSE, extended |-> FALSE, pause |-> 0, dead |-> "none"]

-----------------------------------------------------------------------------
(* The queue: events of one kind in a row become one; when it is full the  *)
(* oldest event goes.                                                      *)

Coalesce(last, ev) ==
    IF ev.t = "WHEEL" /\ last.t = "WHEEL"
    THEN <<[ev EXCEPT !.w = Max({-WHEEL_LIMIT, Min({WHEEL_LIMIT, last.w + @})})]>>
    ELSE IF ev.t \in {"MOVE", "DRAG"} /\ last.t = ev.t /\ last.buttons = ev.buttons
    THEN <<[ev EXCEPT !.dx = last.dx + @]>>
    ELSE <<last, ev>>

\* Mutant: the newest event is dropped when the queue is full.
PushUnlessFull(q, ev) ==
    LET all == IF q = <<>> THEN <<ev>> ELSE Front(q) \o Coalesce(Last(q), ev)
    IN  IF Len(all) > ROOT_INPUT_QUEUE_SIZE - 1 THEN q ELSE all

queue_push(q, ev) ==
    LET all == IF q = <<>> THEN <<ev>> ELSE Front(q) \o Coalesce(Last(q), ev)
    IN  IF Len(all) > ROOT_INPUT_QUEUE_SIZE - 1 THEN Tail(all) ELSE all

IsMouse(ev) == ev.t \notin {"KEY_DOWN", "KEY_UP"}

\* The queue after one more event, and what was lost on the way: any event, the
\* newest mouse event (behind it only keys), a turn of the wheel.
Pushed(s, ev) ==
    LET full == Len(s.q) = ROOT_INPUT_QUEUE_SIZE - 1 /\ Len(Coalesce(Last(s.q), ev)) = 2
        turns == s.q # <<>> /\ ev.t = "WHEEL" /\ Last(s.q).t = "WHEEL"
        only == \A i \in 2 .. Len(s.q) : ~IsMouse(s.q[i])
    IN  [q |-> queue_push(s.q, ev),
         overflow |-> s.overflow \/ full,
         buried |-> ~IsMouse(ev) /\ (s.buried \/ (full /\ IsMouse(Head(s.q)) /\ only)),
         clipped |-> s.clipped \/ (turns /\ Last(s.q).w + ev.w \notin -WHEEL_LIMIT .. WHEEL_LIMIT)]

-----------------------------------------------------------------------------
(* Mouse.                                                                  *)

Signed(byte) == IF byte >= 128 THEN byte - 256 ELSE byte
Bit(byte, mask) == (byte \div mask) % 2 = 1
Abs(n) == IF n < 0 THEN -n ELSE n
Clamp(n) == Max({0, Min({MOUSE_MAX_X, n})})

Buttons == {1, 2}

MouseEvent(t, m) == [t |-> t, x |-> m.x, dx |-> 0, w |-> 0, buttons |-> m.buttons, button |-> 0]

\* After a click: a second one nearby in time makes a double click and is
\* forgotten, any other is remembered.
LastClick(m, b, double) ==
    [m.last EXCEPT ![b] = IF double THEN [@ EXCEPT !.valid = FALSE]
                          ELSE [valid |-> TRUE, recent |-> TRUE, x |-> m.x]]

\* r = [m, s]: the mouse and the queue.
emit_mouse_button(r, b) ==
    LET m == r.m
        pressed == b \in m.buttons
        Event(t) == [MouseEvent(t, m) EXCEPT !.button = b]
        click == ~pressed /\ Abs(m.x - m.press[b]) <= CLICK_DISTANCE
        l == m.last[b]
        double == click /\ l.valid /\ l.recent /\ Abs(m.x - l.x) <= ROOT_DOUBLE_CLICK_DISTANCE
        s1 == Pushed(r.s, Event(IF pressed THEN "BUTTON_DOWN" ELSE "BUTTON_UP"))
        s2 == IF click THEN Pushed(s1, Event("CLICK")) ELSE s1
    IN  [m |-> [m EXCEPT !.press[b] = IF pressed THEN m.x ELSE @,
                         !.last = IF click THEN LastClick(m, b, double) ELSE @],
         s |-> IF double THEN Pushed(s2, Event("DOUBLE_CLICK")) ELSE s2]

\* A whole packet: wheel, motion, then the buttons that changed.
Packet(m, s, p) ==
    LET dx == IF p[1] >= 64 THEN 0 ELSE Signed(p[2])
        wheel == IF m.size = 4 THEN Signed(p[4]) ELSE 0
        new == {b \in Buttons : Bit(p[1], b)}
        s1 == IF wheel # 0 THEN Pushed(s, [MouseEvent("WHEEL", m) EXCEPT !.w = wheel]) ELSE s
        moved == [m EXCEPT !.x = Clamp(@ + dx)]
        s2 == IF dx # 0 THEN Pushed(s1, [MouseEvent(IF new = {} THEN "MOVE" ELSE "DRAG", moved)
                                           EXCEPT !.dx = dx, !.buttons = new])
              ELSE s1
        Change(r, b) == IF (b \in m.buttons) = (b \in new) THEN r ELSE emit_mouse_button(r, b)
    IN  Change(Change([m |-> [moved EXCEPT !.buttons = new], s |-> s2], 1), 2)

\* The first byte of a packet has bit 3 set.
mouse_feed_byte(m, byte) ==
    IF m.bytes = <<>> /\ ~Bit(byte, 8) THEN m ELSE [m EXCEPT !.bytes = Append(@, byte)]

-----------------------------------------------------------------------------
(* mouse_init: nine commands, each answered by ACK, one also by the device *)
(* id.  An answer that comes too late fails the command and stays in the   *)
(* controller, in front of what follows.                                   *)

ACK == 250
MOUSE_SET_DEFAULTS == 1
MOUSE_GET_DEVICE_ID == 8
MOUSE_ENABLE_STREAMING == 9

\* The device obeys and answers; after the sample rates 200, 100 and 80 a
\* wheel mouse sends packets of four bytes.
Answer(i) ==
    IF i = MOUSE_GET_DEVICE_ID THEN <<ACK, IF user.mode = 4 THEN 3 ELSE 0>> ELSE <<ACK>>
Commanded == [user EXCEPT !.mode = IF mouse.step = 7 /\ user.wheel THEN 4 ELSE @]

mouse_command_fails ==
    \/ /\ mouse.step \in {MOUSE_SET_DEFAULTS, MOUSE_ENABLE_STREAMING}
       /\ mouse' = [mouse EXCEPT !.step = 10]
    \/ /\ mouse.step \in 2 .. MOUSE_GET_DEVICE_ID
       /\ mouse' = [mouse EXCEPT !.step = MOUSE_ENABLE_STREAMING]

Replies == mouse_port \o Answer(mouse.step)
Identifying == mouse.step = MOUSE_GET_DEVICE_ID

\* What is left in the controller when an answer is not there in time: all, or
\* after the ACK was read the device id.
Unread == {Replies} \cup {r \in {Tail(Replies)} : Identifying /\ Head(Replies) = ACK}

CommandAnswered ==
    /\ Head(Replies) = ACK
    /\ mouse_port' = IF Identifying THEN SubSeq(Replies, 3, Len(Replies)) ELSE Tail(Replies)
    /\ mouse' = [mouse EXCEPT !.step = @ + 1, !.ready = mouse.step = MOUSE_ENABLE_STREAMING,
                              !.size = IF Identifying /\ Replies[2] = 3 THEN 4 ELSE @]
    /\ UNCHANGED seen
CommandRefused ==
    /\ Head(Replies) # ACK /\ mouse_command_fails /\ mouse_port' = Tail(Replies)
    /\ UNCHANGED seen
CommandLate ==
    /\ mouse_command_fails /\ seen' = [seen EXCEPT !.late = TRUE]
    /\ mouse_port' \in Unread

\* A key's byte came out first, and mouse_init takes only bytes of the mouse:
\* this command fails and so does the one that is still made after it.
CommandBlocked ==
    /\ kb_port # <<>> /\ mouse' = [mouse EXCEPT !.step = 10]
    /\ \E unread \in Unread :
         mouse_port' = unread \o (IF mouse.step \in 2 .. MOUSE_GET_DEVICE_ID THEN <<ACK>> ELSE <<>>)
    /\ UNCHANGED seen

mouse_command ==
    /\ mouse.step < 10 /\ UNCHANGED <<kb, queue, kb_port, owed, latest>>
    /\ \/ /\ CommandAnswered \/ CommandRefused \/ CommandLate \/ CommandBlocked
          /\ user' = Commanded
       \/ \* The command did not get to the device.
          /\ mouse_command_fails /\ seen' = [seen EXCEPT !.late = TRUE]
          /\ UNCHANGED <<user, mouse_port>>

-----------------------------------------------------------------------------
(* The user.                                                               *)

K(cap, up) == <<cap, up>>

Make(cap, ext, up) ==
    CASE cap = "pause" -> IF up THEN <<>>
                          ELSE <<K(E1, FALSE), K("ctrl", FALSE), K("num", FALSE),
                                 K(E1, FALSE), K("ctrl", TRUE), K("num", TRUE)>>
      [] cap = "print" -> <<K(E0, FALSE), K("shift", up), K(E0, FALSE), K("print", up)>>
      [] OTHER -> (IF ext THEN <<K(E0, FALSE)>> ELSE <<>>) \o <<K(cap, up)>>

Acted(kind) == [user EXCEPT !.inputs[kind] = @ + 1]
Acts(kind) == Acted(kind).inputs \in Sessions

\* All bytes arrive, or one of them is lost.
Arrive(bytes, arrived) ==
    \/ arrived = bytes /\ UNCHANGED seen
    \/ /\ ~seen.lost /\ seen' = [seen EXCEPT !.lost = TRUE]
       /\ \E i \in DOMAIN bytes : arrived = RemoveAt(bytes, i)

\* Keys may be used while the mouse is set up and between its bytes.  A device
\* has sent one report before it makes the next.
UseKey(cap, ext) ==
    LET up == <<cap, ext>> \in user.held
    IN  /\ Acts("key") /\ kb_port = <<>> /\ Arrive(Make(cap, ext, up), kb_port')
        /\ user' = [Acted("key") EXCEPT !.held = IF up THEN @ \ {<<cap, ext>>} ELSE @ \cup {<<cap, ext>>}]
        /\ UNCHANGED <<kb, mouse, queue, mouse_port, owed, latest>>

UseMouse(buttons, dx, wheel) ==
    LET status == 8 + (IF 1 \in buttons THEN 1 ELSE 0) + (IF 2 \in buttons THEN 2 ELSE 0)
        kind == IF dx = 0 /\ wheel = 0 THEN "button" ELSE "motion"
    IN  /\ Acts(kind) /\ (dx # 0 \/ wheel # 0 \/ buttons # user.buttons)
        /\ mouse.step = 10 /\ mouse_port = <<>>
        /\ Arrive(<<status, dx, 0>> \o (IF user.mode = 4 THEN <<wheel>> ELSE <<>>), mouse_port')
        /\ user' = [Acted(kind) EXCEPT !.buttons = buttons]
        /\ UNCHANGED <<kb, mouse, queue, kb_port, owed, latest>>

\* The time in which a second click counts has passed.
TimePasses ==
    /\ \E b \in Buttons : mouse.last[b].recent
    /\ mouse' = [mouse EXCEPT !.last = [b \in Buttons |-> [@[b] EXCEPT !.recent = FALSE]]]
    /\ UNCHANGED <<kb, queue, ports, user, owed, latest, seen>>

-----------------------------------------------------------------------------
(* The kernel.                                                             *)

Queue(s) ==
    /\ queue' = s.q
    /\ seen' = [seen EXCEPT !.overflow = s.overflow, !.buried = s.buried, !.clipped = s.clipped]
Before == [q |-> queue, overflow |-> seen.overflow, buried |-> seen.buried, clipped |-> seen.clipped]

process_keyboard(byte) ==
    LET r == keyboard_feed_byte(kb, byte)
    IN  /\ kb' = r.k /\ UNCHANGED mouse
        /\ IF r.ev = NoKey THEN UNCHANGED <<queue, owed, seen>>
           ELSE Queue(Pushed(Before, r.ev)) /\ owed' = [owed EXCEPT !.keys = @ + 1]

process_mouse(byte) ==
    LET m == mouse_feed_byte(mouse, byte)
        r == Packet([m EXCEPT !.bytes = <<>>], Before, m.bytes)
    IN  /\ UNCHANGED kb
        /\ IF Len(m.bytes) < m.size THEN mouse' = m /\ UNCHANGED <<queue, owed, seen>>
           ELSE /\ mouse' = r.m /\ Queue(r.s)
                /\ owed' = [owed EXCEPT !.dx = @ + IF m.bytes[1] >= 64 THEN 0 ELSE Signed(m.bytes[2]),
                                        !.wheel = @ + IF m.size = 4 THEN Signed(m.bytes[4]) ELSE 0]

\* One byte, of either device.  Those of a mouse that was not initialised are
\* dropped.
rootinput_poll ==
    /\ mouse.step = 10 /\ UNCHANGED <<user, latest>>
    /\ \/ /\ kb_port # <<>> /\ kb_port' = Tail(kb_port) /\ UNCHANGED mouse_port
          /\ process_keyboard(Head(kb_port))
       \/ /\ mouse_port # <<>> /\ mouse_port' = Tail(mouse_port) /\ UNCHANGED kb_port
          /\ IF mouse.ready THEN process_mouse(Head(mouse_port))
             ELSE UNCHANGED <<kb, mouse, queue, owed, seen>>

\* The bytes there are have been polled.
rootinput_next_event ==
    LET ev == Head(queue)
    IN  /\ mouse.step = 10 /\ ports = <<<<>>, <<>>>> /\ queue # <<>> /\ queue' = Tail(queue)
        /\ owed' = IF IsMouse(ev) THEN [owed EXCEPT !.dx = @ - ev.dx, !.wheel = @ - ev.w]
                   ELSE [owed EXCEPT !.keys = @ - 1]
        /\ latest' = IF IsMouse(ev) THEN <<[x |-> ev.x, buttons |-> ev.buttons]>> ELSE latest
        /\ UNCHANGED <<kb, mouse, ports, user, seen>>

InputInit ==
    /\ kb = keyboard_reset /\ queue = <<>> /\ kb_port = <<>> /\ mouse_port = <<>>
    /\ mouse = [ready |-> FALSE, size |-> 3, bytes |-> <<>>, step |-> 1, x |-> MOUSE_MAX_X \div 2,
                buttons |-> {}, press |-> [b \in Buttons |-> 0],
                last |-> [b \in Buttons |-> [valid |-> FALSE, recent |-> FALSE, x |-> 0]]]
    /\ \E wheel \in BOOLEAN :
         user = [held |-> {}, buttons |-> {}, mode |-> 3, wheel |-> wheel,
                 inputs |-> [kind \in {"key", "button", "motion"} |-> 0]]
    /\ owed = [keys |-> 0, dx |-> 0, wheel |-> 0] /\ latest = <<>>
    /\ seen = [lost |-> FALSE, late |-> FALSE, overflow |-> FALSE, buried |-> FALSE, clipped |-> FALSE]

InputNext ==
    \/ mouse_command \/ rootinput_poll \/ rootinput_next_event \/ TimePasses
    \/ \E c \in Caps : UseKey(c[1], c[2])
    \/ \E buttons \in SUBSET Buttons, dx \in Moves, wheel \in Wheels : UseMouse(buttons, dx, wheel)

InputSpec == InputInit /\ [][InputNext]_inputVars

-----------------------------------------------------------------------------
(* Properties.                                                             *)

Settled == mouse.step = 10 /\ ports = <<<<>>, <<>>>> /\ ~seen.lost

\* When no byte was lost, a modifier is on exactly while its key is held:
\* prefixes, the pause sequence and the fake shifts of print screen leave none
\* behind; and when the negotiation went well, the kernel has the buttons the
\* user holds.
HeldIsKnown ==
    Settled =>
      /\ kb.held = {key \in Modifiers : \E c \in user.held :
                       key = IF c[2] THEN extended_key(c[1]) ELSE normal_key(c[1])}
      /\ ~seen.late /\ mouse.ready => mouse.buttons = user.buttons

\* What the events of a queue carry, and the sum of it.
Strokes(q) == [i \in DOMAIN q |-> IF IsMouse(q[i]) THEN 0 ELSE 1]
Motions(q) == [i \in DOMAIN q |-> IF IsMouse(q[i]) THEN q[i].dx ELSE 0]
Turns(q) == [i \in DOMAIN q |-> IF IsMouse(q[i]) THEN q[i].w ELSE 0]
Total(w) == LET s[n \in 0 .. Len(w)] == IF n = 0 THEN 0 ELSE s[n - 1] + w[n]
            IN  s[Len(w)]

\* Joining events loses no motion, no turn of the wheel and no key, unless the
\* queue overflowed or a turn was limited.  Also after events of a packet pushed
\* older ones out of a full queue, who has taken all mouse events knows where
\* the pointer is and which buttons are down; only keys can push out the newest.
QueueLosesNothing ==
    /\ ~seen.overflow =>
         /\ owed.keys = Total(Strokes(queue)) /\ owed.dx = Total(Motions(queue))
         /\ seen.clipped \/ owed.wheel = Total(Turns(queue))
    /\ (\A i \in DOMAIN queue : ~IsMouse(queue[i])) /\ ~seen.buried /\ latest # <<>> =>
         Head(latest) = [x |-> mouse.x, buttons |-> mouse.buttons]
=============================================================================
