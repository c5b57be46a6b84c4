-------------------------- MODULE InteractiveProofs --------------------------
(***************************************************************************)
(* Theorems about what a user at the machine meets: the editor, the        *)
(* display, and the keyboard, mouse and event queue.                       *)
(***************************************************************************)
EXTENDS Input, RootEdit, Display, SequenceTheorems, WellFoundedInduction, TLAPS

-----------------------------------------------------------------------------
(***************************************************************************)
(* Keyboard, mouse and the event queue.                                    *)
(***************************************************************************)

-----------------------------------------------------------------------------
(* Sums.                                                                   *)

LEMMA LeastOne ==
    ASSUME NEW S \in SUBSET Nat, S # {}
    PROVE  \E n \in S : \A m \in Nat : m < n => m \notin S
<1>1. \A T \in SUBSET Nat : T # {} => \E n \in T : \A m \in T : <<m, n>> \notin OpToRel(<, Nat)
  BY NatLessThanWellFounded, WFMin
<1>2. PICK n \in S : \A m \in S : <<m, n>> \notin OpToRel(<, Nat) BY <1>1
<1>3. \A m \in S : ~(m < n) BY <1>2 DEF OpToRel
<1>4. \A m \in Nat : m < n => m \notin S BY <1>3
<1> QED BY <1>3, <1>4

\* s adds up w: s[n] is the sum of the first n numbers.
AddsUp(w, s) ==
    s = [n \in 0 .. Len(w) |-> IF n = 0 THEN 0 ELSE s[n - 1] + w[n]]

\* Up to k only.
AddsUpTo(w, s, k) == s = [n \in 0 .. k |-> IF n = 0 THEN 0 ELSE s[n - 1] + w[n]]

LEMMA SumExists ==
    ASSUME NEW w \in Seq(Int)
    PROVE  \E s : AddsUp(w, s)
<1> DEFINE S == {k \in 0 .. Len(w) : ~\E s : AddsUpTo(w, s, k)}
<1>1. Len(w) \in Nat OBVIOUS
<1> SUFFICES ASSUME S # {} PROVE FALSE
  <2>1. Len(w) \in 0 .. Len(w) BY <1>1
  <2>2. S = {} => \E s : AddsUpTo(w, s, Len(w)) BY <2>1
  <2> QED BY <2>2 DEF AddsUpTo, AddsUp
<1>2. PICK k \in S : \A m \in Nat : m < k => m \notin S
  <2>1. S \in SUBSET Nat BY <1>1
  <2> HIDE DEF S
  <2> QED BY <2>1, LeastOne
<1>3. k \in Nat /\ k <= Len(w) /\ ~\E s : AddsUpTo(w, s, k) BY <1>1, <1>2
<1>4. CASE k = 0
  <2>1. PICK s : s = [n \in 0 .. 0 |-> 0] OBVIOUS
  <2>2. s = [n \in 0 .. k |-> IF n = 0 THEN 0 ELSE s[n - 1] + w[n]] BY <1>4, <2>1
  <2> QED BY <1>3, <2>2 DEF AddsUpTo
<1>5. CASE k # 0
  <2>1. k - 1 \in Nat /\ k - 1 < k /\ k - 1 \in 0 .. Len(w) BY <1>1, <1>3, <1>5
  <2>2. k - 1 \notin S BY <1>2, <2>1
  <2>3. PICK t : AddsUpTo(w, t, k - 1) BY <2>1, <2>2
  <2>4. PICK s : s = [n \in 0 .. k |-> IF n = 0 THEN 0 ELSE t[n - 1] + w[n]] OBVIOUS
  <2>5. \A n \in 0 .. k - 1 : s[n] = t[n]
    <3>1. t = [n \in 0 .. k - 1 |-> IF n = 0 THEN 0 ELSE t[n - 1] + w[n]] BY <2>3 DEF AddsUpTo
    <3>2. ASSUME NEW n \in 0 .. k - 1 PROVE s[n] = t[n]
      <4>1. n \in 0 .. k BY <1>3
      <4>2. s[n] = IF n = 0 THEN 0 ELSE t[n - 1] + w[n] BY <2>4, <4>1
      <4>3. t[n] = IF n = 0 THEN 0 ELSE t[n - 1] + w[n] BY <3>1, Zenon
      <4> QED BY <4>2, <4>3
    <3> QED BY <3>2
  <2>6. \A n \in 0 .. k : n # 0 => n - 1 \in 0 .. k - 1 BY <1>3
  <2>7. \A n \in 0 .. k : (IF n = 0 THEN 0 ELSE t[n - 1] + w[n]) = IF n = 0 THEN 0 ELSE s[n - 1] + w[n]
    BY <2>5, <2>6
  <2>8. s = [n \in 0 .. k |-> IF n = 0 THEN 0 ELSE s[n - 1] + w[n]] BY <2>4, <2>7
  <2> QED BY <1>3, <2>8 DEF AddsUpTo
<1> QED BY <1>3, <1>4, <1>5

LEMMA SumInt ==
    ASSUME NEW w \in Seq(Int), NEW s, AddsUp(w, s)
    PROVE  /\ \A n \in 0 .. Len(w) : s[n] \in Int
           /\ s[0] = 0 /\ \A n \in 1 .. Len(w) : s[n] = s[n - 1] + w[n]
<1> DEFINE S == {n \in 0 .. Len(w) : s[n] \notin Int}
<1>1. Len(w) \in Nat OBVIOUS
<1>2. s = [n \in 0 .. Len(w) |-> IF n = 0 THEN 0 ELSE s[n - 1] + w[n]] BY DEF AddsUp
<1>3. \A n \in 0 .. Len(w) : s[n] = IF n = 0 THEN 0 ELSE s[n - 1] + w[n] BY <1>2, Zenon
<1>4. s[0] = 0 /\ \A n \in 1 .. Len(w) : s[n] = s[n - 1] + w[n] BY <1>1, <1>3
<1>5. S = {}
  <2> SUFFICES ASSUME S # {} PROVE FALSE OBVIOUS
  <2>1. PICK n \in S : \A m \in Nat : m < n => m \notin S
    <3>1. S \in SUBSET Nat BY <1>1
    <3> HIDE DEF S
    <3> QED BY <3>1, LeastOne
  <2>2. n \in 0 .. Len(w) /\ s[n] \notin Int BY <2>1
  <2>3. n # 0 BY <1>4, <2>2
  <2>4. n - 1 \in Nat /\ n - 1 < n /\ n - 1 \in 0 .. Len(w) /\ n \in 1 .. Len(w) BY <1>1, <2>2, <2>3
  <2>5. s[n - 1] \in Int BY <2>1, <2>4
  <2>6. w[n] \in Int BY <2>4
  <2> QED BY <1>4, <2>2, <2>4, <2>5, <2>6
<1> QED BY <1>4, <1>5

LEMMA TotalFact ==
    ASSUME NEW w \in Seq(Int)
    PROVE  \E s : AddsUp(w, s) /\ Total(w) = s[Len(w)] /\ Total(w) \in Int
<1>1. PICK s : s = CHOOSE t : t = [n \in 0 .. Len(w) |-> IF n = 0 THEN 0 ELSE t[n - 1] + w[n]] OBVIOUS
<1>2. AddsUp(w, s) BY <1>1, SumExists, Zenon DEF AddsUp
<1>3. Total(w) = s[Len(w)] BY <1>1, Zenon DEF Total
<1>4. Len(w) \in 0 .. Len(w) OBVIOUS
<1> QED BY <1>2, <1>3, <1>4, SumInt

\* Equal beginnings add up equally.
LEMMA SameSums ==
    ASSUME NEW w \in Seq(Int), NEW v \in Seq(Int), NEW s, NEW t, AddsUp(w, s), AddsUp(v, t),
           NEW k \in Nat, k <= Len(w), k <= Len(v), \A i \in 1 .. k : v[i] = w[i]
    PROVE  s[k] = t[k]
<1> DEFINE S == {n \in 0 .. k : s[n] # t[n]}
<1>1. Len(w) \in Nat /\ Len(v) \in Nat OBVIOUS
<1>2. S = {}
  <2> SUFFICES ASSUME S # {} PROVE FALSE OBVIOUS
  <2>1. PICK n \in S : \A m \in Nat : m < n => m \notin S
    <3>1. S \in SUBSET Nat OBVIOUS
    <3> HIDE DEF S
    <3> QED BY <3>1, LeastOne
  <2>2. n \in 0 .. k /\ s[n] # t[n] BY <2>1
  <2>3. n # 0 BY <2>2, SumInt
  <2>4. /\ n - 1 \in Nat /\ n - 1 < n /\ n - 1 \in 0 .. k /\ n \in 1 .. k
        /\ n \in 1 .. Len(w) /\ n \in 1 .. Len(v)
    BY <1>1, <2>2, <2>3
  <2>5. s[n - 1] = t[n - 1] BY <2>1, <2>4
  <2>6. s[n] = s[n - 1] + w[n] /\ t[n] = t[n - 1] + v[n] BY <2>4, SumInt
  <2> QED BY <2>2, <2>4, <2>5, <2>6
<1>3. k \in 0 .. k OBVIOUS
<1> QED BY <1>2, <1>3

LEMMA TotalEmpty == Total(<<>>) = 0
<1>1. <<>> \in Seq(Int) /\ Len(<<>>) = 0 OBVIOUS
<1>2. PICK s : AddsUp(<<>>, s) /\ Total(<<>>) = s[Len(<<>>)] BY <1>1, TotalFact
<1>3. s[0] = 0 BY <1>1, <1>2, SumInt
<1> QED BY <1>1, <1>2, <1>3

\* One number more at the end, a number less at the front.
LEMMA TotalLonger ==
    ASSUME NEW w \in Seq(Int), NEW v \in Seq(Int), Len(v) = Len(w) + 1,
           \A i \in 1 .. Len(w) : v[i] = w[i]
    PROVE  Total(v) = Total(w) + v[Len(v)]
<1>1. PICK s : AddsUp(w, s) /\ Total(w) = s[Len(w)] BY TotalFact
<1>2. PICK t : AddsUp(v, t) /\ Total(v) = t[Len(v)] BY TotalFact
<1>3. Len(w) \in Nat /\ Len(v) \in Nat /\ Len(w) <= Len(v) /\ Len(v) \in 1 .. Len(v) /\ Len(v) - 1 = Len(w)
  OBVIOUS
<1>4. s[Len(w)] = t[Len(w)]
  <2>1. PICK n \in Nat : n = Len(w) BY <1>3
  <2>2. n <= Len(w) /\ n <= Len(v) /\ \A i \in 1 .. n : v[i] = w[i] BY <1>3, <2>1
  <2>3. s[n] = t[n] BY <1>1, <1>2, <2>2, SameSums
  <2> QED BY <2>1, <2>3
<1>5. t[Len(v)] = t[Len(v) - 1] + v[Len(v)] BY <1>2, <1>3, SumInt
<1> QED BY <1>1, <1>2, <1>3, <1>4, <1>5

LEMMA TotalShorter ==
    ASSUME NEW w \in Seq(Int), w # <<>>
    PROVE  Total(Tail(w)) = Total(w) - w[1]
<1>1. PICK v : v = Tail(w) OBVIOUS
<1>0. v \in Seq(Int) BY <1>1, HeadTailProperties
<1>2. Len(w) \in Nat /\ Len(w) >= 1 /\ Len(v) = Len(w) - 1 /\ \A i \in 1 .. Len(v) : v[i] = w[i + 1]
  BY <1>1
<1>3. PICK s : AddsUp(w, s) /\ Total(w) = s[Len(w)] BY TotalFact
<1>4. PICK t : AddsUp(v, t) /\ Total(v) = t[Len(v)] BY <1>0, TotalFact
<1> DEFINE S == {n \in 0 .. Len(v) : t[n] # s[n + 1] - w[1]}
<1>5. S = {}
  <2> SUFFICES ASSUME S # {} PROVE FALSE OBVIOUS
  <2>1. PICK n \in S : \A m \in Nat : m < n => m \notin S
    <3>1. S \in SUBSET Nat BY <1>2
    <3> HIDE DEF S
    <3> QED BY <3>1, LeastOne
  <2>2. n \in 0 .. Len(v) /\ t[n] # s[n + 1] - w[1] BY <2>1
  <2>3. CASE n = 0
    <3>1. 1 \in 1 .. Len(w) /\ w[1] \in Int BY <1>2
    <3>2. t[0] = 0 /\ s[1] = s[1 - 1] + w[1] /\ s[0] = 0 BY <1>0, <1>3, <1>4, <3>1, SumInt
    <3> QED BY <2>2, <2>3, <3>1, <3>2
  <2>4. CASE n # 0
    <3>1. /\ n - 1 \in Nat /\ n - 1 < n /\ n - 1 \in 0 .. Len(v) /\ n \in 1 .. Len(v)
          /\ n + 1 \in 1 .. Len(w) /\ n \in 0 .. Len(w) /\ (n + 1) - 1 = n /\ (n - 1) + 1 = n
      BY <1>2, <2>2, <2>4
    <3>2. t[n - 1] = s[n] - w[1] BY <2>1, <3>1
    <3>3. t[n] = t[n - 1] + v[n] BY <1>0, <1>4, <3>1, SumInt
    <3>4. s[n + 1] = s[n] + w[n + 1] BY <1>3, <3>1, SumInt
    <3>5. v[n] = w[n + 1] BY <1>2, <3>1
    <3>6. s[n] \in Int /\ w[n + 1] \in Int /\ w[1] \in Int BY <1>2, <1>3, <3>1, SumInt
    <3> QED BY <2>2, <3>2, <3>3, <3>4, <3>5, <3>6
  <2> QED BY <2>3, <2>4
<1>6. Len(v) \in 0 .. Len(v) /\ Len(v) + 1 = Len(w) BY <1>2
<1>7. t[Len(v)] = s[Len(w)] - w[1] BY <1>5, <1>6
<1> QED BY <1>1, <1>3, <1>4, <1>7

\* Only the last number differs.
LEMMA TotalChanged ==
    ASSUME NEW w \in Seq(Int), NEW v \in Seq(Int), Len(v) = Len(w), Len(w) > 0,
           \A i \in 1 .. Len(w) - 1 : v[i] = w[i]
    PROVE  Total(v) = Total(w) - w[Len(w)] + v[Len(w)]
<1>1. PICK n \in Nat : n = Len(w) /\ n > 0 OBVIOUS
<1>2. PICK f : f = [i \in 1 .. n - 1 |-> w[i]] OBVIOUS
<1>3. f \in Seq(Int) /\ Len(f) = n - 1
  <2>1. \A i \in 1 .. n - 1 : w[i] \in Int BY <1>1
  <2>2. n - 1 \in Nat BY <1>1
  <2> QED BY <1>2, <2>1, <2>2
<1>4. /\ Len(w) = Len(f) + 1 /\ Len(v) = Len(f) + 1
      /\ \A i \in 1 .. Len(f) : w[i] = f[i] /\ v[i] = f[i]
  BY <1>1, <1>2, <1>3
<1>5. Total(w) = Total(f) + w[Len(w)] BY <1>3, <1>4, TotalLonger
<1>6. Total(v) = Total(f) + v[Len(v)] BY <1>3, <1>4, TotalLonger
<1>7. Total(f) \in Int BY <1>3, TotalFact
<1>8. w[n] \in Int /\ v[n] \in Int BY <1>1
<1> QED BY <1>1, <1>5, <1>6, <1>7, <1>8

LEMMA TotalAdd ==
    ASSUME NEW n \in Nat, NEW w \in Seq(Int), NEW v \in Seq(Int), Len(w) = n, Len(v) = n + 1,
           \A i \in 1 .. n : v[i] = w[i], NEW a, v[n + 1] = a
    PROVE  Total(v) = Total(w) + a
  BY TotalLonger

LEMMA TotalSwap ==
    ASSUME NEW n \in Nat, n > 0, NEW w \in Seq(Int), NEW v \in Seq(Int), Len(w) = n, Len(v) = n,
           \A i \in 1 .. n - 1 : v[i] = w[i], NEW a, w[n] = a, NEW b, v[n] = b
    PROVE  Total(v) = Total(w) - a + b
  BY TotalChanged

LEMMA OneNotTwo == \A a, b, c : <<a>> # <<b, c>>
<1>1. ASSUME NEW a, NEW b, NEW c, <<a>> = <<b, c>> PROVE FALSE
  <2>1. Len(<<a>>) = 1 /\ Len(<<b, c>>) = 2 OBVIOUS
  <2> QED BY <1>1, <2>1
<1> QED BY <1>1

-----------------------------------------------------------------------------
(* Events.                                                                 *)

Kinds == {"WHEEL", "MOVE", "DRAG", "BUTTON_DOWN", "BUTTON_UP", "CLICK", "DOUBLE_CLICK"}
MouseEvents ==
    {e \in [t : Kinds, x : Int, dx : Int, w : Int, buttons : SUBSET Buttons, button : {0} \cup Buttons] :
       IF e.t = "WHEEL" THEN e.dx = 0 ELSE e.w = 0}
KeyNames == Modifiers \cup {"E", "LEFT_BRACKET", "NUM_LOCK", "KP_7", "CAPS_LOCK", "HOME"}
Texts == {"none", "acute", "grave", "diaeresis", "euro", "7", "E", "e"}
KeyEvents == [t : {"KEY_DOWN", "KEY_UP"}, key : KeyNames, cp : Seq(Texts), mods : SUBSET Modifiers]
Events == MouseEvents \cup KeyEvents

LEMMA EventFact ==
    /\ \A ev \in MouseEvents : IsMouse(ev) /\ ev.dx \in Int /\ ev.w \in Int
    /\ \A ev \in KeyEvents : ~IsMouse(ev)
    /\ \A ev \in Events : IsMouse(ev) => ev \in MouseEvents
  BY DEF IsMouse, MouseEvents, KeyEvents, Events, Kinds

LEMMA MaxMinFact ==
    ASSUME NEW a \in Int, NEW b \in Int
    PROVE  Max({a, b}) = (IF a >= b THEN a ELSE b) /\ Min({a, b}) = IF a <= b THEN a ELSE b
<1>1. PICK c : c = IF a >= b THEN a ELSE b OBVIOUS
<1>2. c \in {a, b} /\ \A y \in {a, b} : c >= y BY <1>1
<1>3. \A x \in {a, b} : (\A y \in {a, b} : x >= y) => x = c BY <1>1
<1>4. Max({a, b}) = c BY <1>2, <1>3 DEF Max
<1>5. PICK d : d = IF a <= b THEN a ELSE b OBVIOUS
<1>6. d \in {a, b} /\ \A y \in {a, b} : d <= y BY <1>5
<1>7. \A x \in {a, b} : (\A y \in {a, b} : x <= y) => x = d BY <1>5
<1>8. Min({a, b}) = d BY <1>6, <1>7 DEF Min
<1> QED BY <1>1, <1>4, <1>5, <1>8

LEMMA Limits == ROOT_INPUT_QUEUE_SIZE \in Nat /\ ROOT_INPUT_QUEUE_SIZE >= 2 /\ WHEEL_LIMIT \in Nat
                /\ MOUSE_MAX_X \in Nat
<1>1. {CLICK_DISTANCE, ROOT_DOUBLE_CLICK_DISTANCE, WHEEL_LIMIT} \subseteq Nat
  BY InputAssumption, Zenon
<1>2. ROOT_INPUT_QUEUE_SIZE \in Nat /\ ROOT_INPUT_QUEUE_SIZE >= 2 /\ MOUSE_MAX_X \in Nat
  BY InputAssumption, Zenon
<1> QED BY <1>1, <1>2

\* The last event and a new one: one event with what both carry, or both.
LEMMA CoalesceFact ==
    ASSUME NEW last \in Events, NEW ev \in Events
    PROVE  \/ Coalesce(last, ev) = <<last, ev>>
           \/ \E e \in MouseEvents :
                /\ Coalesce(last, ev) = <<e>> /\ ev \in MouseEvents /\ last \in MouseEvents
                /\ e.x = ev.x /\ e.buttons = ev.buttons
                /\ e.dx = last.dx + ev.dx
                /\ \/ e.w = last.w + ev.w
                   \/ /\ ev.t = "WHEEL" /\ last.t = "WHEEL"
                      /\ last.w + ev.w \notin -WHEEL_LIMIT .. WHEEL_LIMIT
<1>1. CASE ev.t = "WHEEL" /\ last.t = "WHEEL"
  <2>1. ev \in MouseEvents /\ last \in MouseEvents BY <1>1 DEF Events, KeyEvents
  <2>2. PICK w : w = Max({-WHEEL_LIMIT, Min({WHEEL_LIMIT, last.w + ev.w})}) OBVIOUS
  <2>3. PICK e : e = [ev EXCEPT !.w = w] OBVIOUS
  <2>4. Coalesce(last, ev) = <<e>> BY <1>1, <2>2, <2>3 DEF Coalesce
  <2>5. ev.dx = 0 /\ last.dx = 0 /\ ev.w \in Int /\ last.w \in Int BY <1>1, <2>1 DEF MouseEvents
  <2>6. w \in Int /\ (last.w + ev.w \in -WHEEL_LIMIT .. WHEEL_LIMIT => w = last.w + ev.w)
    <3>1. PICK k \in Int : k = last.w + ev.w BY <2>5
    <3>2. PICK limit \in Nat : limit = WHEEL_LIMIT BY Limits
    <3>3. PICK j : j = Min({limit, k}) OBVIOUS
    <3>4. j = IF limit <= k THEN limit ELSE k BY <3>3, MaxMinFact
    <3>5. j \in Int BY <3>4
    <3>6. PICK low \in Int : low = -limit OBVIOUS
    <3>7. w = Max({low, j}) BY <2>2, <3>1, <3>2, <3>3, <3>6
    <3>8. w = IF low >= j THEN low ELSE j BY <3>5, <3>7, MaxMinFact
    <3> QED BY <3>1, <3>2, <3>4, <3>6, <3>8
  <2>7. e \in MouseEvents /\ e.x = ev.x /\ e.buttons = ev.buttons /\ e.dx = 0 /\ e.w = w
    BY <1>1, <2>1, <2>3, <2>5, <2>6 DEF MouseEvents
  <2> QED BY <1>1, <2>1, <2>4, <2>5, <2>6, <2>7
<1>2. CASE /\ ~(ev.t = "WHEEL" /\ last.t = "WHEEL")
           /\ ev.t \in {"MOVE", "DRAG"} /\ last.t = ev.t /\ last.buttons = ev.buttons
  <2>1. ev \in MouseEvents /\ last \in MouseEvents BY <1>2 DEF Events, KeyEvents
  <2>2. PICK e : e = [ev EXCEPT !.dx = last.dx + @] OBVIOUS
  <2>3. Coalesce(last, ev) = <<e>> BY <1>2, <2>2 DEF Coalesce
  <2>4. ev.dx \in Int /\ last.dx \in Int /\ ev.w = 0 /\ last.w = 0 BY <1>2, <2>1 DEF MouseEvents
  <2>5. e \in MouseEvents /\ e.x = ev.x /\ e.buttons = ev.buttons /\ e.dx = last.dx + ev.dx /\ e.w = 0
    BY <1>2, <2>1, <2>2, <2>4 DEF MouseEvents
  <2> QED BY <2>1, <2>3, <2>4, <2>5
<1>3. CASE /\ ~(ev.t = "WHEEL" /\ last.t = "WHEEL")
           /\ ~(ev.t \in {"MOVE", "DRAG"} /\ last.t = ev.t /\ last.buttons = ev.buttons)
  BY <1>3, Zenon DEF Coalesce
<1> QED BY <1>1, <1>2, <1>3

\* The queue after a push, event by event.
Full(q, ev) == Len(q) = ROOT_INPUT_QUEUE_SIZE - 1 /\ Len(Coalesce(Last(q), ev)) = 2
Joined(q, r, e) ==
    Len(q) > 0 /\ Len(r) = Len(q) /\ (\A i \in 1 .. Len(q) - 1 : r[i] = q[i]) /\ r[Len(q)] = e
Added(q, r, ev) == Len(r) = Len(q) + 1 /\ (\A i \in 1 .. Len(q) : r[i] = q[i]) /\ r[Len(q) + 1] = ev
Shortened(q, r, ev) ==
    Len(q) > 0 /\ Len(r) = Len(q) /\ (\A i \in 1 .. Len(q) - 1 : r[i] = q[i + 1]) /\ r[Len(q)] = ev

LEMMA PushShape ==
    ASSUME NEW q \in Seq(Events), Len(q) < ROOT_INPUT_QUEUE_SIZE, NEW ev \in Events
    PROVE  LET r == queue_push(q, ev)
           IN  /\ r \in Seq(Events) /\ Len(r) < ROOT_INPUT_QUEUE_SIZE
               /\ \/ q # <<>> /\ (\E e \in MouseEvents : Coalesce(Last(q), ev) = <<e>> /\ Joined(q, r, e))
                     /\ ~Full(q, ev)
                  \/ Added(q, r, ev) /\ ~Full(q, ev)
                     /\ (q # <<>> => Coalesce(Last(q), ev) = <<Last(q), ev>>)
                  \/ q # <<>> /\ Shortened(q, r, ev) /\ Full(q, ev)
<1>1. PICK n \in Nat : n = Len(q) OBVIOUS
<1>2. PICK r : r = queue_push(q, ev) OBVIOUS
<1>3. CASE q = <<>>
  <2>1. n = 0 /\ ~Full(q, ev) BY <1>1, <1>3, Limits DEF Full
  <2>2. Len(<<ev>>) = 1 /\ ~(1 > ROOT_INPUT_QUEUE_SIZE - 1) BY Limits
  <2>3. r = <<ev>> BY <1>2, <1>3, <2>2 DEF queue_push
  <2>4. r \in Seq(Events) /\ Len(r) = 1 /\ r[1] = ev BY <2>3
  <2>5. Added(q, r, ev) BY <1>1, <2>1, <2>4 DEF Added
  <2> QED BY <1>2, <1>3, <2>1, <2>4, <2>5, Limits
<1>4. CASE q # <<>>
  <2>1. n > 0 BY <1>1, <1>4
  <2>2. PICK last : last = Last(q) OBVIOUS
  <2>3. last = q[n] /\ last \in Events BY <1>1, <2>1, <2>2 DEF Last
  <2>4. PICK f : f = Front(q) OBVIOUS
  <2>5. f \in Seq(Events) /\ Len(f) = n - 1 /\ \A i \in 1 .. n - 1 : f[i] = q[i]
    BY <1>1, <2>1, <2>4 DEF Front
  <2>6. PICK c : c = Coalesce(last, ev) OBVIOUS
  <2>7. PICK all : all = f \o c OBVIOUS
  <2>8. r = IF Len(all) > ROOT_INPUT_QUEUE_SIZE - 1 THEN Tail(all) ELSE all
    BY <1>2, <1>4, <2>2, <2>4, <2>6, <2>7 DEF queue_push
  <2>9. CASE c = <<last, ev>>
    <3>1. c \in Seq(Events) /\ Len(c) = 2 /\ c[1] = last /\ c[2] = ev BY <2>3, <2>9
    <3>0. /\ all \in Seq(Events) /\ Len(all) = Len(f) + Len(c)
          /\ \A i \in 1 .. Len(f) + Len(c) : all[i] = IF i <= Len(f) THEN f[i] ELSE c[i - Len(f)]
      BY <2>5, <2>7, <3>1, ConcatProperties
    <3>2. all \in Seq(Events) /\ Len(all) = n + 1 BY <2>1, <2>5, <3>0, <3>1
    <3>3. all[n] = last /\ all[n + 1] = ev /\ \A i \in 1 .. n - 1 : all[i] = q[i]
      <4>1. n \in 1 .. n + 1 /\ n + 1 \in 1 .. n + 1 /\ ~(n <= n - 1) /\ ~(n + 1 <= n - 1)
            /\ n - (n - 1) = 1 /\ (n + 1) - (n - 1) = 2 /\ (n - 1) + 2 = n + 1
        BY <2>1
      <4>2. all[n] = last /\ all[n + 1] = ev BY <2>5, <3>0, <3>1, <4>1
      <4>3. \A i \in 1 .. n - 1 : all[i] = f[i] BY <2>1, <2>5, <3>0, <3>1
      <4> QED BY <2>5, <4>2, <4>3
    <3>4. \A i \in 1 .. n : all[i] = q[i] BY <2>1, <2>3, <3>3
    <3>5. CASE n + 1 > ROOT_INPUT_QUEUE_SIZE - 1
      <4>1. r = Tail(all) BY <2>8, <3>2, <3>5
      <4>2. all # <<>> BY <3>2, <2>1
      <4>3. r \in Seq(Events) /\ Len(r) = n /\ \A i \in 1 .. n : r[i] = all[i + 1]
        BY <2>1, <3>2, <4>1, <4>2, HeadTailProperties
      <4>4. n = ROOT_INPUT_QUEUE_SIZE - 1 BY <1>1, <3>5, Limits
      <4>5. Full(q, ev) BY <1>1, <2>2, <2>6, <3>1, <4>4 DEF Full
      <4>6. r[n] = ev /\ \A i \in 1 .. n - 1 : r[i] = q[i + 1] BY <2>1, <3>3, <3>4, <4>3
      <4>7. Shortened(q, r, ev) BY <1>1, <2>1, <4>3, <4>6 DEF Shortened
      <4> QED BY <1>1, <1>2, <1>4, <4>3, <4>5, <4>7
    <3>6. CASE ~(n + 1 > ROOT_INPUT_QUEUE_SIZE - 1)
      <4>1. r = all BY <2>8, <3>2, <3>6
      <4>2. ~Full(q, ev) BY <1>1, <3>6, Limits DEF Full
      <4>3. Added(q, r, ev) BY <1>1, <3>2, <3>3, <3>4, <4>1 DEF Added
      <4>4. n + 1 < ROOT_INPUT_QUEUE_SIZE BY <3>6, Limits
      <4> QED BY <1>2, <2>2, <2>6, <2>9, <3>2, <4>1, <4>2, <4>3, <4>4
    <3> QED BY <3>5, <3>6
  <2>10. ASSUME NEW e \in MouseEvents, c = <<e>>
         PROVE  /\ r \in Seq(Events) /\ Len(r) < ROOT_INPUT_QUEUE_SIZE
                /\ Joined(q, r, e) /\ ~Full(q, ev)
    <3>1. c \in Seq(Events) /\ Len(c) = 1 /\ c[1] = e BY <2>10 DEF Events
    <3>0. /\ all \in Seq(Events) /\ Len(all) = Len(f) + Len(c)
          /\ \A i \in 1 .. Len(f) + Len(c) : all[i] = IF i <= Len(f) THEN f[i] ELSE c[i - Len(f)]
      BY <2>5, <2>7, <3>1, ConcatProperties
    <3>2. all \in Seq(Events) /\ Len(all) = n BY <2>1, <2>5, <3>0, <3>1
    <3>3. all[n] = e /\ \A i \in 1 .. n - 1 : all[i] = q[i]
      <4>1. n \in 1 .. n /\ ~(n <= n - 1) /\ n - (n - 1) = 1 /\ (n - 1) + 1 = n BY <2>1
      <4>2. all[n] = e BY <2>5, <3>0, <3>1, <4>1
      <4>3. \A i \in 1 .. n - 1 : all[i] = f[i] BY <2>1, <2>5, <3>0, <3>1
      <4> QED BY <2>5, <4>2, <4>3
    <3>4. ~(n > ROOT_INPUT_QUEUE_SIZE - 1) BY <1>1, Limits
    <3>5. r = all BY <2>8, <3>2, <3>4
    <3>6. ~Full(q, ev) BY <2>2, <2>6, <3>1 DEF Full
    <3>7. Joined(q, r, e) BY <1>1, <2>1, <3>2, <3>3, <3>5 DEF Joined
    <3> QED BY <1>1, <3>2, <3>5, <3>6, <3>7
  <2> QED BY <1>2, <1>4, <2>2, <2>3, <2>6, <2>9, <2>10, CoalesceFact
<1> QED BY <1>3, <1>4

\* What one event carries.
Stroke(ev) == IF IsMouse(ev) THEN 0 ELSE 1
Motion(ev) == IF IsMouse(ev) THEN ev.dx ELSE 0
Turn(ev) == IF IsMouse(ev) THEN ev.w ELSE 0
TurnClipped(q, ev) ==
    /\ q # <<>> /\ ev.t = "WHEEL" /\ Last(q).t = "WHEEL"
    /\ Last(q).w + ev.w \notin -WHEEL_LIMIT .. WHEEL_LIMIT

LEMMA WeighFact ==
    ASSUME NEW q \in Seq(Events)
    PROVE  /\ Strokes(q) \in Seq(Int) /\ Len(Strokes(q)) = Len(q)
           /\ Motions(q) \in Seq(Int) /\ Len(Motions(q)) = Len(q)
           /\ Turns(q) \in Seq(Int) /\ Len(Turns(q)) = Len(q)
           /\ \A i \in 1 .. Len(q) : /\ Strokes(q)[i] = Stroke(q[i]) /\ Motions(q)[i] = Motion(q[i])
                                     /\ Turns(q)[i] = Turn(q[i])
<1>1. PICK n \in Nat : n = Len(q) /\ DOMAIN q = 1 .. n OBVIOUS
<1>2. \A i \in 1 .. n : Stroke(q[i]) \in Int /\ Motion(q[i]) \in Int /\ Turn(q[i]) \in Int
  BY <1>1, EventFact DEF Stroke, Motion, Turn
<1>3. Strokes(q) = [i \in 1 .. n |-> Stroke(q[i])] BY <1>1 DEF Strokes, Stroke
<1>4. Motions(q) = [i \in 1 .. n |-> Motion(q[i])] BY <1>1 DEF Motions, Motion
<1>5. Turns(q) = [i \in 1 .. n |-> Turn(q[i])] BY <1>1 DEF Turns, Turn
<1>6. Strokes(q) \in Seq(Int) /\ Len(Strokes(q)) = n BY <1>2, <1>3
<1>7. Motions(q) \in Seq(Int) /\ Len(Motions(q)) = n BY <1>2, <1>4
<1>8. Turns(q) \in Seq(Int) /\ Len(Turns(q)) = n BY <1>2, <1>5
<1> QED BY <1>1, <1>3, <1>4, <1>5, <1>6, <1>7, <1>8

\* A push that drops nothing adds what the event carries.
LEMMA PushSums ==
    ASSUME NEW q \in Seq(Events), Len(q) < ROOT_INPUT_QUEUE_SIZE, NEW ev \in Events, ~Full(q, ev)
    PROVE  LET r == queue_push(q, ev)
           IN  /\ Total(Strokes(r)) = Total(Strokes(q)) + Stroke(ev)
               /\ Total(Motions(r)) = Total(Motions(q)) + Motion(ev)
               /\ ~TurnClipped(q, ev) => Total(Turns(r)) = Total(Turns(q)) + Turn(ev)
<1>1. PICK r : r = queue_push(q, ev) OBVIOUS
<1>2. r \in Seq(Events) BY <1>1, PushShape
<1>3. PICK n \in Nat : n = Len(q) OBVIOUS
<1>4. PICK kq, kr, dq, dr, wq, wr :
        /\ kq = Strokes(q) /\ kr = Strokes(r) /\ dq = Motions(q) /\ dr = Motions(r)
        /\ wq = Turns(q) /\ wr = Turns(r)
  OBVIOUS
<1>k. /\ kq \in Seq(Int) /\ kr \in Seq(Int) /\ Len(kq) = n /\ Len(kr) = Len(r)
      /\ \A i \in 1 .. n : kq[i] = Stroke(q[i])
      /\ \A i \in 1 .. Len(r) : kr[i] = Stroke(r[i])
  BY <1>2, <1>3, <1>4, WeighFact
<1>d. /\ dq \in Seq(Int) /\ dr \in Seq(Int) /\ Len(dq) = n /\ Len(dr) = Len(r)
      /\ \A i \in 1 .. n : dq[i] = Motion(q[i])
      /\ \A i \in 1 .. Len(r) : dr[i] = Motion(r[i])
  BY <1>2, <1>3, <1>4, WeighFact
<1>w. /\ wq \in Seq(Int) /\ wr \in Seq(Int) /\ Len(wq) = n /\ Len(wr) = Len(r)
      /\ \A i \in 1 .. n : wq[i] = Turn(q[i])
      /\ \A i \in 1 .. Len(r) : wr[i] = Turn(r[i])
  BY <1>2, <1>3, <1>4, WeighFact
<1>8. CASE Added(q, r, ev)
  <2>1. Len(r) = n + 1 /\ (\A i \in 1 .. n : r[i] = q[i]) /\ r[n + 1] = ev
    BY <1>3, <1>8 DEF Added
  <2>2. kr[n + 1] = Stroke(ev) /\ dr[n + 1] = Motion(ev) /\ wr[n + 1] = Turn(ev) BY <1>k, <1>d, <1>w, <2>1
  <2>3. Total(kr) = Total(kq) + Stroke(ev)
    <3>1. \A i \in 1 .. n : kr[i] = kq[i] BY <1>k, <2>1
    <3>2. PICK a : a = Stroke(ev) OBVIOUS
    <3>3. kr[n + 1] = a BY <2>2, <3>2
    <3>4. kq \in Seq(Int) /\ kr \in Seq(Int) /\ Len(kq) = n /\ Len(kr) = n + 1 BY <1>k, <2>1
    <3>5. Total(kr) = Total(kq) + a BY <3>1, <3>3, <3>4, TotalAdd
    <3> QED BY <3>2, <3>5
  <2>4. Total(dr) = Total(dq) + Motion(ev)
    <3>1. \A i \in 1 .. n : dr[i] = dq[i] BY <1>d, <2>1
    <3>2. PICK a : a = Motion(ev) OBVIOUS
    <3>3. dr[n + 1] = a BY <2>2, <3>2
    <3>4. dq \in Seq(Int) /\ dr \in Seq(Int) /\ Len(dq) = n /\ Len(dr) = n + 1 BY <1>d, <2>1
    <3>5. Total(dr) = Total(dq) + a BY <3>1, <3>3, <3>4, TotalAdd
    <3> QED BY <3>2, <3>5
  <2>5. Total(wr) = Total(wq) + Turn(ev)
    <3>1. \A i \in 1 .. n : wr[i] = wq[i] BY <1>w, <2>1
    <3>2. PICK a : a = Turn(ev) OBVIOUS
    <3>3. wr[n + 1] = a BY <2>2, <3>2
    <3>4. wq \in Seq(Int) /\ wr \in Seq(Int) /\ Len(wq) = n /\ Len(wr) = n + 1 BY <1>w, <2>1
    <3>5. Total(wr) = Total(wq) + a BY <3>1, <3>3, <3>4, TotalAdd
    <3> QED BY <3>2, <3>5
  <2> QED BY <1>1, <1>4, <2>3, <2>4, <2>5
<1>9. ASSUME q # <<>>, NEW e \in MouseEvents, Coalesce(Last(q), ev) = <<e>>, Joined(q, r, e)
      PROVE  /\ Total(kr) = Total(kq) + Stroke(ev)
             /\ Total(dr) = Total(dq) + Motion(ev)
             /\ ~TurnClipped(q, ev) => Total(wr) = Total(wq) + Turn(ev)
  <2>1. n > 0 /\ Len(r) = n /\ (\A i \in 1 .. n - 1 : r[i] = q[i]) /\ r[n] = e
    BY <1>3, <1>9 DEF Joined
  <2>2. PICK last \in Events : last = Last(q) /\ last = q[n] BY <1>3, <2>1 DEF Last
  <2>3. /\ ev \in MouseEvents /\ last \in MouseEvents /\ e.dx = last.dx + ev.dx
        /\ e.w = last.w + ev.w \/ TurnClipped(q, ev)
    <3>1. PICK f \in MouseEvents :
            /\ Coalesce(last, ev) = <<f>> /\ ev \in MouseEvents /\ last \in MouseEvents
            /\ f.dx = last.dx + ev.dx
            /\ \/ f.w = last.w + ev.w
               \/ /\ ev.t = "WHEEL" /\ last.t = "WHEEL"
                  /\ last.w + ev.w \notin -WHEEL_LIMIT .. WHEEL_LIMIT
      <4>1. Coalesce(last, ev) # <<last, ev>> BY <1>9, <2>2, OneNotTwo
      <4> QED BY <4>1, CoalesceFact
    <3>2. f = e BY <1>9, <2>2, <3>1
    <3> QED BY <1>9, <2>2, <3>1, <3>2 DEF TurnClipped
  <2>4. /\ Stroke(e) = 0 /\ Stroke(last) = 0 /\ Stroke(ev) = 0 /\ Motion(e) = e.dx
        /\ Motion(last) = last.dx /\ Motion(ev) = ev.dx /\ Turn(e) = e.w /\ Turn(last) = last.w
        /\ Turn(ev) = ev.w
    BY <2>3, EventFact DEF Stroke, Motion, Turn
  <2>5. kr[n] = 0 /\ kq[n] = 0 /\ dr[n] = e.dx /\ dq[n] = last.dx /\ wr[n] = e.w /\ wq[n] = last.w
    BY <1>k, <1>d, <1>w, <2>1, <2>2, <2>4
  <2>6. Total(kr) = Total(kq)
    <3>1. \A i \in 1 .. n - 1 : kr[i] = kq[i] BY <1>k, <2>1
    <3>2. PICK a, b : a = kq[n] /\ b = kr[n] OBVIOUS
    <3>3. kq \in Seq(Int) /\ kr \in Seq(Int) /\ Len(kq) = n /\ Len(kr) = n BY <1>k, <2>1
    <3>4. Total(kr) = Total(kq) - a + b BY <2>1, <3>1, <3>2, <3>3, TotalSwap
    <3>5. Total(kq) \in Int /\ a = 0 /\ b = 0 BY <1>k, <2>5, <3>2, TotalFact
    <3> QED BY <3>4, <3>5
  <2>7. Total(dr) = Total(dq) - last.dx + e.dx
    <3>1. \A i \in 1 .. n - 1 : dr[i] = dq[i] BY <1>d, <2>1
    <3>2. PICK a, b : a = dq[n] /\ b = dr[n] OBVIOUS
    <3>3. dq \in Seq(Int) /\ dr \in Seq(Int) /\ Len(dq) = n /\ Len(dr) = n BY <1>d, <2>1
    <3>4. Total(dr) = Total(dq) - a + b BY <2>1, <3>1, <3>2, <3>3, TotalSwap
    <3> QED BY <2>5, <3>2, <3>4
  <2>8. Total(wr) = Total(wq) - last.w + e.w
    <3>1. \A i \in 1 .. n - 1 : wr[i] = wq[i] BY <1>w, <2>1
    <3>2. PICK a, b : a = wq[n] /\ b = wr[n] OBVIOUS
    <3>3. wq \in Seq(Int) /\ wr \in Seq(Int) /\ Len(wq) = n /\ Len(wr) = n BY <1>w, <2>1
    <3>4. Total(wr) = Total(wq) - a + b BY <2>1, <3>1, <3>2, <3>3, TotalSwap
    <3> QED BY <2>5, <3>2, <3>4
  <2>9. /\ Total(kq) \in Int /\ Total(dq) \in Int /\ Total(wq) \in Int
        /\ ev.dx \in Int /\ last.dx \in Int /\ ev.w \in Int /\ last.w \in Int
    BY <1>k, <1>d, <1>w, <2>3, TotalFact, EventFact
  <2> QED BY <2>3, <2>4, <2>6, <2>7, <2>8, <2>9
<1> QED BY <1>1, <1>4, <1>8, <1>9, PushShape

-----------------------------------------------------------------------------
(* Where the pointer is.                                                   *)

OnlyKeys(q) == \A i \in 1 .. Len(q) : ~IsMouse(q[i])
NewestAt(q, i) == i \in 1 .. Len(q) /\ IsMouse(q[i]) /\ \A j \in i + 1 .. Len(q) : ~IsMouse(q[j])

\* The newest mouse event there was tells the position x and the buttons b.
Newest(q, seq, x, b) ==
    /\ \A i : NewestAt(q, i) => q[i].x = x /\ q[i].buttons = b
    /\ OnlyKeys(q) /\ seq # <<>> => Head(seq) = [x |-> x, buttons |-> b]

\* The flag `buried' after a push.
Buries(q, ev) ==
    Full(q, ev) /\ IsMouse(Head(q)) /\ \A i \in 2 .. Len(q) : ~IsMouse(q[i])

LEMMA PushMouse ==
    ASSUME NEW q \in Seq(Events), Len(q) < ROOT_INPUT_QUEUE_SIZE, NEW ev \in MouseEvents, NEW seq
    PROVE  Newest(queue_push(q, ev), seq, ev.x, ev.buttons)
<1>1. PICK r : r = queue_push(q, ev) OBVIOUS
<1>2. ev \in Events BY DEF Events
<1>3. r \in Seq(Events) BY <1>1, <1>2, PushShape
<1>4. PICK n \in Nat : n = Len(r) BY <1>3
<1>5. /\ n > 0 /\ IsMouse(r[n]) /\ r[n].x = ev.x /\ r[n].buttons = ev.buttons
  <2>1. CASE Added(q, r, ev) \/ Shortened(q, r, ev) BY <1>4, <2>1, EventFact DEF Added, Shortened
  <2>2. ASSUME q # <<>>, NEW e \in MouseEvents, Coalesce(Last(q), ev) = <<e>>, Joined(q, r, e)
        PROVE  n > 0 /\ IsMouse(r[n]) /\ r[n].x = ev.x /\ r[n].buttons = ev.buttons
    <3>1. n > 0 /\ n = Len(q) /\ r[n] = e BY <1>4, <2>2 DEF Joined
    <3>2. PICK last \in Events : last = Last(q) /\ last = q[n] BY <3>1 DEF Last
    <3>3. Coalesce(last, ev) # <<last, ev>> BY <2>2, <3>2, OneNotTwo
    <3>4. e.x = ev.x /\ e.buttons = ev.buttons BY <1>2, <2>2, <3>2, <3>3, CoalesceFact
    <3> QED BY <2>2, <3>1, <3>4, EventFact
  <2> QED BY <1>1, <1>2, <2>1, <2>2, PushShape
<1>6. \A i : NewestAt(r, i) => i = n
  <2>1. ASSUME NEW i, NewestAt(r, i) PROVE i = n
    <3>1. i \in 1 .. n /\ \A j \in i + 1 .. n : ~IsMouse(r[j]) BY <1>4, <2>1 DEF NewestAt
    <3> QED BY <1>5, <3>1
  <2> QED BY <2>1
<1>7. ~OnlyKeys(r) BY <1>4, <1>5 DEF OnlyKeys
<1> QED BY <1>1, <1>5, <1>6, <1>7 DEF Newest

LEMMA PushKey ==
    ASSUME NEW q \in Seq(Events), Len(q) < ROOT_INPUT_QUEUE_SIZE, NEW ev \in KeyEvents, NEW seq,
           NEW x, NEW b, Newest(q, seq, x, b), ~Buries(q, ev)
    PROVE  Newest(queue_push(q, ev), seq, x, b)
<1>1. PICK r : r = queue_push(q, ev) OBVIOUS
<1>2. ev \in Events /\ ~IsMouse(ev) BY EventFact DEF Events
<1>3. r \in Seq(Events) BY <1>1, <1>2, PushShape
<1>4. PICK n \in Nat : n = Len(q) OBVIOUS
<1>5. ASSUME q # <<>>, NEW e \in MouseEvents, Coalesce(Last(q), ev) = <<e>>, Joined(q, r, e)
      PROVE  FALSE
  <2>1. PICK last \in Events : last = Last(q) BY <1>5 DEF Joined, Last
  <2>2. Coalesce(last, ev) # <<last, ev>> BY <1>5, <2>1, OneNotTwo
  <2>3. ev \in MouseEvents BY <1>2, <2>2, CoalesceFact
  <2> QED BY <1>2, <2>3, EventFact
<1>6. CASE Added(q, r, ev)
  <2>1. Len(r) = n + 1 /\ (\A i \in 1 .. n : r[i] = q[i]) /\ r[n + 1] = ev BY <1>4, <1>6 DEF Added
  <2>2. ASSUME NEW i, NewestAt(r, i) PROVE r[i].x = x /\ r[i].buttons = b
    <3>1. i \in 1 .. n + 1 /\ IsMouse(r[i]) /\ \A j \in i + 1 .. n + 1 : ~IsMouse(r[j])
      BY <2>1, <2>2 DEF NewestAt
    <3>2. i \in 1 .. n BY <1>2, <2>1, <3>1
    <3>3. \A j \in i + 1 .. n : ~IsMouse(q[j]) BY <2>1, <3>1, <3>2
    <3>4. NewestAt(q, i) BY <1>4, <2>1, <3>1, <3>2, <3>3 DEF NewestAt
    <3> QED BY <2>1, <3>2, <3>4 DEF Newest
  <2>3. OnlyKeys(r) => OnlyKeys(q) BY <1>4, <2>1 DEF OnlyKeys
  <2> QED BY <1>1, <2>2, <2>3 DEF Newest
<1>7. CASE q # <<>> /\ Shortened(q, r, ev) /\ Full(q, ev)
  <2>1. n > 0 /\ Len(r) = n /\ (\A i \in 1 .. n - 1 : r[i] = q[i + 1]) /\ r[n] = ev
    BY <1>4, <1>7 DEF Shortened
  <2>2. ASSUME NEW i, NewestAt(r, i) PROVE r[i].x = x /\ r[i].buttons = b
    <3>1. i \in 1 .. n /\ IsMouse(r[i]) /\ \A j \in i + 1 .. n : ~IsMouse(r[j])
      BY <2>1, <2>2 DEF NewestAt
    <3>2. i \in 1 .. n - 1 BY <1>2, <2>1, <3>1
    <3>3. \A j \in i + 2 .. n : ~IsMouse(q[j])
      <4>1. ASSUME NEW j \in i + 2 .. n PROVE ~IsMouse(q[j])
        <5>1. j - 1 \in i + 1 .. n /\ j - 1 \in 1 .. n - 1 /\ (j - 1) + 1 = j BY <3>2, <4>1
        <5>2. r[j - 1] = q[j] BY <2>1, <5>1
        <5> QED BY <3>1, <5>1, <5>2
      <4> QED BY <4>1
    <3>4. (i + 1) + 1 = i + 2 /\ i + 1 \in 1 .. n BY <3>2
    <3>5. NewestAt(q, i + 1) BY <1>4, <2>1, <3>1, <3>2, <3>3, <3>4 DEF NewestAt
    <3> QED BY <2>1, <3>2, <3>5 DEF Newest
  <2>3. OnlyKeys(r) => OnlyKeys(q)
    <3> SUFFICES ASSUME OnlyKeys(r) PROVE OnlyKeys(q) OBVIOUS
    <3>1. \A i \in 2 .. n : ~IsMouse(q[i])
      <4>1. ASSUME NEW i \in 2 .. n PROVE ~IsMouse(q[i])
        <5>1. i - 1 \in 1 .. n - 1 /\ i - 1 \in 1 .. n /\ (i - 1) + 1 = i BY <4>1
        <5>2. r[i - 1] = q[i] BY <2>1, <5>1
        <5> QED BY <2>1, <5>1, <5>2 DEF OnlyKeys
      <4> QED BY <4>1
    <3>2. ~IsMouse(Head(q)) BY <1>4, <1>7, <3>1 DEF Buries
    <3>3. Head(q) = q[1] BY <1>7
    <3>4. \A i \in 1 .. n : i = 1 \/ i \in 2 .. n OBVIOUS
    <3> QED BY <1>4, <3>1, <3>2, <3>3, <3>4 DEF OnlyKeys
  <2> QED BY <1>1, <2>2, <2>3 DEF Newest
<1> QED BY <1>1, <1>2, <1>5, <1>6, <1>7, PushShape


-----------------------------------------------------------------------------
(* What a push does to the queue and its flags.                            *)

Lists == {s \in [q : Seq(Events), overflow : BOOLEAN, buried : BOOLEAN, clipped : BOOLEAN] :
            Len(s.q) < ROOT_INPUT_QUEUE_SIZE}

\* From s to r events were pushed that carry k keys, motion d and turns t.
Carried(s, r, k, d, t) ==
    ~r.overflow =>
      /\ ~s.overflow
      /\ Total(Strokes(r.q)) = Total(Strokes(s.q)) + k
      /\ Total(Motions(r.q)) = Total(Motions(s.q)) + d
      /\ ~r.clipped => ~s.clipped /\ Total(Turns(r.q)) = Total(Turns(s.q)) + t

\* Unless the newest mouse event was pushed out, it tells x and b.
Told(s, seq, x, b) == ~s.buried => Newest(s.q, seq, x, b)

LEMMA PushedFact ==
    ASSUME NEW s \in Lists, NEW ev \in Events
    PROVE  LET r == Pushed(s, ev)
           IN  /\ r \in Lists /\ r.q = queue_push(s.q, ev)
               /\ r.overflow = (s.overflow \/ Full(s.q, ev))
               /\ r.clipped = (s.clipped \/ TurnClipped(s.q, ev))
               /\ IsMouse(ev) => ~r.buried
               /\ ~IsMouse(ev) /\ ~r.buried => ~s.buried /\ ~Buries(s.q, ev)
<1>1. PICK q : q = s.q OBVIOUS
<1>2. q \in Seq(Events) /\ Len(q) < ROOT_INPUT_QUEUE_SIZE BY <1>1 DEF Lists
<1>3. PICK c : c = queue_push(q, ev) OBVIOUS
<1>4. c \in Seq(Events) /\ Len(c) < ROOT_INPUT_QUEUE_SIZE BY <1>2, <1>3, PushShape
<1>5. PICK f \in BOOLEAN : f = Full(q, ev) BY DEF Full
<1>6. PICK o \in BOOLEAN : o = (\A i \in 2 .. Len(q) : ~IsMouse(q[i])) OBVIOUS
<1>7. PICK g \in BOOLEAN : g = TurnClipped(q, ev) BY DEF TurnClipped
<1>8. PICK h \in BOOLEAN : h = IsMouse(Head(q)) BY DEF IsMouse
<1>9. PICK m \in BOOLEAN : m = IsMouse(ev) BY DEF IsMouse
<1>10. Pushed(s, ev) = [q |-> c, overflow |-> s.overflow \/ f, buried |-> ~m /\ (s.buried \/ (f /\ h /\ o)),
                        clipped |-> s.clipped \/ g]
  <2>1. f = (Len(q) = ROOT_INPUT_QUEUE_SIZE - 1 /\ Len(Coalesce(Last(q), ev)) = 2) BY <1>5, Zenon DEF Full
  <2>2. g = ((q # <<>> /\ ev.t = "WHEEL" /\ Last(q).t = "WHEEL")
             /\ Last(q).w + ev.w \notin -WHEEL_LIMIT .. WHEEL_LIMIT)
    BY <1>7 DEF TurnClipped
  <2> QED BY <1>1, <1>3, <1>6, <1>8, <1>9, <2>1, <2>2, Zenon DEF Pushed
<1>11. PICK r : r = Pushed(s, ev) OBVIOUS
<1>12. s.overflow \in BOOLEAN /\ s.buried \in BOOLEAN /\ s.clipped \in BOOLEAN BY DEF Lists
<1>18. PICK x \in BOOLEAN, y \in BOOLEAN, z \in BOOLEAN :
         /\ x = (s.overflow \/ f) /\ z = (s.clipped \/ g)
         /\ y = (~m /\ (s.buried \/ (f /\ h /\ o)))
  BY <1>12
<1>19. r = [q |-> c, overflow |-> x, buried |-> y, clipped |-> z] BY <1>10, <1>11, <1>18, Zenon
<1>20. r.q = c /\ r.overflow = x /\ r.buried = y /\ r.clipped = z BY <1>19
<1>13. /\ r.q = c /\ r.overflow = (s.overflow \/ f) /\ r.clipped = (s.clipped \/ g)
       /\ r.buried = (~m /\ (s.buried \/ (f /\ h /\ o)))
  BY <1>18, <1>20, Zenon
<1>14. r \in Lists BY <1>4, <1>19 DEF Lists
<1>15. Buries(q, ev) = (f /\ h /\ o) BY <1>5, <1>6, <1>8, Zenon DEF Buries
<1>16. (~m /\ ~r.buried) => ~s.buried /\ ~Buries(q, ev) BY <1>12, <1>13, <1>15
<1>17. m => ~r.buried BY <1>12, <1>13
<1> QED BY <1>1, <1>3, <1>5, <1>7, <1>9, <1>11, <1>13, <1>14, <1>16, <1>17, Zenon

LEMMA PushCarries ==
    ASSUME NEW s \in Lists, NEW ev \in Events
    PROVE  Carried(s, Pushed(s, ev), Stroke(ev), Motion(ev), Turn(ev))
<1>1. PICK r : r = Pushed(s, ev) OBVIOUS
<1>2. PICK q : q = s.q OBVIOUS
<1>3. q \in Seq(Events) /\ Len(q) < ROOT_INPUT_QUEUE_SIZE BY <1>2 DEF Lists
<1>4. r.q = queue_push(q, ev) /\ (~r.overflow => ~s.overflow /\ ~Full(q, ev))
      /\ (~r.clipped => ~s.clipped /\ ~TurnClipped(q, ev))
  BY <1>1, <1>2, PushedFact, Zenon
<1> QED BY <1>1, <1>2, <1>3, <1>4, PushSums, Zenon DEF Carried

LEMMA PushTells ==
    ASSUME NEW s \in Lists, NEW ev \in MouseEvents, NEW seq
    PROVE  Told(Pushed(s, ev), seq, ev.x, ev.buttons)
<1>1. ev \in Events BY DEF Events
<1>2. s.q \in Seq(Events) /\ Len(s.q) < ROOT_INPUT_QUEUE_SIZE BY DEF Lists
<1>3. Newest(queue_push(s.q, ev), seq, ev.x, ev.buttons) BY <1>2, PushMouse
<1> QED BY <1>1, <1>3, PushedFact, Zenon DEF Told

LEMMA PushKeeps ==
    ASSUME NEW s \in Lists, NEW ev \in KeyEvents, NEW seq, NEW x, NEW b, Told(s, seq, x, b)
    PROVE  Told(Pushed(s, ev), seq, x, b)
<1>1. ev \in Events /\ ~IsMouse(ev) BY EventFact DEF Events
<1>2. s.q \in Seq(Events) /\ Len(s.q) < ROOT_INPUT_QUEUE_SIZE BY DEF Lists
<1> SUFFICES ASSUME ~Pushed(s, ev).buried PROVE Newest(Pushed(s, ev).q, seq, x, b) BY DEF Told
<1>3. ~s.buried /\ ~Buries(s.q, ev) /\ Pushed(s, ev).q = queue_push(s.q, ev) BY <1>1, PushedFact, Zenon
<1>4. Newest(s.q, seq, x, b) BY <1>3 DEF Told
<1> QED BY <1>2, <1>3, <1>4, PushKey

LEMMA SumsInt ==
    ASSUME NEW s \in Lists
    PROVE  Total(Strokes(s.q)) \in Int /\ Total(Motions(s.q)) \in Int /\ Total(Turns(s.q)) \in Int
<1>1. PICK q \in Seq(Events) : q = s.q BY DEF Lists
<1>2. Strokes(q) \in Seq(Int) /\ Motions(q) \in Seq(Int) /\ Turns(q) \in Seq(Int) BY WeighFact
<1>3. Total(Strokes(q)) \in Int /\ Total(Motions(q)) \in Int /\ Total(Turns(q)) \in Int
  BY <1>2, TotalFact
<1> QED BY <1>1, <1>3

LEMMA CarriedTwice ==
    ASSUME NEW a \in Lists, NEW b \in Lists, NEW c,
           NEW k \in Int, NEW d \in Int, NEW t \in Int, NEW l \in Int, NEW e \in Int, NEW u \in Int,
           Carried(a, b, k, d, t), Carried(b, c, l, e, u)
    PROVE  Carried(a, c, k + l, d + e, t + u)
<1> SUFFICES ASSUME ~c.overflow
             PROVE  /\ ~a.overflow
                    /\ Total(Strokes(c.q)) = Total(Strokes(a.q)) + (k + l)
                    /\ Total(Motions(c.q)) = Total(Motions(a.q)) + (d + e)
                    /\ ~c.clipped => ~a.clipped /\ Total(Turns(c.q)) = Total(Turns(a.q)) + (t + u)
  BY DEF Carried
<1>1. PICK x, y, z : x = Total(Strokes(a.q)) /\ y = Total(Motions(a.q)) /\ z = Total(Turns(a.q)) OBVIOUS
<1>2. x \in Int /\ y \in Int /\ z \in Int BY <1>1, SumsInt
<1>3. ~b.overflow /\ ~a.overflow BY DEF Carried
<1>4. Total(Strokes(c.q)) = (x + k) + l /\ Total(Motions(c.q)) = (y + d) + e BY <1>1, <1>3, Zenon DEF Carried
<1>5. ~c.clipped => ~a.clipped /\ Total(Turns(c.q)) = (z + t) + u BY <1>1, <1>3, Zenon DEF Carried
<1> QED BY <1>1, <1>2, <1>3, <1>4, <1>5

LEMMA CarriedNone ==
    ASSUME NEW s \in Lists
    PROVE  Carried(s, s, 0, 0, 0)
  BY SumsInt DEF Carried


-----------------------------------------------------------------------------
(* What a packet does.                                                     *)

MouseFields == {"ready", "size", "bytes", "step", "x", "buttons", "press", "last"}
PointerTypes(m) == DOMAIN m = MouseFields /\ m.x \in 0 .. MOUSE_MAX_X /\ m.buttons \in SUBSET Buttons

\* Position, buttons and protocol are the same.
AlikeEvent(m, o) ==
    /\ DOMAIN o = DOMAIN m /\ o.ready = m.ready /\ o.size = m.size /\ o.bytes = m.bytes
    /\ o.step = m.step /\ o.x = m.x /\ o.buttons = m.buttons

LEMMA MouseEventFact ==
    ASSUME NEW m, PointerTypes(m), NEW t \in Kinds
    PROVE  /\ MouseEvent(t, m) \in MouseEvents
           /\ \A b \in Buttons : LET e == [MouseEvent(t, m) EXCEPT !.button = b]
                                 IN  e \in MouseEvents /\ e.x = m.x /\ e.buttons = m.buttons
                                     /\ Stroke(e) = 0 /\ Motion(e) = 0 /\ Turn(e) = 0
<1>1. m.x \in Int /\ m.buttons \in SUBSET Buttons BY Limits DEF PointerTypes
<1>2. PICK e : e = MouseEvent(t, m) OBVIOUS
<1>3. e = [t |-> t, x |-> m.x, dx |-> 0, w |-> 0, buttons |-> m.buttons, button |-> 0]
  BY <1>2 DEF MouseEvent
<1>4. e \in MouseEvents BY <1>1, <1>3 DEF MouseEvents
<1>5. ASSUME NEW b \in Buttons
      PROVE  LET o == [e EXCEPT !.button = b]
             IN  o \in MouseEvents /\ o.x = m.x /\ o.buttons = m.buttons
                 /\ Stroke(o) = 0 /\ Motion(o) = 0 /\ Turn(o) = 0
  <2>1. PICK o : o = [e EXCEPT !.button = b] OBVIOUS
  <2>2. o = [t |-> t, x |-> m.x, dx |-> 0, w |-> 0, buttons |-> m.buttons, button |-> b] BY <1>3, <2>1
  <2>3. o \in MouseEvents BY <1>1, <2>2 DEF MouseEvents
  <2>4. Stroke(o) = 0 /\ Motion(o) = 0 /\ Turn(o) = 0 BY <2>2, <2>3, EventFact DEF Stroke, Motion, Turn
  <2> QED BY <2>1, <2>2, <2>3, <2>4
<1> QED BY <1>2, <1>4, <1>5

\* One event of a button.
LEMMA ButtonEvent ==
    ASSUME NEW m, PointerTypes(m), NEW t \in Kinds, NEW b \in Buttons, NEW s \in Lists
    PROVE  LET r == Pushed(s, [MouseEvent(t, m) EXCEPT !.button = b])
           IN  r \in Lists /\ Carried(s, r, 0, 0, 0) /\ \A seq : Told(r, seq, m.x, m.buttons)
<1>1. PICK e : e = [MouseEvent(t, m) EXCEPT !.button = b] OBVIOUS
<1>2. e \in MouseEvents /\ e.x = m.x /\ e.buttons = m.buttons
      /\ Stroke(e) = 0 /\ Motion(e) = 0 /\ Turn(e) = 0
  BY <1>1, MouseEventFact
<1>3. e \in Events BY <1>2 DEF Events
<1>4. PICK r : r = Pushed(s, e) OBVIOUS
<1>5. r \in Lists BY <1>3, <1>4, PushedFact, Zenon
<1>6. Carried(s, r, 0, 0, 0) BY <1>2, <1>3, <1>4, PushCarries, Zenon
<1>7. \A seq : Told(r, seq, m.x, m.buttons) BY <1>2, <1>4, PushTells, Zenon
<1> QED BY <1>1, <1>4, <1>5, <1>6, <1>7, Zenon

LEMMA EmitFact ==
    ASSUME NEW m, PointerTypes(m), NEW s \in Lists, NEW b \in Buttons
    PROVE  LET r == emit_mouse_button([m |-> m, s |-> s], b)
           IN  /\ AlikeEvent(m, r.m) /\ r.s \in Lists /\ Carried(s, r.s, 0, 0, 0)
               /\ \A seq : Told(r.s, seq, m.x, m.buttons)
<1> DEFINE Event(t) == [MouseEvent(t, m) EXCEPT !.button = b]
<1>0. PICK in : in = [m |-> m, s |-> s] OBVIOUS
<1>1. in.m = m /\ in.s = s BY <1>0
<1>2. PICK pressed : pressed = (b \in m.buttons) OBVIOUS
<1>3. PICK click \in BOOLEAN : click = (~pressed /\ Abs(m.x - m.press[b]) <= CLICK_DISTANCE) OBVIOUS
<1>4. PICK double \in BOOLEAN :
        double = (click /\ m.last[b].valid /\ m.last[b].recent
                  /\ Abs(m.x - m.last[b].x) <= ROOT_DOUBLE_CLICK_DISTANCE)
  OBVIOUS
<1>5. PICK t : t = IF pressed THEN "BUTTON_DOWN" ELSE "BUTTON_UP" OBVIOUS
<1>6. PICK s1 : s1 = Pushed(s, Event(t)) OBVIOUS
<1>7. PICK s2 : s2 = IF click THEN Pushed(s1, Event("CLICK")) ELSE s1 OBVIOUS
<1>8. PICK s3 : s3 = IF double THEN Pushed(s2, Event("DOUBLE_CLICK")) ELSE s2 OBVIOUS
<1>9. PICK press : press = [m.press EXCEPT ![b] = IF pressed THEN m.x ELSE @] OBVIOUS
<1>10. PICK last : last = IF click THEN LastClick(m, b, double) ELSE m.last OBVIOUS
<1>11. PICK r : r = emit_mouse_button(in, b) OBVIOUS
<1>12. r.s = s3 /\ r.m = [m EXCEPT !.press = press, !.last = last]
  <2>1. r = [m |-> [m EXCEPT !.press[b] = IF pressed THEN m.x ELSE @,
                             !.last = IF click THEN LastClick(m, b, double) ELSE @],
             s |-> s3]
    BY <1>1, <1>2, <1>3, <1>4, <1>5, <1>6, <1>7, <1>8, <1>11, Zenon DEF emit_mouse_button
  <2>2. PICK o : o = [m EXCEPT !.press[b] = IF pressed THEN m.x ELSE @,
                              !.last = IF click THEN LastClick(m, b, double) ELSE @]
    OBVIOUS
  <2>3. o = [m EXCEPT !.press = press, !.last = last] BY <1>9, <1>10, <2>2 DEF PointerTypes, MouseFields
  <2> QED BY <2>1, <2>2, <2>3
<1>13. AlikeEvent(m, r.m) BY <1>12 DEF AlikeEvent, PointerTypes, MouseFields
<1>14. t \in Kinds /\ "CLICK" \in Kinds /\ "DOUBLE_CLICK" \in Kinds BY <1>5 DEF Kinds
<1>15. s1 \in Lists /\ Carried(s, s1, 0, 0, 0) /\ \A seq : Told(s1, seq, m.x, m.buttons)
  BY <1>6, <1>14, ButtonEvent
<1>16. s2 \in Lists /\ Carried(s, s2, 0, 0, 0) /\ \A seq : Told(s2, seq, m.x, m.buttons)
  <2>1. CASE ~click BY <1>7, <1>15, <2>1
  <2>2. CASE click
    <3>1. s2 = Pushed(s1, Event("CLICK")) BY <1>7, <2>2
    <3>2. s2 \in Lists /\ Carried(s1, s2, 0, 0, 0) /\ \A seq : Told(s2, seq, m.x, m.buttons)
      BY <1>14, <1>15, <3>1, ButtonEvent
    <3>3. Carried(s, s2, 0 + 0, 0 + 0, 0 + 0) BY <1>15, <3>2, CarriedTwice
    <3> QED BY <3>2, <3>3
  <2> QED BY <2>1, <2>2
<1>17. s3 \in Lists /\ Carried(s, s3, 0, 0, 0) /\ \A seq : Told(s3, seq, m.x, m.buttons)
  <2>1. CASE ~double BY <1>8, <1>16, <2>1
  <2>2. CASE double
    <3>1. s3 = Pushed(s2, Event("DOUBLE_CLICK")) BY <1>8, <2>2
    <3>2. s3 \in Lists /\ Carried(s2, s3, 0, 0, 0) /\ \A seq : Told(s3, seq, m.x, m.buttons)
      BY <1>14, <1>16, <3>1, ButtonEvent
    <3>3. Carried(s, s3, 0 + 0, 0 + 0, 0 + 0) BY <1>16, <3>2, CarriedTwice
    <3> QED BY <3>2, <3>3
  <2> QED BY <2>1, <2>2
<1> QED BY <1>0, <1>11, <1>12, <1>13, <1>17


LEMMA ClampFact ==
    ASSUME NEW n \in Int
    PROVE  Clamp(n) \in 0 .. MOUSE_MAX_X /\ (n \in 0 .. MOUSE_MAX_X => Clamp(n) = n)
<1>1. PICK j \in Int : j = Min({MOUSE_MAX_X, n}) BY Limits, MaxMinFact
<1>2. j = IF MOUSE_MAX_X <= n THEN MOUSE_MAX_X ELSE n BY <1>1, Limits, MaxMinFact
<1>3. Clamp(n) = Max({0, j}) BY <1>1 DEF Clamp
<1>4. Clamp(n) = IF 0 >= j THEN 0 ELSE j BY <1>3, MaxMinFact
<1> QED BY <1>2, <1>4, Limits

\* The way of a packet, its buttons and its wheel.
Way(p) == IF p[1] >= 64 THEN 0 ELSE Signed(p[2])
Down(p) == {b \in Buttons : Bit(p[1], b)}
Rolled(m, p) == IF m.size = 4 THEN Signed(p[4]) ELSE 0

ByteValues == 0 .. 255

LEMMA SignedFact ==
    ASSUME NEW byte \in 0 .. 255
    PROVE  Signed(byte) \in Int
<1>1. byte \in Int /\ byte - 256 \in Int OBVIOUS
<1> QED BY <1>1 DEF Signed

LEMMA PacketFact ==
    ASSUME NEW m, PointerTypes(m), m.size \in {3, 4}, NEW s \in Lists,
           NEW p \in Seq(ByteValues), Len(p) = m.size, NEW seq, Told(s, seq, m.x, m.buttons)
    PROVE  LET r == Packet(m, s, p)
           IN  /\ PointerTypes(r.m) /\ r.m.ready = m.ready /\ r.m.size = m.size
               /\ r.m.bytes = m.bytes /\ r.m.step = m.step
               /\ r.m.buttons = Down(p)
               /\ r.s \in Lists /\ Carried(s, r.s, 0, Way(p), Rolled(m, p))
               /\ Told(r.s, seq, r.m.x, r.m.buttons)
               /\ Way(p) \in Int /\ Rolled(m, p) \in Int
<1>1. p[1] \in 0 .. 255 /\ p[2] \in 0 .. 255 /\ (m.size = 4 => p[4] \in 0 .. 255)
  <2>1. PICK n \in {3, 4} : n = m.size OBVIOUS
  <2>2. Len(p) = n /\ 1 \in 1 .. n /\ 2 \in 1 .. n /\ (n = 4 => 4 \in 1 .. n) BY <2>1
  <2>3. \A i \in 1 .. n : p[i] \in 0 .. 255
    <3>1. \A i \in 1 .. n : p[i] \in ByteValues BY <2>2
    <3> QED BY <3>1 DEF ByteValues
  <2>4. p[1] \in 0 .. 255 /\ p[2] \in 0 .. 255 BY <2>2, <2>3
  <2>5. n = 4 => p[4] \in 0 .. 255 BY <2>2, <2>3
  <2> QED BY <2>1, <2>4, <2>5
<1>2. PICK dx \in Int : dx = Way(p)
  <2>1. Signed(p[2]) \in Int BY <1>1, SignedFact
  <2>2. Way(p) \in Int BY <2>1 DEF Way
  <2> QED BY <2>2
<1>3. PICK wheel \in Int : wheel = Rolled(m, p)
  <2>1. m.size = 4 => Signed(p[4]) \in Int BY <1>1, SignedFact
  <2>2. Rolled(m, p) \in Int BY <2>1 DEF Rolled
  <2> QED BY <2>2
<1>4. PICK new : new = {b \in Buttons : Bit(p[1], b)} OBVIOUS
<1>5. new \in SUBSET Buttons BY <1>4
<1>6. PICK s1 : s1 = IF wheel # 0 THEN Pushed(s, [MouseEvent("WHEEL", m) EXCEPT !.w = wheel]) ELSE s OBVIOUS
<1>7. PICK moved : moved = [m EXCEPT !.x = Clamp(@ + dx)] OBVIOUS
<1>8. PICK t : t = IF new = {} THEN "MOVE" ELSE "DRAG" OBVIOUS
<1>9. PICK s2 : s2 = IF dx # 0 THEN Pushed(s1, [MouseEvent(t, moved) EXCEPT !.dx = dx, !.buttons = new])
                     ELSE s1
  OBVIOUS
<1>10. PICK m2 : m2 = [moved EXCEPT !.buttons = new] OBVIOUS
<1>11. PICK r2 : r2 = [m |-> m2, s |-> s2] OBVIOUS
<1>12. PICK r3 : r3 = IF (1 \in m.buttons) = (1 \in new) THEN r2 ELSE emit_mouse_button(r2, 1) OBVIOUS
<1>13. PICK r4 : r4 = IF (2 \in m.buttons) = (2 \in new) THEN r3 ELSE emit_mouse_button(r3, 2) OBVIOUS
<1>14. r4 = Packet(m, s, p)
  BY <1>2, <1>3, <1>4, <1>6, <1>7, <1>8, <1>9, <1>10, <1>11, <1>12, <1>13, Zenon DEF Packet, Way, Rolled
<1>15. m.x \in 0 .. MOUSE_MAX_X /\ m.x \in Int /\ m.buttons \in SUBSET Buttons /\ DOMAIN m = MouseFields
  BY Limits DEF PointerTypes
<1>16. s1 \in Lists /\ Carried(s, s1, 0, 0, wheel) /\ Told(s1, seq, m.x, m.buttons)
  <2>1. CASE wheel = 0 BY <1>6, <2>1, CarriedNone
  <2>2. CASE wheel # 0
    <3>1. PICK e : e = [MouseEvent("WHEEL", m) EXCEPT !.w = wheel] OBVIOUS
    <3>2. e = [t |-> "WHEEL", x |-> m.x, dx |-> 0, w |-> wheel, buttons |-> m.buttons, button |-> 0]
      BY <3>1 DEF MouseEvent
    <3>3. e \in MouseEvents /\ e.dx = 0 /\ e.w = wheel /\ e.x = m.x /\ e.buttons = m.buttons
      BY <1>15, <3>2 DEF MouseEvents, Kinds
    <3>4. e \in Events /\ Stroke(e) = 0 /\ Motion(e) = 0 /\ Turn(e) = wheel
      BY <3>3, EventFact DEF Stroke, Motion, Turn, Events
    <3>5. s1 = Pushed(s, e) BY <1>6, <2>2, <3>1
    <3>6. s1 \in Lists BY <3>4, <3>5, PushedFact, Zenon
    <3>7. Carried(s, s1, 0, 0, wheel) BY <3>4, <3>5, PushCarries, Zenon
    <3>8. Told(s1, seq, m.x, m.buttons) BY <3>3, <3>5, PushTells, Zenon
    <3> QED BY <3>6, <3>7, <3>8
  <2> QED BY <2>1, <2>2
<1>17. PICK x : x = Clamp(m.x + dx) OBVIOUS
<1>18. x \in 0 .. MOUSE_MAX_X /\ x \in Int /\ (dx = 0 => x = m.x)
  <2>1. PICK n \in Int : n = m.x + dx BY <1>15
  <2>2. x \in 0 .. MOUSE_MAX_X /\ (n \in 0 .. MOUSE_MAX_X => x = n) BY <1>17, <2>1, ClampFact
  <2> QED BY <1>15, <2>1, <2>2, Limits
<1>19. moved = [m EXCEPT !.x = x] BY <1>7, <1>17
<1>20. /\ DOMAIN m2 = MouseFields /\ m2.x = x /\ m2.buttons = new /\ m2.ready = m.ready
       /\ m2.size = m.size /\ m2.bytes = m.bytes /\ m2.step = m.step
  BY <1>10, <1>15, <1>19 DEF MouseFields
<1>21. PointerTypes(m2) BY <1>5, <1>18, <1>20 DEF PointerTypes
<1>22. s2 \in Lists /\ Carried(s, s2, 0, dx, wheel)
       /\ (IF dx # 0 THEN Told(s2, seq, x, new) ELSE Told(s2, seq, x, m.buttons))
  <2>1. CASE dx = 0 BY <1>9, <1>16, <1>18, <2>1
  <2>2. CASE dx # 0
    <3>1. PICK e : e = [MouseEvent(t, moved) EXCEPT !.dx = dx, !.buttons = new] OBVIOUS
    <3>0. moved.x = x BY <1>15, <1>19 DEF MouseFields
    <3>2. e = [t |-> t, x |-> x, dx |-> dx, w |-> 0, buttons |-> new, button |-> 0]
      BY <3>0, <3>1 DEF MouseEvent
    <3>3. e \in MouseEvents /\ e.dx = dx /\ e.w = 0 /\ e.x = x /\ e.buttons = new
      BY <1>5, <1>8, <1>18, <3>2 DEF MouseEvents, Kinds
    <3>4. e \in Events /\ Stroke(e) = 0 /\ Motion(e) = dx /\ Turn(e) = 0
      BY <3>3, EventFact DEF Stroke, Motion, Turn, Events
    <3>5. s2 = Pushed(s1, e) BY <1>9, <2>2, <3>1
    <3>6. s2 \in Lists BY <1>16, <3>4, <3>5, PushedFact, Zenon
    <3>7. Carried(s1, s2, 0, dx, 0) BY <1>16, <3>4, <3>5, PushCarries, Zenon
    <3>8. Told(s2, seq, x, new) BY <1>16, <3>3, <3>5, PushTells, Zenon
    <3>9. Carried(s, s2, 0 + 0, 0 + dx, wheel + 0) BY <1>16, <3>6, <3>7, CarriedTwice
    <3> QED BY <2>2, <3>6, <3>8, <3>9
  <2> QED BY <2>1, <2>2
<1>23. ASSUME NEW r, NEW o, NEW l \in Lists, NEW b \in Buttons, r = [m |-> o, s |-> l], PointerTypes(o), AlikeEvent(m2, o),
              Carried(s, l, 0, dx, wheel)
       PROVE  LET e == emit_mouse_button(r, b)
              IN  /\ e = [m |-> e.m, s |-> e.s] /\ PointerTypes(e.m) /\ AlikeEvent(m2, e.m)
                  /\ e.s \in Lists /\ Carried(s, e.s, 0, dx, wheel) /\ Told(e.s, seq, x, new)
  <2>1. PICK e : e = emit_mouse_button(r, b) OBVIOUS
  <2>2. /\ AlikeEvent(o, e.m) /\ e.s \in Lists /\ Carried(l, e.s, 0, 0, 0)
        /\ \A z : Told(e.s, z, o.x, o.buttons)
    BY <1>23, <2>1, EmitFact
  <2>3. Carried(s, e.s, 0 + 0, dx + 0, wheel + 0) BY <1>23, <2>2, CarriedTwice
  <2>4. AlikeEvent(m2, e.m) /\ PointerTypes(e.m) BY <1>20, <1>23, <2>2 DEF AlikeEvent, PointerTypes
  <2>5. o.x = x /\ o.buttons = new BY <1>20, <1>23 DEF AlikeEvent
  <2>6. e = [m |-> e.m, s |-> e.s] BY <2>1 DEF emit_mouse_button
  <2> QED BY <2>1, <2>2, <2>3, <2>4, <2>5, <2>6
<1>24. /\ r3 = [m |-> r3.m, s |-> r3.s] /\ PointerTypes(r3.m) /\ AlikeEvent(m2, r3.m)
       /\ r3.s \in Lists /\ Carried(s, r3.s, 0, dx, wheel)
       /\ IF dx # 0 \/ ~((1 \in m.buttons) = (1 \in new)) THEN Told(r3.s, seq, x, new)
          ELSE Told(r3.s, seq, x, m.buttons)
  <2>0. AlikeEvent(m2, m2) BY DEF AlikeEvent
  <2>1. CASE (1 \in m.buttons) = (1 \in new) BY <1>11, <1>12, <1>21, <1>22, <2>0, <2>1
  <2>2. CASE ~((1 \in m.buttons) = (1 \in new))
    <3>1. r3 = emit_mouse_button(r2, 1) BY <1>12, <2>2
    <3>2. 1 \in Buttons BY DEF Buttons
    <3>3. /\ r3 = [m |-> r3.m, s |-> r3.s] /\ PointerTypes(r3.m) /\ AlikeEvent(m2, r3.m)
          /\ r3.s \in Lists /\ Carried(s, r3.s, 0, dx, wheel) /\ Told(r3.s, seq, x, new)
      BY <1>11, <1>21, <1>22, <1>23, <2>0, <3>1, <3>2
    <3> QED BY <2>2, <3>3
  <2> QED BY <2>1, <2>2
<1>25. /\ PointerTypes(r4.m) /\ AlikeEvent(m2, r4.m) /\ r4.s \in Lists /\ Carried(s, r4.s, 0, dx, wheel)
       /\ Told(r4.s, seq, x, new)
  <2>1. CASE (2 \in m.buttons) = (2 \in new)
    <3>1. r4 = r3 BY <1>13, <2>1
    <3>2. Told(r3.s, seq, x, new)
      <4>1. CASE (1 \in m.buttons) = (1 \in new)
        <5>1. PICK old : old = m.buttons OBVIOUS
        <5>2. \A b \in {1, 2} : b \in old <=> b \in new BY <2>1, <4>1, <5>1
        <5>3. old \subseteq {1, 2} /\ new \subseteq {1, 2} BY <1>5, <1>15, <5>1 DEF Buttons
        <5>4. \A b : b \in old <=> b \in new BY <5>2, <5>3
        <5>5. old = new BY <5>4
        <5> QED BY <1>24, <5>1, <5>5
      <4>2. CASE ~((1 \in m.buttons) = (1 \in new)) BY <1>24, <4>2
      <4> QED BY <4>1, <4>2
    <3> QED BY <1>24, <3>1, <3>2
  <2>2. CASE ~((2 \in m.buttons) = (2 \in new))
    <3>1. r4 = emit_mouse_button(r3, 2) BY <1>13, <2>2
    <3>2. 2 \in Buttons BY DEF Buttons
    <3> QED BY <1>23, <1>24, <3>1, <3>2
  <2> QED BY <2>1, <2>2
<1>26. r4.m.x = x /\ r4.m.buttons = new BY <1>20, <1>25 DEF AlikeEvent
<1>27. new = Down(p) BY <1>4 DEF Down
<1> QED BY <1>2, <1>3, <1>14, <1>20, <1>25, <1>26, <1>27 DEF AlikeEvent


-----------------------------------------------------------------------------
(* What a byte of the keyboard does.                                       *)

\* The names a scan code has.
CapNames == {E0, E1, "ctrl", "num", "shift", "print"} \cup {c[1] : c \in Caps}
KeyOf(ext, cap) == IF ext THEN extended_key(cap) ELSE normal_key(cap)
Keyboards == [held : SUBSET Modifiers, caps : BOOLEAN, num : BOOLEAN, extended : BOOLEAN,
              pause : 0 .. 5, dead : Texts]

LEMMA KeyOfFact ==
    ASSUME NEW ext \in BOOLEAN, NEW cap
    PROVE  KeyOf(ext, cap) \in KeyNames \cup {"UNKNOWN"}
<1>1. normal_key(cap) \in KeyNames \cup {"UNKNOWN"} BY DEF normal_key, KeyNames, Modifiers
<1>2. extended_key(cap) \in KeyNames \cup {"UNKNOWN"} BY DEF extended_key, KeyNames, Modifiers
<1> QED BY <1>1, <1>2 DEF KeyOf

LEMMA ModifierFact ==
    ASSUME NEW held \in SUBSET Modifiers, NEW key, NEW pressed \in BOOLEAN
    PROVE  update_modifier(held, key, pressed) \in SUBSET Modifiers
  BY DEF update_modifier

LEMMA TranslateFact ==
    ASSUME NEW key, NEW shift \in BOOLEAN, NEW altgr \in BOOLEAN, NEW caps \in BOOLEAN,
           NEW num \in BOOLEAN, NEW dead \in Texts
    PROVE  LET c == keymap_latam_translate(key, shift, altgr, caps, num, dead)
           IN  c.cp \in Seq(Texts) /\ c.dead \in Texts
<1>1. PICK c : c = keymap_latam_translate(key, shift, altgr, caps, num, dead) OBVIOUS
<1>2. PICK letter : letter = IF shift # caps THEN "E" ELSE "e" OBVIOUS
<1>8. letter \in Texts BY <1>2 DEF Texts
<1>9. <<>> \in Seq(Texts) /\ <<"none", "euro">> \in Seq(Texts) /\ <<"none", "7">> \in Seq(Texts)
      /\ <<dead, letter>> \in Seq(Texts) /\ "none" \in Texts
  <2>1. "none" \in Texts /\ "euro" \in Texts /\ "7" \in Texts BY DEF Texts
  <2> QED BY <1>8, <2>1
<1>3. CASE key = "E" /\ altgr
  <2>1. c = [cp |-> <<"none", "euro">>, dead |-> dead] BY <1>1, <1>3, Zenon DEF keymap_latam_translate
  <2> QED BY <1>1, <1>9, <2>1
<1>4. CASE key = "E" /\ ~altgr
  <2>1. c = [cp |-> <<dead, letter>>, dead |-> "none"]
    BY <1>1, <1>2, <1>4 DEF keymap_latam_translate, finish
  <2> QED BY <1>1, <1>9, <2>1
<1>5. CASE key = "LEFT_BRACKET"
  <2>1. PICK accent : accent = IF altgr THEN "grave" ELSE IF shift THEN "diaeresis" ELSE "acute"
    OBVIOUS
  <2>2. c = [cp |-> <<>>, dead |-> accent] BY <1>1, <1>5, <2>1 DEF keymap_latam_translate
  <2>3. accent \in Texts BY <2>1 DEF Texts
  <2> QED BY <1>1, <1>9, <2>2, <2>3
<1>6. CASE key = "KP_7" /\ num
  <2>1. c = [cp |-> <<"none", "7">>, dead |-> dead] BY <1>1, <1>6 DEF keymap_latam_translate
  <2> QED BY <1>1, <1>9, <2>1
<1>7. CASE key # "E" /\ key # "LEFT_BRACKET" /\ ~(key = "KP_7" /\ num)
  <2>1. c = [cp |-> <<>>, dead |-> dead] BY <1>1, <1>7 DEF keymap_latam_translate
  <2> QED BY <1>1, <1>9, <2>1
<1> QED BY <1>3, <1>4, <1>5, <1>6, <1>7

\* A byte of the pause sequence, a prefix, an unknown key, or a key.
LEMMA FeedFact ==
    ASSUME NEW k \in Keyboards, NEW byte \in CapNames \X BOOLEAN
    PROVE  LET r == keyboard_feed_byte(k, byte)
           IN  /\ r.k \in Keyboards /\ (r.ev # NoKey => r.ev \in KeyEvents)
               /\ k.pause > 0 =>
                    r.k.pause = k.pause - 1 /\ r.k.extended = k.extended /\ r.k.held = k.held
               /\ k.pause = 0 /\ byte[1] = E1 => r.k.pause = 5 /\ ~r.k.extended /\ r.k.held = k.held
               /\ k.pause = 0 /\ byte[1] = E0 => r.k.pause = 0 /\ r.k.extended /\ r.k.held = k.held
               /\ k.pause = 0 /\ byte[1] \notin {E0, E1} =>
                    /\ r.k.pause = 0 /\ ~r.k.extended
                    /\ r.k.held = update_modifier(k.held, KeyOf(k.extended, byte[1]), ~byte[2])
<1>1. PICK cap, up : cap = byte[1] /\ up = byte[2] OBVIOUS
<1>2. up \in BOOLEAN BY <1>1
<1>3. PICK pressed \in BOOLEAN : pressed = ~up BY <1>2
<1>4. PICK key : key = KeyOf(k.extended, cap) OBVIOUS
<1>5. k.extended \in BOOLEAN /\ k.held \in SUBSET Modifiers /\ k.caps \in BOOLEAN /\ k.num \in BOOLEAN
      /\ k.dead \in Texts /\ k.pause \in 0 .. 5
  BY DEF Keyboards
<1>6. key \in KeyNames \cup {"UNKNOWN"} BY <1>4, <1>5, KeyOfFact
<1>7. PICK held : held = update_modifier(k.held, key, pressed) OBVIOUS
<1>8. held \in SUBSET Modifiers BY <1>5, <1>7, ModifierFact
<1>9. PICK caps \in BOOLEAN : caps = (k.caps # (pressed /\ key = "CAPS_LOCK")) OBVIOUS
<1>10. PICK num \in BOOLEAN : num = (k.num # (pressed /\ key = "NUM_LOCK")) OBVIOUS
<1>11. PICK text \in BOOLEAN : text = (pressed /\ held \cap {"LEFT_CTRL", "RIGHT_CTRL", "LEFT_ALT"} = {})
  OBVIOUS
<1>12. PICK shift : shift = ("LEFT_SHIFT" \in held) OBVIOUS
<1>13. PICK altgr : altgr = ("RIGHT_ALT" \in held) OBVIOUS
<1>14. shift \in BOOLEAN /\ altgr \in BOOLEAN BY <1>12, <1>13
<1>15. PICK c : c = IF text THEN keymap_latam_translate(key, shift, altgr, caps, num, k.dead)
                    ELSE [cp |-> <<>>, dead |-> k.dead]
  OBVIOUS
<1>16. c.cp \in Seq(Texts) /\ c.dead \in Texts
  <2>1. CASE text BY <1>5, <1>14, <1>15, <2>1, TranslateFact
  <2>2. CASE ~text
    <3>1. c = [cp |-> <<>>, dead |-> k.dead] BY <1>15, <2>2
    <3>2. <<>> \in Seq(Texts) OBVIOUS
    <3> QED BY <1>5, <3>1, <3>2
  <2> QED BY <2>1, <2>2
<1>17. PICK r : r = keyboard_feed_byte(k, byte) OBVIOUS
<1>18. PICK kind : kind = IF pressed THEN "KEY_DOWN" ELSE "KEY_UP" OBVIOUS
<1>19. r = CASE k.pause > 0 -> [k |-> [k EXCEPT !.pause = @ - 1], ev |-> NoKey]
             [] k.pause = 0 /\ cap = E1 -> [k |-> [k EXCEPT !.pause = 5, !.extended = FALSE], ev |-> NoKey]
             [] k.pause = 0 /\ cap = E0 -> [k |-> [k EXCEPT !.extended = TRUE], ev |-> NoKey]
             [] k.pause = 0 /\ cap \notin {E0, E1} /\ key = "UNKNOWN" ->
                  [k |-> [k EXCEPT !.extended = FALSE], ev |-> NoKey]
             [] OTHER ->
                  [k |-> [k EXCEPT !.extended = FALSE, !.held = held, !.caps = caps, !.num = num,
                                   !.dead = c.dead],
                   ev |-> [t |-> kind, key |-> key, cp |-> c.cp, mods |-> held]]
  BY <1>1, <1>3, <1>4, <1>7, <1>9, <1>10, <1>11, <1>12, <1>13, <1>15, <1>17, <1>18, Zenon
     DEF keyboard_feed_byte, KeyOf
<1>20. CASE k.pause > 0
  <2>1. r = [k |-> [k EXCEPT !.pause = k.pause - 1], ev |-> NoKey] BY <1>5, <1>19, <1>20
  <2> QED BY <1>5, <1>17, <1>20, <2>1 DEF Keyboards
<1>21. CASE k.pause = 0 /\ cap = E1
  <2>1. r = [k |-> [k EXCEPT !.pause = 5, !.extended = FALSE], ev |-> NoKey]
    BY <1>5, <1>19, <1>21 DEF E0, E1
  <2>2. r.k \in Keyboards /\ r.ev = NoKey /\ r.k.pause = 5 /\ ~r.k.extended /\ r.k.held = k.held
    <3>1. PICK five : five = 5 OBVIOUS
    <3>2. five \in 0 .. 5 BY <3>1
    <3>3. PICK o : o = [k EXCEPT !.pause = five, !.extended = FALSE] OBVIOUS
    <3>4. o \in Keyboards /\ o.pause = five /\ ~o.extended /\ o.held = k.held BY <3>2, <3>3 DEF Keyboards
    <3>5. r.k = o /\ r.ev = NoKey BY <2>1, <3>1, <3>3
    <3> QED BY <3>1, <3>4, <3>5
  <2>3. byte[1] = E1 /\ byte[1] # E0 BY <1>1, <1>21 DEF E0, E1
  <2> QED BY <1>17, <1>21, <2>2, <2>3
<1>22. CASE k.pause = 0 /\ cap = E0
  <2>1. r = [k |-> [k EXCEPT !.extended = TRUE], ev |-> NoKey] BY <1>5, <1>19, <1>22 DEF E0, E1
  <2>2. r.k \in Keyboards /\ r.ev = NoKey /\ r.k.pause = 0 /\ r.k.extended /\ r.k.held = k.held
    BY <1>5, <1>22, <2>1 DEF Keyboards
  <2>3. byte[1] = E0 /\ byte[1] # E1 BY <1>1, <1>22 DEF E0, E1
  <2> QED BY <1>17, <1>22, <2>2, <2>3
<1>23. CASE k.pause = 0 /\ cap \notin {E0, E1} /\ key = "UNKNOWN"
  <2>1. r = [k |-> [k EXCEPT !.extended = FALSE], ev |-> NoKey] BY <1>5, <1>19, <1>23 DEF E0, E1
  <2>2. held = k.held BY <1>7, <1>23 DEF update_modifier, Modifiers
  <2>3. r.k \in Keyboards /\ r.ev = NoKey /\ r.k.pause = 0 /\ ~r.k.extended /\ r.k.held = k.held
    BY <1>5, <1>23, <2>1 DEF Keyboards
  <2>4. byte[1] # E0 /\ byte[1] # E1 BY <1>1, <1>23
  <2> QED BY <1>1, <1>3, <1>4, <1>7, <1>17, <1>23, <2>2, <2>3, <2>4
<1>24. CASE k.pause = 0 /\ cap \notin {E0, E1} /\ key # "UNKNOWN"
  <2>1. PICK o : o = [k EXCEPT !.extended = FALSE, !.held = held, !.caps = caps, !.num = num,
                                !.dead = c.dead]
    OBVIOUS
  <2>2. PICK ev : ev = [t |-> kind, key |-> key, cp |-> c.cp, mods |-> held] OBVIOUS
  <2>3. r = [k |-> o, ev |-> ev] BY <1>5, <1>19, <1>24, <2>1, <2>2 DEF E0, E1
  <2>4. r.k = o /\ r.ev = ev BY <2>3
  <2>5. o \in Keyboards /\ o.pause = 0 /\ ~o.extended /\ o.held = held
    BY <1>5, <1>8, <1>16, <1>24, <2>1 DEF Keyboards
  <2>6. ev \in KeyEvents BY <1>6, <1>8, <1>16, <1>18, <1>24, <2>2 DEF KeyEvents
  <2>7. byte[1] # E0 /\ byte[1] # E1 BY <1>1, <1>24
  <2> QED BY <1>1, <1>3, <1>4, <1>7, <1>17, <1>24, <2>4, <2>5, <2>6, <2>7
<1> QED BY <1>5, <1>20, <1>21, <1>22, <1>23, <1>24


-----------------------------------------------------------------------------
(* The inductive invariant.                                                *)

KeyBytes == CapNames \X BOOLEAN
UserFields == {"held", "buttons", "mode", "wheel", "inputs"}
Flags == [lost : BOOLEAN, late : BOOLEAN, overflow : BOOLEAN, buried : BOOLEAN, clipped : BOOLEAN]

MouseTypes ==
    /\ PointerTypes(mouse) /\ mouse.ready \in BOOLEAN /\ mouse.size \in {3, 4} /\ mouse.step \in 1 .. 10
    /\ mouse.bytes \in Seq(ByteValues) /\ Len(mouse.bytes) < mouse.size
PortTypes == kb_port \in Seq(KeyBytes) /\ mouse_port \in Seq(ByteValues)
UserTypes ==
    /\ DOMAIN user = UserFields /\ user.held \in SUBSET Caps /\ user.buttons \in SUBSET Buttons
    /\ user.mode \in {3, 4} /\ user.wheel \in BOOLEAN
Types ==
    /\ kb \in Keyboards /\ MouseTypes /\ PortTypes /\ UserTypes
    /\ Before \in Lists /\ owed \in [keys : Int, dx : Int, wheel : Int] /\ seen \in Flags

\* What is owed is what the queue carries.
Accounts(s, o) ==
    ~s.overflow =>
      /\ o.keys = Total(Strokes(s.q)) /\ o.dx = Total(Motions(s.q))
      /\ ~s.clipped => o.wheel = Total(Turns(s.q))
QueueOK == Accounts(Before, owed) /\ Told(Before, latest, mouse.x, mouse.buttons)

LEMMA QueueFact ==
    ASSUME NEW s \in Lists, seen \in Flags, Queue(s)
    PROVE  Before' = s /\ seen' \in Flags /\ seen'.lost = seen.lost /\ seen'.late = seen.late
<1>1. PICK q, o, b, c : q = s.q /\ o = s.overflow /\ b = s.buried /\ c = s.clipped OBVIOUS
<1>2. s = [q |-> q, overflow |-> o, buried |-> b, clipped |-> c] /\ o \in BOOLEAN /\ b \in BOOLEAN /\ c \in BOOLEAN
  BY <1>1 DEF Lists
<1>3. queue' = q /\ seen' = [seen EXCEPT !.overflow = o, !.buried = b, !.clipped = c] BY <1>1 DEF Queue
<1>4. /\ seen'.overflow = o /\ seen'.buried = b /\ seen'.clipped = c
      /\ seen' \in Flags /\ seen'.lost = seen.lost /\ seen'.late = seen.late
  BY <1>2, <1>3 DEF Flags
<1>5. Before' = [q |-> queue', overflow |-> seen'.overflow, buried |-> seen'.buried, clipped |-> seen'.clipped]
  BY DEF Before
<1> QED BY <1>2, <1>3, <1>4, <1>5

LEMMA AccountsFact ==
    ASSUME NEW s \in Lists, NEW r, NEW o, NEW u, NEW k \in Int, NEW d \in Int, NEW t \in Int,
           Accounts(s, o), Carried(s, r, k, d, t),
           u.keys = o.keys + k, u.dx = o.dx + d, u.wheel = o.wheel + t
    PROVE  Accounts(r, u)
<1> SUFFICES ASSUME ~r.overflow
             PROVE  /\ u.keys = Total(Strokes(r.q)) /\ u.dx = Total(Motions(r.q))
                    /\ ~r.clipped => u.wheel = Total(Turns(r.q))
  BY DEF Accounts
<1>1. ~s.overflow BY DEF Carried
<1>2. u.keys = Total(Strokes(r.q)) /\ u.dx = Total(Motions(r.q)) BY <1>1, Zenon DEF Carried, Accounts
<1>3. ~r.clipped => u.wheel = Total(Turns(r.q)) BY <1>1, Zenon DEF Carried, Accounts
<1> QED BY <1>2, <1>3

LEMMA QueueInit == InputInit => Types /\ QueueOK
<1> SUFFICES ASSUME InputInit PROVE Types /\ QueueOK OBVIOUS
<1>1. kb \in Keyboards BY DEF InputInit, keyboard_reset, Keyboards, Modifiers, Texts
<1>2. MouseTypes
  <2>1. PICK x : x = MOUSE_MAX_X \div 2 OBVIOUS
  <2>2. x \in 0 .. MOUSE_MAX_X BY <2>1, Limits
  <2>3. mouse = [ready |-> FALSE, size |-> 3, bytes |-> <<>>, step |-> 1, x |-> x,
                 buttons |-> {}, press |-> [b \in Buttons |-> 0],
                 last |-> [b \in Buttons |-> [valid |-> FALSE, recent |-> FALSE, x |-> 0]]]
    BY <2>1, Zenon DEF InputInit
  <2>4. <<>> \in Seq(ByteValues) /\ Len(<<>>) = 0 OBVIOUS
  <2>5. DOMAIN mouse = MouseFields BY <2>3 DEF MouseFields
  <2>6. mouse.x = x /\ mouse.buttons = {} /\ mouse.ready = FALSE /\ mouse.size = 3 /\ mouse.step = 1
        /\ mouse.bytes = <<>>
    BY <2>3
  <2>7. PointerTypes(mouse) BY <2>2, <2>5, <2>6 DEF PointerTypes
  <2>8. mouse.size \in {3, 4} /\ mouse.step \in 1 .. 10 BY <2>6
  <2>10. mouse.ready \in BOOLEAN BY <2>6
  <2>9. mouse.bytes \in Seq(ByteValues) /\ Len(mouse.bytes) < mouse.size BY <2>4, <2>6
  <2> QED BY <2>7, <2>8, <2>9, <2>10 DEF MouseTypes
<1>3. PortTypes BY DEF InputInit, PortTypes
<1>4. UserTypes BY DEF InputInit, UserTypes, UserFields
<1>5. seen \in Flags /\ owed \in [keys : Int, dx : Int, wheel : Int] BY DEF InputInit, Flags
<1>6. Before = [q |-> <<>>, overflow |-> FALSE, buried |-> FALSE, clipped |-> FALSE]
  BY DEF InputInit, Before
<1>7. <<>> \in Seq(Events) /\ Len(<<>>) = 0 OBVIOUS
<1>8. Before \in Lists /\ Before.q = <<>> BY <1>6, <1>7, Limits DEF Lists
<1>9. Accounts(Before, owed)
  <2>1. Strokes(<<>>) = <<>> /\ Motions(<<>>) = <<>> /\ Turns(<<>>) = <<>>
    <3>1. /\ Len(Strokes(<<>>)) = 0 /\ Strokes(<<>>) \in Seq(Int)
          /\ Len(Motions(<<>>)) = 0 /\ Motions(<<>>) \in Seq(Int)
          /\ Len(Turns(<<>>)) = 0 /\ Turns(<<>>) \in Seq(Int)
      BY <1>7, WeighFact
    <3>2. \A w \in Seq(Int) : Len(w) = 0 => w = <<>> OBVIOUS
    <3> QED BY <3>1, <3>2
  <2>2. owed.keys = 0 /\ owed.dx = 0 /\ owed.wheel = 0 BY DEF InputInit
  <2> QED BY <1>8, <2>1, <2>2, TotalEmpty DEF Accounts
<1>10. Told(Before, latest, mouse.x, mouse.buttons)
  <2>1. latest = <<>> BY DEF InputInit
  <2> QED BY <1>7, <1>8, <2>1 DEF Told, Newest, NewestAt
<1> QED BY <1>1, <1>2, <1>3, <1>4, <1>5, <1>8, <1>9, <1>10 DEF Types, QueueOK

\* A key pressed or released.
LEMMA KeyKeepsQueue ==
    ASSUME Types, QueueOK, NEW byte \in CapNames \X BOOLEAN, process_keyboard(byte)
    PROVE  /\ kb' \in Keyboards /\ kb' = keyboard_feed_byte(kb, byte).k /\ mouse' = mouse
           /\ Before' \in Lists /\ owed' \in [keys : Int, dx : Int, wheel : Int]
           /\ seen' \in Flags /\ seen'.lost = seen.lost /\ seen'.late = seen.late
           /\ latest' = latest => QueueOK'
<1>1. PICK r : r = keyboard_feed_byte(kb, byte) OBVIOUS
<1>2. kb \in Keyboards /\ Before \in Lists /\ seen \in Flags /\ owed \in [keys : Int, dx : Int, wheel : Int]
  BY DEF Types
<1>3. r.k \in Keyboards /\ (r.ev # NoKey => r.ev \in KeyEvents) BY <1>1, <1>2, FeedFact
<1>4. kb' = r.k /\ mouse' = mouse BY <1>1 DEF process_keyboard
<1>5. CASE r.ev = NoKey
  <2>1. queue' = queue /\ owed' = owed /\ seen' = seen BY <1>1, <1>5 DEF process_keyboard
  <2>2. Before' = Before BY <2>1 DEF Before
  <2> QED BY <1>1, <1>2, <1>3, <1>4, <2>1, <2>2 DEF QueueOK
<1>6. CASE r.ev # NoKey
  <2>1. PICK s : s = Pushed(Before, r.ev) OBVIOUS
  <2>2. Queue(s) /\ owed' = [owed EXCEPT !.keys = @ + 1] BY <1>1, <1>6, <2>1 DEF process_keyboard
  <2>3. r.ev \in KeyEvents /\ r.ev \in Events BY <1>3, <1>6 DEF Events
  <2>4. s \in Lists BY <1>2, <2>1, <2>3, PushedFact, Zenon
  <2>5. Before' = s /\ seen' \in Flags /\ seen'.lost = seen.lost /\ seen'.late = seen.late
    BY <1>2, <2>2, <2>4, QueueFact
  <2>6. Stroke(r.ev) = 1 /\ Motion(r.ev) = 0 /\ Turn(r.ev) = 0
    BY <2>3, EventFact DEF Stroke, Motion, Turn
  <2>7. Carried(Before, s, 1, 0, 0) BY <1>2, <2>1, <2>3, <2>6, PushCarries, Zenon
  <2>8. owed' \in [keys : Int, dx : Int, wheel : Int] /\ owed'.keys = owed.keys + 1
        /\ owed'.dx = owed.dx + 0 /\ owed'.wheel = owed.wheel + 0
    BY <1>2, <2>2
  <2>9. Accounts(s, owed')
    <3>1. Accounts(Before, owed) BY DEF QueueOK
    <3> QED BY <1>2, <2>7, <2>8, <3>1, AccountsFact
  <2>10. Told(s, latest, mouse.x, mouse.buttons)
    <3>1. Told(Before, latest, mouse.x, mouse.buttons) BY DEF QueueOK
    <3> QED BY <1>2, <2>1, <2>3, <3>1, PushKeeps
  <2>11. latest' = latest => QueueOK' BY <1>4, <2>5, <2>9, <2>10 DEF QueueOK
  <2> QED BY <1>1, <1>3, <1>4, <2>4, <2>5, <2>8, <2>11
<1> QED BY <1>5, <1>6


\* A byte of the mouse.
LEMMA FeedMouse ==
    ASSUME MouseTypes, NEW byte \in ByteValues
    PROVE  LET m == mouse_feed_byte(mouse, byte)
           IN  /\ m.bytes = IF mouse.bytes = <<>> /\ ~Bit(byte, 8) THEN mouse.bytes
                            ELSE Append(mouse.bytes, byte)
               /\ m.bytes \in Seq(ByteValues) /\ Len(m.bytes) <= mouse.size
               /\ DOMAIN m = MouseFields /\ m.x = mouse.x /\ m.buttons = mouse.buttons
               /\ m.ready = mouse.ready /\ m.size = mouse.size /\ m.step = mouse.step
<1>1. PICK m : m = mouse_feed_byte(mouse, byte) OBVIOUS
<1>2. DOMAIN mouse = MouseFields /\ mouse.bytes \in Seq(ByteValues) /\ Len(mouse.bytes) < mouse.size
      /\ mouse.size \in {3, 4}
  BY DEF MouseTypes, PointerTypes
<1>3. CASE mouse.bytes = <<>> /\ ~Bit(byte, 8)
  <2>1. m = mouse BY <1>1, <1>3 DEF mouse_feed_byte
  <2>2. Len(mouse.bytes) <= mouse.size BY <1>2
  <2>3. m.bytes = IF mouse.bytes = <<>> /\ ~Bit(byte, 8) THEN mouse.bytes ELSE Append(mouse.bytes, byte)
    BY <1>3, <2>1
  <2> QED BY <1>1, <1>2, <2>1, <2>2, <2>3, Zenon
<1>4. CASE ~(mouse.bytes = <<>> /\ ~Bit(byte, 8))
  <2>1. PICK c : c = Append(mouse.bytes, byte) OBVIOUS
  <2>2. m = [mouse EXCEPT !.bytes = c] BY <1>1, <1>4, <2>1 DEF mouse_feed_byte
  <2>3. c \in Seq(ByteValues) /\ Len(c) = Len(mouse.bytes) + 1 BY <1>2, <2>1
  <2>4. Len(c) <= mouse.size BY <1>2, <2>3
  <2>5. m.bytes = c /\ DOMAIN m = MouseFields /\ m.x = mouse.x /\ m.buttons = mouse.buttons
        /\ m.ready = mouse.ready /\ m.size = mouse.size /\ m.step = mouse.step
    BY <1>2, <2>2 DEF MouseFields
  <2> QED BY <1>1, <1>4, <2>1, <2>2, <2>3, <2>4, <2>5
<1> QED BY <1>3, <1>4

LEMMA MouseKeepsQueue ==
    ASSUME Types, QueueOK, NEW byte \in ByteValues, process_mouse(byte)
    PROVE  LET b == IF mouse.bytes = <<>> /\ ~Bit(byte, 8) THEN mouse.bytes ELSE Append(mouse.bytes, byte)
           IN  /\ kb' = kb /\ MouseTypes' /\ mouse'.ready = mouse.ready /\ mouse'.size = mouse.size
               /\ mouse'.step = mouse.step
               /\ Before' \in Lists /\ owed' \in [keys : Int, dx : Int, wheel : Int]
               /\ seen' \in Flags /\ seen'.lost = seen.lost /\ seen'.late = seen.late
               /\ latest' = latest => QueueOK'
               /\ Len(b) < mouse.size => mouse'.bytes = b /\ mouse'.buttons = mouse.buttons
               /\ Len(b) = mouse.size =>
                    mouse'.bytes = <<>> /\ mouse'.buttons = Down(b)
               /\ Len(b) <= mouse.size
<1>1. PICK m : m = mouse_feed_byte(mouse, byte) OBVIOUS
<1>2. /\ kb \in Keyboards /\ MouseTypes /\ Before \in Lists /\ seen \in Flags
      /\ owed \in [keys : Int, dx : Int, wheel : Int]
  BY DEF Types
<1>3. PICK b : b = IF mouse.bytes = <<>> /\ ~Bit(byte, 8) THEN mouse.bytes ELSE Append(mouse.bytes, byte)
  OBVIOUS
<1> SUFFICES /\ kb' = kb /\ MouseTypes' /\ mouse'.ready = mouse.ready /\ mouse'.size = mouse.size
             /\ mouse'.step = mouse.step
             /\ Before' \in Lists /\ owed' \in [keys : Int, dx : Int, wheel : Int]
             /\ seen' \in Flags /\ seen'.lost = seen.lost /\ seen'.late = seen.late
             /\ latest' = latest => QueueOK'
             /\ Len(b) < mouse.size => mouse'.bytes = b /\ mouse'.buttons = mouse.buttons
             /\ Len(b) = mouse.size =>
                         mouse'.bytes = <<>> /\ mouse'.buttons = Down(b)
             /\ Len(b) <= mouse.size
  BY <1>3, Zenon
<1>4. /\ m.bytes = b /\ b \in Seq(ByteValues) /\ Len(b) <= mouse.size
      /\ DOMAIN m = MouseFields /\ m.x = mouse.x /\ m.buttons = mouse.buttons
      /\ m.ready = mouse.ready /\ m.size = mouse.size /\ m.step = mouse.step
  BY <1>1, <1>2, <1>3, FeedMouse, Zenon
<1>5. mouse.size \in {3, 4} /\ PointerTypes(mouse) /\ mouse.ready \in BOOLEAN /\ mouse.step \in 1 .. 10
  BY <1>2 DEF MouseTypes
<1>6. Accounts(Before, owed) /\ Told(Before, latest, mouse.x, mouse.buttons) BY DEF QueueOK
<1>7. CASE Len(b) < mouse.size
  <2>1. mouse' = m /\ queue' = queue /\ owed' = owed /\ seen' = seen /\ kb' = kb
    BY <1>1, <1>4, <1>7 DEF process_mouse
  <2>2. Before' = Before BY <2>1 DEF Before
  <2>3. PointerTypes(mouse') BY <1>4, <1>5, <2>1 DEF PointerTypes
  <2>4. MouseTypes' BY <1>4, <1>5, <1>7, <2>1, <2>3 DEF MouseTypes
  <2>5. QueueOK' <=> Accounts(Before', owed') /\ Told(Before', latest', mouse'.x, mouse'.buttons)
    BY DEF QueueOK
  <2>6. latest' = latest => QueueOK' BY <1>4, <1>6, <2>1, <2>2, <2>5
  <2> QED BY <1>2, <1>4, <1>5, <1>7, <2>1, <2>2, <2>4, <2>6
<1>8. CASE Len(b) = mouse.size
  <2>1. PICK o : o = [m EXCEPT !.bytes = <<>>] OBVIOUS
  <2>2. PICK l, r : l = Before /\ r = Packet(o, l, b) OBVIOUS
  <2>3. /\ mouse' = r.m /\ Queue(r.s) /\ kb' = kb
        /\ owed' = [owed EXCEPT !.dx = @ + IF b[1] >= 64 THEN 0 ELSE Signed(b[2]),
                                !.wheel = @ + IF m.size = 4 THEN Signed(b[4]) ELSE 0]
    <3>1. ~(Len(b) < m.size) BY <1>4, <1>5, <1>8
    <3> QED BY <1>1, <1>4, <2>1, <2>2, <3>1 DEF process_mouse
  <2>4. /\ DOMAIN o = MouseFields /\ o.x = mouse.x /\ o.buttons = mouse.buttons /\ o.bytes = <<>>
        /\ o.ready = mouse.ready /\ o.size = mouse.size /\ o.step = mouse.step
    BY <1>4, <2>1 DEF MouseFields
  <2>5. PointerTypes(o) /\ o.size \in {3, 4} /\ Len(b) = o.size BY <1>5, <1>8, <2>4 DEF PointerTypes
  <2>6. Told(Before, latest, o.x, o.buttons) BY <1>6, <2>4
  <2>7. /\ PointerTypes(r.m) /\ r.m.ready = o.ready /\ r.m.size = o.size
        /\ r.m.bytes = o.bytes /\ r.m.step = o.step
        /\ r.m.buttons = Down(b)
        /\ r.s \in Lists /\ Carried(Before, r.s, 0, Way(b), Rolled(o, b))
        /\ Told(r.s, latest, r.m.x, r.m.buttons)
        /\ Way(b) \in Int /\ Rolled(o, b) \in Int
    <3>1. l \in Lists /\ Told(l, latest, o.x, o.buttons) BY <1>2, <2>2, <2>6
    <3>2. /\ PointerTypes(r.m) /\ r.m.ready = o.ready /\ r.m.size = o.size
          /\ r.m.bytes = o.bytes /\ r.m.step = o.step
          /\ r.m.buttons = Down(b)
          /\ r.s \in Lists /\ Carried(l, r.s, 0, Way(b), Rolled(o, b))
          /\ Told(r.s, latest, r.m.x, r.m.buttons)
          /\ Way(b) \in Int /\ Rolled(o, b) \in Int
      <4>1. b \in Seq(ByteValues) /\ Len(b) = o.size /\ PointerTypes(o) /\ o.size \in {3, 4} BY <1>4, <2>5
      <4>2. PointerTypes(Packet(o, l, b).m) BY <3>1, <4>1, PacketFact
      <4>3. Packet(o, l, b).m.ready = o.ready BY <3>1, <4>1, PacketFact
      <4>4. Packet(o, l, b).m.size = o.size BY <3>1, <4>1, PacketFact
      <4>5. Packet(o, l, b).m.bytes = o.bytes BY <3>1, <4>1, PacketFact
      <4>6. Packet(o, l, b).m.step = o.step BY <3>1, <4>1, PacketFact
      <4>7. Packet(o, l, b).m.buttons = Down(b) BY <3>1, <4>1, PacketFact
      <4>8. Packet(o, l, b).s \in Lists BY <3>1, <4>1, PacketFact
      <4>9. Carried(l, Packet(o, l, b).s, 0, Way(b), Rolled(o, b)) BY <3>1, <4>1, PacketFact
      <4>10. Told(Packet(o, l, b).s, latest, Packet(o, l, b).m.x, Packet(o, l, b).m.buttons)
        BY <3>1, <4>1, PacketFact
      <4>11. Way(b) \in Int /\ Rolled(o, b) \in Int BY <3>1, <4>1, PacketFact
      <4> QED BY <2>2, <4>2, <4>3, <4>4, <4>5, <4>6, <4>7, <4>8, <4>9, <4>10, <4>11
    <3> QED BY <2>2, <3>2
  <2>8. Before' = r.s /\ seen' \in Flags /\ seen'.lost = seen.lost /\ seen'.late = seen.late
    BY <1>2, <2>3, <2>7, QueueFact
  <2>9. owed' \in [keys : Int, dx : Int, wheel : Int] /\ owed'.keys = owed.keys + 0
        /\ owed'.dx = owed.dx + Way(b) /\ owed'.wheel = owed.wheel + Rolled(o, b)
    <3>1. PICK dx, w : dx = Way(b) /\ w = Rolled(o, b) OBVIOUS
    <3>2. owed' = [owed EXCEPT !.dx = @ + dx, !.wheel = @ + w]
      BY <1>4, <2>3, <2>4, <3>1, Zenon DEF Way, Rolled
    <3>3. dx \in Int /\ w \in Int BY <2>7, <3>1
    <3>5. PICK i \in Int, j \in Int, k \in Int : owed = [keys |-> i, dx |-> j, wheel |-> k] BY <1>2
    <3>6. owed' = [keys |-> i, dx |-> j + dx, wheel |-> k + w] BY <3>2, <3>5
    <3>4. /\ owed' \in [keys : Int, dx : Int, wheel : Int] /\ owed'.keys = owed.keys + 0
          /\ owed'.dx = owed.dx + dx /\ owed'.wheel = owed.wheel + w
      BY <3>3, <3>5, <3>6
    <3> QED BY <3>1, <3>4
  <2>10. Accounts(r.s, owed') BY <1>2, <1>6, <2>7, <2>9, AccountsFact
  <2>11. QueueOK' <=> Accounts(Before', owed') /\ Told(Before', latest', mouse'.x, mouse'.buttons)
    BY DEF QueueOK
  <2>12. latest' = latest => QueueOK' BY <2>3, <2>7, <2>8, <2>10, <2>11
  <2>13. MouseTypes'
    <3>1. <<>> \in Seq(ByteValues) /\ Len(<<>>) = 0 OBVIOUS
    <3>2. PointerTypes(mouse') /\ mouse'.bytes = <<>> BY <2>3, <2>4, <2>7
    <3>3. mouse'.ready \in BOOLEAN /\ mouse'.step \in 1 .. 10 /\ mouse'.size \in {3, 4}
      BY <1>5, <2>3, <2>4, <2>7
    <3>4. Len(mouse'.bytes) < mouse'.size BY <3>1, <3>2, <3>3
    <3> QED BY <3>1, <3>2, <3>3, <3>4 DEF MouseTypes
  <2>14. /\ mouse'.ready = mouse.ready /\ mouse'.size = mouse.size /\ mouse'.step = mouse.step
         /\ mouse'.bytes = <<>> /\ mouse'.buttons = Down(b)
    BY <2>3, <2>4, <2>7
  <2>15. ~(Len(b) < mouse.size) BY <1>5, <1>8
  <2>16. Before' \in Lists BY <2>7, <2>8
  <2> QED BY <1>8, <2>3, <2>8, <2>9, <2>12, <2>13, <2>14, <2>15, <2>16
<1>9. Len(b) < mouse.size \/ Len(b) = mouse.size BY <1>4, <1>5
<1> QED BY <1>7, <1>8, <1>9


\* Steps that touch neither the queue nor its flags.
LEMMA QuietQueue ==
    ASSUME Types, QueueOK, queue' = queue, owed' = owed, latest' = latest,
           seen'.overflow = seen.overflow, seen'.buried = seen.buried, seen'.clipped = seen.clipped,
           mouse'.x = mouse.x, mouse'.buttons = mouse.buttons
    PROVE  Before' \in Lists /\ owed' \in [keys : Int, dx : Int, wheel : Int] /\ QueueOK'
<1>1. Before' = Before BY DEF Before
<1>2. Before \in Lists /\ owed \in [keys : Int, dx : Int, wheel : Int] BY DEF Types
<1>3. QueueOK' <=> Accounts(Before', owed') /\ Told(Before', latest', mouse'.x, mouse'.buttons)
  BY DEF QueueOK
<1>4. Accounts(Before, owed) /\ Told(Before, latest, mouse.x, mouse.buttons) BY DEF QueueOK
<1> QED BY <1>1, <1>2, <1>3, <1>4

\* The sums without the oldest event.
LEMMA TakeSums ==
    ASSUME NEW q \in Seq(Events), q # <<>>
    PROVE  /\ Total(Strokes(Tail(q))) = Total(Strokes(q)) - Stroke(q[1])
           /\ Total(Motions(Tail(q))) = Total(Motions(q)) - Motion(q[1])
           /\ Total(Turns(Tail(q))) = Total(Turns(q)) - Turn(q[1])
<1>1. PICK r : r = Tail(q) OBVIOUS
<1>2. PICK n \in Nat : n = Len(q) /\ n > 0 OBVIOUS
<1>3. r \in Seq(Events) /\ Len(r) = n - 1 /\ \A i \in 1 .. n - 1 : r[i] = q[i + 1]
  BY <1>1, <1>2, HeadTailProperties
<1>4. PICK kq, kr, dq, dr, wq, wr :
        /\ kq = Strokes(q) /\ kr = Strokes(r) /\ dq = Motions(q) /\ dr = Motions(r)
        /\ wq = Turns(q) /\ wr = Turns(r)
  OBVIOUS
<1>k. /\ kq \in Seq(Int) /\ kr \in Seq(Int) /\ Len(kq) = n /\ Len(kr) = n - 1
      /\ \A i \in 1 .. n : kq[i] = Stroke(q[i])
      /\ \A i \in 1 .. n - 1 : kr[i] = Stroke(r[i])
  BY <1>2, <1>3, <1>4, WeighFact
<1>d. /\ dq \in Seq(Int) /\ dr \in Seq(Int) /\ Len(dq) = n /\ Len(dr) = n - 1
      /\ \A i \in 1 .. n : dq[i] = Motion(q[i])
      /\ \A i \in 1 .. n - 1 : dr[i] = Motion(r[i])
  BY <1>2, <1>3, <1>4, WeighFact
<1>w. /\ wq \in Seq(Int) /\ wr \in Seq(Int) /\ Len(wq) = n /\ Len(wr) = n - 1
      /\ \A i \in 1 .. n : wq[i] = Turn(q[i])
      /\ \A i \in 1 .. n - 1 : wr[i] = Turn(r[i])
  BY <1>2, <1>3, <1>4, WeighFact
<1>5. \A i \in 1 .. n - 1 : i \in 1 .. n /\ i + 1 \in 1 .. n BY <1>2
<1>6. ASSUME NEW a \in Seq(Int), NEW b \in Seq(Int), Len(a) = n, Len(b) = n - 1,
             \A i \in 1 .. n - 1 : b[i] = a[i + 1]
      PROVE  Total(b) = Total(a) - a[1]
  <2>1. PICK t : t = Tail(a) OBVIOUS
  <2>2. a # <<>> BY <1>2, <1>6
  <2>3. t \in Seq(Int) /\ Len(t) = n - 1 /\ \A i \in 1 .. n - 1 : t[i] = a[i + 1]
    BY <1>2, <1>6, <2>1, <2>2, HeadTailProperties
  <2>4. b = t BY <1>6, <2>3
  <2> QED BY <2>1, <2>2, <2>4, TotalShorter
<1>7. Total(kr) = Total(kq) - kq[1]
  <2>1. \A i \in 1 .. n - 1 : kr[i] = kq[i + 1] BY <1>3, <1>5, <1>k
  <2> QED BY <1>6, <1>k, <2>1
<1>8. Total(dr) = Total(dq) - dq[1]
  <2>1. \A i \in 1 .. n - 1 : dr[i] = dq[i + 1] BY <1>3, <1>5, <1>d
  <2> QED BY <1>6, <1>d, <2>1
<1>9. Total(wr) = Total(wq) - wq[1]
  <2>1. \A i \in 1 .. n - 1 : wr[i] = wq[i + 1] BY <1>3, <1>5, <1>w
  <2> QED BY <1>6, <1>w, <2>1
<1>10. kq[1] = Stroke(q[1]) /\ dq[1] = Motion(q[1]) /\ wq[1] = Turn(q[1])
  <2>1. 1 \in 1 .. n BY <1>2
  <2>2. kq[1] = Stroke(q[1]) BY <1>k, <2>1
  <2>3. dq[1] = Motion(q[1]) BY <1>d, <2>1
  <2>4. wq[1] = Turn(q[1]) BY <1>w, <2>1
  <2> QED BY <2>2, <2>3, <2>4
<1> QED BY <1>1, <1>4, <1>7, <1>8, <1>9, <1>10

\* Who takes a mouse event knows what it tells.
LEMMA TakeTells ==
    ASSUME NEW q \in Seq(Events), q # <<>>, NEW seq, NEW x, NEW b, Newest(q, seq, x, b)
    PROVE  Newest(Tail(q), IF IsMouse(q[1]) THEN <<[x |-> q[1].x, buttons |-> q[1].buttons]>> ELSE seq, x, b)
<1>1. PICK r : r = Tail(q) OBVIOUS
<1>2. PICK n \in Nat : n = Len(q) /\ n > 0 OBVIOUS
<1>3. r \in Seq(Events) /\ Len(r) = n - 1 /\ \A i \in 1 .. n - 1 : r[i] = q[i + 1]
  BY <1>1, <1>2, HeadTailProperties
<1>4. ASSUME NEW i, NewestAt(r, i) PROVE r[i].x = x /\ r[i].buttons = b
  <2>1. i \in 1 .. n - 1 /\ IsMouse(r[i]) /\ \A j \in i + 1 .. n - 1 : ~IsMouse(r[j])
    BY <1>3, <1>4 DEF NewestAt
  <2>2. i + 1 \in 1 .. n /\ r[i] = q[i + 1] BY <1>2, <1>3, <2>1
  <2>3. \A j \in (i + 1) + 1 .. n : ~IsMouse(q[j])
    <3>1. ASSUME NEW j \in (i + 1) + 1 .. n PROVE ~IsMouse(q[j])
      <4>1. j - 1 \in i + 1 .. n - 1 /\ j - 1 \in 1 .. n - 1 /\ (j - 1) + 1 = j BY <1>2, <2>1
      <4>2. r[j - 1] = q[j] BY <1>3, <4>1
      <4> QED BY <2>1, <4>1, <4>2
    <3> QED BY <3>1
  <2>4. NewestAt(q, i + 1) BY <1>2, <2>1, <2>2, <2>3 DEF NewestAt
  <2> QED BY <2>2, <2>4 DEF Newest
<1>5. ASSUME OnlyKeys(r) PROVE \A i \in 2 .. n : ~IsMouse(q[i])
  <2>1. ASSUME NEW i \in 2 .. n PROVE ~IsMouse(q[i])
    <3>1. i - 1 \in 1 .. n - 1 /\ (i - 1) + 1 = i BY <1>2
    <3>2. r[i - 1] = q[i] BY <1>3, <3>1
    <3> QED BY <1>3, <1>5, <3>1, <3>2 DEF OnlyKeys
  <2> QED BY <2>1
<1>6. CASE IsMouse(q[1])
  <2>1. OnlyKeys(r) => [x |-> q[1].x, buttons |-> q[1].buttons] = [x |-> x, buttons |-> b]
    <3> SUFFICES ASSUME OnlyKeys(r) PROVE q[1].x = x /\ q[1].buttons = b OBVIOUS
    <3>1. \A i \in 1 + 1 .. n : ~IsMouse(q[i]) BY <1>5
    <3>2. NewestAt(q, 1) BY <1>2, <1>6, <3>1 DEF NewestAt
    <3> QED BY <3>2 DEF Newest
  <2>2. PICK l : l = <<[x |-> q[1].x, buttons |-> q[1].buttons]>> OBVIOUS
  <2>3. Head(l) = [x |-> q[1].x, buttons |-> q[1].buttons] BY <2>2
  <2>4. Newest(r, l, x, b) BY <1>4, <2>1, <2>3 DEF Newest
  <2> QED BY <1>1, <1>6, <2>2, <2>4
<1>7. CASE ~IsMouse(q[1])
  <2>1. OnlyKeys(r) => OnlyKeys(q)
    <3>1. \A i \in 1 .. n : i = 1 \/ i \in 2 .. n BY <1>2
    <3> QED BY <1>2, <1>5, <1>7, <3>1 DEF OnlyKeys
  <2>2. Newest(r, seq, x, b) BY <1>4, <2>1 DEF Newest
  <2> QED BY <1>1, <1>7, <2>2
<1> QED BY <1>6, <1>7

\* A program takes an event.
LEMMA TakeKeepsQueue ==
    ASSUME Types, QueueOK, rootinput_next_event
    PROVE  Before' \in Lists /\ owed' \in [keys : Int, dx : Int, wheel : Int] /\ QueueOK'
<1>1. queue # <<>> /\ queue' = Tail(queue) /\ mouse' = mouse /\ seen' = seen BY DEF rootinput_next_event
<1>2. PICK q, r, f : q = queue /\ r = queue' /\ f = Before OBVIOUS
<1>3. f \in Lists /\ f.q = q /\ f.overflow = seen.overflow /\ f.buried = seen.buried /\ f.clipped = seen.clipped
      /\ f = [q |-> q, overflow |-> seen.overflow, buried |-> seen.buried, clipped |-> seen.clipped]
  BY <1>2 DEF Types, Before
<1>4. q \in Seq(Events) /\ q # <<>> /\ Len(q) < ROOT_INPUT_QUEUE_SIZE BY <1>1, <1>2, <1>3 DEF Lists
<1>5. r = Tail(q) /\ r \in Seq(Events) /\ Len(r) < ROOT_INPUT_QUEUE_SIZE
  <2>1. Len(q) \in Nat /\ Len(Tail(q)) = Len(q) - 1 /\ Tail(q) \in Seq(Events) BY <1>4, HeadTailProperties
  <2> QED BY <1>1, <1>2, <1>4, <2>1, Limits
<1>6. PICK g : g = Before' OBVIOUS
<1>7. g = [q |-> r, overflow |-> seen.overflow, buried |-> seen.buried, clipped |-> seen.clipped]
  BY <1>1, <1>2, <1>6 DEF Before
<1>8. seen \in Flags BY DEF Types
<1>9. g \in Lists BY <1>5, <1>7, <1>8 DEF Lists, Flags
<1>10. PICK ev : ev = Head(q) /\ ev = q[1] BY <1>4
<1>11. ev \in Events BY <1>4, <1>10
<1>12. PICK k \in Int, d \in Int, t \in Int : k = Stroke(ev) /\ d = Motion(ev) /\ t = Turn(ev)
  BY <1>11, EventFact DEF Stroke, Motion, Turn
<1>13. PICK i \in Int, j \in Int, w \in Int : owed = [keys |-> i, dx |-> j, wheel |-> w] BY DEF Types
<1>14. owed' = [keys |-> i - k, dx |-> j - d, wheel |-> w - t]
  <2>1. CASE IsMouse(ev)
    <3>1. owed' = [owed EXCEPT !.dx = @ - ev.dx, !.wheel = @ - ev.w]
      BY <1>2, <1>10, <2>1 DEF rootinput_next_event
    <3>2. k = 0 /\ d = ev.dx /\ t = ev.w BY <1>12, <2>1 DEF Stroke, Motion, Turn
    <3>3. owed' = [owed EXCEPT !.dx = @ - d, !.wheel = @ - t] BY <3>1, <3>2
    <3>4. owed' = [keys |-> i, dx |-> j - d, wheel |-> w - t] BY <1>13, <3>3
    <3> QED BY <3>2, <3>4
  <2>2. CASE ~IsMouse(ev)
    <3>1. owed' = [owed EXCEPT !.keys = @ - 1] BY <1>2, <1>10, <2>2 DEF rootinput_next_event
    <3>2. k = 1 /\ d = 0 /\ t = 0 BY <1>12, <2>2 DEF Stroke, Motion, Turn
    <3> QED BY <1>13, <3>1, <3>2
  <2> QED BY <2>1, <2>2
<1>15. latest' = IF IsMouse(q[1]) THEN <<[x |-> q[1].x, buttons |-> q[1].buttons]>> ELSE latest
  BY <1>2, <1>10 DEF rootinput_next_event
<1>16. /\ Total(Strokes(r)) = Total(Strokes(q)) - k /\ Total(Motions(r)) = Total(Motions(q)) - d
       /\ Total(Turns(r)) = Total(Turns(q)) - t
  BY <1>4, <1>5, <1>10, <1>12, TakeSums
<1>17. Accounts(g, owed')
  <2>1. Accounts(f, owed) BY <1>2 DEF QueueOK
  <2>2. ~seen.overflow => i = Total(Strokes(q)) /\ j = Total(Motions(q)) /\ (~seen.clipped => w = Total(Turns(q)))
    BY <1>3, <1>13, <2>1 DEF Accounts
  <2>3. owed'.keys = i - k /\ owed'.dx = j - d /\ owed'.wheel = w - t BY <1>14
  <2>4. g.q = r /\ g.overflow = seen.overflow /\ g.clipped = seen.clipped BY <1>7
  <2> QED BY <1>16, <2>2, <2>3, <2>4 DEF Accounts
<1>18. Told(g, latest', mouse.x, mouse.buttons)
  <2>1. Told(f, latest, mouse.x, mouse.buttons) BY <1>2 DEF QueueOK
  <2> SUFFICES ASSUME ~g.buried PROVE Newest(g.q, latest', mouse.x, mouse.buttons) BY DEF Told
  <2>2. Newest(q, latest, mouse.x, mouse.buttons) BY <1>3, <1>7, <2>1 DEF Told
  <2>3. g.q = Tail(q) BY <1>5, <1>7
  <2> QED BY <1>4, <1>15, <2>2, <2>3, TakeTells, Zenon
<1>19. QueueOK' <=> Accounts(Before', owed') /\ Told(Before', latest', mouse'.x, mouse'.buttons)
  BY DEF QueueOK
<1> QED BY <1>1, <1>6, <1>9, <1>14, <1>17, <1>18, <1>19


-----------------------------------------------------------------------------
(* The types of the remaining actions.                                     *)

LEMMA CapFact ==
    ASSUME NEW c \in Caps
    PROVE  c = <<c[1], c[2]>> /\ c[2] \in BOOLEAN /\ c[1] \in CapNames /\ c[1] \notin {E0, E1}
<1>1. Caps \subseteq (STRING \ {E0, E1}) \X BOOLEAN BY InputAssumption, Zenon DEF E0, E1
<1>2. PICK S : S = STRING \ {E0, E1} OBVIOUS
<1>3. c \in S \X BOOLEAN BY <1>1, <1>2
<1>4. c = <<c[1], c[2]>> /\ c[2] \in BOOLEAN /\ c[1] \in S BY <1>3
<1>5. c[1] \in CapNames BY DEF CapNames
<1> QED BY <1>2, <1>4, <1>5

LEMMA KFact ==
    ASSUME NEW cap \in CapNames, NEW up \in BOOLEAN
    PROVE  K(cap, up) \in KeyBytes
  BY DEF K, KeyBytes

LEMMA RemoveFact ==
    ASSUME NEW S, NEW q \in Seq(S), NEW i \in DOMAIN q
    PROVE  RemoveAt(q, i) \in Seq(S)
<1>1. i \in 1 .. Len(q) /\ Len(q) \in Nat OBVIOUS
<1>2. PICK a, b : a = SubSeq(q, 1, i - 1) /\ b = SubSeq(q, i + 1, Len(q)) OBVIOUS
<1>3. a \in Seq(S) /\ b \in Seq(S) BY <1>1, <1>2
<1>4. a \o b \in Seq(S) BY <1>3, ConcatProperties
<1> QED BY <1>2, <1>4 DEF RemoveAt

LEMMA MakeFact ==
    ASSUME NEW c \in Caps, NEW up \in BOOLEAN
    PROVE  Make(c[1], c[2], up) \in Seq(KeyBytes)
<1>1. PICK cap, ext : cap = c[1] /\ ext = c[2] OBVIOUS
<1>2. cap \in CapNames /\ ext \in BOOLEAN BY <1>1, CapFact
<1>3. E0 \in CapNames /\ E1 \in CapNames /\ "ctrl" \in CapNames /\ "num" \in CapNames
      /\ "shift" \in CapNames /\ "print" \in CapNames
  BY DEF CapNames
<1>4. FALSE \in BOOLEAN /\ TRUE \in BOOLEAN OBVIOUS
<1>5. /\ K(E1, FALSE) \in KeyBytes /\ K("ctrl", FALSE) \in KeyBytes /\ K("num", FALSE) \in KeyBytes
      /\ K("ctrl", TRUE) \in KeyBytes /\ K("num", TRUE) \in KeyBytes /\ K(E0, FALSE) \in KeyBytes
      /\ K("shift", up) \in KeyBytes /\ K("print", up) \in KeyBytes /\ K(cap, up) \in KeyBytes
  BY <1>2, <1>3, <1>4, KFact, Zenon
<1>6. CASE cap = "pause"
  <2>1. Make(cap, ext, up) = IF up THEN <<>> ELSE <<K(E1, FALSE), K("ctrl", FALSE), K("num", FALSE),
                                                    K(E1, FALSE), K("ctrl", TRUE), K("num", TRUE)>>
    BY <1>6 DEF Make
  <2>2. PICK a, b, d, e, f : a = K(E1, FALSE) /\ b = K("ctrl", FALSE) /\ d = K("num", FALSE)
                             /\ e = K("ctrl", TRUE) /\ f = K("num", TRUE)
    OBVIOUS
  <2>3. a \in KeyBytes /\ b \in KeyBytes /\ d \in KeyBytes /\ e \in KeyBytes /\ f \in KeyBytes
    BY <1>5, <2>2
  <2>4. <<a, b, d, a, e, f>> \in Seq(KeyBytes) /\ <<>> \in Seq(KeyBytes) BY <2>3
  <2> QED BY <1>1, <2>1, <2>2, <2>4
<1>7. CASE cap = "print"
  <2>1. Make(cap, ext, up) = <<K(E0, FALSE), K("shift", up), K(E0, FALSE), K("print", up)>>
    BY <1>7 DEF Make
  <2>2. PICK a, b, d : a = K(E0, FALSE) /\ b = K("shift", up) /\ d = K("print", up) OBVIOUS
  <2>3. a \in KeyBytes /\ b \in KeyBytes /\ d \in KeyBytes BY <1>5, <2>2
  <2>4. <<a, b, a, d>> \in Seq(KeyBytes) BY <2>3
  <2> QED BY <1>1, <2>1, <2>2, <2>4
<1>8. CASE cap \notin {"pause", "print"}
  <2>1. PICK a, b : a = K(E0, FALSE) /\ b = K(cap, up) OBVIOUS
  <2>2. a \in KeyBytes /\ b \in KeyBytes BY <1>5, <2>1
  <2>3. PICK p, q : p = (IF ext THEN <<a>> ELSE <<>>) /\ q = <<b>> OBVIOUS
  <2>4. <<a>> \in Seq(KeyBytes) /\ <<>> \in Seq(KeyBytes) /\ <<b>> \in Seq(KeyBytes) BY <2>2
  <2>5. p \in Seq(KeyBytes) /\ q \in Seq(KeyBytes) BY <2>3, <2>4
  <2>6. Make(cap, ext, up) = p \o q BY <1>8, <2>1, <2>3 DEF Make
  <2>7. p \o q \in Seq(KeyBytes) BY <2>5, ConcatProperties
  <2> QED BY <1>1, <2>6, <2>7
<1> QED BY <1>6, <1>7, <1>8

\* What the user does arrives, whole or without a byte.
LEMMA ArriveFact ==
    ASSUME NEW S, NEW bytes \in Seq(S), NEW arrived, Arrive(bytes, arrived), seen \in Flags
    PROVE  /\ arrived \in Seq(S) /\ seen' \in Flags /\ seen'.late = seen.late
           /\ seen'.overflow = seen.overflow /\ seen'.buried = seen.buried /\ seen'.clipped = seen.clipped
           /\ ~seen'.lost => ~seen.lost /\ arrived = bytes
<1>1. CASE arrived = bytes /\ seen' = seen BY <1>1
<1>2. CASE ~seen.lost /\ seen' = [seen EXCEPT !.lost = TRUE] /\ \E i \in DOMAIN bytes : arrived = RemoveAt(bytes, i)
  <2>1. arrived \in Seq(S) BY <1>2, RemoveFact
  <2>2. /\ seen' \in Flags /\ seen'.lost = TRUE /\ seen'.late = seen.late
        /\ seen'.overflow = seen.overflow /\ seen'.buried = seen.buried /\ seen'.clipped = seen.clipped
    BY <1>2 DEF Flags
  <2> QED BY <2>1, <2>2
<1> QED BY <1>1, <1>2 DEF Arrive


-----------------------------------------------------------------------------
(* What the kernel knows of the mouse.                                     *)

Status(b) == 8 + (IF 1 \in b THEN 1 ELSE 0) + (IF 2 \in b THEN 2 ELSE 0)

\* No packet is on its way, or the rest of one that tells what the user holds.
Between == mouse_port = <<>> /\ mouse.bytes = <<>> /\ mouse.buttons = user.buttons
Within ==
    /\ mouse_port # <<>> /\ Len(mouse.bytes) + Len(mouse_port) = mouse.size
    /\ (IF mouse.bytes = <<>> THEN Head(mouse_port) ELSE mouse.bytes[1]) = Status(user.buttons)

\* While the mouse is set up no answer is late.
Setup ==
    /\ mouse_port = <<>> /\ mouse.bytes = <<>> /\ mouse.buttons = user.buttons /\ ~mouse.ready
    /\ mouse.step <= 7 => user.mode = 3 /\ mouse.size = 3
    /\ mouse.step = 8 => mouse.size = 3
    /\ mouse.step = 9 => mouse.size = user.mode

MouseKnown ==
    ~seen.late /\ ~seen.lost =>
      /\ mouse.step < 10 => Setup
      /\ mouse.step = 10 /\ mouse.ready => mouse.size = user.mode /\ (Between \/ Within)

LEMMA StatusFact ==
    ASSUME NEW b \in SUBSET Buttons, NEW p, p[1] = Status(b)
    PROVE  Status(b) \in ByteValues /\ Bit(Status(b), 8) /\ Down(p) = b
<1>1. PICK s : s = Status(b) OBVIOUS
<1>2. b \subseteq {1, 2} BY DEF Buttons
<1>3. /\ s \in Int /\ s \in 0 .. 255 /\ (s \div 8) % 2 = 1
      /\ (s \div 1) % 2 = 1 <=> 1 \in b
      /\ (s \div 2) % 2 = 1 <=> 2 \in b
  <2>1. CASE 1 \in b /\ 2 \in b
    <3>1. s = 11 BY <1>1, <2>1 DEF Status
    <3> QED BY <2>1, <3>1
  <2>2. CASE 1 \in b /\ 2 \notin b
    <3>1. s = 9 BY <1>1, <2>2 DEF Status
    <3> QED BY <2>2, <3>1
  <2>3. CASE 1 \notin b /\ 2 \in b
    <3>1. s = 10 BY <1>1, <2>3 DEF Status
    <3> QED BY <2>3, <3>1
  <2>4. CASE 1 \notin b /\ 2 \notin b
    <3>1. s = 8 BY <1>1, <2>4 DEF Status
    <3> QED BY <2>4, <3>1
  <2> QED BY <2>1, <2>2, <2>3, <2>4
<1>4. Bit(s, 8) BY <1>3 DEF Bit
<1>5. \A n \in {1, 2} : Bit(s, n) <=> n \in b
  <2>1. Bit(s, 1) <=> 1 \in b BY <1>3, Zenon DEF Bit
  <2>2. Bit(s, 2) <=> 2 \in b BY <1>3, Zenon DEF Bit
  <2> QED BY <2>1, <2>2
<1>6. PICK d : d = Down(p) OBVIOUS
<1>7. d = {n \in {1, 2} : Bit(s, n)} BY <1>1, <1>6 DEF Down, Buttons
<1>8. \A n : n \in d <=> n \in b BY <1>2, <1>5, <1>7
<1>9. d = b BY <1>8
<1> QED BY <1>1, <1>3, <1>4, <1>6, <1>9 DEF ByteValues

\* The user presses or releases a key.
LEMMA UseKeyKeeps ==
    ASSUME Types, QueueOK, MouseKnown, NEW c \in Caps, UseKey(c[1], c[2])
    PROVE  Types' /\ QueueOK' /\ MouseKnown'
<1>1. PICK up : up = (<<c[1], c[2]>> \in user.held) OBVIOUS
<1>0. up \in BOOLEAN BY <1>1
<1>2. PICK bytes : bytes = Make(c[1], c[2], up) OBVIOUS
<1>3. /\ Arrive(bytes, kb_port') /\ mouse_port' = mouse_port
      /\ kb' = kb /\ mouse' = mouse /\ queue' = queue /\ owed' = owed /\ latest' = latest
  BY <1>1, <1>2 DEF UseKey
<1>4. bytes \in Seq(KeyBytes) BY <1>0, <1>2, MakeFact
<1>5. kb \in Keyboards /\ MouseTypes /\ PortTypes /\ UserTypes /\ seen \in Flags BY DEF Types
<1>6. /\ kb_port' \in Seq(KeyBytes) /\ seen' \in Flags /\ seen'.late = seen.late
      /\ seen'.overflow = seen.overflow /\ seen'.buried = seen.buried /\ seen'.clipped = seen.clipped
      /\ ~seen'.lost => ~seen.lost /\ kb_port' = bytes
  BY <1>3, <1>4, <1>5, ArriveFact
<1>7. Before' \in Lists /\ owed' \in [keys : Int, dx : Int, wheel : Int] /\ QueueOK'
  BY <1>3, <1>6, QuietQueue
<1>8. UserTypes' /\ user'.buttons = user.buttons /\ user'.mode = user.mode
  <2>1. PICK held, inputs :
          /\ held = IF up THEN user.held \ {<<c[1], c[2]>>} ELSE user.held \cup {<<c[1], c[2]>>}
          /\ user' = [user EXCEPT !.inputs = inputs, !.held = held]
    <3>1. PICK a : a = Acted("key") OBVIOUS
    <3>2. user' = [a EXCEPT !.held = IF up THEN @ \ {<<c[1], c[2]>>} ELSE @ \cup {<<c[1], c[2]>>}]
      BY <1>1, <3>1 DEF UseKey
    <3>3. PICK inputs : a = [user EXCEPT !.inputs = inputs] BY <3>1 DEF Acted
    <3>4. DOMAIN user = UserFields BY <1>5 DEF UserTypes
    <3>5. a.held = user.held BY <3>3, <3>4 DEF UserFields
    <3>6. PICK held : held = IF up THEN user.held \ {<<c[1], c[2]>>} ELSE user.held \cup {<<c[1], c[2]>>}
      OBVIOUS
    <3>7. user' = [a EXCEPT !.held = held] BY <3>2, <3>5, <3>6
    <3>8. user' = [user EXCEPT !.inputs = inputs, !.held = held] BY <3>3, <3>4, <3>7 DEF UserFields
    <3> QED BY <3>6, <3>8
  <2>2. c = <<c[1], c[2]>> BY CapFact
  <2>3. held \in SUBSET Caps BY <1>5, <2>1, <2>2 DEF UserTypes
  <2> QED BY <1>5, <2>1, <2>3 DEF UserTypes, UserFields
<1>9. MouseTypes' BY <1>3, <1>5 DEF MouseTypes, PointerTypes
<1>10. PortTypes' BY <1>3, <1>5, <1>6 DEF PortTypes
<1>11. Types' BY <1>3, <1>5, <1>6, <1>7, <1>8, <1>9, <1>10 DEF Types
<1>12. MouseKnown' BY <1>3, <1>6, <1>8 DEF MouseKnown, Setup, Between, Within
<1> QED BY <1>7, <1>11, <1>12

\* The user moves the mouse, turns its wheel or presses its buttons.
LEMMA UseMouseKeeps ==
    ASSUME Types, QueueOK, MouseKnown, NEW buttons \in SUBSET Buttons, NEW dx \in Moves, NEW wheel \in Wheels,
           UseMouse(buttons, dx, wheel)
    PROVE  Types' /\ QueueOK' /\ MouseKnown'
<1>1. PICK s : s = Status(buttons) OBVIOUS
<1>2. s \in ByteValues /\ dx \in ByteValues /\ wheel \in ByteValues /\ 0 \in ByteValues
  <2>1. Moves \subseteq 0 .. 255 /\ Wheels \subseteq 0 .. 255 BY InputAssumption, Zenon
  <2>2. s \in ByteValues
    <3>1. PICK p : p = <<s>> OBVIOUS
    <3>2. p[1] = Status(buttons) BY <1>1, <3>1
    <3> QED BY <1>1, <3>2, StatusFact
  <2> QED BY <2>1, <2>2 DEF ByteValues
<1>3. PICK bytes : bytes = <<s, dx, 0>> \o (IF user.mode = 4 THEN <<wheel>> ELSE <<>>) OBVIOUS
<1>4. /\ mouse.step = 10 /\ mouse_port = <<>> /\ Arrive(bytes, mouse_port') /\ kb_port' = kb_port
      /\ kb' = kb /\ mouse' = mouse /\ queue' = queue /\ owed' = owed /\ latest' = latest
  BY <1>1, <1>3, Zenon DEF UseMouse, Status
<1>5. kb \in Keyboards /\ MouseTypes /\ PortTypes /\ UserTypes /\ seen \in Flags BY DEF Types
<1>6. bytes \in Seq(ByteValues) /\ bytes # <<>> /\ Head(bytes) = s /\ Len(bytes) = user.mode
  <2>3. PICK f, g : f = <<s, dx, 0>> /\ g = IF user.mode = 4 THEN <<wheel>> ELSE <<>> OBVIOUS
  <2>4. f \in Seq(ByteValues) /\ Len(f) = 3 /\ f[1] = s BY <1>2, <2>3
  <2>5. user.mode \in {3, 4} BY <1>5 DEF UserTypes
  <2>6. g \in Seq(ByteValues) /\ Len(g) = IF user.mode = 4 THEN 1 ELSE 0 BY <1>2, <2>3
  <2>7. bytes = f \o g BY <1>3, <2>3
  <2>8. /\ bytes \in Seq(ByteValues) /\ Len(bytes) = Len(f) + Len(g)
        /\ \A i \in 1 .. Len(f) + Len(g) : bytes[i] = IF i <= Len(f) THEN f[i] ELSE g[i - Len(f)]
    BY <2>4, <2>6, <2>7, ConcatProperties
  <2>9. Len(bytes) = user.mode BY <2>4, <2>5, <2>6, <2>8
  <2>10. 1 \in 1 .. Len(f) + Len(g) /\ 1 <= Len(f) BY <2>4, <2>6
  <2>11. bytes[1] = s BY <2>4, <2>8, <2>10
  <2>12. bytes # <<>> /\ Head(bytes) = bytes[1] BY <2>5, <2>8, <2>9
  <2> QED BY <2>8, <2>9, <2>11, <2>12
<1>7. /\ mouse_port' \in Seq(ByteValues) /\ seen' \in Flags /\ seen'.late = seen.late
      /\ seen'.overflow = seen.overflow /\ seen'.buried = seen.buried /\ seen'.clipped = seen.clipped
      /\ ~seen'.lost => ~seen.lost /\ mouse_port' = bytes
  BY <1>4, <1>5, <1>6, ArriveFact
<1>8. Before' \in Lists /\ owed' \in [keys : Int, dx : Int, wheel : Int] /\ QueueOK'
  BY <1>4, <1>7, QuietQueue
<1>9. UserTypes' /\ user'.buttons = buttons /\ user'.mode = user.mode /\ user'.held = user.held
  <2>1. PICK kind : user' = [Acted(kind) EXCEPT !.buttons = buttons] BY DEF UseMouse
  <2>2. PICK inputs : Acted(kind) = [user EXCEPT !.inputs = inputs] BY DEF Acted
  <2>3. user' = [user EXCEPT !.inputs = inputs, !.buttons = buttons] BY <2>1, <2>2
  <2> QED BY <1>5, <2>3 DEF UserTypes, UserFields
<1>10. MouseTypes' BY <1>4, <1>5 DEF MouseTypes, PointerTypes
<1>11. PortTypes' BY <1>4, <1>5, <1>7 DEF PortTypes
<1>12. Types' BY <1>4, <1>5, <1>7, <1>8, <1>9, <1>10, <1>11 DEF Types
<1>13. MouseKnown'
  <2> SUFFICES ASSUME ~seen'.late, ~seen'.lost, mouse'.ready
               PROVE  mouse'.size = user'.mode /\ Within'
    BY <1>4 DEF MouseKnown
  <2>1. mouse.size = user.mode /\ (Between \/ Within) BY <1>4, <1>7 DEF MouseKnown
  <2>2. mouse.bytes = <<>> BY <1>4, <2>1 DEF Within, Between
  <2>3. mouse_port' = bytes BY <1>7
  <2>4. Len(mouse'.bytes) + Len(mouse_port') = mouse'.size
    <3>1. Len(<<>>) = 0 /\ user.mode \in {3, 4} BY <1>5 DEF UserTypes
    <3> QED BY <1>4, <1>6, <2>1, <2>2, <2>3, <3>1
  <2>5. Within' BY <1>1, <1>4, <1>6, <1>9, <2>2, <2>3, <2>4 DEF Within
  <2> QED BY <1>4, <1>9, <2>1, <2>5
<1> QED BY <1>7, <1>8, <1>12, <1>13

\* The time of a second click runs out.
LEMMA TimeKeeps ==
    ASSUME Types, QueueOK, MouseKnown, TimePasses
    PROVE  Types' /\ QueueOK' /\ MouseKnown'
<1>1. PICK last : mouse' = [mouse EXCEPT !.last = last] BY DEF TimePasses
<1>2. /\ kb' = kb /\ queue' = queue /\ kb_port' = kb_port /\ mouse_port' = mouse_port
      /\ user' = user /\ owed' = owed /\ latest' = latest /\ seen' = seen
  BY DEF TimePasses, ports
<1>3. kb \in Keyboards /\ MouseTypes /\ PortTypes /\ UserTypes /\ seen \in Flags BY DEF Types
<1>4. AlikeEvent(mouse, mouse') BY <1>1, <1>3 DEF AlikeEvent, MouseTypes, PointerTypes, MouseFields
<1>5. Before' \in Lists /\ owed' \in [keys : Int, dx : Int, wheel : Int] /\ QueueOK'
  BY <1>2, <1>4, QuietQueue DEF AlikeEvent
<1>6. MouseTypes' BY <1>3, <1>4 DEF MouseTypes, PointerTypes, AlikeEvent
<1>7. PortTypes' /\ UserTypes' BY <1>2, <1>3, <1>4 DEF PortTypes, UserTypes, AlikeEvent
<1>8. Types' BY <1>2, <1>3, <1>5, <1>6, <1>7 DEF Types
<1>9. MouseKnown' BY <1>2, <1>4 DEF MouseKnown, Setup, Between, Within, AlikeEvent
<1> QED BY <1>5, <1>8, <1>9


LEMMA AnswerFact ==
    ASSUME NEW i \in 1 .. 9, user.mode \in {3, 4}
    PROVE  /\ Answer(i) \in Seq(ByteValues) /\ Answer(i) # <<>> /\ Head(Answer(i)) = ACK
           /\ i # 8 => Answer(i) = <<ACK>>
           /\ i = 8 => Answer(i) = <<ACK, IF user.mode = 4 THEN 3 ELSE 0>>
<1>1. PICK v : v = IF user.mode = 4 THEN 3 ELSE 0 OBVIOUS
<1>2. v \in ByteValues /\ ACK \in ByteValues BY <1>1 DEF ByteValues, ACK
<1>3. PICK a : a = ACK OBVIOUS
<1>4. CASE i = 8
  <2>1. Answer(i) = <<a, v>> BY <1>1, <1>3, <1>4 DEF Answer, MOUSE_GET_DEVICE_ID
  <2>2. <<a, v>> \in Seq(ByteValues) /\ <<a, v>> # <<>> /\ Head(<<a, v>>) = a BY <1>2, <1>3
  <2> QED BY <1>1, <1>3, <1>4, <2>1, <2>2
<1>5. CASE i # 8
  <2>1. Answer(i) = <<a>> BY <1>3, <1>5 DEF Answer, MOUSE_GET_DEVICE_ID
  <2>2. <<a>> \in Seq(ByteValues) /\ <<a>> # <<>> /\ Head(<<a>>) = a BY <1>2, <1>3
  <2> QED BY <1>3, <1>5, <2>1, <2>2
<1> QED BY <1>4, <1>5

LEMMA EmptyConcat ==
    ASSUME NEW S, NEW q \in Seq(S)
    PROVE  <<>> \o q = q
  OBVIOUS

\* What the controller holds with an answer, and what of it is left.
LEMMA RepliesFact ==
    ASSUME PortTypes, mouse.step \in 1 .. 9, user.mode \in {3, 4}
    PROVE  /\ Replies \in Seq(ByteValues) /\ Tail(Replies) \in Seq(ByteValues)
           /\ SubSeq(Replies, 3, Len(Replies)) \in Seq(ByteValues)
           /\ Unread \subseteq Seq(ByteValues)
           /\ \A u \in Unread : u \o <<ACK>> \in Seq(ByteValues) /\ u \o <<>> \in Seq(ByteValues)
<1>1. PICK r, a : r = Replies /\ a = Answer(mouse.step) OBVIOUS
<1>2. a \in Seq(ByteValues) /\ a # <<>> BY <1>1, AnswerFact
<1>3. mouse_port \in Seq(ByteValues) BY DEF PortTypes
<1>4. r = mouse_port \o a BY <1>1 DEF Replies
<1>5. r \in Seq(ByteValues) /\ Len(r) = Len(mouse_port) + Len(a)
  BY <1>2, <1>3, <1>4, ConcatProperties
<1>6. r # <<>>
  <2>1. Len(a) > 0 /\ Len(mouse_port) \in Nat BY <1>2, <1>3
  <2> QED BY <1>5, <2>1
<1>7. Tail(r) \in Seq(ByteValues) BY <1>5, <1>6, HeadTailProperties
<1>8. SubSeq(r, 3, Len(r)) \in Seq(ByteValues)
  <2>1. \A j \in 3 .. Len(r) : r[j] \in ByteValues BY <1>5
  <2> QED BY <1>5, <2>1
<1>9. Unread \subseteq Seq(ByteValues) BY <1>1, <1>5, <1>7 DEF Unread
<1>10. ASSUME NEW u \in Unread
       PROVE  u \o <<ACK>> \in Seq(ByteValues) /\ u \o <<>> \in Seq(ByteValues)
  <2>1. PICK v, e : v = <<ACK>> /\ e = <<>> OBVIOUS
  <2>2. v \in Seq(ByteValues) /\ e \in Seq(ByteValues) BY <2>1 DEF ACK, ByteValues
  <2>3. u \in Seq(ByteValues) BY <1>9
  <2> QED BY <2>1, <2>2, <2>3, ConcatProperties
<1> QED BY <1>1, <1>5, <1>7, <1>8, <1>9, <1>10

\* A command that fails goes on with the last one or gives up.
LEMMA FailFact ==
    ASSUME mouse_command_fails
    PROVE  \E a \in {9, 10} : mouse' = [mouse EXCEPT !.step = a]
  BY DEF mouse_command_fails, MOUSE_SET_DEFAULTS, MOUSE_ENABLE_STREAMING, MOUSE_GET_DEVICE_ID

\* A command that was answered: the next step, and after the id the packet size.
Size(replies) == IF mouse.step = 8 /\ replies[2] = 3 THEN 4 ELSE mouse.size
LEMMA AnsweredFact ==
    ASSUME MouseTypes, mouse.step \in 1 .. 9, CommandAnswered
    PROVE  /\ mouse' = [mouse EXCEPT !.step = mouse.step + 1, !.ready = (mouse.step = 9), !.size = Size(Replies)]
           /\ seen' = seen
           /\ mouse_port' = IF mouse.step = 8 THEN SubSeq(Replies, 3, Len(Replies)) ELSE Tail(Replies)
<1>1. PICK r : r = Replies OBVIOUS
<1>2. mouse' = [mouse EXCEPT !.step = @ + 1, !.ready = (mouse.step = 9),
                             !.size = IF mouse.step = 8 /\ r[2] = 3 THEN 4 ELSE @]
  BY <1>1 DEF CommandAnswered, Identifying, MOUSE_GET_DEVICE_ID, MOUSE_ENABLE_STREAMING
<1>3. PICK b, c : b = (mouse.step = 9) /\ c = IF mouse.step = 8 /\ r[2] = 3 THEN 4 ELSE mouse.size
  OBVIOUS
<1>4. mouse' = [mouse EXCEPT !.step = mouse.step + 1, !.ready = b, !.size = c]
  BY <1>2, <1>3 DEF MouseTypes, PointerTypes, MouseFields
<1>5. /\ seen' = seen
      /\ mouse_port' = IF mouse.step = 8 THEN SubSeq(r, 3, Len(r)) ELSE Tail(r)
  BY <1>1 DEF CommandAnswered, Identifying, MOUSE_GET_DEVICE_ID
<1> QED BY <1>1, <1>3, <1>4, <1>5 DEF Size

\* A command of mouse_init.
LEMMA CommandKeeps ==
    ASSUME Types, QueueOK, MouseKnown, mouse_command
    PROVE  Types' /\ QueueOK' /\ MouseKnown' /\ user'.held = user.held
           /\ kb_port' = kb_port /\ kb' = kb /\ seen'.lost = seen.lost
<1>1. PICK i : i = mouse.step OBVIOUS
<1>2. kb \in Keyboards /\ MouseTypes /\ PortTypes /\ UserTypes /\ seen \in Flags BY DEF Types
<1>3. i \in 1 .. 9 /\ kb' = kb /\ queue' = queue /\ kb_port' = kb_port /\ owed' = owed /\ latest' = latest
  BY <1>1, <1>2 DEF mouse_command, MouseTypes
<1>4. user.mode \in {3, 4} /\ mouse.size \in {3, 4} /\ mouse.ready \in BOOLEAN /\ Len(mouse.bytes) \in Nat
  BY <1>2 DEF UserTypes, MouseTypes
<1>5. PICK replies, unread : replies = Replies /\ unread = Unread OBVIOUS
<1>6. /\ replies \in Seq(ByteValues) /\ Tail(replies) \in Seq(ByteValues)
      /\ SubSeq(replies, 3, Len(replies)) \in Seq(ByteValues)
      /\ unread \subseteq Seq(ByteValues)
      /\ \A u \in unread : u \o <<ACK>> \in Seq(ByteValues) /\ u \o <<>> \in Seq(ByteValues)
  BY <1>1, <1>2, <1>3, <1>4, <1>5, RepliesFact
<1>7. PICK u : u = Commanded OBVIOUS
<1>8. /\ DOMAIN u = UserFields /\ u.held = user.held /\ u.buttons = user.buttons /\ u.wheel = user.wheel
      /\ u.mode \in {3, 4} /\ (i # 7 => u.mode = user.mode)
  <2>1. PICK mode : mode = IF i = 7 /\ user.wheel THEN 4 ELSE user.mode OBVIOUS
  <2>2. u = [user EXCEPT !.mode = mode] BY <1>1, <1>7, <2>1 DEF Commanded
  <2>3. mode \in {3, 4} /\ (i # 7 => mode = user.mode) BY <1>4, <2>1
  <2> QED BY <1>2, <2>2, <2>3 DEF UserTypes, UserFields
<1>9. user' \in {u, user} => UserTypes' /\ user'.held = user.held /\ user'.buttons = user.buttons
  BY <1>2, <1>8 DEF UserTypes
<1>10. PICK b, c : b = (i = 9) /\ c = Size(replies) OBVIOUS
<1>11. b \in BOOLEAN /\ c \in {mouse.size, 4} /\ i + 1 \in 1 .. 10 BY <1>3, <1>10 DEF Size
<1>12. \/ /\ (\E a \in {9, 10} : mouse' = [mouse EXCEPT !.step = a])
          /\ seen' \in {seen, [seen EXCEPT !.late = TRUE]}
          /\ mouse_port' \in Seq(ByteValues) /\ user' \in {u, user}
          /\ seen'.late \/ mouse' = [mouse EXCEPT !.step = 10] \/ Head(replies) # ACK
       \/ /\ mouse' = [mouse EXCEPT !.step = i + 1, !.ready = b, !.size = c] /\ seen' = seen
          /\ mouse_port' = IF i = 8 THEN SubSeq(replies, 3, Len(replies)) ELSE Tail(replies)
          /\ mouse_port' \in Seq(ByteValues) /\ user' = u /\ Head(replies) = ACK
  <2>0. [seen EXCEPT !.late = TRUE].late BY <1>2 DEF Flags
  <2>1. CASE CommandAnswered /\ user' = u
    <3>1. /\ mouse' = [mouse EXCEPT !.step = i + 1, !.ready = b, !.size = c] /\ seen' = seen
          /\ mouse_port' = IF i = 8 THEN SubSeq(replies, 3, Len(replies)) ELSE Tail(replies)
      BY <1>1, <1>2, <1>3, <1>5, <1>10, <2>1, AnsweredFact
    <3>2. Head(replies) = ACK BY <1>5, <2>1 DEF CommandAnswered
    <3> QED BY <1>6, <2>1, <3>1, <3>2
  <2>2. CASE CommandRefused /\ user' = u
    <3>1. /\ mouse_command_fails /\ Head(replies) # ACK /\ seen' = seen /\ mouse_port' = Tail(replies)
      BY <1>5, <2>2 DEF CommandRefused
    <3> QED BY <1>6, <2>2, <3>1, FailFact
  <2>3. CASE CommandBlocked /\ user' = u
    <3>1. /\ mouse' = [mouse EXCEPT !.step = 10] /\ seen' = seen
          /\ \E q \in unread : mouse_port' \in {q \o <<ACK>>, q \o <<>>}
      BY <1>5, <2>3, Zenon DEF CommandBlocked
    <3> QED BY <1>6, <2>3, <3>1
  <2>4. CASE CommandLate /\ user' = u
    <3>1. mouse_command_fails /\ seen' = [seen EXCEPT !.late = TRUE] /\ mouse_port' \in unread
      BY <1>5, <2>4 DEF CommandLate
    <3>2. PICK a \in {9, 10} : mouse' = [mouse EXCEPT !.step = a] BY <3>1, FailFact
    <3> QED BY <1>6, <2>0, <2>4, <3>1, <3>2
  <2>5. CASE mouse_command_fails /\ seen' = [seen EXCEPT !.late = TRUE] /\ user' = user /\ mouse_port' = mouse_port
    <3>1. PICK a \in {9, 10} : mouse' = [mouse EXCEPT !.step = a] BY <2>5, FailFact
    <3> QED BY <1>2, <2>0, <2>5, <3>1 DEF PortTypes
  <2> QED BY <1>7, <2>1, <2>2, <2>3, <2>4, <2>5 DEF mouse_command
<1>13. \E a \in 1 .. 10, d \in BOOLEAN, e \in {mouse.size, 4} :
         mouse' = [mouse EXCEPT !.step = a, !.ready = d, !.size = e]
  <2>1. ASSUME NEW a \in {9, 10}, mouse' = [mouse EXCEPT !.step = a]
        PROVE  \E d \in BOOLEAN, e \in {mouse.size, 4} :
                 mouse' = [mouse EXCEPT !.step = a, !.ready = d, !.size = e]
    <3>1. mouse' = [mouse EXCEPT !.step = a, !.ready = mouse.ready, !.size = mouse.size]
      BY <1>2, <2>1 DEF MouseTypes, PointerTypes, MouseFields
    <3> QED BY <1>4, <3>1
  <2>2. \A a \in {9, 10} : a \in 1 .. 10 OBVIOUS
  <2> QED BY <1>11, <1>12, <2>1, <2>2
<1>14. /\ MouseTypes' /\ mouse'.x = mouse.x /\ mouse'.buttons = mouse.buttons /\ mouse'.bytes = mouse.bytes
  <2>1. PICK a \in 1 .. 10, d \in BOOLEAN, e \in {mouse.size, 4} :
          mouse' = [mouse EXCEPT !.step = a, !.ready = d, !.size = e]
    BY <1>13
  <2>2. /\ DOMAIN mouse' = MouseFields /\ mouse'.x = mouse.x /\ mouse'.buttons = mouse.buttons
        /\ mouse'.bytes = mouse.bytes /\ mouse'.step = a /\ mouse'.ready = d /\ mouse'.size = e
    BY <1>2, <2>1 DEF MouseTypes, PointerTypes, MouseFields
  <2>3. e \in {3, 4} /\ Len(mouse.bytes) < e BY <1>2, <1>4 DEF MouseTypes
  <2> QED BY <1>2, <2>2, <2>3 DEF MouseTypes, PointerTypes
<1>15. mouse_port' \in Seq(ByteValues) /\ UserTypes' /\ user'.held = user.held /\ user'.buttons = user.buttons
  BY <1>9, <1>12
<1>16. /\ seen' \in Flags /\ seen'.lost = seen.lost
       /\ seen'.overflow = seen.overflow /\ seen'.buried = seen.buried /\ seen'.clipped = seen.clipped
  BY <1>2, <1>12 DEF Flags
<1>17. Before' \in Lists /\ owed' \in [keys : Int, dx : Int, wheel : Int] /\ QueueOK'
  BY <1>3, <1>14, <1>16, QuietQueue
<1>18. PortTypes' BY <1>2, <1>3, <1>15 DEF PortTypes
<1>19. Types' BY <1>2, <1>3, <1>14, <1>15, <1>16, <1>17, <1>18 DEF Types
<1>20. MouseKnown'
  <2> SUFFICES ASSUME ~seen'.late, ~seen'.lost
               PROVE  /\ mouse'.step < 10 => Setup'
                      /\ mouse'.step = 10 /\ mouse'.ready => mouse'.size = user'.mode /\ Between'
    BY DEF MouseKnown
  <2>1. seen' = seen BY <1>2, <1>12 DEF Flags
  <2>2. Setup BY <1>1, <1>3, <2>1 DEF MouseKnown
  <2>3. mouse_port = <<>> /\ mouse.bytes = <<>> /\ mouse.buttons = user.buttons /\ ~mouse.ready
        /\ (i <= 7 => user.mode = 3 /\ mouse.size = 3)
        /\ (i = 8 => mouse.size = 3) /\ (i = 9 => mouse.size = user.mode)
    BY <1>1, <2>2 DEF Setup
  <2>4. /\ Answer(i) \in Seq(ByteValues) /\ Head(Answer(i)) = ACK
        /\ i # 8 => Answer(i) = <<ACK>>
        /\ i = 8 => Answer(i) = <<ACK, IF user.mode = 4 THEN 3 ELSE 0>>
    BY <1>3, <1>4, AnswerFact
  <2>5. replies = Answer(i) BY <1>1, <1>5, <2>3, <2>4, EmptyConcat DEF Replies
  <2>6. Head(replies) = ACK BY <2>4, <2>5
  <2>7. CASE mouse' = [mouse EXCEPT !.step = 10]
    <3>1. mouse'.step = 10 /\ ~mouse'.ready
      BY <1>2, <2>3, <2>7 DEF MouseTypes, PointerTypes, MouseFields
    <3> QED BY <3>1
  <2>8. CASE /\ mouse' = [mouse EXCEPT !.step = i + 1, !.ready = b, !.size = c] /\ user' = u
             /\ mouse_port' = IF i = 8 THEN SubSeq(replies, 3, Len(replies)) ELSE Tail(replies)
    <3>1. mouse'.step = i + 1 /\ mouse'.ready = b /\ mouse'.size = c
      BY <1>2, <2>8 DEF MouseTypes, PointerTypes, MouseFields
    <3>2. mouse_port' = <<>>
      <4>1. CASE i # 8
        <5>1. Tail(<<ACK>>) = <<>> OBVIOUS
        <5> QED BY <2>4, <2>5, <2>8, <4>1, <5>1
      <4>2. CASE i = 8
        <5>1. PICK a, d : replies = <<a, d>> BY <2>4, <2>5, <4>2
        <5>2. SubSeq(<<a, d>>, 3, Len(<<a, d>>)) = <<>> OBVIOUS
        <5> QED BY <2>8, <4>2, <5>1, <5>2
      <4> QED BY <4>1, <4>2
    <3>3. i = 8 => c = u.mode
      <4> SUFFICES ASSUME i = 8 PROVE c = u.mode OBVIOUS
      <4>1. replies[2] = IF user.mode = 4 THEN 3 ELSE 0 BY <2>4, <2>5
      <4>2. user.mode = 4 <=> replies[2] = 3 BY <1>4, <4>1
      <4> QED BY <1>1, <1>4, <1>8, <1>10, <2>3, <4>2 DEF Size
    <3>4. i # 8 => c = mouse.size BY <1>1, <1>10 DEF Size
    <3>5. mouse'.step < 10 => Setup'
      <4> SUFFICES ASSUME mouse'.step < 10 PROVE Setup' OBVIOUS
      <4>1. mouse'.step <= 7 => user'.mode = 3 /\ mouse'.size = 3
        BY <1>3, <1>8, <2>3, <2>8, <3>1, <3>4
      <4>2. mouse'.step = 8 => mouse'.size = 3 BY <1>3, <2>3, <3>1, <3>4
      <4>3. mouse'.step = 9 => mouse'.size = user'.mode BY <1>3, <2>8, <3>1, <3>3
      <4>4. mouse_port' = <<>> /\ mouse'.bytes = <<>> /\ mouse'.buttons = user'.buttons
        BY <1>14, <1>15, <2>3, <3>2
      <4>5. ~mouse'.ready
        <5>1. i # 9 BY <1>3, <3>1
        <5> QED BY <1>10, <3>1, <5>1, Zenon
      <4> QED BY <4>1, <4>2, <4>3, <4>4, <4>5 DEF Setup
    <3>6. mouse'.step = 10 => mouse'.size = user'.mode /\ Between'
      <4> SUFFICES ASSUME mouse'.step = 10 PROVE mouse'.size = user'.mode /\ Between' OBVIOUS
      <4>1. i = 9 BY <1>3, <3>1
      <4>2. mouse'.size = user'.mode BY <1>8, <2>3, <2>8, <3>1, <3>4, <4>1
      <4>3. Between' BY <1>14, <1>15, <2>3, <3>2 DEF Between
      <4> QED BY <4>2, <4>3
    <3> QED BY <3>5, <3>6
  <2> QED BY <1>12, <2>1, <2>6, <2>7, <2>8
<1> QED BY <1>3, <1>15, <1>16, <1>17, <1>19, <1>20


\* A program takes an event: nothing else changes.
LEMMA TakeKeeps ==
    ASSUME Types, QueueOK, MouseKnown, rootinput_next_event
    PROVE  Types' /\ QueueOK' /\ MouseKnown'
<1>1. kb' = kb /\ mouse' = mouse /\ kb_port' = kb_port /\ mouse_port' = mouse_port /\ user' = user
      /\ seen' = seen
  BY DEF rootinput_next_event, ports
<1>2. kb \in Keyboards /\ MouseTypes /\ PortTypes /\ UserTypes /\ seen \in Flags BY DEF Types
<1>3. Before' \in Lists /\ owed' \in [keys : Int, dx : Int, wheel : Int] /\ QueueOK' BY TakeKeepsQueue
<1>4. MouseTypes' /\ PortTypes' /\ UserTypes'
  BY <1>1, <1>2 DEF MouseTypes, PointerTypes, PortTypes, UserTypes
<1>5. MouseKnown' BY <1>1 DEF MouseKnown, Setup, Between, Within
<1> QED BY <1>1, <1>2, <1>3, <1>4, <1>5 DEF Types

\* The kernel takes a byte.
LEMMA PollKeeps ==
    ASSUME Types, QueueOK, MouseKnown, rootinput_poll
    PROVE  Types' /\ QueueOK' /\ MouseKnown'
<1>1. mouse.step = 10 /\ user' = user /\ latest' = latest BY DEF rootinput_poll
<1>2. kb \in Keyboards /\ MouseTypes /\ PortTypes /\ UserTypes /\ seen \in Flags /\ Before \in Lists
  BY DEF Types
<1>3. UserTypes' BY <1>1, <1>2 DEF UserTypes
<1>4. kb_port \in Seq(KeyBytes) /\ mouse_port \in Seq(ByteValues) BY <1>2 DEF PortTypes
<1>5. CASE /\ kb_port # <<>> /\ kb_port' = Tail(kb_port) /\ mouse_port' = mouse_port
           /\ process_keyboard(Head(kb_port))
  <2>1. PICK n : n = Head(kb_port) OBVIOUS
  <2>2. n \in CapNames \X BOOLEAN /\ Tail(kb_port) \in Seq(KeyBytes)
    BY <1>4, <1>5, <2>1, HeadTailProperties DEF KeyBytes
  <2>3. /\ kb' \in Keyboards /\ mouse' = mouse
        /\ Before' \in Lists /\ owed' \in [keys : Int, dx : Int, wheel : Int]
        /\ seen' \in Flags /\ seen'.lost = seen.lost /\ seen'.late = seen.late
        /\ latest' = latest => QueueOK'
    BY <1>5, <2>1, <2>2, KeyKeepsQueue
  <2>4. MouseTypes' BY <1>2, <2>3 DEF MouseTypes, PointerTypes
  <2>5. PortTypes' BY <1>4, <1>5, <2>2 DEF PortTypes
  <2>6. Types' /\ QueueOK' BY <1>1, <1>3, <2>3, <2>4, <2>5 DEF Types
  <2>7. MouseKnown' BY <1>1, <1>5, <2>3 DEF MouseKnown, Setup, Between, Within
  <2> QED BY <2>6, <2>7
<1>6. CASE /\ mouse_port # <<>> /\ mouse_port' = Tail(mouse_port) /\ kb_port' = kb_port
           /\ IF mouse.ready THEN process_mouse(Head(mouse_port))
              ELSE UNCHANGED <<kb, mouse, queue, owed, seen>>
  <2>1. PICK v : v = Head(mouse_port) OBVIOUS
  <2>2. v \in ByteValues /\ Tail(mouse_port) \in Seq(ByteValues)
        /\ Len(Tail(mouse_port)) = Len(mouse_port) - 1 /\ Len(mouse_port) \in Nat
    BY <1>4, <1>6, <2>1, HeadTailProperties
  <2>3. CASE ~mouse.ready
    <3>1. kb' = kb /\ mouse' = mouse /\ queue' = queue /\ owed' = owed /\ seen' = seen BY <1>6, <2>3
    <3>2. Before' \in Lists /\ owed' \in [keys : Int, dx : Int, wheel : Int] /\ QueueOK'
      BY <1>1, <3>1, QuietQueue
    <3>3. MouseTypes' BY <1>2, <3>1 DEF MouseTypes, PointerTypes
    <3>4. PortTypes' BY <1>4, <1>6, <2>2 DEF PortTypes
    <3>5. Types' BY <1>2, <1>3, <3>1, <3>2, <3>3, <3>4 DEF Types
    <3>6. MouseKnown' BY <1>1, <2>3, <3>1 DEF MouseKnown
    <3> QED BY <3>2, <3>5, <3>6
  <2>4. CASE mouse.ready
    <3>1. process_mouse(v) BY <1>6, <2>1, <2>4
    <3>2. PICK b : b = IF mouse.bytes = <<>> /\ ~Bit(v, 8) THEN mouse.bytes ELSE Append(mouse.bytes, v)
      OBVIOUS
    <3>3. /\ kb' = kb /\ MouseTypes' /\ mouse'.ready = mouse.ready /\ mouse'.size = mouse.size
          /\ mouse'.step = mouse.step
          /\ Before' \in Lists /\ owed' \in [keys : Int, dx : Int, wheel : Int]
          /\ seen' \in Flags /\ seen'.lost = seen.lost /\ seen'.late = seen.late
          /\ latest' = latest => QueueOK'
          /\ Len(b) < mouse.size => mouse'.bytes = b /\ mouse'.buttons = mouse.buttons
          /\ Len(b) = mouse.size => mouse'.bytes = <<>> /\ mouse'.buttons = Down(b)
          /\ Len(b) <= mouse.size
      BY <2>2, <3>1, <3>2, MouseKeepsQueue, Zenon
    <3>4. PortTypes' BY <1>4, <1>6, <2>2 DEF PortTypes
    <3>5. Types' /\ QueueOK' BY <1>1, <1>2, <1>3, <3>3, <3>4 DEF Types
    <3>6. MouseKnown'
      <4> SUFFICES ASSUME ~seen'.late, ~seen'.lost
                   PROVE  mouse'.size = user'.mode /\ (Between' \/ Within')
        BY <1>1, <3>3 DEF MouseKnown
      <4>1. mouse.size = user.mode /\ (Between \/ Within) BY <1>1, <2>4, <3>3 DEF MouseKnown
      <4>2. Within BY <1>6, <4>1 DEF Between
      <4>3. PICK k \in Nat : k = Len(mouse.bytes) BY <1>2 DEF MouseTypes
      <4>4. mouse.bytes \in Seq(ByteValues) /\ mouse.size \in {3, 4} /\ (mouse.bytes = <<>> <=> k = 0)
        BY <1>2, <4>3 DEF MouseTypes
      <4>5. k + Len(mouse_port) = mouse.size BY <4>2, <4>3 DEF Within
      <4>6. PICK s : s = Status(user.buttons) OBVIOUS
      <4>7. user.buttons \in SUBSET Buttons BY <1>2 DEF UserTypes
      <4>8. mouse.bytes = <<>> => v = s BY <2>1, <4>2, <4>6 DEF Within
      <4>9. mouse.bytes # <<>> => mouse.bytes[1] = s BY <4>2, <4>6 DEF Within
      <4>10. Bit(s, 8)
        <5>1. PICK p : p = <<s>> OBVIOUS
        <5>2. p[1] = Status(user.buttons) BY <4>6, <5>1
        <5> QED BY <4>6, <4>7, <5>2, StatusFact
      <4>11. b = Append(mouse.bytes, v) BY <3>2, <4>8, <4>10
      <4>12. Len(b) = k + 1 /\ b # <<>> /\ b[1] = s
        <5>1. CASE k = 0
          <6>1. b = <<v>>
            <7>1. \A w : Append(<<>>, w) = <<w>> OBVIOUS
            <7> QED BY <4>4, <4>11, <5>1, <7>1
          <6> QED BY <4>4, <4>8, <5>1, <6>1
        <5>2. CASE k > 0
          <6>1. b[1] = mouse.bytes[1] /\ Len(b) = k + 1 BY <2>2, <4>3, <4>4, <4>11, <5>2
          <6>2. b # <<>> BY <2>2, <4>4, <4>11, <5>2, <6>1
          <6> QED BY <4>4, <4>9, <5>2, <6>1, <6>2
        <5> QED BY <5>1, <5>2
      <4>13. CASE Len(b) < mouse.size
        <5>1. mouse'.bytes = b /\ mouse'.size = mouse.size BY <3>3, <4>13
        <5>2. Len(mouse_port') = Len(mouse_port) - 1 /\ Len(mouse_port') > 0
          BY <1>6, <2>2, <4>4, <4>5, <4>12, <4>13
        <5>3. mouse_port' # <<>> BY <5>2
        <5>4. Len(mouse'.bytes) + Len(mouse_port') = mouse'.size BY <2>2, <4>5, <4>12, <5>1, <5>2
        <5>5. Within' BY <1>1, <4>6, <4>12, <5>1, <5>3, <5>4 DEF Within
        <5> QED BY <1>1, <3>3, <4>1, <5>5
      <4>14. CASE Len(b) = mouse.size
        <5>1. mouse'.bytes = <<>> /\ mouse'.buttons = Down(b) BY <3>3, <4>14
        <5>2. Down(b) = user.buttons BY <4>6, <4>7, <4>12, StatusFact
        <5>3. mouse_port' \in Seq(ByteValues) /\ Len(mouse_port') = 0
          BY <1>6, <2>2, <4>5, <4>12, <4>14
        <5>4. mouse_port' = <<>> BY <5>3
        <5>5. Between' BY <1>1, <5>1, <5>2, <5>4 DEF Between
        <5> QED BY <1>1, <3>3, <4>1, <5>5
      <4>15. Len(b) < mouse.size \/ Len(b) = mouse.size BY <3>3, <4>4, <4>12
      <4> QED BY <4>13, <4>14, <4>15
    <3> QED BY <3>5, <3>6
  <2> QED BY <2>3, <2>4
<1> QED BY <1>5, <1>6 DEF rootinput_poll


-----------------------------------------------------------------------------
(* Which modifiers are held.                                               *)

Target(h) == {key \in Modifiers : \E c \in h : key = IF c[2] THEN extended_key(c[1]) ELSE normal_key(c[1])}

\* The held modifiers after a key, and the bytes of a key on their way.
After(h, key, up) == update_modifier(h, key, ~up)
CapOnly(cap, up) == <<K(cap, up)>>
CapAndPrefix(cap, up) == <<K(E0, FALSE), K(cap, up)>>
PrintRest(up) == <<K("shift", up), K(E0, FALSE), K("print", up)>>
PrintBytes(up) == <<K(E0, FALSE), K("shift", up), K(E0, FALSE), K("print", up)>>
PauseBytes == <<K(E1, FALSE), K("ctrl", FALSE), K("num", FALSE), K(E1, FALSE), K("ctrl", TRUE), K("num", TRUE)>>

\* What may still be on its way: nothing of the keyboard, a key with or without
\* its prefix, print screen or the rest of it, the rest of the pause key.
NoneSent(k, p, t) == p = <<>> /\ k.pause = 0 /\ ~k.extended /\ k.held = t
KeySent(k, p, t) ==
    \E cap \in CapNames, up \in BOOLEAN :
      /\ k.pause = 0 /\ cap \notin {E0, E1}
      /\ p = CapOnly(cap, up) /\ After(k.held, KeyOf(k.extended, cap), up) = t
PrefixSent(k, p, t) ==
    \E cap \in CapNames, up \in BOOLEAN :
      /\ k.pause = 0 /\ cap \notin {E0, E1}
      /\ p = CapAndPrefix(cap, up) /\ After(k.held, KeyOf(TRUE, cap), up) = t
PrintSent(k, p, t) == \E up \in BOOLEAN : k.pause = 0 /\ p = PrintBytes(up) /\ k.held = t
ShiftSent(k, p, t) == \E up \in BOOLEAN : k.pause = 0 /\ p = PrintRest(up) /\ k.held = t /\ k.extended
PauseSent(k, p, t) == k.pause = 0 /\ p = PauseBytes /\ k.held = t
Pausing(k, p, t) == k.pause > 0 /\ Len(p) = k.pause /\ k.held = t /\ ~k.extended
PartSent(k, p, t) ==
    \/ KeySent(k, p, t) \/ PrefixSent(k, p, t) \/ PrintSent(k, p, t)
    \/ ShiftSent(k, p, t) \/ PauseSent(k, p, t) \/ Pausing(k, p, t)
Sent(k, p, t) == NoneSent(k, p, t) \/ (p \in Seq(KeyBytes) /\ PartSent(k, p, t))

KeysKnown == ~seen.lost => Sent(kb, kb_port, Target(user.held))

LEMMA Unmoved ==
    ASSUME NEW held, NEW up
    PROVE  After(held, "UNKNOWN", up) = held
  BY DEF After, update_modifier, Modifiers

LEMMA ByteFact ==
    ASSUME NEW cap, NEW up
    PROVE  K(cap, up) = <<cap, up>> /\ <<cap, up>>[1] = cap /\ <<cap, up>>[2] = up
<1>1. PICK b : b = <<cap, up>> OBVIOUS
<1>2. b[1] = cap BY <1>1
<1>3. b[2] = up BY <1>1, Zenon
<1> QED BY <1>1, <1>2, <1>3 DEF K

LEMMA CapTail ==
    ASSUME NEW cap, NEW up
    PROVE  Tail(CapOnly(cap, up)) = <<>> /\ Head(CapOnly(cap, up)) = K(cap, up)
<1>1. PICK a : a = K(cap, up) OBVIOUS
<1>2. Tail(<<a>>) = <<>> /\ Head(<<a>>) = a OBVIOUS
<1> QED BY <1>1, <1>2, Zenon DEF CapOnly

LEMMA PrefixTail ==
    ASSUME NEW cap, NEW up
    PROVE  Tail(CapAndPrefix(cap, up)) = CapOnly(cap, up) /\ Head(CapAndPrefix(cap, up)) = K(E0, FALSE)
<1>1. PICK a, b : a = K(E0, FALSE) /\ b = K(cap, up) OBVIOUS
<1>2. CapAndPrefix(cap, up) = <<a, b>> /\ CapOnly(cap, up) = <<b>>
  BY <1>1, Zenon DEF CapAndPrefix, CapOnly
<1>3. Tail(<<a, b>>) = <<b>> /\ Head(<<a, b>>) = a OBVIOUS
<1> QED BY <1>1, <1>2, <1>3, Zenon

LEMMA RestTail ==
    ASSUME NEW up
    PROVE  Tail(PrintRest(up)) = CapAndPrefix("print", up) /\ Head(PrintRest(up)) = K("shift", up)
<1>1. PICK a, b, c : a = K("shift", up) /\ b = K(E0, FALSE) /\ c = K("print", up) OBVIOUS
<1>2. PrintRest(up) = <<a, b, c>> /\ CapAndPrefix("print", up) = <<b, c>>
  BY <1>1, Zenon DEF PrintRest, CapAndPrefix
<1>3. Tail(<<a, b, c>>) = <<b, c>> /\ Head(<<a, b, c>>) = a OBVIOUS
<1> QED BY <1>1, <1>2, <1>3, Zenon

LEMMA PrintTail ==
    ASSUME NEW up
    PROVE  Tail(PrintBytes(up)) = PrintRest(up) /\ Head(PrintBytes(up)) = K(E0, FALSE)
<1>1. PICK a, b, c, d : a = K(E0, FALSE) /\ b = K("shift", up) /\ c = K(E0, FALSE) /\ d = K("print", up)
  OBVIOUS
<1>2. PrintBytes(up) = <<a, b, c, d>> /\ PrintRest(up) = <<b, c, d>>
  BY <1>1, Zenon DEF PrintRest, PrintBytes
<1>3. Tail(<<a, b, c, d>>) = <<b, c, d>> /\ Head(<<a, b, c, d>>) = a OBVIOUS
<1> QED BY <1>1, <1>2, <1>3, Zenon

LEMMA PauseTail == Head(PauseBytes) = K(E1, FALSE) /\ Len(Tail(PauseBytes)) = 5
<1>1. PICK a, b, c, d, e, f :
        /\ a = K(E1, FALSE) /\ b = K("ctrl", FALSE) /\ c = K("num", FALSE) /\ d = K(E1, FALSE)
        /\ e = K("ctrl", TRUE) /\ f = K("num", TRUE)
  OBVIOUS
<1>2. PauseBytes = <<a, b, c, d, e, f>> BY <1>1, Zenon DEF PauseBytes
<1>3. Tail(PauseBytes) = <<b, c, d, e, f>> /\ Head(PauseBytes) = a /\ Len(<<b, c, d, e, f>>) = 5
  <2>1. Tail(<<a, b, c, d, e, f>>) = <<b, c, d, e, f>> /\ Head(<<a, b, c, d, e, f>>) = a
        /\ Len(<<b, c, d, e, f>>) = 5
    OBVIOUS
  <2> QED BY <1>2, <2>1, Zenon
<1> QED BY <1>1, <1>3, Zenon

\* The keyboard takes a byte.
LEMMA FeedKnows ==
    ASSUME NEW k \in Keyboards, NEW p \in Seq(KeyBytes), p # <<>>, NEW t, Sent(k, p, t)
    PROVE  Sent(keyboard_feed_byte(k, Head(p)).k, Tail(p), t)
<1>1. PICK byte, r : byte = Head(p) /\ r = keyboard_feed_byte(k, byte).k OBVIOUS
<1>2. byte \in CapNames \X BOOLEAN
  <2>1. Head(p) \in KeyBytes BY HeadTailProperties
  <2> QED BY <1>1, <2>1 DEF KeyBytes
<1>3. /\ r \in Keyboards
      /\ k.pause > 0 => r.pause = k.pause - 1 /\ r.extended = k.extended /\ r.held = k.held
      /\ k.pause = 0 /\ byte[1] = E1 => r.pause = 5 /\ ~r.extended /\ r.held = k.held
      /\ k.pause = 0 /\ byte[1] = E0 => r.pause = 0 /\ r.extended /\ r.held = k.held
      /\ k.pause = 0 /\ byte[1] \notin {E0, E1} =>
           /\ r.pause = 0 /\ ~r.extended
           /\ r.held = After(k.held, KeyOf(k.extended, byte[1]), byte[2])
  BY <1>1, <1>2, FeedFact, Zenon DEF After
<1>4. k.pause \in 0 .. 5 /\ k.extended \in BOOLEAN BY DEF Keyboards
<1>14. Tail(p) \in Seq(KeyBytes) BY HeadTailProperties
<1>6. SUFFICES Sent(r, Tail(p), t) BY <1>1
<1>7. CASE NoneSent(k, p, t) BY <1>7 DEF NoneSent
<1>8. CASE KeySent(k, p, t)
  <2>1. PICK cap \in CapNames, up \in BOOLEAN :
          /\ k.pause = 0 /\ cap \notin {E0, E1}
          /\ p = CapOnly(cap, up) /\ After(k.held, KeyOf(k.extended, cap), up) = t
    BY <1>8 DEF KeySent
  <2>2. Tail(p) = <<>> /\ byte = <<cap, up>>
    <3>1. Tail(p) = <<>> /\ Head(p) = K(cap, up) BY <2>1, CapTail, Zenon
    <3>2. byte = <<cap, up>> BY <1>1, <3>1, ByteFact, Zenon
    <3> QED BY <3>1, <3>2, Zenon
  <2>3. byte[1] = cap /\ byte[2] = up BY <2>2, ByteFact, Zenon
  <2>4. r.pause = 0 /\ ~r.extended /\ r.held = t BY <1>3, <2>1, <2>3, Zenon
  <2> QED BY <2>2, <2>4, Zenon DEF Sent, NoneSent
<1>9. CASE PrefixSent(k, p, t)
  <2>1. PICK cap \in CapNames, up \in BOOLEAN :
          /\ k.pause = 0 /\ cap \notin {E0, E1}
          /\ p = CapAndPrefix(cap, up) /\ After(k.held, KeyOf(TRUE, cap), up) = t
    BY <1>9 DEF PrefixSent
  <2>2. Tail(p) = CapOnly(cap, up) /\ byte = <<E0, FALSE>>
    <3>1. Tail(p) = CapOnly(cap, up) /\ Head(p) = K(E0, FALSE) BY <2>1, PrefixTail, Zenon
    <3>2. byte = <<E0, FALSE>> BY <1>1, <3>1, ByteFact, Zenon
    <3> QED BY <3>1, <3>2, Zenon
  <2>3. byte[1] = E0 BY <2>2, ByteFact, Zenon
  <2>4. r.pause = 0 /\ r.extended /\ r.held = k.held BY <1>3, <2>1, <2>3, Zenon
  <2>5. KeyOf(r.extended, cap) = KeyOf(TRUE, cap) BY <2>4 DEF KeyOf
  <2>6. KeySent(r, Tail(p), t) BY <2>1, <2>2, <2>4, <2>5, Zenon DEF KeySent
  <2> QED BY <1>14, <2>6, Zenon DEF Sent, PartSent
<1>10. CASE PrintSent(k, p, t)
  <2>1. PICK up \in BOOLEAN : k.pause = 0 /\ p = PrintBytes(up) /\ k.held = t BY <1>10 DEF PrintSent
  <2>2. Tail(p) = PrintRest(up) /\ byte = <<E0, FALSE>>
    <3>1. Tail(p) = PrintRest(up) /\ Head(p) = K(E0, FALSE) BY <2>1, PrintTail, Zenon
    <3>2. byte = <<E0, FALSE>> BY <1>1, <3>1, ByteFact, Zenon
    <3> QED BY <3>1, <3>2, Zenon
  <2>3. byte[1] = E0 BY <2>2, ByteFact, Zenon
  <2>4. r.pause = 0 /\ r.extended /\ r.held = t BY <1>3, <2>1, <2>3, Zenon
  <2> QED BY <1>14, <2>1, <2>2, <2>4, Zenon DEF Sent, PartSent, ShiftSent
<1>11. CASE ShiftSent(k, p, t)
  <2>1. PICK up \in BOOLEAN : k.pause = 0 /\ p = PrintRest(up) /\ k.held = t /\ k.extended
    BY <1>11 DEF ShiftSent
  <2>2. Tail(p) = CapAndPrefix("print", up) /\ byte = <<"shift", up>>
    <3>1. Tail(p) = CapAndPrefix("print", up) /\ Head(p) = K("shift", up) BY <2>1, RestTail, Zenon
    <3>2. byte = <<"shift", up>> BY <1>1, <3>1, ByteFact, Zenon
    <3> QED BY <3>1, <3>2, Zenon
  <2>3. byte[1] = "shift" /\ byte[2] = up BY <2>2, ByteFact, Zenon
  <2>4. "shift" \notin {E0, E1} /\ "print" \in CapNames /\ "print" \notin {E0, E1}
    BY DEF CapNames, E0, E1
  <2>5. KeyOf(k.extended, "shift") = "UNKNOWN" /\ KeyOf(TRUE, "print") = "UNKNOWN"
    BY <2>1 DEF KeyOf, extended_key
  <2>6. r.pause = 0 /\ r.held = After(k.held, "UNKNOWN", up) BY <1>3, <2>1, <2>3, <2>4, <2>5, Zenon
  <2>7. r.held = t BY <2>1, <2>6, Unmoved, Zenon
  <2>8. After(r.held, KeyOf(TRUE, "print"), up) = t BY <2>5, <2>7, Unmoved, Zenon
  <2>9. PrefixSent(r, Tail(p), t) BY <2>1, <2>2, <2>4, <2>6, <2>8, Zenon DEF PrefixSent
  <2> QED BY <1>14, <2>9, Zenon DEF Sent, PartSent
<1>12. CASE PauseSent(k, p, t)
  <2>1. k.pause = 0 /\ p = PauseBytes /\ k.held = t BY <1>12 DEF PauseSent
  <2>2. Len(Tail(p)) = 5 /\ byte = <<E1, FALSE>>
    <3>1. Len(Tail(p)) = 5 /\ Head(p) = K(E1, FALSE) BY <2>1, PauseTail, Zenon
    <3>2. byte = <<E1, FALSE>> BY <1>1, <3>1, ByteFact, Zenon
    <3> QED BY <3>1, <3>2, Zenon
  <2>3. byte[1] = E1 BY <2>2, ByteFact, Zenon
  <2>4. r.pause = 5 /\ ~r.extended /\ r.held = t BY <1>3, <2>1, <2>3, Zenon
  <2>5. r.pause > 0 /\ Len(Tail(p)) = r.pause BY <2>2, <2>4
  <2> QED BY <1>14, <2>4, <2>5, Zenon DEF Sent, PartSent, Pausing
<1>13. CASE Pausing(k, p, t)
  <2>1. k.pause > 0 /\ Len(p) = k.pause /\ k.held = t /\ ~k.extended BY <1>13 DEF Pausing
  <2>2. r.pause = k.pause - 1 /\ ~r.extended /\ r.held = t BY <1>3, <2>1
  <2>3. PICK q : q = Tail(p) OBVIOUS
  <2>4. q \in Seq(KeyBytes) /\ Len(q) = Len(p) - 1 BY <2>3, HeadTailProperties
  <2>5. CASE k.pause = 1
    <3>1. Len(q) = 0 /\ r.pause = 0 BY <2>1, <2>2, <2>4, <2>5
    <3>2. q = <<>> BY <2>4, <3>1
    <3> QED BY <2>2, <2>3, <3>1, <3>2, Zenon DEF Sent, NoneSent
  <2>6. CASE k.pause # 1
    <3>1. r.pause > 0 /\ Len(q) = r.pause BY <1>4, <2>1, <2>2, <2>4, <2>6
    <3> QED BY <1>14, <2>2, <2>3, <3>1, Zenon DEF Sent, PartSent, Pausing
  <2> QED BY <2>5, <2>6
<1> QED BY <1>7, <1>8, <1>9, <1>10, <1>11, <1>12, <1>13, Zenon DEF Sent, PartSent

\* No bytes leave nothing of a key on its way.
LEMMA OnlyNone ==
    ASSUME NEW k, NEW p, p = <<>>, NEW t, Sent(k, p, t)
    PROVE  NoneSent(k, p, t)
<1> SUFFICES ASSUME PartSent(k, p, t) PROVE FALSE BY DEF Sent
<1>1. p = <<>> OBVIOUS
<1>2. \A a : <<a>> # <<>> OBVIOUS
<1>3. \A a, b : <<a, b>> # <<>> OBVIOUS
<1>4. \A a, b, c : <<a, b, c>> # <<>> OBVIOUS
<1>5. \A a, b, c, d : <<a, b, c, d>> # <<>> OBVIOUS
<1>6. \A a, b, c, d, e, f : <<a, b, c, d, e, f>> # <<>> OBVIOUS
<1>7. ~KeySent(k, p, t) BY <1>1, <1>2, Zenon DEF KeySent, CapOnly
<1>8. ~PrefixSent(k, p, t) BY <1>1, <1>3, Zenon DEF PrefixSent, CapAndPrefix
<1>9. ~ShiftSent(k, p, t) BY <1>1, <1>4, Zenon DEF ShiftSent, PrintRest
<1>10. ~PrintSent(k, p, t) BY <1>1, <1>5, Zenon DEF PrintSent, PrintBytes
<1>11. ~PauseSent(k, p, t) BY <1>1, <1>6, Zenon DEF PauseSent, PauseBytes
<1>12. ~Pausing(k, p, t) BY <1>1 DEF Pausing
<1> QED BY <1>7, <1>8, <1>9, <1>10, <1>11, <1>12, Zenon DEF PartSent

\* A modifier has one key cap.
LEMMA OneCap ==
    ASSUME NEW c \in Caps, NEW d \in Caps, KeyOf(c[2], c[1]) \in Modifiers, KeyOf(d[2], d[1]) = KeyOf(c[2], c[1])
    PROVE  c = d
<1>1. c[2] \in BOOLEAN /\ d[2] \in BOOLEAN /\ c = <<c[1], c[2]>> /\ d = <<d[1], d[2]>> BY CapFact
<1>2. PICK a, b : a = c[1] /\ b = d[1] OBVIOUS
<1>3. c[2] = d[2] /\ a = b
  <2>1. CASE c[2] /\ d[2]
    BY <1>2, <2>1 DEF KeyOf, extended_key, Modifiers
  <2>2. CASE c[2] /\ ~d[2]
    BY <1>2, <2>2 DEF KeyOf, extended_key, normal_key, Modifiers
  <2>3. CASE ~c[2] /\ d[2]
    BY <1>2, <2>3 DEF KeyOf, extended_key, normal_key, Modifiers
  <2>4. CASE ~c[2] /\ ~d[2]
    BY <1>1, <1>2, <2>4 DEF KeyOf, normal_key, Modifiers
  <2> QED BY <1>1, <2>1, <2>2, <2>3, <2>4
<1> QED BY <1>1, <1>2, <1>3

LEMMA TargetFact ==
    ASSUME NEW h, NEW key
    PROVE  key \in Target(h) <=> key \in Modifiers /\ \E c \in h : key = KeyOf(c[2], c[1])
  BY DEF Target, KeyOf

\* A key changes what should be held as it changes what is held.
LEMMA PressTarget ==
    ASSUME NEW c \in Caps, NEW h \in SUBSET Caps, NEW up \in BOOLEAN, up <=> c \in h, NEW new,
           new = IF up THEN h \ {c} ELSE h \cup {c}
    PROVE  Target(new) = After(Target(h), KeyOf(c[2], c[1]), up)
<1>1. PICK key : key = KeyOf(c[2], c[1]) OBVIOUS
<1>2. CASE key \notin Modifiers
  <2>1. \A n : n \in Target(new) <=> n \in Target(h)
    <3> SUFFICES ASSUME NEW n PROVE n \in Target(new) <=> n \in Target(h) OBVIOUS
    <3>1. \A d \in Caps : d # c => (d \in new <=> d \in h) OBVIOUS
    <3>2. new \subseteq Caps OBVIOUS
    <3>3. n \in Modifiers => \A d \in Caps : n = KeyOf(d[2], d[1]) => d # c BY <1>1, <1>2
    <3> QED BY <3>1, <3>2, <3>3, TargetFact
  <2>2. After(Target(h), key, up) = Target(h) BY <1>2, Zenon DEF After, update_modifier
  <2>3. PICK v, w : v = Target(new) /\ w = Target(h) OBVIOUS
  <2>4. v = w
    <3>1. v \subseteq Modifiers /\ w \subseteq Modifiers BY <2>3 DEF Target
    <3> QED BY <2>1, <2>3, <3>1
  <2> QED BY <1>1, <2>2, <2>3, <2>4
<1>3. CASE key \in Modifiers
  <2>1. \A d \in Caps : KeyOf(d[2], d[1]) = key => d = c BY <1>1, <1>3, OneCap
  <2>2. CASE up
    <3>1. After(Target(h), key, up) = Target(h) \ {key} BY <1>3, <2>2 DEF After, update_modifier
    <3>2. new = h \ {c} BY <2>2
    <3>3. \A n : n \in Target(new) <=> n \in Target(h) /\ n # key
      <4> SUFFICES ASSUME NEW n PROVE n \in Target(new) <=> n \in Target(h) /\ n # key OBVIOUS
      <4>1. n \in Target(new) => n \in Target(h) /\ n # key BY <1>1, <2>1, <3>2, TargetFact
      <4>2. n \in Target(h) /\ n # key => n \in Target(new) BY <1>1, <3>2, TargetFact
      <4> QED BY <4>1, <4>2
    <3>4. PICK v, w : v = Target(new) /\ w = Target(h) OBVIOUS
    <3>5. \A n : n \in v <=> n \in w \ {key} BY <3>3, <3>4
    <3>6. v = w \ {key}
      <4>1. v \subseteq Modifiers /\ w \subseteq Modifiers BY <3>4 DEF Target
      <4> QED BY <3>5, <4>1
    <3> QED BY <1>1, <3>1, <3>4, <3>6
  <2>3. CASE ~up
    <3>1. After(Target(h), key, up) = Target(h) \cup {key} BY <1>3, <2>3 DEF After, update_modifier
    <3>2. new = h \cup {c} BY <2>3
    <3>3. \A n : n \in Target(new) <=> n \in Target(h) \/ n = key
      <4> SUFFICES ASSUME NEW n PROVE n \in Target(new) <=> n \in Target(h) \/ n = key OBVIOUS
      <4>1. n \in Target(new) => n \in Target(h) \/ n = key BY <1>1, <3>2, TargetFact
      <4>2. n \in Target(h) \/ n = key => n \in Target(new) BY <1>1, <1>3, <3>2, TargetFact
      <4> QED BY <4>1, <4>2
    <3>4. PICK v, w : v = Target(new) /\ w = Target(h) OBVIOUS
    <3>5. \A n : n \in v <=> n \in w \cup {key} BY <3>3, <3>4
    <3>6. v = w \cup {key}
      <4>1. v \subseteq Modifiers /\ w \subseteq Modifiers BY <3>4 DEF Target
      <4> QED BY <1>3, <3>5, <4>1
    <3> QED BY <1>1, <3>1, <3>4, <3>6
  <2> QED BY <2>2, <2>3
<1> QED BY <1>2, <1>3

LEMMA PairConcat ==
    ASSUME NEW a, NEW b
    PROVE  <<a>> \o <<b>> = <<a, b>>
<1>1. PICK p, q, r, s : p = <<a>> /\ q = <<b>> /\ r = <<a, b>> /\ s = p \o q OBVIOUS
<1>2. p \in Seq({a, b}) /\ q \in Seq({a, b}) /\ r \in Seq({a, b}) /\ Len(p) = 1 /\ Len(q) = 1 /\ Len(r) = 2
  BY <1>1
<1>3. s \in Seq({a, b}) /\ Len(s) = 2 /\ s[1] = p[1] /\ s[2] = q[1] BY <1>1, <1>2, ConcatProperties
<1>4. s[1] = r[1] /\ s[2] = r[2] BY <1>1, <1>3
<1>5. s = r BY <1>2, <1>3, <1>4
<1> QED BY <1>1, <1>5

\* What a key of the keyboard sends is known.
LEMMA MakeKnows ==
    ASSUME NEW c \in Caps, NEW up \in BOOLEAN, NEW k \in Keyboards, k.pause = 0, ~k.extended
    PROVE  Sent(k, Make(c[1], c[2], up), After(k.held, KeyOf(c[2], c[1]), up))
<1>1. PICK cap, ext : cap = c[1] /\ ext = c[2] OBVIOUS
<1>2. cap \in CapNames /\ cap \notin {E0, E1} /\ ext \in BOOLEAN BY <1>1, CapFact
<1>3. PICK p, t : p = Make(cap, ext, up) /\ t = After(k.held, KeyOf(ext, cap), up) OBVIOUS
<1>4. p \in Seq(KeyBytes) BY <1>1, <1>3, MakeFact, Zenon
<1>5. SUFFICES Sent(k, p, t) BY <1>1, <1>3
<1>8. cap \in {"pause", "print"} => t = k.held
  <2> SUFFICES ASSUME cap \in {"pause", "print"} PROVE t = k.held OBVIOUS
  <2>1. normal_key(cap) = "UNKNOWN" /\ extended_key(cap) = "UNKNOWN" BY DEF normal_key, extended_key
  <2>2. KeyOf(ext, cap) = "UNKNOWN" BY <1>2, <2>1, Zenon DEF KeyOf
  <2> QED BY <1>3, <2>2, Unmoved, Zenon
<1>9. CASE cap = "pause" /\ up
  <2>1. p = <<>> BY <1>3, <1>9, Zenon DEF Make
  <2> QED BY <1>8, <1>9, <2>1 DEF Sent, NoneSent
<1>10. CASE cap = "pause" /\ ~up
  <2>1. p = PauseBytes BY <1>3, <1>10, Zenon DEF Make, PauseBytes
  <2>2. PauseSent(k, p, t) BY <1>8, <1>10, <2>1 DEF PauseSent
  <2> QED BY <1>4, <2>2, Zenon DEF Sent, PartSent
<1>11. CASE cap = "print"
  <2>1. p = PrintBytes(up) BY <1>3, <1>11 DEF Make, PrintBytes
  <2>2. PrintSent(k, p, t) BY <1>8, <1>11, <2>1, Zenon DEF PrintSent
  <2> QED BY <1>4, <2>2, Zenon DEF Sent, PartSent
<1>12. CASE cap \notin {"pause", "print"} /\ ext
  <2>1. PICK a, b : a = K(E0, FALSE) /\ b = K(cap, up) OBVIOUS
  <2>2. p = <<a>> \o <<b>> BY <1>3, <1>12, <2>1 DEF Make
  <2>3. <<a>> \o <<b>> = <<a, b>> BY PairConcat
  <2>4. p = CapAndPrefix(cap, up) BY <2>1, <2>2, <2>3, Zenon DEF CapAndPrefix
  <2>5. KeyOf(ext, cap) = KeyOf(TRUE, cap) BY <1>12 DEF KeyOf
  <2>6. PrefixSent(k, p, t) BY <1>2, <1>3, <2>4, <2>5, Zenon DEF PrefixSent
  <2> QED BY <1>4, <2>6, Zenon DEF Sent, PartSent
<1>13. CASE cap \notin {"pause", "print"} /\ ~ext
  <2>1. PICK b : b = K(cap, up) OBVIOUS
  <2>2. p = <<>> \o <<b>> BY <1>3, <1>13, <2>1 DEF Make
  <2>3. <<>> \o <<b>> = <<b>> OBVIOUS
  <2>4. p = CapOnly(cap, up) BY <2>1, <2>2, <2>3, Zenon DEF CapOnly
  <2>5. KeyOf(ext, cap) = KeyOf(k.extended, cap) BY <1>13 DEF KeyOf
  <2>6. KeySent(k, p, t) BY <1>2, <1>3, <2>4, <2>5, Zenon DEF KeySent
  <2> QED BY <1>4, <2>6, Zenon DEF Sent, PartSent
<1> QED BY <1>9, <1>10, <1>11, <1>12, <1>13



\* The key is held when it was not.
LEMMA HeldFact ==
    ASSUME Types, NEW c \in Caps, UseKey(c[1], c[2])
    PROVE  user'.held = IF c \in user.held THEN user.held \ {c} ELSE user.held \cup {c}
<1>1. DOMAIN user = UserFields BY DEF Types, UserTypes
<1>2. c = <<c[1], c[2]>> BY CapFact
<1>3. PICK a : a = Acted("key") OBVIOUS
<1>4. user' = [a EXCEPT !.held = IF c \in user.held THEN @ \ {c} ELSE @ \cup {c}]
  <2>1. user' = [a EXCEPT !.held = IF <<c[1], c[2]>> \in user.held THEN @ \ {<<c[1], c[2]>>}
                                   ELSE @ \cup {<<c[1], c[2]>>}]
    BY <1>3 DEF UseKey
  <2>2. PICK d : d = <<c[1], c[2]>> OBVIOUS
  <2>3. user' = [a EXCEPT !.held = IF d \in user.held THEN @ \ {d} ELSE @ \cup {d}] BY <2>1, <2>2, Zenon
  <2>4. c = d BY <1>2, <2>2
  <2> QED BY <2>3, <2>4
<1>5. PICK inputs : a = [user EXCEPT !.inputs = inputs] BY <1>3 DEF Acted
<1>6. DOMAIN a = UserFields /\ a.held = user.held BY <1>1, <1>5 DEF UserFields
<1> QED BY <1>4, <1>6 DEF UserFields

LEMMA UseKeyKnows ==
    ASSUME Types, KeysKnown, NEW c \in Caps, UseKey(c[1], c[2])
    PROVE  KeysKnown'
<1>1. PICK up : up = (c \in user.held) OBVIOUS
<1>2. up \in BOOLEAN BY <1>1
<1>3. PICK bytes : bytes = Make(c[1], c[2], up) OBVIOUS
<1>4. kb_port = <<>> /\ Arrive(bytes, kb_port') /\ kb' = kb
  <2>1. c = <<c[1], c[2]>> BY CapFact
  <2>2. PICK d : d = <<c[1], c[2]>> OBVIOUS
  <2>3. up = (d \in user.held) BY <1>1, <2>1, <2>2
  <2>4. up = (<<c[1], c[2]>> \in user.held) BY <2>2, <2>3
  <2> QED BY <1>3, <2>4 DEF UseKey
<1>5. bytes \in Seq(KeyBytes) BY <1>2, <1>3, MakeFact
<1>6. kb \in Keyboards /\ seen \in Flags /\ user.held \in SUBSET Caps BY DEF Types, UserTypes
<1>7. ~seen'.lost => ~seen.lost /\ kb_port' = bytes BY <1>4, <1>5, <1>6, ArriveFact
<1> SUFFICES ASSUME ~seen'.lost PROVE Sent(kb', kb_port', Target(user'.held)) BY DEF KeysKnown
<1>8. PICK t : t = Target(user.held) OBVIOUS
<1>9. NoneSent(kb, kb_port, t)
  <2>1. Sent(kb, kb_port, t) BY <1>7, <1>8, Zenon DEF KeysKnown
  <2> QED BY <1>4, <2>1, OnlyNone
<1>10. kb.pause = 0 /\ ~kb.extended /\ kb.held = t BY <1>9 DEF NoneSent
<1>11. Target(user'.held) = After(t, KeyOf(c[2], c[1]), up)
  <2>1. PICK h, new : h = user.held /\ new = user'.held OBVIOUS
  <2>2. new = IF up THEN h \ {c} ELSE h \cup {c} BY <1>1, <2>1, HeldFact
  <2>3. Target(new) = After(Target(h), KeyOf(c[2], c[1]), up) BY <1>1, <1>2, <1>6, <2>1, <2>2, PressTarget
  <2> QED BY <1>8, <2>1, <2>3
<1>12. Sent(kb, bytes, After(kb.held, KeyOf(c[2], c[1]), up)) BY <1>2, <1>3, <1>6, <1>10, MakeKnows
<1> QED BY <1>4, <1>7, <1>10, <1>11, <1>12, Zenon

\* Nothing of the keyboard changes.
LEMMA OthersKnow ==
    ASSUME KeysKnown, kb_port' = kb_port, kb' = kb, user'.held = user.held, ~seen'.lost => ~seen.lost
    PROVE  KeysKnown'
<1> SUFFICES ASSUME ~seen'.lost PROVE Sent(kb', kb_port', Target(user'.held)) BY DEF KeysKnown
<1>1. PICK t : t = Target(user.held) OBVIOUS
<1>2. Sent(kb, kb_port, t) BY <1>1, Zenon DEF KeysKnown
<1>3. Target(user'.held) = t BY <1>1
<1> QED BY <1>2, <1>3, Zenon

LEMMA PollKnows ==
    ASSUME Types, QueueOK, KeysKnown, rootinput_poll
    PROVE  KeysKnown'
<1>1. user' = user /\ latest' = latest BY DEF rootinput_poll
<1>2. kb \in Keyboards /\ PortTypes BY DEF Types
<1>3. CASE /\ kb_port # <<>> /\ kb_port' = Tail(kb_port) /\ process_keyboard(Head(kb_port))
  <2>1. PICK n : n = Head(kb_port) OBVIOUS
  <2>2. kb_port \in Seq(KeyBytes) /\ n \in CapNames \X BOOLEAN
    BY <1>2, <1>3, <2>1, HeadTailProperties DEF PortTypes, KeyBytes
  <2>3. kb' = keyboard_feed_byte(kb, n).k /\ seen'.lost = seen.lost
    BY <1>3, <2>1, <2>2, KeyKeepsQueue
  <2> SUFFICES ASSUME ~seen'.lost PROVE Sent(kb', kb_port', Target(user'.held)) BY DEF KeysKnown
  <2>4. PICK t : t = Target(user.held) OBVIOUS
  <2>5. Sent(kb, kb_port, t) BY <2>3, <2>4, Zenon DEF KeysKnown
  <2>6. Sent(keyboard_feed_byte(kb, Head(kb_port)).k, Tail(kb_port), t)
    BY <1>2, <1>3, <2>2, <2>5, FeedKnows
  <2>7. Sent(kb', kb_port', t) BY <1>3, <2>1, <2>3, <2>6, Zenon
  <2>8. Target(user'.held) = t BY <1>1, <2>4
  <2> QED BY <2>7, <2>8, Zenon
<1>4. CASE /\ mouse_port # <<>> /\ kb_port' = kb_port
           /\ IF mouse.ready THEN process_mouse(Head(mouse_port))
              ELSE UNCHANGED <<kb, mouse, queue, owed, seen>>
  <2>1. PICK v : v = Head(mouse_port) OBVIOUS
  <2>2. v \in ByteValues BY <1>2, <1>4, <2>1, HeadTailProperties DEF PortTypes
  <2>3. kb' = kb /\ seen'.lost = seen.lost
    <3>1. CASE ~mouse.ready BY <1>4, <3>1
    <3>2. CASE mouse.ready
      <4>1. process_mouse(v) BY <1>4, <2>1, <3>2
      <4> QED BY <2>2, <4>1, MouseKeepsQueue
    <3> QED BY <3>1, <3>2
  <2> QED BY <1>1, <1>4, <2>3, OthersKnow
<1> QED BY <1>3, <1>4 DEF rootinput_poll


-----------------------------------------------------------------------------
(* The theorems.                                                           *)

InputInv == Types /\ QueueOK /\ MouseKnown /\ KeysKnown

LEMMA StartKnows == InputInit => MouseKnown /\ KeysKnown
<1> SUFFICES ASSUME InputInit PROVE MouseKnown /\ KeysKnown OBVIOUS
<1>1. Types BY QueueInit
<1>2. /\ kb.held = {} /\ kb.pause = 0 /\ ~kb.extended /\ kb_port = <<>> /\ mouse_port = <<>>
      /\ user.held = {} /\ user.buttons = {} /\ user.mode = 3
  BY DEF InputInit, keyboard_reset
<1>3. mouse.step = 1 /\ ~mouse.ready /\ mouse.size = 3 /\ mouse.bytes = <<>> /\ mouse.buttons = {} BY DEF InputInit
<1>4. MouseKnown BY <1>2, <1>3 DEF MouseKnown, Setup
<1>5. Target({}) = {} BY DEF Target
<1>6. KeysKnown BY <1>2, <1>5 DEF KeysKnown, Sent, NoneSent
<1> QED BY <1>4, <1>6

LEMMA NextKeeps == InputInv /\ [InputNext]_inputVars => InputInv'
<1> SUFFICES ASSUME InputInv, [InputNext]_inputVars PROVE InputInv' OBVIOUS
<1>1. Types /\ QueueOK /\ MouseKnown /\ KeysKnown BY DEF InputInv
<1>2. CASE mouse_command
  <2>1. Types' /\ QueueOK' /\ MouseKnown' /\ user'.held = user.held
        /\ kb_port' = kb_port /\ kb' = kb /\ seen'.lost = seen.lost
    BY <1>1, <1>2, CommandKeeps
  <2>2. KeysKnown' BY <1>1, <2>1, OthersKnow
  <2> QED BY <2>1, <2>2 DEF InputInv
<1>3. CASE rootinput_poll
  <2>1. Types' /\ QueueOK' /\ MouseKnown' BY <1>1, <1>3, PollKeeps
  <2>2. KeysKnown' BY <1>1, <1>3, PollKnows
  <2> QED BY <2>1, <2>2 DEF InputInv
<1>4. CASE rootinput_next_event
  <2>1. Types' /\ QueueOK' /\ MouseKnown' BY <1>1, <1>4, TakeKeeps
  <2>2. kb' = kb /\ kb_port' = kb_port /\ user' = user /\ seen' = seen BY <1>4 DEF rootinput_next_event, ports
  <2>3. KeysKnown' BY <1>1, <2>2 DEF KeysKnown
  <2> QED BY <2>1, <2>3 DEF InputInv
<1>5. CASE TimePasses
  <2>1. Types' /\ QueueOK' /\ MouseKnown' BY <1>1, <1>5, TimeKeeps
  <2>2. kb' = kb /\ kb_port' = kb_port /\ user' = user /\ seen' = seen BY <1>5 DEF TimePasses, ports
  <2>3. KeysKnown' BY <1>1, <2>2 DEF KeysKnown
  <2> QED BY <2>1, <2>3 DEF InputInv
<1>6. ASSUME NEW c \in Caps, UseKey(c[1], c[2]) PROVE InputInv'
  <2>1. Types' /\ QueueOK' /\ MouseKnown' BY <1>1, <1>6, UseKeyKeeps
  <2>2. KeysKnown' BY <1>1, <1>6, UseKeyKnows
  <2> QED BY <2>1, <2>2 DEF InputInv
<1>7. ASSUME NEW buttons \in SUBSET Buttons, NEW dx \in Moves, NEW wheel \in Wheels,
             UseMouse(buttons, dx, wheel)
      PROVE  InputInv'
  <2>1. Types' /\ QueueOK' /\ MouseKnown' BY <1>1, <1>7, UseMouseKeeps
  <2>2. kb_port' = kb_port /\ kb' = kb /\ user'.held = user.held /\ (~seen'.lost => ~seen.lost)
    <3>1. kb_port' = kb_port /\ kb' = kb BY <1>7 DEF UseMouse
    <3>2. user'.held = user.held
      <4>1. DOMAIN user = UserFields BY <1>1 DEF Types, UserTypes
      <4>2. PICK kind : user' = [Acted(kind) EXCEPT !.buttons = buttons] BY <1>7 DEF UseMouse
      <4>3. PICK a : a = Acted(kind) OBVIOUS
      <4>4. PICK inputs : a = [user EXCEPT !.inputs = inputs] BY <4>3 DEF Acted
      <4>5. DOMAIN a = UserFields /\ a.held = user.held BY <4>1, <4>4 DEF UserFields
      <4> QED BY <4>2, <4>3, <4>5 DEF UserFields
    <3>3. ~seen'.lost => ~seen.lost
      <4>1. PICK bytes : Arrive(bytes, mouse_port') BY <1>7, Zenon DEF UseMouse
      <4>2. DOMAIN seen = {"lost", "late", "overflow", "buried", "clipped"} BY <1>1 DEF Types, Flags
      <4> QED BY <4>1, <4>2 DEF Arrive
    <3> QED BY <3>1, <3>2, <3>3
  <2>3. KeysKnown' BY <1>1, <2>2, OthersKnow
  <2> QED BY <2>1, <2>3 DEF InputInv
<1>8. CASE UNCHANGED inputVars
  <2>1. /\ kb' = kb /\ mouse' = mouse /\ queue' = queue /\ kb_port' = kb_port /\ mouse_port' = mouse_port
        /\ user' = user /\ owed' = owed /\ latest' = latest /\ seen' = seen
    BY <1>8 DEF inputVars, ports
  <2>2. Before' \in Lists /\ owed' \in [keys : Int, dx : Int, wheel : Int] /\ QueueOK'
    BY <1>1, <2>1, QuietQueue
  <2>3. Types'
    <3>1. MouseTypes' BY <1>1, <2>1 DEF Types, MouseTypes, PointerTypes
    <3>2. PortTypes' /\ UserTypes' BY <1>1, <2>1 DEF Types, PortTypes, UserTypes
    <3> QED BY <1>1, <2>1, <2>2, <3>1, <3>2 DEF Types
  <2>4. MouseKnown' BY <1>1, <2>1 DEF MouseKnown, Setup, Between, Within
  <2>5. KeysKnown' BY <1>1, <2>1 DEF KeysKnown
  <2> QED BY <2>2, <2>3, <2>4, <2>5 DEF InputInv
<1> QED BY <1>2, <1>3, <1>4, <1>5, <1>6, <1>7, <1>8 DEF InputNext

\* The inductive invariant: the types, what the queue carries and tells, and
\* what of a packet or of a key may still be on its way to the kernel.
THEOREM InputInvariant == InputSpec => []InputInv
<1>1. InputInit => InputInv BY QueueInit, StartKnows DEF InputInv
<1> QED BY <1>1, NextKeeps, PTL DEF InputSpec

\* Joining events of a kind in queue_push (rootinput.c) loses no key, motion or
\* turn that the flags do not excuse, and who took all mouse events knows the
\* pointer and its buttons, however long the queue is.
THEOREM QueueNeverLoses == InputSpec => []QueueLosesNothing
<1>1. InputInv => QueueLosesNothing
  <2> SUFFICES ASSUME Types, QueueOK PROVE QueueLosesNothing BY DEF InputInv
  <2>1. ~seen.overflow =>
          /\ owed.keys = Total(Strokes(queue)) /\ owed.dx = Total(Motions(queue))
          /\ seen.clipped \/ owed.wheel = Total(Turns(queue))
    BY DEF QueueOK, Accounts, Before
  <2>2. (\A i \in DOMAIN queue : ~IsMouse(queue[i])) /\ ~seen.buried /\ latest # <<>> =>
          Head(latest) = [x |-> mouse.x, buttons |-> mouse.buttons]
    <3>1. PICK s : s = Before OBVIOUS
    <3>2. s.q = queue /\ s.buried = seen.buried BY <3>1 DEF Before
    <3>3. ~seen.buried => Newest(queue, latest, mouse.x, mouse.buttons)
      BY <3>1, <3>2 DEF QueueOK, Told
    <3>4. DOMAIN queue = 1 .. Len(queue) BY <3>1, <3>2 DEF Types, Lists
    <3> QED BY <3>3, <3>4 DEF Newest, OnlyKeys
  <2> QED BY <2>1, <2>2 DEF QueueLosesNothing
<1> QED BY <1>1, InputInvariant, PTL

\* When no byte was lost, keyboard_feed_byte and mouse_feed_byte know what the
\* user holds whenever all bytes are polled: for any keys, sequence of strokes
\* and motions.
THEOREM HeldAlwaysKnown == InputSpec => []HeldIsKnown
<1>1. InputInv => HeldIsKnown
  <2> SUFFICES ASSUME Types, MouseKnown, KeysKnown, Settled PROVE
        /\ kb.held = Target(user.held)
        /\ ~seen.late /\ mouse.ready => mouse.buttons = user.buttons
    BY DEF InputInv, HeldIsKnown, Target
  <2>1. mouse.step = 10 /\ kb_port = <<>> /\ mouse_port = <<>> /\ ~seen.lost BY DEF Settled, ports
  <2>2. kb.held = Target(user.held)
    <3>1. PICK t : t = Target(user.held) OBVIOUS
    <3>2. Sent(kb, kb_port, t) BY <2>1, <3>1, Zenon DEF KeysKnown
    <3>3. NoneSent(kb, kb_port, t) BY <2>1, <3>2, OnlyNone
    <3> QED BY <3>1, <3>3 DEF NoneSent
  <2>3. ~seen.late /\ mouse.ready => mouse.buttons = user.buttons
    BY <2>1 DEF MouseKnown, Between, Within
  <2> QED BY <2>2, <2>3
<1> QED BY <1>1, InputInvariant, PTL

-----------------------------------------------------------------------------
(***************************************************************************)
(* The editor.                                                             *)
(***************************************************************************)

-----------------------------------------------------------------------------
(* The least and the greatest of a set of indices.                         *)

LEMMA LeastNat ==
    ASSUME NEW S \in SUBSET Nat, S # {}
    PROVE  \E i \in S : \A j \in S : i <= j
<1>1. PICK R : R = OpToRel(<, Nat) OBVIOUS
<1>2. IsWellFoundedOn(R, Nat) BY <1>1, NatLessThanWellFounded
<1>3. \A i, j \in Nat : j < i => <<j, i>> \in R BY <1>1 DEF OpToRel
<1>4. PICK i \in S : \A j \in S : ~(<<j, i>> \in R) BY <1>2, WFMin
<1>5. \A j \in S : j \in Nat /\ i \in Nat /\ ~(j < i) BY <1>3, <1>4
<1>6. \A j \in S : i <= j BY <1>5
<1> QED BY <1>6

LEMMA MinNat ==
    ASSUME NEW S \in SUBSET Nat, S # {}
    PROVE  Min(S) \in S /\ \A j \in S : Min(S) <= j
  BY LeastNat DEF Min

LEMMA MaxNat ==
    ASSUME NEW n \in Nat, NEW S \in SUBSET (0 .. n), S # {}
    PROVE  Max(S) \in S /\ \A j \in S : Max(S) >= j
<1>1. PICK T : T = {n - k : k \in S} OBVIOUS
<1>2. \A t \in T : t \in Nat BY <1>1
<1>3. T # {} BY <1>1
<1>4. PICK i \in T : \A j \in T : i <= j BY <1>2, <1>3, LeastNat
<1>5. PICK k \in S : i = n - k BY <1>1, <1>4
<1>6. \A j \in S : n - j \in T BY <1>1
<1>7. \A j \in S : k >= j BY <1>4, <1>5, <1>6
<1> QED BY <1>7 DEF Max

\* Of two indices.
LEMMA MinTwo ==
    ASSUME NEW a \in Nat, NEW b \in Nat
    PROVE  Min({a, b}) = IF a <= b THEN a ELSE b
<1>1. Min({a, b}) \in {a, b} /\ Min({a, b}) <= a /\ Min({a, b}) <= b BY MinNat
<1> QED BY <1>1

LEMMA MaxTwo ==
    ASSUME NEW a \in Nat, NEW b \in Nat
    PROVE  Max({a, b}) = IF a <= b THEN b ELSE a
<1>1. PICK n : n = a + b OBVIOUS
<1>2. n \in Nat /\ a \in 0 .. n /\ b \in 0 .. n BY <1>1
<1>3. Max({a, b}) \in {a, b} /\ Max({a, b}) >= a /\ Max({a, b}) >= b BY <1>2, MaxNat
<1> QED BY <1>3

-----------------------------------------------------------------------------
(* Where lines start and end.                                              *)

LEMMA LineStartFact ==
    ASSUME NEW b, NEW i \in Nat
    PROVE  LineStart(b, i) \in 0 .. i
<1>1. PICK S : S = {0} \cup {k \in 1 .. i : b[k] = "LF"} OBVIOUS
<1>2. S \in SUBSET (0 .. i) /\ S # {} BY <1>1
<1>3. Max(S) \in S BY <1>2, MaxNat
<1> QED BY <1>1, <1>2, <1>3 DEF LineStart

LEMMA LineEndFact ==
    ASSUME NEW b, Len(b) \in Nat, NEW i \in 0 .. Len(b)
    PROVE  LineEnd(b, i) \in i .. Len(b)
<1>1. PICK S : S = {Len(b)} \cup {k \in i .. Len(b) - 1 : b[k + 1] = "LF"} OBVIOUS
<1>2. S \in SUBSET Nat /\ S # {} /\ S \subseteq i .. Len(b) BY <1>1
<1>3. Min(S) \in S BY <1>2, MinNat
<1> QED BY <1>1, <1>2, <1>3 DEF LineEnd

LEMMA LineStartByNumberFact ==
    ASSUME NEW b, Len(b) \in Nat, NEW line
    PROVE  LineStartByNumber(b, line) \in 0 .. Len(b)
<1>1. PICK S : S = {Len(b)} \cup {k \in 1 .. Len(b) : b[k] = "LF" /\ LineNumber(b, k) = line} OBVIOUS
<1>2. S \in SUBSET Nat /\ S # {} /\ S \subseteq 0 .. Len(b) BY <1>1
<1>3. Min(S) \in S BY <1>2, MinNat
<1> QED BY <1>1, <1>2, <1>3 DEF LineStartByNumber

-----------------------------------------------------------------------------
(* The fields of the editor.                                               *)

Fields ==
    {"buffer", "cursor", "dirty", "save_error", "view", "offset", "active", "anchor", "selecting",
     "undo", "redo", "group", "open", "status", "rows", "caret", "original", "dropped", "stale",
     "edits", "broken"}

LEMMA UpFact ==
    ASSUME NEW e, DOMAIN e = Fields, Len(e.buffer) \in Nat, e.cursor \in 0 .. Len(e.buffer)
    PROVE  editor_move_up(e).cursor \in 0 .. Len(e.buffer)
<1>1. PICK start : start = LineStart(e.buffer, e.cursor) OBVIOUS
<1>2. start \in 0 .. e.cursor BY <1>1, LineStartFact
<1>3. CASE start = 0 BY <1>1, <1>3 DEF editor_move_up
<1>4. CASE start # 0
  <2>1. PICK above : above = LineStart(e.buffer, start - 1) OBVIOUS
  <2>2. start - 1 \in Nat BY <1>2, <1>4
  <2>3. above \in 0 .. start - 1 BY <2>1, <2>2, LineStartFact
  <2>4. PICK m : m = Min({e.cursor - start, start - 1 - above}) OBVIOUS
  <2>5. e.cursor - start \in Nat /\ start - 1 - above \in Nat BY <1>2, <2>2, <2>3
  <2>6. m \in 0 .. start - 1 - above BY <2>4, <2>5, MinTwo
  <2>7. editor_move_up(e).cursor = above + m
    BY <1>1, <1>4, <2>1, <2>4 DEF editor_move_up, Fields
  <2> QED BY <1>2, <2>3, <2>6, <2>7
<1> QED BY <1>3, <1>4

LEMMA DownFact ==
    ASSUME NEW e, DOMAIN e = Fields, Len(e.buffer) \in Nat, e.cursor \in 0 .. Len(e.buffer)
    PROVE  editor_move_down(e).cursor \in 0 .. Len(e.buffer)
<1>1. PICK start : start = LineStart(e.buffer, e.cursor) OBVIOUS
<1>2. start \in 0 .. e.cursor BY <1>1, LineStartFact
<1>3. PICK below : below = LineEnd(e.buffer, e.cursor) + 1 OBVIOUS
<1>4. below \in Nat BY <1>3, LineEndFact
<1>5. CASE below > Len(e.buffer) BY <1>3, <1>5 DEF editor_move_down
<1>6. CASE ~(below > Len(e.buffer))
  <2>1. PICK end : end = LineEnd(e.buffer, below) OBVIOUS
  <2>2. end \in below .. Len(e.buffer) BY <1>4, <1>6, <2>1, LineEndFact
  <2>3. PICK m : m = Min({e.cursor - start, end - below}) OBVIOUS
  <2>4. e.cursor - start \in Nat /\ end - below \in Nat BY <1>2, <1>4, <2>2
  <2>5. m \in 0 .. end - below BY <2>3, <2>4, MinTwo
  <2>6. editor_move_down(e).cursor = below + m
    BY <1>1, <1>3, <1>6, <2>1, <2>3 DEF editor_move_down, Fields
  <2> QED BY <1>4, <2>2, <2>5, <2>6
<1> QED BY <1>5, <1>6

\* Where the keys that move the caret can bring it.
LEMMA GoalFact ==
    ASSUME NEW e, DOMAIN e = Fields, Len(e.buffer) \in Nat, e.cursor \in 0 .. Len(e.buffer),
           NEW to \in Targets(e) \cup LineEnds(e)
    PROVE  to \in 0 .. Len(e.buffer)
<1>1. e.cursor \in Nat /\ e.cursor + 1 \in Nat OBVIOUS
<1>2. LineStart(e.buffer, e.cursor) \in 0 .. Len(e.buffer) BY <1>1, LineStartFact
<1>3. LineEnd(e.buffer, e.cursor) \in 0 .. Len(e.buffer) BY LineEndFact
<1>4. Max({0, e.cursor - 1}) \in 0 .. Len(e.buffer)
  <2>1. CASE e.cursor = 0
    <3>1. {0, e.cursor - 1} \in SUBSET (-1 .. 0) BY <2>1
    <3>2. \E x \in {0, e.cursor - 1} : \A y \in {0, e.cursor - 1} : x >= y BY <2>1
    <3>3. Max({0, e.cursor - 1}) \in {0, e.cursor - 1} /\ Max({0, e.cursor - 1}) >= 0 BY <3>2 DEF Max
    <3> QED BY <2>1, <3>3
  <2>2. CASE e.cursor # 0
    <3>1. e.cursor - 1 \in Nat BY <2>2
    <3> QED BY <3>1, MaxTwo
  <2> QED BY <2>1, <2>2
<1>5. Min({Len(e.buffer), e.cursor + 1}) \in 0 .. Len(e.buffer) BY <1>1, MinTwo
<1> QED BY <1>2, <1>3, <1>4, <1>5, UpFact, DownFact DEF Targets, LineEnds

\* The index under the mouse.
LEMMA MouseFact ==
    ASSUME NEW e, Len(e.buffer) \in Nat, NEW column, NEW row
    PROVE  editor_index_from_mouse(e, column, row) \in 0 .. Len(e.buffer)
<1>1. PICK start : start = LineStartByNumber(e.buffer, e.view + row) OBVIOUS
<1>2. start \in 0 .. Len(e.buffer) BY <1>1, LineStartByNumberFact
<1>3. PICK end : end = LineEnd(e.buffer, start) OBVIOUS
<1>4. end \in start .. Len(e.buffer) BY <1>2, <1>3, LineEndFact
<1>5. PICK S : S = {end} \cup {i \in start .. end - 1 :
                                 e.offset + column < VisualColumn(e.buffer, start, i + 1)}
  OBVIOUS
<1>6. S \in SUBSET Nat /\ S # {} /\ S \subseteq 0 .. Len(e.buffer) BY <1>2, <1>4, <1>5
<1>7. Min(S) \in S BY <1>6, MinNat
<1> QED BY <1>1, <1>3, <1>5, <1>6, <1>7 DEF editor_index_from_mouse

\* The word around an index inside the text.
LEMMA WordFact ==
    ASSUME NEW b, Len(b) \in Nat, NEW i \in 0 .. Len(b) - 1, b[i + 1] # "LF"
    PROVE  WordStart(b, i) \in 0 .. i /\ WordEnd(b, i) \in i + 1 .. Len(b)
<1>1. PICK S : S = {k \in 0 .. i : \A j \in k .. i :
                      /\ b[j + 1] # "LF"
                      /\ editor_word_character(b[j + 1]) = editor_word_character(b[i + 1])}
  OBVIOUS
<1>2. S \in SUBSET Nat /\ S # {}
  <2>1. i \in S BY <1>1
  <2> QED BY <1>1, <2>1
<1>3. WordStart(b, i) \in 0 .. i BY <1>1, <1>2, MinNat DEF WordStart
<1>4. PICK T : T = {k \in i + 1 .. Len(b) : \A j \in i + 1 .. k :
                      /\ b[j] # "LF"
                      /\ editor_word_character(b[j]) = editor_word_character(b[i + 1])}
  OBVIOUS
<1>5. T \in SUBSET (0 .. Len(b)) /\ T # {}
  <2>1. \A j \in i + 1 .. i + 1 : j = i + 1 OBVIOUS
  <2>2. i + 1 \in T BY <1>4, <2>1
  <2> QED BY <1>4, <2>2
<1>6. WordEnd(b, i) \in i + 1 .. Len(b) BY <1>4, <1>5, MaxNat DEF WordEnd
<1> QED BY <1>3, <1>6

-----------------------------------------------------------------------------
(* Drawing leaves the text, the selection and the snapshots alone.         *)

SameText(e, f) ==
    /\ DOMAIN f = Fields
    /\ f.buffer = e.buffer /\ f.cursor = e.cursor /\ f.active = e.active /\ f.anchor = e.anchor
    /\ f.dirty = e.dirty /\ f.save_error = e.save_error
    /\ f.undo = e.undo /\ f.redo = e.redo /\ f.group = e.group
    /\ f.open = e.open /\ f.original = e.original /\ f.dropped = e.dropped /\ f.broken = e.broken

StatusOf(e) == IF e.save_error THEN "SAVE ERROR" ELSE IF e.dirty THEN "MODIFIED" ELSE "SAVED"

LEMMA VisibleFact ==
    ASSUME NEW e, DOMAIN e = Fields
    PROVE  /\ SameText(e, editor_ensure_cursor_visible(e))
           /\ editor_ensure_cursor_visible(e).status = e.status
  BY DEF editor_ensure_cursor_visible, SameText, Fields

LEMMA PlaceFact ==
    ASSUME NEW e, DOMAIN e = Fields
    PROVE  /\ SameText(e, editor_place_cursor(e))
           /\ editor_place_cursor(e).status = e.status
  BY DEF editor_place_cursor, SameText, Fields

LEMMA DrawFact ==
    ASSUME NEW e, DOMAIN e = Fields, NEW line
    PROVE  /\ SameText(e, editor_draw_line(e, line)) /\ editor_draw_line(e, line).status = e.status
           /\ SameText(e, editor_draw_document(e)) /\ editor_draw_document(e).status = e.status
           /\ SameText(e, editor_draw_status(e)) /\ editor_draw_status(e).status = StatusOf(e)
<1>1. SameText(e, editor_draw_line(e, line)) /\ editor_draw_line(e, line).status = e.status
  BY DEF editor_draw_line, SameText, Fields
<1>2. SameText(e, editor_draw_document(e)) /\ editor_draw_document(e).status = e.status
  BY DEF editor_draw_document, SameText, Fields
<1>3. SameText(e, editor_draw_status(e)) /\ editor_draw_status(e).status = StatusOf(e)
  BY DEF editor_draw_status, SameText, StatusOf, Fields
<1> QED BY <1>1, <1>2, <1>3

LEMMA SameTrans ==
    ASSUME NEW e, NEW f, NEW g, SameText(e, f), SameText(f, g)
    PROVE  SameText(e, g) /\ StatusOf(g) = StatusOf(f) /\ StatusOf(f) = StatusOf(e)
  BY DEF SameText, StatusOf

LEMMA RedrawnFact ==
    ASSUME NEW e, DOMAIN e = Fields
    PROVE  /\ SameText(e, editor_redraw_full(e)) /\ editor_redraw_full(e).status = StatusOf(e)
           /\ SameText(e, editor_redraw_current_line(e))
           /\ editor_redraw_current_line(e).status = StatusOf(e)
<1>1. ASSUME NEW d, SameText(e, d)
      PROVE  LET f == editor_place_cursor(editor_draw_status(d))
             IN  SameText(e, f) /\ f.status = StatusOf(e)
  <2>1. PICK s : s = editor_draw_status(d) OBVIOUS
  <2>2. DOMAIN d = Fields BY <1>1 DEF SameText
  <2>3. SameText(d, s) /\ s.status = StatusOf(d) BY <2>1, <2>2, DrawFact
  <2>4. DOMAIN s = Fields BY <2>3 DEF SameText
  <2>5. PICK f : f = editor_place_cursor(s) OBVIOUS
  <2>6. SameText(s, f) /\ f.status = s.status BY <2>4, <2>5, PlaceFact
  <2>7. SameText(e, s) /\ StatusOf(d) = StatusOf(e) BY <1>1, <2>3, SameTrans
  <2>8. SameText(e, f) BY <2>6, <2>7, SameTrans
  <2> QED BY <2>1, <2>3, <2>5, <2>6, <2>7, <2>8
<1>2. PICK d : d = editor_draw_document(e) OBVIOUS
<1>3. SameText(e, d) BY <1>2, DrawFact
<1>4. PICK f : f = editor_place_cursor(editor_draw_status(d)) OBVIOUS
<1>5. SameText(e, f) /\ f.status = StatusOf(e) BY <1>1, <1>3, <1>4
<1>6. editor_redraw_full(e) = [f EXCEPT !.stale = FALSE] BY <1>2, <1>4 DEF editor_redraw_full
<1>7. SameText(e, editor_redraw_full(e)) /\ editor_redraw_full(e).status = StatusOf(e)
  BY <1>5, <1>6 DEF SameText, Fields
<1>8. PICK l : l = editor_draw_line(e, CaretLine(e)) OBVIOUS
<1>9. SameText(e, l) BY <1>8, DrawFact
<1>10. editor_redraw_current_line(e) = editor_place_cursor(editor_draw_status(l))
  BY <1>8 DEF editor_redraw_current_line
<1> QED BY <1>1, <1>7, <1>9, <1>10

\* After the caret moved the status is the one shown before, or drawn anew.
LEMMA AfterMoveFact ==
    ASSUME NEW e, DOMAIN e = Fields
    PROVE  /\ SameText(e, editor_after_cursor_move(e))
           /\ editor_after_cursor_move(e).status \in {e.status, StatusOf(e)}
<1>1. PICK f : f = editor_ensure_cursor_visible(e) OBVIOUS
<1>2. SameText(e, f) /\ f.status = e.status BY <1>1, VisibleFact
<1>3. DOMAIN f = Fields BY <1>2 DEF SameText
<1>4. PICK g : g = editor_redraw_full(f) OBVIOUS
<1>5. SameText(f, g) /\ g.status = StatusOf(f) BY <1>3, <1>4, RedrawnFact
<1>6. PICK h : h = editor_place_cursor(f) OBVIOUS
<1>7. SameText(f, h) /\ h.status = f.status BY <1>3, <1>6, PlaceFact
<1>8. SameText(e, g) /\ SameText(e, h) /\ StatusOf(f) = StatusOf(e) BY <1>2, <1>5, <1>7, SameTrans
<1>9. editor_after_cursor_move(e) \in {g, h} BY <1>1, <1>4, <1>6 DEF editor_after_cursor_move
<1> QED BY <1>2, <1>5, <1>7, <1>8, <1>9

\* After an edit the status is drawn anew.
LEMMA AfterEditFact ==
    ASSUME NEW e, DOMAIN e = Fields, NEW structural
    PROVE  /\ SameText(e, AfterEdit(e, structural)) /\ AfterEdit(e, structural).status = StatusOf(e)
           /\ LET f == editor_redraw_full(editor_ensure_cursor_visible(e))
              IN  SameText(e, f) /\ f.status = StatusOf(e)
<1>1. PICK f : f = editor_ensure_cursor_visible(e) OBVIOUS
<1>2. SameText(e, f) BY <1>1, VisibleFact
<1>3. DOMAIN f = Fields BY <1>2 DEF SameText
<1>4. PICK g : g = editor_redraw_full(f) OBVIOUS
<1>5. SameText(f, g) /\ g.status = StatusOf(f) BY <1>3, <1>4, RedrawnFact
<1>6. PICK h : h = editor_redraw_current_line(f) OBVIOUS
<1>7. SameText(f, h) /\ h.status = StatusOf(f) BY <1>3, <1>6, RedrawnFact
<1>8. SameText(e, g) /\ SameText(e, h) /\ StatusOf(f) = StatusOf(e) BY <1>2, <1>5, <1>7, SameTrans
<1>9. AfterEdit(e, structural) \in {g, h} BY <1>1, <1>4, <1>6, Zenon DEF AfterEdit
<1> QED BY <1>1, <1>4, <1>5, <1>7, <1>8, <1>9

-----------------------------------------------------------------------------
(* Editors in good order, and edits.                                       *)

Buffers == {text \in Seq(CodePoints) : Len(text) <= ROOTEDIT_MAX_CODEPOINTS}
Snapshots == {s \in [buffer : Buffers, cursor : Nat] : s.cursor <= Len(s.buffer)}

EditOK(e) ==
    /\ DOMAIN e = Fields
    /\ e.buffer \in Buffers /\ e.cursor \in 0 .. Len(e.buffer) /\ e.anchor \in Nat
    /\ e.undo \in Seq(Snapshots) /\ e.redo \in Seq(Snapshots)
    /\ Len(e.undo) + Len(e.redo) <= ROOTEDIT_UNDO_DEPTH
    /\ e.group # "NONE" => e.undo # <<>>
    /\ ~e.dropped => e.original = IF e.undo = <<>> THEN e.buffer ELSE e.undo[1].buffer

\* What is neither modified nor in error was neither before, and has the same text.
Onward(e, f) ==
    /\ f.open = e.open
    /\ ~f.dirty /\ ~f.save_error => ~e.dirty /\ ~e.save_error /\ f.buffer = e.buffer

\* An edit behind a snapshot.
Edited(e, f) == EditOK(f) /\ f.undo = e.undo /\ f.undo # <<>> /\ Onward(e, f)

LEMMA OnwardTrans ==
    ASSUME NEW e, NEW f, NEW g, Onward(e, f), Onward(f, g)
    PROVE  Onward(e, g)
  BY DEF Onward

LEMMA SameOK ==
    ASSUME NEW e, NEW f, EditOK(e), SameText(e, f)
    PROVE  EditOK(f) /\ Onward(e, f) /\ StatusOf(f) = StatusOf(e)
  BY DEF EditOK, SameText, Onward, StatusOf

LEMMA Sizes == ROOTEDIT_MAX_CODEPOINTS \in Nat /\ ROOTEDIT_UNDO_DEPTH \in Nat /\ ROOTEDIT_UNDO_DEPTH > 0
<1>1. ROOTEDIT_MAX_CODEPOINTS \in Nat /\ ROOTEDIT_UNDO_DEPTH \in Nat \ {0} BY Zenon, EditAssumption
<1> QED BY <1>1

LEMMA BufferFact ==
    ASSUME NEW b \in Buffers
    PROVE  b \in Seq(CodePoints) /\ Len(b) \in 0 .. ROOTEDIT_MAX_CODEPOINTS
  BY Sizes, LenProperties DEF Buffers

\* A text without the indices from `from' up to `to'.
LEMMA WithoutFact ==
    ASSUME NEW b \in Buffers, NEW from \in Nat, NEW to \in Nat, from <= to, to <= Len(b)
    PROVE  LET t == SubSeq(b, 1, from) \o SubSeq(b, to + 1, Len(b))
           IN  t \in Buffers /\ Len(t) = Len(b) - (to - from)
<1>1. b \in Seq(CodePoints) /\ Len(b) \in Nat /\ Len(b) <= ROOTEDIT_MAX_CODEPOINTS
  BY BufferFact, Sizes
<1>2. \A i \in 1 .. Len(b) : b[i] \in CodePoints BY <1>1, ElementOfSeq
<1>3. PICK s : s = SubSeq(b, 1, from) OBVIOUS
<1>4. \A i \in 1 .. from : b[i] \in CodePoints BY <1>1, <1>2
<1>5. s \in Seq(CodePoints) /\ Len(s) = from BY <1>3, <1>4, SubSeqProperties
<1>6. PICK m : m = to + 1 OBVIOUS
<1>7. PICK t : t = SubSeq(b, m, Len(b)) OBVIOUS
<1>8. \A i \in m .. Len(b) : b[i] \in CodePoints BY <1>1, <1>2, <1>6
<1>9. m \in Int /\ Len(b) \in Int BY <1>1, <1>6
<1>10. t \in Seq(CodePoints) /\ Len(t) = IF m <= Len(b) THEN Len(b) - m + 1 ELSE 0
  BY <1>7, <1>8, <1>9, SubSeqProperties
<1>11. Len(t) = Len(b) - to BY <1>1, <1>6, <1>10
<1>12. s \o t \in Seq(CodePoints) /\ Len(s \o t) = Len(s) + Len(t)
  BY <1>5, <1>10, ConcatProperties
<1>13. Len(s \o t) = Len(b) - (to - from) /\ Len(s \o t) <= ROOTEDIT_MAX_CODEPOINTS
  BY <1>1, <1>5, <1>11, <1>12, Sizes
<1> QED BY <1>3, <1>6, <1>7, <1>12, <1>13 DEF Buffers

\* A text with another one put in.
LEMMA WithFact ==
    ASSUME NEW b \in Buffers, NEW at \in 0 .. Len(b), NEW text \in Seq(CodePoints),
           Len(b) + Len(text) <= ROOTEDIT_MAX_CODEPOINTS
    PROVE  LET t == SubSeq(b, 1, at) \o text \o SubSeq(b, at + 1, Len(b))
           IN  t \in Buffers /\ Len(t) = Len(b) + Len(text)
<1>1. b \in Seq(CodePoints) /\ Len(b) \in Nat /\ Len(text) \in Nat
  BY BufferFact, LenProperties
<1>2. \A i \in 1 .. Len(b) : b[i] \in CodePoints BY <1>1, ElementOfSeq
<1>3. PICK s : s = SubSeq(b, 1, at) OBVIOUS
<1>4. \A i \in 1 .. at : b[i] \in CodePoints BY <1>1, <1>2
<1>5. s \in Seq(CodePoints) /\ Len(s) = at BY <1>1, <1>3, <1>4, SubSeqProperties
<1>6. PICK m : m = at + 1 OBVIOUS
<1>7. PICK t : t = SubSeq(b, m, Len(b)) OBVIOUS
<1>8. \A i \in m .. Len(b) : b[i] \in CodePoints BY <1>1, <1>2, <1>6
<1>9. m \in Int /\ Len(b) \in Int BY <1>1, <1>6
<1>10. t \in Seq(CodePoints) /\ Len(t) = IF m <= Len(b) THEN Len(b) - m + 1 ELSE 0
  BY <1>7, <1>8, <1>9, SubSeqProperties
<1>11. Len(t) = Len(b) - at BY <1>1, <1>6, <1>10
<1>12. s \o text \in Seq(CodePoints) /\ Len(s \o text) = at + Len(text)
  BY <1>1, <1>5, ConcatProperties
<1>13. (s \o text) \o t \in Seq(CodePoints) /\ Len((s \o text) \o t) = Len(s \o text) + Len(t)
  BY <1>10, <1>12, ConcatProperties
<1>14. Len((s \o text) \o t) = Len(b) + Len(text) BY <1>1, <1>11, <1>12, <1>13
<1> QED BY <1>3, <1>6, <1>7, <1>13, <1>14 DEF Buffers

LEMMA RemovedFact ==
    ASSUME NEW e, EditOK(e), e.undo # <<>>,
           NEW from \in Nat, NEW to \in Nat, from <= to, to <= Len(e.buffer)
    PROVE  /\ Edited(e, Removed(e, from, to))
           /\ Edited(e, [Removed(e, from, to) EXCEPT !.save_error = FALSE])
           /\ Edited(e, editor_selection_clear(Removed(e, from, to)))
<1>1. PICK t : t = SubSeq(e.buffer, 1, from) \o SubSeq(e.buffer, to + 1, Len(e.buffer)) OBVIOUS
<1>2. e.buffer \in Buffers /\ Len(e.buffer) \in Nat BY BufferFact DEF EditOK
<1>3. t \in Buffers /\ Len(t) = Len(e.buffer) - (to - from) BY <1>1, <1>2, WithoutFact
<1>4. from \in 0 .. Len(t) BY <1>2, <1>3
<1>5. PICK f : f = Removed(e, from, to) OBVIOUS
<1>6. f = [e EXCEPT !.buffer = t, !.cursor = from, !.dirty = TRUE] BY <1>1, <1>5 DEF Removed
<1>7. Edited(e, f) BY <1>3, <1>4, <1>6 DEF EditOK, Edited, Onward, Fields
<1>8. Edited(e, [f EXCEPT !.save_error = FALSE])
  BY <1>3, <1>4, <1>6 DEF EditOK, Edited, Onward, Fields
<1>9. Edited(e, editor_selection_clear(f))
  BY <1>3, <1>4, <1>6 DEF EditOK, Edited, Onward, Fields, editor_selection_clear
<1> QED BY <1>5, <1>7, <1>8, <1>9

LEMMA PutFact ==
    ASSUME NEW e, EditOK(e), e.undo # <<>>, NEW text \in Seq(CodePoints),
           Len(e.buffer) + Len(text) <= ROOTEDIT_MAX_CODEPOINTS
    PROVE  Edited(e, Put(e, text))
<1>1. PICK t : t = SubSeq(e.buffer, 1, e.cursor) \o text \o SubSeq(e.buffer, e.cursor + 1, Len(e.buffer))
  OBVIOUS
<1>2. e.buffer \in Buffers /\ Len(e.buffer) \in Nat /\ Len(text) \in Nat /\ e.cursor \in 0 .. Len(e.buffer)
  BY BufferFact, LenProperties DEF EditOK
<1>3. t \in Buffers /\ Len(t) = Len(e.buffer) + Len(text) BY <1>1, <1>2, WithFact
<1>4. e.cursor + Len(text) \in 0 .. Len(t) BY <1>2, <1>3
<1>5. Put(e, text) = [e EXCEPT !.buffer = t, !.cursor = e.cursor + Len(text), !.dirty = TRUE, !.save_error = FALSE]
  BY <1>1 DEF Put
<1> QED BY <1>3, <1>4, <1>5 DEF EditOK, Edited, Onward, Fields

-----------------------------------------------------------------------------
(* The edits.                                                              *)

LEMMA SelectionFact ==
    ASSUME NEW e, EditOK(e)
    PROVE  /\ editor_selection_start(e) \in Nat /\ editor_selection_end(e) \in Nat
           /\ editor_selection_start(e) <= editor_selection_end(e)
           /\ editor_selection_start(e) <= Len(e.buffer)
<1>1. e.anchor \in Nat /\ e.cursor \in Nat /\ e.cursor <= Len(e.buffer) /\ Len(e.buffer) \in Nat
  BY BufferFact DEF EditOK
<1>2. editor_selection_start(e) = IF e.anchor <= e.cursor THEN e.anchor ELSE e.cursor
  BY <1>1, MinTwo DEF editor_selection_start
<1>3. editor_selection_end(e) = IF e.anchor <= e.cursor THEN e.cursor ELSE e.anchor
  BY <1>1, MaxTwo DEF editor_selection_end
<1> QED BY <1>1, <1>2, <1>3

LEMMA Letters ==
    /\ Keys \subseteq CodePoints /\ "LF" \in CodePoints /\ " " \in CodePoints
    /\ Old \in CodePoints /\ Replacement \in CodePoints
<1>1. Bad \notin Keys \cup {"LF", " ", Replacement, Old} BY Zenon, EditAssumption
<1> QED BY Zenon, <1>1 DEF CodePoints

\* What is copied.
LEMMA CopyFact ==
    ASSUME NEW e, EditOK(e)
    PROVE  SelectedPart(e) \in Seq(CodePoints)
<1>1. PICK a : a = editor_selection_start(e) OBVIOUS
<1>2. PICK n : n = editor_selection_end(e) - editor_selection_start(e) OBVIOUS
<1>3. a \in Nat /\ n \in Nat BY <1>1, <1>2, SelectionFact
<1>4. SelectedPart(e) = [i \in 1 .. n |-> IF a + i <= Len(e.buffer) THEN e.buffer[a + i] ELSE Old]
  BY <1>1, <1>2 DEF SelectedPart
<1>5. e.buffer \in Seq(CodePoints) /\ Len(e.buffer) \in Nat BY BufferFact DEF EditOK
<1>6. \A i \in 1 .. n : (IF a + i <= Len(e.buffer) THEN e.buffer[a + i] ELSE Old) \in CodePoints
  <2>1. PICK b : b = e.buffer OBVIOUS
  <2>2. PICK l : l = Len(b) OBVIOUS
  <2>3. l \in Nat /\ \A j \in 1 .. l : b[j] \in CodePoints BY <1>5, <2>1, <2>2, ElementOfSeq
  <2>4. ASSUME NEW i \in 1 .. n PROVE (IF a + i <= l THEN b[a + i] ELSE Old) \in CodePoints
    <3>1. PICK j : j = a + i OBVIOUS
    <3>2. j \in Nat /\ j >= 1 BY <1>3, <3>1
    <3>3. j <= l => b[j] \in CodePoints BY <2>3, <3>2
    <3> QED BY <3>1, <3>3, Letters
  <2> QED BY <2>1, <2>2, <2>4
<1>7. SelectedPart(e) \in [1 .. n -> CodePoints] BY <1>4, <1>6
<1> QED BY <1>3, <1>7

LEMMA EditedSelf ==
    ASSUME NEW e, EditOK(e), e.undo # <<>>
    PROVE  /\ Edited(e, e) /\ Edited(e, Broken(e)) /\ Edited(e, editor_selection_clear(e))
<1>1. Edited(e, e) BY DEF Edited, Onward
<1>2. Edited(e, Broken(e)) BY DEF Edited, Onward, EditOK, Broken, Fields
<1>3. Edited(e, editor_selection_clear(e))
  <2>1. e.cursor \in Nat BY BufferFact DEF EditOK
  <2> QED BY <2>1 DEF Edited, Onward, EditOK, editor_selection_clear, Fields
<1> QED BY <1>1, <1>2, <1>3

LEMMA EditedTrans ==
    ASSUME NEW e, NEW f, NEW g, Edited(e, f), Edited(f, g)
    PROVE  Edited(e, g)
  BY DEF Edited, Onward

LEMMA DeleteSelectionFact ==
    ASSUME NEW e, EditOK(e), e.undo # <<>>
    PROVE  Edited(e, editor_delete_selection(e).e)
<1>1. CASE ~e.active BY <1>1, EditedSelf DEF editor_delete_selection, Same
<1>2. CASE e.active /\ e.anchor = e.cursor
  BY <1>2, EditedSelf DEF editor_delete_selection, Same
<1>3. CASE e.active /\ e.anchor # e.cursor /\ PastEnd(e)
  BY <1>3, EditedSelf DEF editor_delete_selection, Same
<1>4. CASE e.active /\ e.anchor # e.cursor /\ ~PastEnd(e)
  <2>1. PICK from : from = editor_selection_start(e) OBVIOUS
  <2>2. PICK to : to = editor_selection_end(e) OBVIOUS
  <2>3. Len(e.buffer) \in Nat BY BufferFact DEF EditOK
  <2>4. from \in Nat /\ to \in Nat /\ from <= to /\ to <= Len(e.buffer)
    BY <1>4, <2>1, <2>2, <2>3, SelectionFact DEF PastEnd
  <2>5. Edited(e, editor_selection_clear(Removed(e, from, to))) BY <2>4, RemovedFact
  <2>6. editor_delete_selection(e).e = editor_selection_clear(Removed(e, from, to))
    BY <1>4, <2>1, <2>2 DEF editor_delete_selection
  <2> QED BY <2>5, <2>6
<1> QED BY <1>1, <1>2, <1>3, <1>4

LEMMA InsertedFact ==
    ASSUME NEW e, EditOK(e), e.undo # <<>>, NEW text \in Seq(CodePoints)
    PROVE  Edited(e, Inserted(editor_delete_selection(e), text).e)
<1>1. PICK r : r = editor_delete_selection(e) OBVIOUS
<1>2. Edited(e, r.e) BY <1>1, DeleteSelectionFact
<1>3. CASE r.e.broken # "no" \/ Len(r.e.buffer) + Len(text) > ROOTEDIT_MAX_CODEPOINTS
  BY <1>1, <1>2, <1>3 DEF Inserted
<1>4. CASE ~(r.e.broken # "no" \/ Len(r.e.buffer) + Len(text) > ROOTEDIT_MAX_CODEPOINTS)
  <2>1. PICK d : d = r.e OBVIOUS
  <2>2. EditOK(d) /\ d.undo # <<>> BY <1>2, <2>1 DEF Edited
  <2>3. Len(d.buffer) \in Nat /\ Len(text) \in Nat BY <2>2, BufferFact, LenProperties DEF EditOK
  <2>4. Len(d.buffer) + Len(text) <= ROOTEDIT_MAX_CODEPOINTS BY <1>4, <2>1, <2>3, Sizes
  <2>5. Edited(d, Put(d, text)) BY <2>2, <2>4, PutFact
  <2>6. Inserted(r, text).e = Put(d, text) BY <1>4, <2>1 DEF Inserted
  <2> QED BY <1>1, <1>2, <2>1, <2>5, <2>6, EditedTrans
<1> QED BY <1>3, <1>4

LEMMA InsertFact ==
    ASSUME NEW e, EditOK(e), e.undo # <<>>, NEW cp \in CodePoints
    PROVE  Edited(e, editor_insert(e, cp).e)
<1>1. <<cp>> \in Seq(CodePoints) OBVIOUS
<1> QED BY <1>1, InsertedFact DEF editor_insert

LEMMA BackspaceFact ==
    ASSUME NEW e, EditOK(e), e.undo # <<>>
    PROVE  Edited(e, editor_backspace(e).e)
<1>1. e.cursor \in Nat /\ e.cursor <= Len(e.buffer) /\ Len(e.buffer) \in Nat BY BufferFact DEF EditOK
<1>2. CASE e.active BY <1>2, DeleteSelectionFact DEF editor_backspace
<1>3. CASE ~e.active /\ e.cursor = 0 BY <1>3, EditedSelf DEF editor_backspace, Same
<1>4. CASE ~e.active /\ e.cursor # 0
  <2>1. e.cursor - 1 \in Nat /\ e.cursor - 1 <= e.cursor BY <1>1, <1>4
  <2>2. Edited(e, [Removed(e, e.cursor - 1, e.cursor) EXCEPT !.save_error = FALSE])
    BY <1>1, <2>1, RemovedFact
  <2> QED BY <1>4, <2>2 DEF editor_backspace
<1> QED BY <1>2, <1>3, <1>4

LEMMA DeleteFact ==
    ASSUME NEW e, EditOK(e), e.undo # <<>>
    PROVE  Edited(e, editor_delete(e).e)
<1>1. e.cursor \in Nat /\ e.cursor <= Len(e.buffer) /\ Len(e.buffer) \in Nat BY BufferFact DEF EditOK
<1>2. CASE e.active BY <1>2, DeleteSelectionFact DEF editor_delete
<1>3. CASE ~e.active /\ e.cursor >= Len(e.buffer) BY <1>3, EditedSelf DEF editor_delete, Same
<1>4. CASE ~e.active /\ ~(e.cursor >= Len(e.buffer))
  <2>1. e.cursor + 1 \in Nat /\ e.cursor <= e.cursor + 1 /\ e.cursor + 1 <= Len(e.buffer) BY <1>1, <1>4
  <2>2. Edited(e, [Removed(e, e.cursor, e.cursor + 1) EXCEPT !.save_error = FALSE])
    BY <1>1, <2>1, RemovedFact
  <2> QED BY <1>4, <2>2 DEF editor_delete
<1> QED BY <1>2, <1>3, <1>4

-----------------------------------------------------------------------------
(* Snapshots.                                                              *)

LEMMA SnapshotFact ==
    ASSUME NEW e, EditOK(e)
    PROVE  Snapshot(e) \in Snapshots /\ Snapshot(e).buffer = e.buffer
<1>1. e.buffer \in Buffers /\ e.cursor \in Nat /\ e.cursor <= Len(e.buffer) BY BufferFact DEF EditOK
<1> QED BY <1>1 DEF Snapshot, Snapshots

\* Putting a snapshot on a stack that is not full, or is.
LEMMA PushFact ==
    ASSUME NEW st \in Seq(Snapshots), Len(st) <= ROOTEDIT_UNDO_DEPTH, NEW x \in Snapshots
    PROVE  /\ snapshot_stack_push(st, x) \in Seq(Snapshots)
           /\ snapshot_stack_push(st, x) # <<>>
           /\ Len(snapshot_stack_push(st, x)) <= ROOTEDIT_UNDO_DEPTH
           /\ Len(st) < ROOTEDIT_UNDO_DEPTH =>
                /\ Len(snapshot_stack_push(st, x)) = Len(st) + 1
                /\ snapshot_stack_push(st, x)[1] = IF st = <<>> THEN x ELSE st[1]
<1>1. Len(st) \in Nat BY LenProperties
<1>2. CASE Len(st) < ROOTEDIT_UNDO_DEPTH
  <2>1. PICK t : t = Append(st, x) OBVIOUS
  <2>2. /\ t \in Seq(Snapshots) /\ t # <<>> /\ Len(t) = Len(st) + 1
        /\ \A i \in 1 .. Len(st) : t[i] = st[i]
        /\ t[Len(st) + 1] = x
    BY <2>1, AppendProperties
  <2>3. t[1] = IF st = <<>> THEN x ELSE st[1]
    <3>1. CASE st = <<>>
      <4>1. Len(st) + 1 = 1 BY <3>1
      <4> QED BY <2>2, <3>1, <4>1
    <3>2. CASE st # <<>>
      <4>1. 1 \in 1 .. Len(st) BY <1>1, <3>2, EmptySeq
      <4> QED BY <2>2, <3>2, <4>1
    <3> QED BY <3>1, <3>2
  <2>4. snapshot_stack_push(st, x) = t BY <1>2, <2>1 DEF snapshot_stack_push
  <2> QED BY <1>1, <1>2, <2>2, <2>3, <2>4, Sizes
<1>3. CASE ~(Len(st) < ROOTEDIT_UNDO_DEPTH)
  <2>1. Len(st) = ROOTEDIT_UNDO_DEPTH BY <1>1, <1>3, Sizes
  <2>2. st # <<>> BY <2>1, Sizes, EmptySeq
  <2>3. PICK u : u = Tail(st) OBVIOUS
  <2>4. u \in Seq(Snapshots) /\ Len(u) = Len(st) - 1 BY <2>2, <2>3, HeadTailProperties
  <2>5. PICK t : t = Append(u, x) OBVIOUS
  <2>6. t \in Seq(Snapshots) /\ t # <<>> /\ Len(t) = Len(u) + 1 BY <2>4, <2>5, AppendProperties
  <2>7. snapshot_stack_push(st, x) = t BY <1>3, <2>3, <2>5 DEF snapshot_stack_push
  <2> QED BY <1>1, <1>3, <2>1, <2>4, <2>6, <2>7
<1> QED BY <1>2, <1>3

LEMMA BreakFact ==
    ASSUME NEW e, EditOK(e)
    PROVE  /\ EditOK(editor_break_undo_group(e)) /\ Onward(e, editor_break_undo_group(e))
           /\ editor_break_undo_group(e).status = e.status
           /\ editor_break_undo_group(e).undo = e.undo
           /\ StatusOf(editor_break_undo_group(e)) = StatusOf(e)
           /\ editor_break_undo_group(e) = [e EXCEPT !.group = "NONE"]
  BY DEF EditOK, Onward, StatusOf, editor_break_undo_group, Fields

\* The snapshots on the two stacks.
LEMMA StackFact ==
    ASSUME NEW e, EditOK(e)
    PROVE  /\ e.undo \in Seq(Snapshots) /\ e.redo \in Seq(Snapshots)
           /\ Len(e.undo) \in Nat /\ Len(e.redo) \in Nat
           /\ Len(e.undo) + Len(e.redo) <= ROOTEDIT_UNDO_DEPTH
           /\ Len(e.undo) <= ROOTEDIT_UNDO_DEPTH
           /\ e.undo # <<>> => Len(e.redo) < ROOTEDIT_UNDO_DEPTH
           /\ e.redo # <<>> => Len(e.undo) < ROOTEDIT_UNDO_DEPTH
<1>1. PICK u : u = e.undo OBVIOUS
<1>2. PICK r : r = e.redo OBVIOUS
<1>3. u \in Seq(Snapshots) /\ r \in Seq(Snapshots) /\ Len(u) + Len(r) <= ROOTEDIT_UNDO_DEPTH
  BY <1>1, <1>2 DEF EditOK
<1>4. PICK m : m = Len(u) OBVIOUS
<1>5. PICK n : n = Len(r) OBVIOUS
<1>6. m \in Nat /\ n \in Nat /\ (u # <<>> => m > 0) /\ (r # <<>> => n > 0)
  BY <1>3, <1>4, <1>5, LenProperties, EmptySeq
<1>7. m + n <= ROOTEDIT_UNDO_DEPTH BY <1>3, <1>4, <1>5
<1>8. /\ m <= ROOTEDIT_UNDO_DEPTH
      /\ u # <<>> => n < ROOTEDIT_UNDO_DEPTH
      /\ r # <<>> => m < ROOTEDIT_UNDO_DEPTH
  BY <1>6, <1>7, Sizes
<1> QED BY <1>1, <1>2, <1>3, <1>4, <1>5, <1>6, <1>8

\* The snapshot before an edit.
LEMMA RecordFact ==
    ASSUME NEW e, EditOK(e), NEW group, NEW force,
           group # "NONE" \/ (group = "NONE" /\ force)
    PROVE  LET r == editor_record_undo(e, group, force)
           IN  EditOK(r) /\ r.undo # <<>> /\ Onward(e, r)
<1>1. CASE ~force /\ e.group = group
  <2>1. editor_record_undo(e, group, force) = e BY <1>1 DEF editor_record_undo
  <2> QED BY <1>1, <2>1 DEF EditOK, Onward
<1>2. CASE ~(~force /\ e.group = group)
  <2>1. PICK u : u = snapshot_stack_push(e.undo, Snapshot(e)) OBVIOUS
  <2>2. PICK r : r = editor_record_undo(e, group, force) OBVIOUS
  <2>3. r = [e EXCEPT !.undo = u, !.redo = <<>>, !.group = group,
                      !.dropped = e.dropped \/ Len(e.undo) = ROOTEDIT_UNDO_DEPTH, !.edits = e.edits + 1]
    BY <1>2, <2>1, <2>2 DEF editor_record_undo
  <2>4. e.undo \in Seq(Snapshots) BY StackFact
  <2>5. Len(e.undo) \in Nat BY StackFact
  <2>6. Len(e.undo) <= ROOTEDIT_UNDO_DEPTH BY StackFact
  <2>7. /\ u \in Seq(Snapshots) /\ u # <<>> /\ Len(u) <= ROOTEDIT_UNDO_DEPTH
        /\ Len(e.undo) < ROOTEDIT_UNDO_DEPTH => u[1] = IF e.undo = <<>> THEN Snapshot(e) ELSE e.undo[1]
    BY <2>1, <2>4, <2>6, SnapshotFact, PushFact
  <2>8. Len(<<>>) = 0 /\ <<>> \in Seq(Snapshots) OBVIOUS
  <2>9. Len(u) + Len(<<>>) <= ROOTEDIT_UNDO_DEPTH
    <3>1. Len(u) \in Nat BY <2>7, LenProperties
    <3> QED BY <2>7, <2>8, <3>1
  <2>10. ~r.dropped => r.original = u[1].buffer
    <3>1. ASSUME ~r.dropped PROVE r.original = u[1].buffer
      <4>1. ~e.dropped /\ Len(e.undo) # ROOTEDIT_UNDO_DEPTH /\ r.original = e.original
        BY <2>3, <3>1 DEF EditOK, Fields
      <4>2. Len(e.undo) < ROOTEDIT_UNDO_DEPTH BY <2>5, <2>6, <4>1, Sizes
      <4>3. e.original = IF e.undo = <<>> THEN e.buffer ELSE e.undo[1].buffer BY <4>1 DEF EditOK
      <4>4. u[1] = IF e.undo = <<>> THEN Snapshot(e) ELSE e.undo[1] BY <2>7, <4>2
      <4> QED BY <4>1, <4>3, <4>4, SnapshotFact
    <3> QED BY <3>1
  <2>11. /\ DOMAIN r = Fields /\ r.undo = u /\ r.redo = <<>> /\ r.buffer = e.buffer
         /\ r.cursor = e.cursor /\ r.anchor = e.anchor /\ r.open = e.open
         /\ r.dirty = e.dirty /\ r.save_error = e.save_error
    BY <2>3 DEF EditOK, Fields
  <2>12. EditOK(r) BY <2>7, <2>8, <2>9, <2>10, <2>11 DEF EditOK
  <2> QED BY <2>2, <2>7, <2>11, <2>12 DEF Onward
<1> QED BY <1>1, <1>2

-----------------------------------------------------------------------------
(* Undo and redo.                                                          *)

\* An event's result: in good order, the status row drawn from it.
Shown(e, f) == EditOK(f) /\ Onward(e, f) /\ f.status = StatusOf(f)

\* A snapshot brought back, with stacks that hold it apart.
LEMMA RestoredFact ==
    ASSUME NEW e, EditOK(e), NEW x \in Snapshots,
           NEW u \in Seq(Snapshots), NEW r \in Seq(Snapshots),
           Len(u) + Len(r) <= ROOTEDIT_UNDO_DEPTH,
           ~e.dropped => e.original = IF u = <<>> THEN x.buffer ELSE u[1].buffer
    PROVE  Shown(e, Restored([e EXCEPT !.undo = u, !.redo = r], x))
<1>1. x.buffer \in Buffers /\ x.cursor \in Nat /\ x.cursor <= Len(x.buffer) BY DEF Snapshots
<1>2. x.cursor \in 0 .. Len(x.buffer) BY <1>1, BufferFact
<1>3. PICK f : f = editor_break_undo_group(editor_snapshot_restore([e EXCEPT !.undo = u, !.redo = r], x))
  OBVIOUS
<1>4. f = [e EXCEPT !.undo = u, !.redo = r, !.buffer = x.buffer, !.cursor = x.cursor,
                    !.anchor = x.cursor, !.active = FALSE, !.selecting = FALSE, !.dirty = TRUE,
                    !.save_error = FALSE, !.group = "NONE"]
  BY <1>3 DEF editor_break_undo_group, editor_snapshot_restore
<1>5. /\ DOMAIN f = Fields /\ f.buffer = x.buffer /\ f.cursor = x.cursor /\ f.anchor = x.cursor
      /\ f.undo = u /\ f.redo = r /\ f.group = "NONE" /\ f.open = e.open /\ f.dirty
      /\ f.original = e.original /\ f.dropped = e.dropped
  BY <1>4 DEF EditOK, Fields
<1>6. EditOK(f) /\ Onward(e, f) BY <1>1, <1>2, <1>5 DEF EditOK, Onward
<1>7. PICK g : g = editor_redraw_full(editor_ensure_cursor_visible(f)) OBVIOUS
<1>8. SameText(f, g) /\ g.status = StatusOf(f) BY <1>5, <1>7, AfterEditFact
<1>9. EditOK(g) /\ Onward(f, g) /\ StatusOf(g) = StatusOf(f) BY <1>6, <1>8, SameOK
<1>10. Shown(e, g) BY <1>6, <1>8, <1>9, OnwardTrans DEF Shown
<1>11. Restored([e EXCEPT !.undo = u, !.redo = r], x) = g BY <1>3, <1>7 DEF Restored
<1> QED BY <1>10, <1>11

\* A stack without its last snapshot.
LEMMA FrontFact ==
    ASSUME NEW st \in Seq(Snapshots), st # <<>>
    PROVE  /\ Front(st) \in Seq(Snapshots) /\ Len(Front(st)) = Len(st) - 1 /\ Last(st) \in Snapshots
           /\ Front(st) = <<>> => Last(st) = st[1]
           /\ Front(st) # <<>> => Front(st)[1] = st[1]
<1>1. Len(st) \in Nat /\ Len(st) > 0 BY EmptySeq, LenProperties
<1>2. PICK n : n = Len(st) - 1 OBVIOUS
<1>3. n \in Nat /\ n \in Int BY <1>1, <1>2
<1>4. \A i \in 1 .. n : st[i] \in Snapshots BY <1>1, <1>2, ElementOfSeq
<1>5. PICK f : f = SubSeq(st, 1, n) OBVIOUS
<1>6. f \in Seq(Snapshots) /\ Len(f) = n /\ \A i \in 1 .. n : f[i] = st[1 + i - 1]
  BY <1>3, <1>4, <1>5, SubSeqProperties
<1>7. Front(st) = f BY <1>2, <1>5 DEF Front
<1>8. Last(st) = st[Len(st)] /\ Last(st) \in Snapshots BY <1>1, ElementOfSeq DEF Last
<1>9. f = <<>> => Len(st) = 1
  <2>1. ASSUME f = <<>> PROVE Len(st) = 1
    <3>1. n = 0 BY <1>6, <2>1, EmptySeq
    <3> QED BY <1>1, <1>2, <3>1
  <2> QED BY <2>1
<1>10. f # <<>> => f[1] = st[1]
  <2>1. ASSUME f # <<>> PROVE f[1] = st[1]
    <3>1. n > 0 BY <1>3, <1>6, <2>1, EmptySeq
    <3>2. f[1] = st[1 + 1 - 1] BY <1>3, <1>6, <3>1
    <3> QED BY <3>2
  <2> QED BY <2>1
<1> QED BY <1>2, <1>6, <1>7, <1>8, <1>9, <1>10

LEMMA UndoFact ==
    ASSUME NEW e, EditOK(e), e.undo # <<>>
    PROVE  Shown(e, editor_undo(e))
<1>1. e.undo \in Seq(Snapshots) /\ e.redo \in Seq(Snapshots) BY StackFact
<1>2. PICK m : m = Len(e.undo) OBVIOUS
<1>3. PICK n : n = Len(e.redo) OBVIOUS
<1>12. m \in Nat /\ n \in Nat /\ m + n <= ROOTEDIT_UNDO_DEPTH /\ n < ROOTEDIT_UNDO_DEPTH
  BY <1>2, <1>3, StackFact
<1>4. PICK u : u = Front(e.undo) OBVIOUS
<1>5. PICK r : r = snapshot_stack_push(e.redo, Snapshot(e)) OBVIOUS
<1>6. PICK x : x = Last(e.undo) OBVIOUS
<1>7. /\ u \in Seq(Snapshots) /\ Len(u) = Len(e.undo) - 1 /\ x \in Snapshots
      /\ u = <<>> => x = e.undo[1]
      /\ u # <<>> => u[1] = e.undo[1]
  BY <1>1, <1>4, <1>6, FrontFact
<1>8. r \in Seq(Snapshots) /\ Len(r) = n + 1 BY <1>1, <1>3, <1>12, <1>5, SnapshotFact, PushFact, Sizes
<1>9. Len(u) + Len(r) <= ROOTEDIT_UNDO_DEPTH
  <2>1. Len(u) = m - 1 BY <1>2, <1>7
  <2> QED BY <1>8, <1>12, <2>1, Sizes
<1>10. ~e.dropped => e.original = IF u = <<>> THEN x.buffer ELSE u[1].buffer BY <1>7 DEF EditOK
<1>11. Shown(e, Restored([e EXCEPT !.undo = u, !.redo = r], x)) BY <1>7, <1>8, <1>9, <1>10, RestoredFact
<1> QED BY <1>4, <1>5, <1>6, <1>11 DEF editor_undo

LEMMA RedoFact ==
    ASSUME NEW e, EditOK(e), e.redo # <<>>
    PROVE  Shown(e, editor_redo(e))
<1>1. e.undo \in Seq(Snapshots) /\ e.redo \in Seq(Snapshots) BY StackFact
<1>2. PICK m : m = Len(e.undo) OBVIOUS
<1>3. PICK n : n = Len(e.redo) OBVIOUS
<1>14. m \in Nat /\ n \in Nat /\ m + n <= ROOTEDIT_UNDO_DEPTH /\ m < ROOTEDIT_UNDO_DEPTH
  BY <1>2, <1>3, StackFact
<1>4. PICK r : r = Front(e.redo) OBVIOUS
<1>5. PICK u : u = snapshot_stack_push(e.undo, Snapshot(e)) OBVIOUS
<1>6. PICK x : x = Last(e.redo) OBVIOUS
<1>7. r \in Seq(Snapshots) /\ Len(r) = Len(e.redo) - 1 /\ x \in Snapshots
  BY <1>1, <1>4, <1>6, FrontFact
<1>8. /\ u \in Seq(Snapshots) /\ u # <<>> /\ Len(u) = m + 1
      /\ u[1] = IF e.undo = <<>> THEN Snapshot(e) ELSE e.undo[1]
  <2>1. PICK t : t = Snapshot(e) OBVIOUS
  <2>2. t \in Snapshots BY <2>1, SnapshotFact
  <2>3. Len(e.undo) < ROOTEDIT_UNDO_DEPTH /\ Len(e.undo) <= ROOTEDIT_UNDO_DEPTH BY <1>2, <1>14, Sizes
  <2> QED BY <1>1, <1>2, <1>5, <2>1, <2>2, <2>3, PushFact
<1>9. Len(u) + Len(r) <= ROOTEDIT_UNDO_DEPTH
  <2>1. Len(r) = n - 1 BY <1>3, <1>7
  <2> QED BY <1>8, <1>14, <2>1, Sizes
<1>10. ~e.dropped => e.original = IF u = <<>> THEN x.buffer ELSE u[1].buffer
  BY <1>8, SnapshotFact DEF EditOK
<1>11. Shown(e, Restored([e EXCEPT !.undo = u, !.redo = r], x)) BY <1>7, <1>8, <1>9, <1>10, RestoredFact
<1>12. [e EXCEPT !.redo = r, !.undo = u] = [e EXCEPT !.undo = u, !.redo = r]
  BY DEF EditOK, Fields
<1>13. editor_redo(e) = Restored([e EXCEPT !.redo = r, !.undo = u], x)
  BY <1>4, <1>5, <1>6 DEF editor_redo
<1> QED BY <1>11, <1>12, <1>13

-----------------------------------------------------------------------------
(* Opening.                                                                *)

LEMMA LoadedFact ==
    ASSUME NEW t \in Seq(CodePoints \cup {Bad})
    PROVE  Loaded(t) \in Buffers
<1>1. Len(t) \in Nat /\ DOMAIN t = 1 .. Len(t) BY LenProperties
<1>2. \A i \in 1 .. Len(t) : t[i] \in CodePoints \cup {Bad} BY ElementOfSeq
<1>3. PICK d : d = Decode(t) OBVIOUS
<1>4. \A i \in 1 .. Len(t) : d[i] \in CodePoints BY <1>1, <1>2, <1>3, Letters DEF Decode
<1>5. PICK n : n = Min({Len(t), ROOTEDIT_MAX_CODEPOINTS}) OBVIOUS
<1>6. n \in Nat /\ n <= Len(t) /\ n <= ROOTEDIT_MAX_CODEPOINTS BY <1>1, <1>5, MinTwo, Sizes
<1>7. \A i \in 1 .. n : d[i] \in CodePoints BY <1>1, <1>4, <1>6
<1>8. PICK s : s = SubSeq(d, 1, n) OBVIOUS
<1>9. s \in Seq(CodePoints) /\ Len(s) = n BY <1>6, <1>7, <1>8, SubSeqProperties
<1>10. Loaded(t) = s BY <1>3, <1>5, <1>8 DEF Loaded
<1> QED BY <1>6, <1>9, <1>10 DEF Buffers

\* A saved text is read as it was.
LEMMA ReadBack ==
    ASSUME NEW t \in Buffers
    PROVE  Loaded(t) = t
<1>1. t \in Seq(CodePoints) /\ Len(t) \in Nat /\ Len(t) <= ROOTEDIT_MAX_CODEPOINTS
  BY BufferFact, Sizes
<1>2. t \in [1 .. Len(t) -> CodePoints] /\ DOMAIN t = 1 .. Len(t) BY <1>1, LenProperties
<1>3. Bad \notin CodePoints BY Zenon DEF CodePoints
<1>4. \A i \in DOMAIN t : t[i] # Bad BY <1>2, <1>3
<1>5. Decode(t) = [i \in DOMAIN t |-> t[i]] BY <1>4 DEF Decode
<1>6. Decode(t) = t BY <1>2, <1>5
<1>7. Min({Len(t), ROOTEDIT_MAX_CODEPOINTS}) = Len(t) BY <1>1, MinTwo, Sizes
<1>8. PICK s : s = SubSeq(t, 1, Len(t)) OBVIOUS
<1>9. PICK n : n = Len(t) OBVIOUS
<1>10. \A i \in 1 .. n : t[i] \in CodePoints BY <1>2, <1>9
<1>11. /\ s \in Seq(CodePoints) /\ Len(s) = IF 1 <= n THEN n - 1 + 1 ELSE 0
       /\ \A i \in 1 .. n - 1 + 1 : s[i] = t[1 + i - 1]
  BY <1>1, <1>8, <1>9, <1>10, SubSeqProperties
<1>12. Len(s) = n /\ \A i \in 1 .. n : s[i] = t[i] BY <1>1, <1>9, <1>11
<1>13. s = t BY <1>1, <1>9, <1>11, <1>12, SeqEqual
<1> QED BY <1>6, <1>7, <1>8, <1>13 DEF Loaded

-----------------------------------------------------------------------------
(* Events.                                                                 *)

LEMMA AfterMoveShown ==
    ASSUME NEW e, NEW f, EditOK(f), Onward(e, f), f.status = StatusOf(f)
    PROVE  Shown(e, editor_after_cursor_move(f))
<1>1. PICK g : g = editor_after_cursor_move(f) OBVIOUS
<1>2. SameText(f, g) /\ g.status \in {f.status, StatusOf(f)} BY <1>1, AfterMoveFact DEF EditOK
<1>3. EditOK(g) /\ Onward(f, g) /\ StatusOf(g) = StatusOf(f) BY <1>2, SameOK
<1> QED BY <1>1, <1>2, <1>3, OnwardTrans DEF Shown

LEMMA AfterEditShown ==
    ASSUME NEW e, NEW f, EditOK(f), Onward(e, f), NEW s
    PROVE  /\ Shown(e, AfterEdit(f, s))
           /\ Shown(e, editor_redraw_full(editor_ensure_cursor_visible(f)))
<1>1. PICK g : g = AfterEdit(f, s) OBVIOUS
<1>2. PICK h : h = editor_redraw_full(editor_ensure_cursor_visible(f)) OBVIOUS
<1>3. DOMAIN f = Fields BY DEF EditOK
<1>4. SameText(f, g) /\ g.status = StatusOf(f) /\ SameText(f, h) /\ h.status = StatusOf(f)
  BY <1>1, <1>2, <1>3, AfterEditFact
<1>5. /\ EditOK(g) /\ Onward(f, g) /\ StatusOf(g) = StatusOf(f)
      /\ EditOK(h) /\ Onward(f, h) /\ StatusOf(h) = StatusOf(f)
  BY <1>4, SameOK
<1> QED BY <1>1, <1>2, <1>4, <1>5, OnwardTrans DEF Shown

LEMMA ShownBreak ==
    ASSUME NEW e, NEW f, Shown(e, f)
    PROVE  Shown(e, editor_break_undo_group(f))
  BY BreakFact, OnwardTrans DEF Shown

\* The caret or the selection changed.
Repointed(e, f) ==
    /\ DOMAIN f = Fields
    /\ f.buffer = e.buffer /\ f.cursor \in 0 .. Len(e.buffer) /\ f.anchor \in Nat
    /\ f.dirty = e.dirty /\ f.save_error = e.save_error /\ f.status = e.status
    /\ f.undo = e.undo /\ f.redo = e.redo /\ f.group \in {e.group, "NONE"}
    /\ f.open = e.open /\ f.original = e.original /\ f.dropped = e.dropped

LEMMA RepointedTrans ==
    ASSUME NEW e, NEW p, NEW f, Repointed(e, p), Repointed(p, f)
    PROVE  Repointed(e, f)
  BY DEF Repointed

LEMMA RepointedShown ==
    ASSUME NEW e, NEW f, EditOK(e), e.status = StatusOf(e), Repointed(e, f)
    PROVE  /\ Shown(e, f) /\ Shown(e, editor_after_cursor_move(f))
           /\ Shown(e, editor_redraw_full(editor_ensure_cursor_visible(f)))
<1>1. EditOK(f) /\ Onward(e, f) /\ f.status = StatusOf(f)
  BY DEF EditOK, Onward, StatusOf, Repointed
<1> QED BY <1>1, AfterMoveShown, AfterEditShown DEF Shown

-----------------------------------------------------------------------------
(* The invariant.                                                          *)

EditInv ==
    /\ EditOK(ed)
    /\ clipboard \in Seq(CodePoints) /\ file \in Seq(CodePoints \cup {Bad})
    /\ ed.open => /\ ed.status = StatusOf(ed)
                  /\ ~ed.dirty /\ ~ed.save_error => Loaded(file) = ed.buffer

LEMMA EditInitInv == EditInit => EditInv
<1> SUFFICES ASSUME EditInit PROVE EditInv OBVIOUS
<1>1. file \in Seq(CodePoints \cup {Bad}) /\ clipboard \in Seq(CodePoints)
  <2>1. file \in Files /\ clipboard \in Clips BY DEF EditInit
  <2> QED BY Zenon, <2>1, EditAssumption
<1>2. <<>> \in Seq(CodePoints) /\ <<>> \in Seq(Snapshots) /\ Len(<<>>) = 0 OBVIOUS
<1>3. <<>> \in Buffers BY <1>2, Sizes DEF Buffers
<1>4. /\ DOMAIN ed = Fields /\ ed.buffer = <<>> /\ ed.cursor = 0 /\ ed.anchor = 0 /\ ed.undo = <<>>
      /\ ed.redo = <<>> /\ ed.group = "NONE" /\ ed.original = <<>> /\ ~ed.open
  BY DEF EditInit, Fields
<1>5. EditOK(ed) BY <1>2, <1>3, <1>4, Sizes DEF EditOK
<1> QED BY <1>1, <1>4, <1>5 DEF EditInv

\* Every event but opening, saving and leaving.
LEMMA ShownStep ==
    ASSUME EditInv, ed.open, NEW f, Shown(ed, f), EditorBecomes(f)
    PROVE  EditInv'
<1>1. ed' = f /\ file' = file /\ clipboard' = clipboard BY DEF EditorBecomes
<1>2. EditOK(ed') /\ ed'.status = StatusOf(ed') /\ Onward(ed, ed') BY <1>1 DEF Shown
<1>3. ~ed'.dirty /\ ~ed'.save_error => Loaded(file') = ed'.buffer
  BY <1>1, <1>2 DEF EditInv, Onward
<1> QED BY <1>1, <1>2, <1>3 DEF EditInv

LEMMA OpenStep == EditInv /\ rootedit_open => EditInv'
<1> SUFFICES ASSUME EditInv, rootedit_open PROVE EditInv' OBVIOUS
<1>1. PICK e : e = editor_load(ed, file) OBVIOUS
<1>2. PICK b : b = Loaded(file) OBVIOUS
<1>3. b \in Buffers BY <1>2, LoadedFact DEF EditInv
<1>4. Len(b) \in Nat BY <1>3, BufferFact
<1>5. <<>> \in Seq(Snapshots) /\ Len(<<>>) = 0 OBVIOUS
<1>6. /\ DOMAIN e = Fields /\ e.buffer = b /\ e.original = b /\ e.cursor = Len(b) /\ e.undo = <<>>
      /\ e.redo = <<>> /\ e.group = "NONE" /\ e.anchor = ed.anchor /\ e.open
  BY <1>1, <1>2 DEF editor_load, EditInv, EditOK, Fields
<1>7. EditOK(e) BY <1>3, <1>4, <1>5, <1>6, Sizes DEF EditOK, EditInv
<1>8. PICK f : f = editor_place_cursor(editor_draw_status(editor_draw_document(e))) OBVIOUS
<1>9. SameText(e, f) /\ f.status = StatusOf(e)
  <2>1. PICK d : d = editor_draw_document(e) OBVIOUS
  <2>2. SameText(e, d) BY <1>6, <2>1, DrawFact
  <2>3. DOMAIN d = Fields BY <2>2 DEF SameText
  <2>4. PICK s : s = editor_draw_status(d) OBVIOUS
  <2>5. SameText(d, s) /\ s.status = StatusOf(d) BY <2>3, <2>4, DrawFact
  <2>6. DOMAIN s = Fields BY <2>5 DEF SameText
  <2>7. SameText(s, f) /\ f.status = s.status BY <1>8, <2>1, <2>4, <2>6, PlaceFact
  <2>8. SameText(e, s) /\ StatusOf(d) = StatusOf(e) BY <2>2, <2>5, SameTrans
  <2>9. SameText(e, f) BY <2>7, <2>8, SameTrans
  <2> QED BY <2>5, <2>7, <2>8, <2>9
<1>10. PICK g : g = [f EXCEPT !.stale = Moved(e, editor_ensure_cursor_visible(e))] OBVIOUS
<1>11. SameText(e, g) /\ g.status = StatusOf(e) BY <1>9, <1>10 DEF SameText, Fields
<1>12. EditOK(g) /\ StatusOf(g) = StatusOf(e) /\ g.buffer = b /\ g.open
  BY <1>6, <1>7, <1>11, SameOK DEF SameText
<1>13. ed' = g /\ file' = file /\ clipboard' = clipboard
  BY <1>1, <1>8, <1>10 DEF rootedit_open
<1> QED BY <1>2, <1>11, <1>12, <1>13 DEF EditInv

LEMMA SaveStep == EditInv /\ editor_save => EditInv'
<1> SUFFICES ASSUME EditInv, editor_save PROVE EditInv' OBVIOUS
<1>1. PICK e : e = editor_break_undo_group(ed) OBVIOUS
<1>2. /\ EditOK(e) /\ DOMAIN e = Fields /\ e.buffer = ed.buffer /\ e.open = ed.open
  BY <1>1, BreakFact DEF EditInv, EditOK, Fields
<1>3. clipboard' \in Seq(CodePoints) BY DEF EditInv, editor_save
<1>4. ed.buffer \in Buffers /\ ed.buffer \in Seq(CodePoints) BY BufferFact DEF EditInv, EditOK
<1>5. ASSUME NEW f, EditOK(f)
      PROVE  LET g == editor_place_cursor(editor_draw_status(f))
             IN  EditOK(g) /\ SameText(f, g) /\ g.status = StatusOf(g)
  <2>1. PICK s : s = editor_draw_status(f) OBVIOUS
  <2>2. DOMAIN f = Fields BY <1>5 DEF EditOK
  <2>3. SameText(f, s) /\ s.status = StatusOf(f) BY <2>1, <2>2, DrawFact
  <2>4. DOMAIN s = Fields BY <2>3 DEF SameText
  <2>5. PICK g : g = editor_place_cursor(s) OBVIOUS
  <2>6. SameText(s, g) /\ g.status = s.status BY <2>4, <2>5, PlaceFact
  <2>7. SameText(f, g) /\ StatusOf(g) = StatusOf(s) /\ StatusOf(s) = StatusOf(f) BY <2>3, <2>6, SameTrans
  <2>8. EditOK(g) BY <1>5, <2>7, SameOK
  <2> QED BY <2>1, <2>3, <2>5, <2>6, <2>7, <2>8
<1>6. ASSUME file' = ed.buffer,
             ed' = editor_place_cursor(editor_draw_status([e EXCEPT !.dirty = FALSE, !.save_error = FALSE]))
      PROVE  EditInv'
  <2>1. PICK f : f = [e EXCEPT !.dirty = FALSE, !.save_error = FALSE] OBVIOUS
  <2>2. EditOK(f) /\ f.buffer = ed.buffer BY <1>2, <2>1 DEF EditOK, Fields
  <2>3. EditOK(ed') /\ SameText(f, ed') /\ ed'.status = StatusOf(ed') BY <1>5, <1>6, <2>1, <2>2
  <2>4. Loaded(file') = ed'.buffer BY <1>4, <1>6, <2>2, <2>3, ReadBack DEF SameText
  <2>5. file' \in Seq(CodePoints \cup {Bad}) BY <1>4, <1>6
  <2> QED BY <1>3, <2>3, <2>4, <2>5 DEF EditInv
<1>7. ASSUME NEW k \in 0 .. Len(ed.buffer),
             file' = SubSeq(ed.buffer, 1, k) \o SubSeq(file, k + 1, Len(file)),
             ed' = editor_place_cursor(editor_draw_status([e EXCEPT !.save_error = TRUE]))
      PROVE  EditInv'
  <2>1. PICK f : f = [e EXCEPT !.save_error = TRUE] OBVIOUS
  <2>2. EditOK(f) /\ f.save_error BY <1>2, <2>1 DEF EditOK, Fields
  <2>3. EditOK(ed') /\ SameText(f, ed') /\ ed'.status = StatusOf(ed') BY <1>5, <1>7, <2>1, <2>2
  <2>4. ed'.save_error BY <2>2, <2>3 DEF SameText
  <2>5. file' \in Seq(CodePoints \cup {Bad})
    <3>1. Len(ed.buffer) \in Nat /\ k \in Nat BY <1>4, LenProperties
    <3>2. \A i \in 1 .. k : ed.buffer[i] \in CodePoints \cup {Bad} BY <1>4, <3>1, ElementOfSeq
    <3>3. SubSeq(ed.buffer, 1, k) \in Seq(CodePoints \cup {Bad}) BY <3>1, <3>2, SubSeqProperties
    <3>4. file \in Seq(CodePoints \cup {Bad}) BY DEF EditInv
    <3>5. PICK m : m = k + 1 OBVIOUS
    <3>6. Len(file) \in Nat /\ m \in Int /\ m >= 1 BY <3>1, <3>4, <3>5, LenProperties
    <3>7. \A i \in m .. Len(file) : file[i] \in CodePoints \cup {Bad} BY <3>4, <3>6, ElementOfSeq
    <3>8. SubSeq(file, m, Len(file)) \in Seq(CodePoints \cup {Bad}) BY <3>6, <3>7, SubSeqProperties
    <3> QED BY <1>7, <3>3, <3>5, <3>8, ConcatProperties
  <2> QED BY <1>3, <2>3, <2>4, <2>5 DEF EditInv
<1> QED BY <1>1, <1>6, <1>7 DEF editor_save

LEMMA ExitStep == EditInv /\ Exit => EditInv'
<1> SUFFICES ASSUME EditInv, Exit PROVE EditInv' OBVIOUS
<1>1. PICK e : e = editor_break_undo_group(ed) OBVIOUS
<1>2. EditOK(e) BY <1>1, BreakFact DEF EditInv
<1>3. ed' = [e EXCEPT !.open = FALSE] /\ file' = file /\ clipboard' = clipboard
  BY <1>1 DEF Exit, EditorBecomes
<1>4. EditOK(ed') /\ ~ed'.open BY <1>2, <1>3 DEF EditOK, Fields
<1> QED BY <1>3, <1>4 DEF EditInv

LEMMA CaretRange ==
    ASSUME NEW e, EditOK(e)
    PROVE  /\ DOMAIN e = Fields /\ Len(e.buffer) \in Nat /\ e.cursor \in 0 .. Len(e.buffer)
           /\ e.cursor \in Nat /\ e.anchor \in Nat
  BY BufferFact DEF EditOK

LEMMA PlainFact ==
    ASSUME NEW e, EditOK(e)
    PROVE  /\ Repointed(e, editor_break_undo_group(e))
           /\ Repointed(e, editor_selection_clear(editor_break_undo_group(e)))
<1>1. DOMAIN e = Fields /\ e.cursor \in 0 .. Len(e.buffer) /\ e.cursor \in Nat /\ e.anchor \in Nat
  BY CaretRange
<1>2. PICK p : p = editor_break_undo_group(e) OBVIOUS
<1>3. Repointed(e, p) /\ p.cursor = e.cursor
  BY <1>1, <1>2 DEF Repointed, editor_break_undo_group, Fields
<1>4. PICK c : c = editor_selection_clear(p) OBVIOUS
<1>5. Repointed(p, c) BY <1>1, <1>3, <1>4 DEF Repointed, editor_selection_clear, Fields
<1> QED BY <1>2, <1>3, <1>4, <1>5, RepointedTrans

\* From p the caret goes to index c.
LEMMA PointedFact ==
    ASSUME NEW e, NEW p, Repointed(e, p), NEW c \in 0 .. Len(e.buffer), NEW a \in Nat,
           NEW active, NEW selecting
    PROVE  /\ Repointed(e, [p EXCEPT !.cursor = c])
           /\ Repointed(e, [p EXCEPT !.cursor = c, !.active = active])
           /\ Repointed(e, [p EXCEPT !.anchor = a, !.cursor = c, !.active = active])
           /\ Repointed(e, [p EXCEPT !.cursor = c, !.anchor = a, !.active = active, !.selecting = selecting])
           /\ Repointed(e, [p EXCEPT !.anchor = a])
<1>1. Repointed(e, [p EXCEPT !.cursor = c]) BY DEF Repointed, Fields
<1>2. Repointed(e, [p EXCEPT !.cursor = c, !.active = active]) BY DEF Repointed, Fields
<1>3. Repointed(e, [p EXCEPT !.anchor = a, !.cursor = c, !.active = active]) BY DEF Repointed, Fields
<1>4. Repointed(e, [p EXCEPT !.cursor = c, !.anchor = a, !.active = active, !.selecting = selecting])
  BY DEF Repointed, Fields
<1>5. Repointed(e, [p EXCEPT !.anchor = a]) BY DEF Repointed, Fields
<1> QED BY <1>1, <1>2, <1>3, <1>4, <1>5

LEMMA CaretStep == EditInv /\ ed.open /\ MoveEditorCaret => EditInv'
<1> SUFFICES ASSUME EditInv, ed.open, MoveEditorCaret PROVE EditInv' OBVIOUS
<1>1. EditOK(ed) /\ ed.status = StatusOf(ed) BY DEF EditInv
<1>2. DOMAIN ed = Fields /\ Len(ed.buffer) \in Nat /\ ed.cursor \in 0 .. Len(ed.buffer) /\ ed.anchor \in Nat
  BY <1>1, CaretRange
<1>3. ASSUME NEW to \in Targets(ed) \cup LineEnds(ed),
             EditorBecomes(editor_after_cursor_move([Unselected EXCEPT !.cursor = to]))
      PROVE  EditInv'
  <2>1. to \in 0 .. Len(ed.buffer) BY <1>2, GoalFact
  <2>2. PICK f : f = [Unselected EXCEPT !.cursor = to] OBVIOUS
  <2>3. Repointed(ed, f)
    <3>1. PICK p : p = Unselected OBVIOUS
    <3>2. Repointed(ed, p) BY <1>1, <3>1, PlainFact DEF Unselected, Plain
    <3>3. f = [p EXCEPT !.cursor = to] BY <2>2, <3>1
    <3> QED BY <2>1, <3>2, <3>3, PointedFact
  <2>4. Shown(ed, editor_after_cursor_move(f)) BY <1>1, <2>3, RepointedShown
  <2> QED BY <1>3, <2>2, <2>4, ShownStep
<1>4. ASSUME NEW to \in Targets(ed), EditorBecomes(editor_after_cursor_move(Extended(Plain, to)))
      PROVE  EditInv'
  <2>1. to \in 0 .. Len(ed.buffer) BY <1>2, GoalFact
  <2>2. PICK f : f = Extended(Plain, to) OBVIOUS
  <2>3. Repointed(ed, f)
    <3>1. PICK p : p = Plain OBVIOUS
    <3>2. Repointed(ed, p) BY <1>1, <3>1, PlainFact DEF Plain
    <3>3. p.cursor \in 0 .. Len(ed.buffer) /\ p.cursor \in Nat BY <1>2, <3>2 DEF Repointed
    <3>4. PICK q : q = IF p.active THEN p ELSE [p EXCEPT !.anchor = p.cursor] OBVIOUS
    <3>5. Repointed(ed, q) BY <3>2, <3>3, <3>4 DEF Repointed, Fields
    <3>6. f = [q EXCEPT !.cursor = to, !.active = to # q.anchor] BY <2>2, <3>1, <3>4 DEF Extended
    <3>7. PICK active : active = (to # q.anchor) OBVIOUS
    <3>8. f = [q EXCEPT !.cursor = to, !.active = active] BY <3>6, <3>7
    <3> QED BY <2>1, <3>5, <3>8, PointedFact
  <2>4. Shown(ed, editor_after_cursor_move(f)) BY <1>1, <2>3, RepointedShown
  <2> QED BY <1>4, <2>2, <2>4, ShownStep
<1>5. ASSUME NEW all,
             all = [Plain EXCEPT !.anchor = 0, !.cursor = Len(ed.buffer), !.active = ed.buffer # <<>>],
             EditorBecomes(editor_redraw_full(editor_ensure_cursor_visible(all)))
      PROVE  EditInv'
  <2>1. Repointed(ed, all)
    <3>1. PICK p : p = Plain OBVIOUS
    <3>2. Repointed(ed, p) BY <1>1, <3>1, PlainFact DEF Plain
    <3>3. PICK active : active = (ed.buffer # <<>>) OBVIOUS
    <3>4. all = [p EXCEPT !.anchor = 0, !.cursor = Len(ed.buffer), !.active = active] BY <1>5, <3>1, <3>3
    <3>5. Len(ed.buffer) \in 0 .. Len(ed.buffer) BY <1>2
    <3> QED BY <3>2, <3>4, <3>5, PointedFact
  <2>2. Shown(ed, editor_redraw_full(editor_ensure_cursor_visible(all))) BY <1>1, <2>1, RepointedShown
  <2> QED BY <1>5, <2>2, ShownStep
<1> QED BY <1>3, <1>4, <1>5 DEF MoveEditorCaret

LEMMA MouseStep == EditInv /\ ed.open /\ EditorMouse => EditInv'
<1> SUFFICES ASSUME EditInv, ed.open, EditorMouse PROVE EditInv' OBVIOUS
<1>1. EditOK(ed) /\ ed.status = StatusOf(ed) BY DEF EditInv
<1>2. DOMAIN ed = Fields /\ Len(ed.buffer) \in Nat /\ ed.cursor \in 0 .. Len(ed.buffer) /\ ed.anchor \in Nat
  BY <1>1, CaretRange
<1>3. ASSUME EditorBecomes([ed EXCEPT !.selecting = FALSE]) PROVE EditInv'
  <2>1. PICK f : f = [ed EXCEPT !.selecting = FALSE] OBVIOUS
  <2>2. Repointed(ed, f) BY <1>2, <2>1 DEF Repointed, Fields
  <2>3. Shown(ed, f) BY <1>1, <2>2, RepointedShown
  <2> QED BY <1>3, <2>1, <2>3, ShownStep
<1>4. ASSUME NEW column, NEW row, NEW i, i = editor_index_from_mouse(ed, column, row),
             NEW f, f \in {[Plain EXCEPT !.cursor = i, !.anchor = i, !.active = FALSE, !.selecting = TRUE],
                           [ed EXCEPT !.cursor = i, !.active = i # ed.anchor]},
             EditorBecomes(editor_after_cursor_move(f))
      PROVE  EditInv'
  <2>1. i \in 0 .. Len(ed.buffer) BY <1>2, <1>4, MouseFact
  <2>2. Repointed(ed, f)
    <3>1. PICK p : p = Plain OBVIOUS
    <3>2. Repointed(ed, p) BY <1>1, <3>1, PlainFact DEF Plain
    <3>3. Repointed(ed, ed) BY <1>2 DEF Repointed
    <3>4. PICK active : active = (i # ed.anchor) OBVIOUS
    <3>5. i \in Nat BY <1>2, <2>1
    <3>6. f \in {[p EXCEPT !.cursor = i, !.anchor = i, !.active = FALSE, !.selecting = TRUE],
                 [ed EXCEPT !.cursor = i, !.active = active]}
      BY <1>4, <3>1, <3>4
    <3>7. Repointed(ed, [p EXCEPT !.cursor = i, !.anchor = i, !.active = FALSE, !.selecting = TRUE])
      BY <2>1, <3>2, <3>5, PointedFact
    <3>8. Repointed(ed, [ed EXCEPT !.cursor = i, !.active = active]) BY <2>1, <3>3, <3>5, PointedFact
    <3> QED BY <3>6, <3>7, <3>8
  <2>3. Shown(ed, editor_after_cursor_move(f)) BY <1>1, <2>2, RepointedShown
  <2> QED BY <1>4, <2>3, ShownStep
<1> QED BY <1>3, <1>4 DEF EditorMouse

LEMMA WordStep ==
    ASSUME EditInv, ed.open, NEW column, NEW row, editor_select_word_from_mouse(column, row)
    PROVE  EditInv'
<1>1. EditOK(ed) /\ ed.status = StatusOf(ed) BY DEF EditInv
<1>2. DOMAIN ed = Fields /\ Len(ed.buffer) \in Nat BY <1>1, CaretRange
<1>3. PICK i : i = editor_index_from_mouse(ed, column, row) OBVIOUS
<1>4. i \in 0 .. Len(ed.buffer) - 1 /\ ed.buffer[i + 1] # "LF"
  BY <1>2, <1>3, MouseFact DEF editor_select_word_from_mouse
<1>5. WordStart(ed.buffer, i) \in 0 .. i /\ WordEnd(ed.buffer, i) \in i + 1 .. Len(ed.buffer)
  BY <1>2, <1>4, WordFact
<1>6. WordStart(ed.buffer, i) \in Nat /\ WordEnd(ed.buffer, i) \in 0 .. Len(ed.buffer)
  BY <1>2, <1>4, <1>5
<1>7. PICK e : e = [Plain EXCEPT !.anchor = WordStart(ed.buffer, i), !.cursor = WordEnd(ed.buffer, i),
                                 !.active = TRUE, !.selecting = FALSE]
  OBVIOUS
<1>8. Repointed(ed, e) BY <1>2, <1>6, <1>7 DEF Repointed, Plain, editor_break_undo_group, Fields
<1>9. DOMAIN e = Fields BY <1>8 DEF Repointed
<1>10. PICK f : f = editor_ensure_cursor_visible(e) OBVIOUS
<1>11. SameText(e, f) /\ f.status = e.status BY <1>9, <1>10, VisibleFact
<1>12. DOMAIN f = Fields BY <1>11 DEF SameText
<1>13. PICK g : g = editor_place_cursor(f) OBVIOUS
<1>14. SameText(f, g) /\ g.status = f.status BY <1>12, <1>13, PlaceFact
<1>15. PICK h : h = [g EXCEPT !.stale = g.stale \/ Moved(e, f)] OBVIOUS
<1>16. SameText(e, g) BY <1>11, <1>14, SameTrans
<1>17. SameText(e, h) /\ h.status = e.status BY <1>11, <1>14, <1>15, <1>16 DEF SameText, Fields
<1>18. Repointed(ed, h) BY <1>8, <1>17 DEF SameText, Repointed
<1>19. Shown(ed, h) BY <1>1, <1>18, RepointedShown
<1>20. EditorBecomes(h)
  BY <1>3, <1>7, <1>10, <1>13, <1>15 DEF editor_select_word_from_mouse
<1> QED BY <1>19, <1>20, ShownStep

LEMMA UndoingStep == EditInv /\ ed.open /\ Undoing => EditInv'
<1> SUFFICES ASSUME EditInv, ed.open, Undoing PROVE EditInv' OBVIOUS
<1>1. EditOK(ed) /\ ed.status = StatusOf(ed) BY DEF EditInv
<1>2. Shown(ed, ed) BY <1>1 DEF Shown, Onward
<1>3. Shown(ed, editor_undo(ed)) BY <1>1, <1>2, UndoFact DEF editor_undo
<1>4. Shown(ed, editor_redo(ed)) BY <1>1, <1>2, RedoFact DEF editor_redo
<1> QED BY <1>3, <1>4, ShownStep DEF Undoing

\* An edit behind its snapshot, then drawn.
LEMMA EditShown ==
    ASSUME NEW e, NEW r, EditOK(r), r.undo # <<>>, Onward(e, r), NEW f, Edited(r, f), NEW s
    PROVE  /\ Shown(e, AfterEdit(f, s)) /\ Shown(e, editor_break_undo_group(AfterEdit(f, s)))
           /\ LET g == editor_break_undo_group(f)
              IN  /\ Shown(e, AfterEdit(g, s))
                  /\ Shown(e, editor_redraw_full(editor_ensure_cursor_visible(g)))
<1>1. EditOK(f) /\ Onward(e, f) BY OnwardTrans DEF Edited
<1>2. Shown(e, AfterEdit(f, s)) BY <1>1, AfterEditShown
<1>3. Shown(e, editor_break_undo_group(AfterEdit(f, s))) BY <1>2, ShownBreak
<1>4. PICK g : g = editor_break_undo_group(f) OBVIOUS
<1>5. EditOK(g) /\ Onward(e, g) BY <1>1, <1>4, BreakFact, OnwardTrans
<1> QED BY <1>2, <1>3, <1>4, <1>5, AfterEditShown

LEMMA PlainRecord ==
    ASSUME EditInv, NEW r, r = editor_record_undo(Plain, "NONE", TRUE)
    PROVE  EditOK(r) /\ r.undo # <<>> /\ Onward(ed, r)
<1>1. EditOK(Plain) /\ Onward(ed, Plain) BY BreakFact DEF EditInv, Plain
<1>2. EditOK(r) /\ r.undo # <<>> /\ Onward(Plain, r) BY <1>1, RecordFact
<1> QED BY <1>1, <1>2, OnwardTrans

LEMMA CopyCutStep == EditInv /\ ed.open /\ CopyCut => EditInv'
<1> SUFFICES ASSUME EditInv, ed.open, CopyCut PROVE EditInv' OBVIOUS
<1>1. EditOK(ed) /\ ed.status = StatusOf(ed) BY DEF EditInv
<1>2. clipboard \in Seq(CodePoints) BY DEF EditInv
<1>3. SelectedPart(ed) \in Seq(CodePoints) BY <1>1, CopyFact
<1>4. clipboard' \in Seq(CodePoints) /\ file' = file
  BY <1>2, <1>3 DEF CopyCut, rootclipboard_set
<1>5. ASSUME NEW f, Shown(ed, f), ed' = f PROVE EditInv'
  <2>1. EditOK(ed') /\ ed'.status = StatusOf(ed') /\ Onward(ed, ed') BY <1>5 DEF Shown
  <2>2. ~ed'.dirty /\ ~ed'.save_error => Loaded(file') = ed'.buffer
    BY <1>4, <2>1 DEF EditInv, Onward
  <2>3. file' \in Seq(CodePoints \cup {Bad}) BY <1>4 DEF EditInv
  <2> QED BY <1>4, <2>1, <2>2, <2>3 DEF EditInv
<1>6. Shown(ed, Plain) BY <1>1, BreakFact DEF Plain, Shown
<1>7. Shown(ed, editor_break_undo_group(AfterEdit(editor_cut_selection.e, editor_cut_selection.s)))
  <2>1. PICK r : r = editor_record_undo(Plain, "NONE", TRUE) OBVIOUS
  <2>2. EditOK(r) /\ r.undo # <<>> /\ Onward(ed, r) BY <2>1, PlainRecord
  <2>3. PICK d : d = editor_delete_selection(r) OBVIOUS
  <2>4. Edited(r, d.e) BY <2>2, <2>3, DeleteSelectionFact
  <2>5. Shown(ed, editor_break_undo_group(AfterEdit(d.e, d.s))) BY <2>2, <2>4, EditShown
  <2> QED BY <2>1, <2>3, <2>5 DEF editor_cut_selection
<1> QED BY <1>5, <1>6, <1>7 DEF CopyCut

LEMMA TabStep == EditInv /\ ed.open /\ Tab => EditInv'
<1> SUFFICES ASSUME EditInv, ed.open, Tab PROVE EditInv' OBVIOUS
<1>1. PICK r : r = editor_record_undo(Plain, "NONE", TRUE) OBVIOUS
<1>2. EditOK(r) /\ r.undo # <<>> /\ Onward(ed, r) BY <1>1, PlainRecord
<1>3. ASSUME NEW e, EditOK(e), e.undo # <<>>
      PROVE  /\ Edited(e, editor_insert(e, " ").e)
             /\ EditOK(editor_insert(e, " ").e) /\ editor_insert(e, " ").e.undo # <<>>
  BY <1>3, Letters, InsertFact DEF Edited
<1>4. PICK a : a = editor_insert(r, " ") OBVIOUS
<1>5. PICK b : b = editor_insert(a.e, " ").e OBVIOUS
<1>6. PICK c : c = editor_insert(b, " ").e OBVIOUS
<1>7. PICK d : d = editor_insert(c, " ").e OBVIOUS
<1>8. Edited(r, a.e) /\ EditOK(a.e) /\ a.e.undo # <<>> BY <1>2, <1>3, <1>4
<1>9. Edited(a.e, b) /\ EditOK(b) /\ b.undo # <<>> BY <1>3, <1>5, <1>8
<1>10. Edited(b, c) /\ EditOK(c) /\ c.undo # <<>> BY <1>3, <1>6, <1>9
<1>11. Edited(c, d) BY <1>3, <1>7, <1>10
<1>12. Edited(r, d) BY <1>8, <1>9, <1>10, <1>11, EditedTrans
<1>13. PICK f : f = AfterEdit(editor_break_undo_group(d), FALSE) OBVIOUS
<1>14. Shown(ed, f) BY <1>2, <1>12, <1>13, EditShown
<1>15. PICK g : g = [f EXCEPT !.stale = f.stale \/ (a.s /\ ~Moved(d, editor_ensure_cursor_visible(d)))]
  OBVIOUS
<1>16. SameText(f, g) /\ g.status = f.status BY <1>14, <1>15 DEF Shown, EditOK, SameText, Fields
<1>17. Shown(ed, g) BY <1>14, <1>16, SameOK, OnwardTrans DEF Shown
<1>18. EditorBecomes(g)
  BY <1>1, <1>4, <1>5, <1>6, <1>7, <1>13, <1>15, Zenon DEF Tab
<1> QED BY <1>17, <1>18, ShownStep

LEMMA EditTextStep == EditInv /\ ed.open /\ EditText => EditInv'
<1> SUFFICES ASSUME EditInv, ed.open, EditText PROVE EditInv' OBVIOUS
<1>1. EditOK(ed) BY DEF EditInv
<1>2. PICK p : p = editor_record_undo(Plain, "NONE", TRUE) OBVIOUS
<1>3. EditOK(p) /\ p.undo # <<>> /\ Onward(ed, p) BY <1>2, PlainRecord
<1>4. ASSUME NEW group, group # "NONE", NEW r, r = editor_record_undo(ed, group, ed.active),
             NEW q, Edited(r, q.e),
             EditorBecomes(IF ed.active THEN editor_break_undo_group(AfterEdit(q.e, q.s))
                           ELSE AfterEdit(q.e, q.s))
      PROVE  EditInv'
  <2>1. EditOK(r) /\ r.undo # <<>> /\ Onward(ed, r) BY <1>1, <1>4, RecordFact
  <2>2. /\ Shown(ed, AfterEdit(q.e, q.s))
        /\ Shown(ed, editor_break_undo_group(AfterEdit(q.e, q.s)))
    BY <1>4, <2>1, EditShown
  <2> QED BY <1>4, <2>2, ShownStep
<1>5. ASSUME NEW group, group # "NONE", NEW r, r = editor_record_undo(ed, group, ed.active)
      PROVE  EditOK(r) /\ r.undo # <<>>
  BY <1>1, <1>5, RecordFact
<1>6. ASSUME Grouped("BACKSPACE", editor_backspace) PROVE EditInv'
  <2>1. PICK r : r = editor_record_undo(ed, "BACKSPACE", ed.active) OBVIOUS
  <2>2. PICK q : q = editor_backspace(r) OBVIOUS
  <2>3. Edited(r, q.e) BY <1>5, <2>1, <2>2, BackspaceFact
  <2>4. EditorBecomes(IF ed.active THEN editor_break_undo_group(AfterEdit(q.e, q.s))
                      ELSE AfterEdit(q.e, q.s))
    BY <1>6, <2>1, <2>2 DEF Grouped
  <2> QED BY <1>4, <2>1, <2>3, <2>4
<1>7. ASSUME Grouped("DELETE", editor_delete) PROVE EditInv'
  <2>1. PICK r : r = editor_record_undo(ed, "DELETE", ed.active) OBVIOUS
  <2>2. PICK q : q = editor_delete(r) OBVIOUS
  <2>3. Edited(r, q.e) BY <1>5, <2>1, <2>2, DeleteFact
  <2>4. EditorBecomes(IF ed.active THEN editor_break_undo_group(AfterEdit(q.e, q.s))
                      ELSE AfterEdit(q.e, q.s))
    BY <1>7, <2>1, <2>2 DEF Grouped
  <2> QED BY <1>4, <2>1, <2>3, <2>4
<1>8. ASSUME NEW cp \in Keys, Grouped("INSERT", LAMBDA e : editor_insert(e, cp)) PROVE EditInv'
  <2>1. PICK r : r = editor_record_undo(ed, "INSERT", ed.active) OBVIOUS
  <2>2. PICK q : q = editor_insert(r, cp) OBVIOUS
  <2>3. Edited(r, q.e) BY <1>5, <2>1, <2>2, Letters, InsertFact
  <2>4. EditorBecomes(IF ed.active THEN editor_break_undo_group(AfterEdit(q.e, q.s))
                      ELSE AfterEdit(q.e, q.s))
    BY <1>8, <2>1, <2>2 DEF Grouped
  <2> QED BY <1>4, <2>1, <2>3, <2>4
<1>9. ASSUME NEW r, r = editor_insert(p, "LF"),
             EditorBecomes(editor_redraw_full(editor_ensure_cursor_visible(editor_break_undo_group(r.e))))
      PROVE  EditInv'
  <2>1. Edited(p, r.e) BY <1>3, <1>9, Letters, InsertFact
  <2>2. Shown(ed, editor_redraw_full(editor_ensure_cursor_visible(editor_break_undo_group(r.e))))
    BY <1>3, <2>1, EditShown
  <2> QED BY <1>9, <2>2, ShownStep
<1>10. ASSUME NEW r, r = editor_paste(p, clipboard),
              EditorBecomes(editor_break_undo_group(AfterEdit(r.e, r.s)))
       PROVE  EditInv'
  <2>1. clipboard \in Seq(CodePoints) BY DEF EditInv
  <2>2. Edited(p, r.e) BY <1>3, <1>10, <2>1, InsertedFact DEF editor_paste
  <2>3. Shown(ed, editor_break_undo_group(AfterEdit(r.e, r.s))) BY <1>3, <2>2, EditShown
  <2> QED BY <1>10, <2>3, ShownStep
<1> QED BY <1>2, <1>6, <1>7, <1>8, <1>9, <1>10 DEF EditText

LEMMA EditNextInv == EditInv /\ [EditNext]_editVars => EditInv'
<1> SUFFICES ASSUME EditInv, [EditNext]_editVars PROVE EditInv' OBVIOUS
<1>1. CASE rootedit_open BY <1>1, OpenStep
<1>2. CASE editor_save BY <1>2, SaveStep
<1>3. CASE Exit BY <1>3, ExitStep
<1>4. CASE Editing
  <2>1. ASSUME NEW column \in 0 .. EDITOR_COLUMNS, NEW row \in 0 .. BODY_ROWS - 1,
               editor_select_word_from_mouse(column, row)
        PROVE  EditInv'
    BY <1>4, <2>1, WordStep DEF Editing
  <2> QED BY <1>4, <2>1, CaretStep, MouseStep, CopyCutStep, EditTextStep, TabStep, UndoingStep DEF Editing
<1>5. CASE UNCHANGED editVars
  <2>1. ed' = ed /\ file' = file /\ clipboard' = clipboard BY <1>5 DEF editVars
  <2> QED BY <2>1 DEF EditInv
<1> QED BY <1>1, <1>2, <1>3, <1>4, <1>5 DEF EditNext

\* The inductive invariant: the buffer, the caret, the selection and the undo ring
\* of rootedit.c are consistent, and the flags agree with the file.
THEOREM EditInvariant == EditSpec => []EditInv
<1>1. EditInit => EditInv BY EditInitInv
<1>2. EditInv /\ [EditNext]_editVars => EditInv' BY EditNextInv
<1> QED BY <1>1, <1>2, PTL DEF EditSpec

\* While the status row of rootedit.c says SAVED, opening the file again would give
\* the text of the buffer: for any files, any typing, and any limit of the length
\* and of the undo depth.
THEOREM StatusTellsTruth == EditSpec => []SavedIsOnDisk
<1>1. EditInv => SavedIsOnDisk
  <2> SUFFICES ASSUME EditInv, Sound, ed.status = "SAVED" PROVE Loaded(file) = ed.buffer
    BY DEF SavedIsOnDisk
  <2>1. ed.open BY DEF Sound
  <2>2. ~ed.dirty /\ ~ed.save_error BY <2>1 DEF EditInv, StatusOf
  <2> QED BY <2>1, <2>2 DEF EditInv
<1> QED BY <1>1, EditInvariant, PTL

\* Until a snapshot falls out of the ring of editor_snapshot, undoing everything
\* gives back the text that was opened, whatever was typed, cut, pasted and redone.
THEOREM UndoGoesBack == EditSpec => []UndoReachesStart
<1>1. EditInv => UndoReachesStart
  <2> SUFFICES ASSUME EditInv, ~ed.dropped
               PROVE  ed.original = IF ed.undo = <<>> THEN ed.buffer ELSE Head(ed.undo).buffer
    BY DEF UndoReachesStart
  <2>1. ed.original = IF ed.undo = <<>> THEN ed.buffer ELSE ed.undo[1].buffer BY DEF EditInv, EditOK
  <2>2. ed.undo \in Seq(Snapshots) BY DEF EditInv, EditOK
  <2>3. ed.undo # <<>> => Head(ed.undo) = ed.undo[1] BY <2>2
  <2> QED BY <2>1, <2>3
<1> QED BY <1>1, EditInvariant, PTL

-----------------------------------------------------------------------------
(***************************************************************************)
(* The display.                                                            *)
(***************************************************************************)

-----------------------------------------------------------------------------
(* Numbers.                                                                *)

Small == 1 .. 8         \* bits of a channel
Values(n) == 0 .. channel_mask(n)

LEMMA MaskFact ==
    ASSUME NEW n \in Small
    PROVE  channel_mask(n) \in {1, 3, 7, 15, 31, 63, 127, 255} /\ (n # 8 => channel_mask(n) <= 127)
<1>1. 2^1 = 2 /\ 2^2 = 4 /\ 2^3 = 8 /\ 2^4 = 16 /\ 2^5 = 32 /\ 2^6 = 64 /\ 2^7 = 128 /\ 2^8 = 256
  OBVIOUS
<1>2. n \in {1, 2, 3, 4, 5, 6, 7, 8} BY DEF Small
<1>3. CASE n = 1 BY <1>1, <1>3 DEF channel_mask
<1>4. CASE n = 2 BY <1>1, <1>4 DEF channel_mask
<1>5. CASE n = 3 BY <1>1, <1>5 DEF channel_mask
<1>6. CASE n = 4 BY <1>1, <1>6 DEF channel_mask
<1>7. CASE n = 5 BY <1>1, <1>7 DEF channel_mask
<1>8. CASE n = 6 BY <1>1, <1>8 DEF channel_mask
<1>9. CASE n = 7 BY <1>1, <1>9 DEF channel_mask
<1>10. CASE n = 8 BY <1>1, <1>10 DEF channel_mask
<1> QED BY <1>2, <1>3, <1>4, <1>5, <1>6, <1>7, <1>8, <1>9, <1>10

LEMMA PackFact ==
    ASSUME NEW n \in Small, NEW c \in 0 .. 255
    PROVE  channel_pack(c, n) \in Values(n)
<1>1. CASE n = 8
  <2>1. 2^8 = 256 OBVIOUS
  <2> QED BY <1>1, <2>1 DEF channel_pack, channel_mask, Values
<1>2. CASE n # 8
  <2>1. PICK m : m = channel_mask(n) OBVIOUS
  <2>2. m \in {1, 3, 7, 15, 31, 63, 127} BY <1>2, <2>1, MaskFact
  <2>3. (c * m + 127) \div 255 \in 0 .. m BY <2>2
  <2> QED BY <1>2, <2>1, <2>3 DEF channel_pack, Values
<1> QED BY <1>1, <1>2

\* A value read from the framebuffer is written back unchanged.
LEMMA RoundTrip ==
    ASSUME NEW n \in Small, NEW v \in Values(n)
    PROVE  channel_unpack(v, n) \in 0 .. 255 /\ channel_pack(channel_unpack(v, n), n) = v
<1>1. CASE n = 8
  <2>1. 2^8 = 256 OBVIOUS
  <2> QED BY <1>1, <2>1 DEF channel_pack, channel_unpack, channel_mask, Values
<1>2. CASE n # 8
  <2>1. PICK m : m = channel_mask(n) OBVIOUS
  <2>2. m \in {1, 3, 7, 15, 31, 63, 127} /\ v \in 0 .. m BY <1>2, <2>1, MaskFact DEF Values
  <2>3. PICK u : u = (v * 255 + (m \div 2)) \div m OBVIOUS
  <2>4. u \in 0 .. 255 /\ (u * m + 127) \div 255 = v
    <3>1. CASE m = 1
      <4>1. v \in 0 .. 1 /\ u = (v * 255 + 0) \div 1 BY <2>2, <2>3, <3>1
      <4>2. u \in 0 .. 255 /\ (u * 1 + 127) \div 255 = v BY <4>1
      <4> QED BY <3>1, <4>2
    <3>2. CASE m = 3
      <4>1. v \in 0 .. 3 /\ u = (v * 255 + 1) \div 3 BY <2>2, <2>3, <3>2
      <4>2. u \in 0 .. 255 /\ (u * 3 + 127) \div 255 = v BY <4>1
      <4> QED BY <3>2, <4>2
    <3>3. CASE m = 7
      <4>1. v \in 0 .. 7 /\ u = (v * 255 + 3) \div 7 BY <2>2, <2>3, <3>3
      <4>2. u \in 0 .. 255 /\ (u * 7 + 127) \div 255 = v BY <4>1
      <4> QED BY <3>3, <4>2
    <3>4. CASE m = 15
      <4>1. v \in 0 .. 15 /\ u = (v * 255 + 7) \div 15 BY <2>2, <2>3, <3>4
      <4>2. u \in 0 .. 255 /\ (u * 15 + 127) \div 255 = v BY <4>1
      <4> QED BY <3>4, <4>2
    <3>5. CASE m = 31
      <4>1. v \in 0 .. 31 /\ u = (v * 255 + 15) \div 31 BY <2>2, <2>3, <3>5
      <4>2. u \in 0 .. 255 /\ (u * 31 + 127) \div 255 = v BY <4>1
      <4> QED BY <3>5, <4>2
    <3>6. CASE m = 63
      <4>1. v \in 0 .. 63 /\ u = (v * 255 + 31) \div 63 BY <2>2, <2>3, <3>6
      <4>2. u \in 0 .. 255 /\ (u * 63 + 127) \div 255 = v BY <4>1
      <4> QED BY <3>6, <4>2
    <3>7. CASE m = 127
      <4>1. v \in 0 .. 127 /\ u = (v * 255 + 63) \div 127 BY <2>2, <2>3, <3>7
      <4>2. u \in 0 .. 255 /\ (u * 127 + 127) \div 255 = v BY <4>1
      <4> QED BY <3>7, <4>2
    <3> QED BY <2>2, <3>1, <3>2, <3>3, <3>4, <3>5, <3>6, <3>7
  <2>5. channel_unpack(v, n) = u BY <1>2, <2>1, <2>3 DEF channel_unpack
  <2>6. channel_pack(u, n) = (u * m + 127) \div 255 BY <1>2, <2>1 DEF channel_pack
  <2> QED BY <2>4, <2>5, <2>6
<1> QED BY <1>1, <1>2

LEMMA ModFact ==
    ASSUME NEW u \in Nat, u > 0, NEW x \in Nat
    PROVE  /\ x < u => x % u = x
           /\ x >= u /\ x < 2 * u => x % u = x - u
  OBVIOUS

LEMMA Dims ==
    /\ DISPLAY_WIDTH \in Nat /\ DISPLAY_WIDTH > 0 /\ DISPLAY_HEIGHT \in Nat /\ DISPLAY_HEIGHT > 0
    /\ CURSOR_WIDTH \in Nat /\ CURSOR_WIDTH > 0 /\ CURSOR_HEIGHT \in Nat /\ CURSOR_HEIGHT > 0
    /\ U32 \in Nat /\ DISPLAY_WIDTH < U32 /\ DISPLAY_HEIGHT < U32
    /\ CURSOR_WIDTH < U32 /\ CURSOR_HEIGHT < U32
<1>1. {DISPLAY_WIDTH, DISPLAY_HEIGHT, CURSOR_WIDTH, CURSOR_HEIGHT} \subseteq Nat \ {0}
  BY DisplayAssumption, Zenon
<1>2. /\ U32 \in Nat
      /\ {DISPLAY_WIDTH, DISPLAY_HEIGHT, CURSOR_WIDTH, CURSOR_HEIGHT} \subseteq 0 .. U32 - 1
  BY DisplayAssumption, Zenon
<1> QED BY <1>1, <1>2

\* A span that starts on the screen, clipped: it loses nothing on the screen,
\* even when its end wraps around.
LEMMA ClipFact ==
    ASSUME NEW a \in Nat, NEW n \in 0 .. U32 - 1, NEW limit \in Nat, a < limit, limit < U32
    PROVE  /\ Clip(a, n, limit) \in Nat /\ Clip(a, n, limit) <= limit
           /\ \A k \in Nat : k < limit /\ k < a + n => k < Clip(a, n, limit)
<1>1. PICK e : e = (a + n) % U32 OBVIOUS
<1>2. a + n \in Nat /\ U32 > 0 /\ a + n < 2 * U32 BY Dims
<1>3. CASE a + n < U32
  <2>1. e = a + n BY <1>1, <1>2, <1>3, ModFact, Dims
  <2> QED BY <1>1, <2>1 DEF Clip
<1>4. CASE a + n >= U32
  <2>1. e = a + n - U32 BY <1>1, <1>2, <1>4, ModFact, Dims
  <2>2. e < a BY <2>1, Dims
  <2> QED BY <1>1, <2>2 DEF Clip
<1> QED BY <1>2, <1>3, <1>4, Dims

-----------------------------------------------------------------------------
(* Damage.                                                                 *)

\* What the renderer's unsigned parameters can be.
Word == 0 .. U32 - 1

DamageOK(D) == D = {} \/ \E a, b, c, e \in Int : D = {<<a, b, c, e>>}

LEMMA PixelFact ==
    ASSUME NEW p \in Pixel
    PROVE  /\ p = <<p[1], p[2]>>
           /\ p[1] \in Nat /\ p[1] < DISPLAY_WIDTH /\ p[2] \in Nat /\ p[2] < DISPLAY_HEIGHT
  BY Dims DEF Pixel

LEMMA DamageFact ==
    ASSUME NEW D, DamageOK(D), NEW x \in Word, NEW y \in Word, NEW w \in Word, NEW h \in Word
    PROVE  LET r == <<x, y, w, h>>
               E == rootdisplay_damage(D, r)
           IN  /\ DamageOK(E)
               /\ \A p \in Pixel : InDamage(D, p) => InDamage(E, p)
               /\ rootdisplay_shadow_active => \A p \in Pixel : Covers(r, p) => InDamage(E, p)
<1>1. PICK r : r = <<x, y, w, h>> OBVIOUS
<1>2. r[1] = x /\ r[2] = y /\ r[3] = w /\ r[4] = h BY <1>1
<1>3. PICK E : E = rootdisplay_damage(D, r) OBVIOUS
<1>4. CASE Empty(r) \/ ~rootdisplay_shadow_active
  <2>1. E = D BY <1>3, <1>4 DEF rootdisplay_damage
  <2>2. rootdisplay_shadow_active => \A p \in Pixel : ~Covers(r, p) BY <1>4 DEF Covers
  <2> QED BY <1>1, <1>3, <2>1, <2>2
<1>5. CASE ~Empty(r) /\ rootdisplay_shadow_active
  <2>1. PICK x1 : x1 = Clip(x, w, DISPLAY_WIDTH) OBVIOUS
  <2>2. PICK y1 : y1 = Clip(y, h, DISPLAY_HEIGHT) OBVIOUS
  <2>3. x \in Nat /\ y \in Nat /\ x < DISPLAY_WIDTH /\ y < DISPLAY_HEIGHT
    BY <1>2, <1>5, Dims DEF Empty, Word
  <2>4. x1 \in Int /\ y1 \in Int BY <2>1, <2>2, <2>3, Dims, ClipFact DEF Word
  <2>5. ASSUME NEW p \in Pixel, Covers(r, p)
        PROVE  x <= p[1] /\ p[1] < x1 /\ y <= p[2] /\ p[2] < y1
    BY <1>2, <2>1, <2>2, <2>5 DEF Covers
  <2>6. CASE D = {}
    <3>1. E = {<<x, y, x1, y1>>} BY <1>2, <1>3, <1>5, <2>1, <2>2, <2>6 DEF rootdisplay_damage
    <3>2. DamageOK(E) BY <2>3, <2>4, <3>1 DEF DamageOK
    <3>3. \A p \in Pixel : ~InDamage(D, p) BY <2>6 DEF InDamage
    <3>4. \A p \in Pixel : Covers(r, p) => InDamage(E, p) BY <2>5, <3>1 DEF InDamage
    <3> QED BY <1>1, <1>3, <3>2, <3>3, <3>4
  <2>7. ASSUME NEW a \in Int, NEW b \in Int, NEW c \in Int, NEW e \in Int, D = {<<a, b, c, e>>}
        PROVE  /\ DamageOK(E)
               /\ \A p \in Pixel : InDamage(D, p) => InDamage(E, p)
               /\ \A p \in Pixel : Covers(r, p) => InDamage(E, p)
    <3>1. PICK f : f = <<Least2(x, a), Least2(y, b), Greatest2(x1, c), Greatest2(y1, e)>> OBVIOUS
    <3>2. E = {f} BY <1>2, <1>3, <1>5, <2>1, <2>2, <2>7, <3>1 DEF rootdisplay_damage
    <3>3. /\ f[1] \in Int /\ f[1] <= x /\ f[1] <= a /\ f[2] \in Int /\ f[2] <= y /\ f[2] <= b
          /\ f[3] \in Int /\ f[3] >= x1 /\ f[3] >= c /\ f[4] \in Int /\ f[4] >= y1 /\ f[4] >= e
          /\ f = <<f[1], f[2], f[3], f[4]>>
      BY <2>3, <2>4, <3>1 DEF Least2, Greatest2
    <3>4. DamageOK(E) BY <3>2, <3>3 DEF DamageOK
    <3>5. ASSUME NEW p \in Pixel, InDamage(D, p) PROVE InDamage(E, p)
      <4>1. a <= p[1] /\ p[1] < c /\ b <= p[2] /\ p[2] < e BY <2>7, <3>5 DEF InDamage
      <4>2. f[1] <= p[1] /\ p[1] < f[3] /\ f[2] <= p[2] /\ p[2] < f[4] BY <3>3, <4>1, PixelFact
      <4> QED BY <3>2, <4>2 DEF InDamage
    <3>6. ASSUME NEW p \in Pixel, Covers(r, p) PROVE InDamage(E, p)
      <4>1. x <= p[1] /\ p[1] < x1 /\ y <= p[2] /\ p[2] < y1 BY <2>5, <3>6
      <4>2. f[1] <= p[1] /\ p[1] < f[3] /\ f[2] <= p[2] /\ p[2] < f[4]
        BY <2>3, <2>4, <3>3, <4>1, PixelFact
      <4> QED BY <3>2, <4>2 DEF InDamage
    <3> QED BY <3>4, <3>5, <3>6
  <2> QED BY <1>1, <1>3, <2>6, <2>7 DEF DamageOK
<1> QED BY <1>4, <1>5

\* Everything there is, and the place of the pointer.
LEMMA CoverFact ==
    /\ \A p \in Pixel : Covers(Everything, p)
    /\ \A x, y : <<x, y>> \in Pixel =>
         \A p \in Pixel : <<p[1] - x, p[2] - y>> \in Local => Covers(CursorRect(x, y), p)
<1>1. ASSUME NEW x \in Nat, NEW y \in Nat, x < DISPLAY_WIDTH, y < DISPLAY_HEIGHT,
             NEW w \in Word, NEW h \in Word, w > 0, h > 0,
             NEW p \in Pixel, x <= p[1], p[1] < x + w, y <= p[2], p[2] < y + h
      PROVE  Covers(<<x, y, w, h>>, p)
  <2>1. p[1] < Clip(x, w, DISPLAY_WIDTH) /\ p[2] < Clip(y, h, DISPLAY_HEIGHT)
    BY <1>1, PixelFact, ClipFact, Dims DEF Word
  <2>2. ~Empty(<<x, y, w, h>>) BY <1>1, Dims DEF Empty, Word
  <2> QED BY <1>1, <2>1, <2>2 DEF Covers
<1>2. ASSUME NEW p \in Pixel PROVE Covers(Everything, p)
  <2>1. DISPLAY_WIDTH \in Word /\ DISPLAY_HEIGHT \in Word BY Dims DEF Word
  <2> QED BY <1>1, <2>1, PixelFact, Dims DEF Everything
<1>3. ASSUME NEW x, NEW y, <<x, y>> \in Pixel, NEW p \in Pixel, <<p[1] - x, p[2] - y>> \in Local
      PROVE  Covers(CursorRect(x, y), p)
  <2>1. x \in Nat /\ y \in Nat /\ x < DISPLAY_WIDTH /\ y < DISPLAY_HEIGHT BY <1>3, Dims DEF Pixel
  <2>2. p[1] - x \in 0 .. CURSOR_WIDTH - 1 /\ p[2] - y \in 0 .. CURSOR_HEIGHT - 1 BY <1>3 DEF Local
  <2>3. p[1] \in Nat /\ p[2] \in Nat BY PixelFact
  <2>4. x <= p[1] /\ p[1] < x + CURSOR_WIDTH /\ y <= p[2] /\ p[2] < y + CURSOR_HEIGHT
    BY <2>1, <2>2, <2>3, Dims
  <2>5. CURSOR_WIDTH \in Word /\ CURSOR_HEIGHT \in Word BY Dims DEF Word
  <2> QED BY <1>1, <2>1, <2>4, <2>5, Dims DEF CursorRect
<1> QED BY <1>2, <1>3

-----------------------------------------------------------------------------
(* The renderer with its pointer.                                          *)

StateFields == {"fb", "on", "drawn", "x", "y", "bg", "depth"}

\* A pixel without the pointer, the pointer's pixel, and what is meant to be seen
\* when no update is open.
BareAt(d, p, n) ==
    IF d.drawn /\ InsideCursor(d, p) THEN channel_pack(d.bg[LocalOf(d, p)], n) ELSE d.fb[p]
InkOf(d, p, n) == channel_pack(IF cursor_shape[LocalOf(d, p)] = "B" THEN 0 ELSE 255, n)
FinalAt(d, p, n) == IF d.on /\ Opaque(d, p) THEN InkOf(d, p, n) ELSE BareAt(d, p, n)

Good(d, n) ==
    /\ d.fb \in [Pixel -> Values(n)] /\ d.bg \in [Local -> 0 .. 255]
    /\ <<d.x, d.y>> \in Pixel /\ d.depth \in Nat
    /\ d.drawn <=> d.on /\ d.depth = 0
    /\ d.drawn => \A p \in Pixel : d.fb[p] = FinalAt(d, p, n)

\* Neither the picture nor what is meant to be seen differs.
SameLook(d, e, n) ==
    /\ \A p \in Pixel : BareAt(e, p, n) = BareAt(d, p, n)
    /\ \A p \in Pixel : FinalAt(e, p, n) = FinalAt(d, p, n)

SameFields(d, e) ==
    /\ e.fb = d.fb /\ e.on = d.on /\ e.drawn = d.drawn /\ e.x = d.x /\ e.y = d.y
    /\ e.bg = d.bg /\ e.depth = d.depth

LEMMA SameFieldsFact ==
    ASSUME NEW d, NEW e, NEW n, SameFields(d, e)
    PROVE  (Good(d, n) => Good(e, n)) /\ SameLook(d, e, n)
<1>1. ASSUME NEW p
      PROVE  BareAt(e, p, n) = BareAt(d, p, n) /\ FinalAt(e, p, n) = FinalAt(d, p, n)
  <2>1. LocalOf(e, p) = LocalOf(d, p) BY DEF SameFields, LocalOf
  <2>2. InsideCursor(e, p) <=> InsideCursor(d, p) BY DEF SameFields, InsideCursor
  <2>3. BareAt(e, p, n) = BareAt(d, p, n) BY <2>1, <2>2 DEF SameFields, BareAt
  <2>4. Opaque(e, p) <=> Opaque(d, p) BY <2>1, <2>2 DEF Opaque
  <2>5. InkOf(e, p, n) = InkOf(d, p, n) BY <2>1 DEF InkOf
  <2>6. (e.on /\ Opaque(e, p)) <=> (d.on /\ Opaque(d, p)) BY <2>4 DEF SameFields
  <2>7. CASE d.on /\ Opaque(d, p) BY <2>3, <2>5, <2>6, <2>7 DEF FinalAt
  <2>8. CASE ~(d.on /\ Opaque(d, p)) BY <2>3, <2>6, <2>8 DEF FinalAt
  <2> QED BY <2>3, <2>7, <2>8
<1>2. SameLook(d, e, n) BY <1>1 DEF SameLook
<1>3. Good(d, n) => Good(e, n) BY <1>1 DEF SameFields, Good
<1> QED BY <1>2, <1>3

LEMMA InsideFact ==
    ASSUME NEW d, <<d.x, d.y>> \in Pixel, NEW p \in Pixel, InsideCursor(d, p)
    PROVE  LocalOf(d, p) \in Local /\ At(d, LocalOf(d, p)) = p
<1>1. LocalOf(d, p) \in Local BY DEF InsideCursor, LocalOf
<1>2. d.x \in Int /\ d.y \in Int BY Dims DEF Pixel
<1>3. p = <<p[1], p[2]>> /\ p[1] \in Int /\ p[2] \in Int BY PixelFact
<1>4. d.x + (p[1] - d.x) = p[1] /\ d.y + (p[2] - d.y) = p[2] BY <1>2, <1>3
<1> QED BY <1>1, <1>3, <1>4 DEF At, LocalOf

\* The pointer taken away.
LEMMA RestoreFact ==
    ASSUME size \in Small, NEW d, DOMAIN d = StateFields, Good(d, size)
    PROVE  LET e == cursor_restore_background(d)
           IN  /\ DOMAIN e = StateFields /\ ~e.drawn /\ e.on = d.on /\ e.x = d.x /\ e.y = d.y
               /\ e.bg = d.bg /\ e.depth = d.depth
               /\ e.fb \in [Pixel -> Values(size)]
               /\ SameLook(d, e, size)
<1>1. PICK e : e = cursor_restore_background(d) OBVIOUS
<1>2. CASE ~d.drawn
  <2>1. e = d BY <1>1, <1>2 DEF cursor_restore_background
  <2>2. SameLook(d, e, size) BY <2>1 DEF SameLook
  <2> QED BY <1>1, <1>2, <2>1, <2>2 DEF Good
<1>3. CASE d.drawn
  <2>1. PICK f : f = [p \in Pixel |-> IF InsideCursor(d, p) THEN Packed(d.bg[LocalOf(d, p)]) ELSE d.fb[p]]
    OBVIOUS
  <2>2. e = [d EXCEPT !.drawn = FALSE, !.fb = f] BY <1>1, <1>3, <2>1 DEF cursor_restore_background
  <2>3. /\ DOMAIN e = StateFields /\ ~e.drawn /\ e.on = d.on /\ e.x = d.x /\ e.y = d.y
        /\ e.bg = d.bg /\ e.depth = d.depth /\ e.fb = f
    BY <2>2 DEF StateFields
  <2>4. ASSUME NEW p \in Pixel PROVE f[p] = BareAt(d, p, size) /\ f[p] \in Values(size)
    <3>1. f[p] = BareAt(d, p, size) BY <1>3, <2>1 DEF BareAt, Packed
    <3>2. CASE InsideCursor(d, p)
      <4>1. d.bg[LocalOf(d, p)] \in 0 .. 255 BY <3>2, InsideFact DEF Good
      <4> QED BY <1>3, <3>1, <3>2, <4>1, PackFact DEF BareAt
    <3>3. CASE ~InsideCursor(d, p) BY <3>1, <3>3 DEF BareAt, Good
    <3> QED BY <3>1, <3>2, <3>3
  <2>5. f \in [Pixel -> Values(size)] BY <2>1, <2>4
  <2>6. \A p \in Pixel : BareAt(e, p, size) = BareAt(d, p, size) BY <2>3, <2>4 DEF BareAt
  <2>7. \A p \in Pixel : Opaque(e, p) = Opaque(d, p) /\ InkOf(e, p, size) = InkOf(d, p, size)
    BY <2>3 DEF Opaque, InkOf, InsideCursor, LocalOf
  <2>8. SameLook(d, e, size) BY <2>3, <2>6, <2>7 DEF SameLook, FinalAt
  <2> QED BY <1>1, <2>3, <2>5, <2>8
<1> QED BY <1>2, <1>3

\* The pointer drawn where it was not.
LEMMA RedrawFact ==
    ASSUME size \in Small, NEW d, DOMAIN d = StateFields, ~d.drawn, d.on, d.depth = 0,
           d.fb \in [Pixel -> Values(size)], <<d.x, d.y>> \in Pixel
    PROVE  LET e == Redraw(d)
           IN  DOMAIN e = StateFields /\ Good(e, size) /\ SameLook(d, e, size) /\ e.depth = 0
<1>1. PICK b : b = [l \in Local |-> IF At(d, l) \in Pixel THEN channel_unpack(d.fb[At(d, l)], size) ELSE 0]
  OBVIOUS
<1>2. PICK c : c = cursor_capture_background(d) OBVIOUS
<1>3. c = [d EXCEPT !.bg = b] BY <1>1, <1>2 DEF cursor_capture_background
<1>4. /\ DOMAIN c = StateFields /\ c.bg = b /\ c.fb = d.fb /\ c.on /\ ~c.drawn /\ c.depth = 0
      /\ c.x = d.x /\ c.y = d.y
  BY <1>3 DEF StateFields
<1>5. PICK f : f = [p \in Pixel |-> IF Opaque(c, p) THEN Ink(c, p) ELSE c.fb[p]] OBVIOUS
<1>6. PICK e : e = Redraw(d) OBVIOUS
<1>7. e = [c EXCEPT !.drawn = TRUE, !.fb = f] BY <1>2, <1>4, <1>5, <1>6 DEF Redraw, cursor_draw
<1>8. /\ DOMAIN e = StateFields /\ e.bg = b /\ e.fb = f /\ e.on /\ e.drawn /\ e.depth = 0
      /\ e.x = d.x /\ e.y = d.y
  BY <1>4, <1>7 DEF StateFields
<1>9. b \in [Local -> 0 .. 255]
  <2>1. \A l \in Local : At(d, l) \in Pixel => channel_unpack(d.fb[At(d, l)], size) \in 0 .. 255
    BY RoundTrip
  <2> QED BY <1>1, <2>1
<1>10. ASSUME NEW p \in Pixel
       PROVE  /\ InsideCursor(e, p) = InsideCursor(d, p) /\ LocalOf(e, p) = LocalOf(d, p)
              /\ Opaque(e, p) = Opaque(d, p) /\ Opaque(c, p) = Opaque(d, p)
              /\ InkOf(e, p, size) = InkOf(d, p, size) /\ Ink(c, p) = InkOf(d, p, size)
  BY <1>4, <1>8 DEF InsideCursor, LocalOf, Opaque, InkOf, Ink, Packed
<1>11. ASSUME NEW p \in Pixel PROVE BareAt(e, p, size) = d.fb[p] /\ BareAt(d, p, size) = d.fb[p]
  <2>1. BareAt(d, p, size) = d.fb[p] BY DEF BareAt
  <2>2. CASE InsideCursor(d, p)
    <3>1. LocalOf(d, p) \in Local /\ At(d, LocalOf(d, p)) = p BY <2>2, InsideFact
    <3>2. b[LocalOf(d, p)] = channel_unpack(d.fb[p], size) BY <1>1, <3>1
    <3>3. channel_pack(b[LocalOf(d, p)], size) = d.fb[p] BY <3>2, RoundTrip
    <3> QED BY <1>8, <1>10, <2>1, <2>2, <3>3 DEF BareAt
  <2>3. CASE ~InsideCursor(d, p)
    <3>1. ~Opaque(c, p) BY <1>10, <2>3 DEF Opaque
    <3>2. f[p] = d.fb[p] BY <1>4, <1>5, <3>1
    <3> QED BY <1>8, <1>10, <2>1, <2>3, <3>2 DEF BareAt
  <2> QED BY <2>2, <2>3
<1>12. ASSUME NEW p \in Pixel
       PROVE  /\ FinalAt(e, p, size) = FinalAt(d, p, size) /\ f[p] = FinalAt(e, p, size)
              /\ f[p] \in Values(size)
  <2>1. FinalAt(e, p, size) = FinalAt(d, p, size) BY <1>8, <1>10, <1>11 DEF FinalAt
  <2>2. f[p] = FinalAt(d, p, size) BY <1>4, <1>5, <1>10, <1>11 DEF FinalAt
  <2>3. InkOf(d, p, size) \in Values(size)
    <3>1. PICK v : v = IF cursor_shape[LocalOf(d, p)] = "B" THEN 0 ELSE 255 OBVIOUS
    <3>2. v \in 0 .. 255 BY <3>1
    <3> QED BY <3>1, <3>2, PackFact DEF InkOf
  <2> QED BY <1>4, <1>5, <1>10, <2>1, <2>2, <2>3
<1>13. f \in [Pixel -> Values(size)] BY <1>5, <1>12
<1>14. Good(e, size) BY <1>8, <1>9, <1>12, <1>13 DEF Good
<1>15. SameLook(d, e, size) BY <1>11, <1>12 DEF SameLook
<1> QED BY <1>6, <1>8, <1>14, <1>15

LEMMA LookTrans ==
    ASSUME NEW d, NEW e, NEW f, NEW n, SameLook(d, e, n), SameLook(e, f, n)
    PROVE  SameLook(d, f, n)
  BY DEF SameLook

\* The nesting depth is no part of the picture.
AlikeDrawn(d, e) ==
    e.fb = d.fb /\ e.on = d.on /\ e.drawn = d.drawn /\ e.x = d.x /\ e.y = d.y /\ e.bg = d.bg

LEMMA AlikeFact ==
    ASSUME NEW d, NEW e, NEW n, AlikeDrawn(d, e)
    PROVE  SameLook(d, e, n)
<1>1. ASSUME NEW p
      PROVE  BareAt(e, p, n) = BareAt(d, p, n) /\ FinalAt(e, p, n) = FinalAt(d, p, n)
  <2>1. LocalOf(e, p) = LocalOf(d, p) BY DEF AlikeDrawn, LocalOf
  <2>2. InsideCursor(e, p) <=> InsideCursor(d, p) BY DEF AlikeDrawn, InsideCursor
  <2>3. BareAt(e, p, n) = BareAt(d, p, n) BY <2>1, <2>2 DEF AlikeDrawn, BareAt
  <2>4. Opaque(e, p) <=> Opaque(d, p) BY <2>1, <2>2 DEF Opaque
  <2>5. InkOf(e, p, n) = InkOf(d, p, n) BY <2>1 DEF InkOf
  <2>6. (e.on /\ Opaque(e, p)) <=> (d.on /\ Opaque(d, p)) BY <2>4 DEF AlikeDrawn
  <2>7. CASE d.on /\ Opaque(d, p) BY <2>3, <2>5, <2>6, <2>7 DEF FinalAt
  <2>8. CASE ~(d.on /\ Opaque(d, p)) BY <2>3, <2>6, <2>8 DEF FinalAt
  <2> QED BY <2>3, <2>7, <2>8
<1> QED BY <1>1 DEF SameLook

\* The outermost update takes the pointer away.
LEMMA BeginFact ==
    ASSUME size \in Small, NEW d, DOMAIN d = StateFields, Good(d, size)
    PROVE  LET e == legacy_begin_update(d)
           IN  /\ DOMAIN e = StateFields /\ Good(e, size) /\ SameLook(d, e, size)
               /\ ~e.drawn /\ e.depth = d.depth + 1 /\ e.x = d.x /\ e.y = d.y /\ e.on = d.on
<1>1. PICK b : b = IF d.depth = 0 THEN cursor_restore_background(d) ELSE d OBVIOUS
<1>2. PICK e : e = legacy_begin_update(d) OBVIOUS
<1>3. e = [b EXCEPT !.depth = @ + 1] BY <1>1, <1>2 DEF legacy_begin_update
<1>4. /\ DOMAIN b = StateFields /\ ~b.drawn /\ b.x = d.x /\ b.y = d.y /\ b.bg = d.bg
      /\ b.on = d.on /\ b.depth = d.depth
      /\ b.fb \in [Pixel -> Values(size)] /\ SameLook(d, b, size)
  <2>1. CASE d.depth = 0 BY <1>1, <2>1, RestoreFact
  <2>2. CASE d.depth # 0
    <3>1. b = d /\ ~d.drawn BY <1>1, <2>2 DEF Good
    <3> QED BY <3>1 DEF SameLook, Good
  <2> QED BY <2>1, <2>2
<1>5. /\ DOMAIN e = StateFields /\ e.depth = d.depth + 1 /\ e.fb = b.fb /\ e.on = b.on
      /\ e.drawn = b.drawn /\ e.x = b.x /\ e.y = b.y /\ e.bg = b.bg
  BY <1>3, <1>4 DEF StateFields
<1>6. SameLook(b, e, size) BY <1>5, AlikeFact DEF AlikeDrawn
<1>7. SameLook(d, e, size) BY <1>4, <1>6, LookTrans
<1>8. e.depth \in Nat /\ e.depth # 0 /\ ~e.drawn BY <1>4, <1>5 DEF Good
<1>9. Good(e, size) BY <1>4, <1>5, <1>8 DEF Good
<1> QED BY <1>2, <1>4, <1>5, <1>7, <1>8, <1>9

\* The end of the outermost update brings it back.
LEMMA EndFact ==
    ASSUME size \in Small, NEW d, DOMAIN d = StateFields, Good(d, size), d.depth > 0
    PROVE  LET e == legacy_end_update(d)
           IN  DOMAIN e = StateFields /\ Good(e, size) /\ SameLook(d, e, size)
<1>1. PICK b : b = [d EXCEPT !.depth = @ - 1] OBVIOUS
<1>2. PICK e : e = legacy_end_update(d) OBVIOUS
<1>3. d.depth \in Nat /\ d.depth # 0 /\ ~d.drawn BY DEF Good
<1>4. e = IF b.depth = 0 /\ b.on THEN Redraw(b) ELSE b
  BY <1>1, <1>2, <1>3, Zenon DEF legacy_end_update
<1>5. /\ DOMAIN b = StateFields /\ b.depth = d.depth - 1 /\ b.fb = d.fb /\ b.on = d.on
      /\ b.drawn = d.drawn /\ b.x = d.x /\ b.y = d.y /\ b.bg = d.bg
  BY <1>1 DEF StateFields
<1>6. SameLook(d, b, size) BY <1>5, AlikeFact DEF AlikeDrawn
<1>7. CASE b.depth = 0 /\ b.on
  <2>1. e = Redraw(b) BY <1>4, <1>7
  <2>2. ~b.drawn /\ b.fb \in [Pixel -> Values(size)] /\ <<b.x, b.y>> \in Pixel
    BY <1>3, <1>5 DEF Good
  <2>3. DOMAIN e = StateFields /\ Good(e, size) /\ SameLook(b, e, size)
    BY <1>5, <1>7, <2>1, <2>2, RedrawFact
  <2>4. SameLook(d, e, size) BY <1>6, <2>3, LookTrans
  <2> QED BY <1>2, <2>3, <2>4
<1>8. CASE ~(b.depth = 0 /\ b.on)
  <2>1. e = b BY <1>4, <1>8
  <2>2. b.depth \in Nat /\ (~b.drawn) /\ ~(b.on /\ b.depth = 0) BY <1>3, <1>5, <1>8
  <2>3. Good(b, size) BY <1>5, <2>2 DEF Good
  <2> QED BY <1>2, <1>5, <1>6, <2>1, <2>3
<1> QED BY <1>7, <1>8

-----------------------------------------------------------------------------
(* The invariant.                                                          *)

ScreenInv ==
    /\ size \in Small /\ Good(State, size)
    /\ canvas \in [Pixel -> Values(size) \cup {Undrawn}]
    /\ \A p \in Pixel : canvas[p] # Undrawn => BareAt(State, p, size) = canvas[p]
    /\ DamageOK(dirty)
    /\ IF rootdisplay_shadow_active
         THEN /\ \A p \in Pixel : ~InDamage(dirty, p) => screen[p] = FinalAt(State, p, size)
              /\ update_depth = 0 => dirty = {}
         ELSE screen = framebuffer /\ dirty = {}

\* Outside updates the renderer's pixels are what is meant to be seen.
LEMMA IdleFact ==
    ASSUME NEW d, NEW n, Good(d, n), d.depth = 0
    PROVE  \A p \in Pixel : d.fb[p] = FinalAt(d, p, n)
<1>1. CASE d.drawn BY <1>1 DEF Good
<1>2. CASE ~d.drawn
  <2>1. ~d.on BY <1>2 DEF Good
  <2> QED BY <1>2, <2>1 DEF FinalAt, BareAt
<1> QED BY <1>1, <1>2

LEMMA PresentStep ==
    ASSUME ScreenInv, NEW e, Good(e, size), NEW D, DamageOK(D), Present(e, D),
           \A p \in Pixel : InDamage(dirty, p) => InDamage(D, p),
           ~rootdisplay_shadow_active \/
             \A p \in Pixel : ~InDamage(D, p) => FinalAt(e, p, size) = FinalAt(State, p, size),
           canvas' \in [Pixel -> Values(size) \cup {Undrawn}],
           \A p \in Pixel : canvas'[p] # Undrawn => BareAt(e, p, size) = canvas'[p]
    PROVE  ScreenInv'
<1>1. SameFields(e, State') BY DEF Present, SameFields, State
<1>2. size' = size /\ (rootdisplay_shadow_active' <=> rootdisplay_shadow_active)
  BY DEF Present, bootVars
<1>3. size \in Small BY DEF ScreenInv
<1>4. Good(State', size) /\ SameLook(e, State', size) BY <1>1, SameFieldsFact
<1>5. \A p \in Pixel : canvas'[p] # Undrawn => BareAt(State', p, size) = canvas'[p]
  BY <1>4 DEF SameLook
<1>6. e.depth \in Nat BY DEF Good
<1>7. CASE ~rootdisplay_shadow_active
  <2>1. screen' = framebuffer' /\ dirty' = {} BY <1>7 DEF Present
  <2>2. DamageOK(dirty') BY <2>1 DEF DamageOK
  <2> QED BY <1>2, <1>3, <1>4, <1>5, <1>7, <2>1, <2>2 DEF ScreenInv
<1>8. CASE rootdisplay_shadow_active /\ e.depth = 0
  <2>1. /\ screen' = [p \in Pixel |-> IF InDamage(D, p) THEN e.fb[p] ELSE screen[p]]
        /\ dirty' = {} /\ update_depth' = 0
    BY <1>8 DEF Present
  <2>2. DamageOK(dirty') BY <2>1 DEF DamageOK
  <2>3. ASSUME NEW p \in Pixel PROVE screen'[p] = FinalAt(State', p, size)
    <3>1. FinalAt(State', p, size) = FinalAt(e, p, size) BY <1>4 DEF SameLook
    <3>2. CASE InDamage(D, p) BY <1>8, <2>1, <3>1, <3>2, IdleFact
    <3>3. CASE ~InDamage(D, p)
      <4>1. screen[p] = FinalAt(State, p, size) BY <1>8, <3>3 DEF ScreenInv
      <4>2. FinalAt(e, p, size) = FinalAt(State, p, size) BY <1>8, <3>3
      <4> QED BY <2>1, <3>1, <3>3, <4>1, <4>2
    <3> QED BY <3>2, <3>3
  <2> QED BY <1>2, <1>3, <1>4, <1>5, <1>8, <2>1, <2>2, <2>3 DEF ScreenInv
<1>9. CASE rootdisplay_shadow_active /\ e.depth # 0
  <2>1. screen' = screen /\ dirty' = D /\ update_depth' # 0 BY <1>9 DEF Present
  <2>2. ASSUME NEW p \in Pixel, ~InDamage(D, p) PROVE screen'[p] = FinalAt(State', p, size)
    <3>1. FinalAt(State', p, size) = FinalAt(e, p, size) BY <1>4 DEF SameLook
    <3>2. screen[p] = FinalAt(State, p, size) BY <1>9, <2>2 DEF ScreenInv
    <3>3. FinalAt(e, p, size) = FinalAt(State, p, size) BY <1>9, <2>2
    <3> QED BY <2>1, <3>1, <3>2, <3>3
  <2> QED BY <1>2, <1>3, <1>4, <1>5, <1>9, <2>1, <2>2 DEF ScreenInv
<1> QED BY <1>7, <1>8, <1>9

-----------------------------------------------------------------------------
(* The drawing calls.                                                      *)

LEMMA StateFact == DOMAIN State = StateFields /\ State.fb = framebuffer /\ State.depth = update_depth
  BY DEF State, StateFields

\* What a drawing call finds when it has opened its update.
LEMMA OpenFact ==
    ASSUME ScreenInv
    PROVE  LET d == legacy_begin_update(State)
           IN  /\ d.fb \in [Pixel -> Values(size)]
               /\ \A p \in Pixel : canvas[p] # Undrawn => d.fb[p] = canvas[p]
<1>1. PICK d : d = legacy_begin_update(State) OBVIOUS
<1>2. Good(d, size) /\ SameLook(State, d, size) /\ ~d.drawn
  BY <1>1, BeginFact, StateFact DEF ScreenInv
<1>3. \A p : BareAt(d, p, size) = d.fb[p] BY <1>2 DEF BareAt
<1>4. \A p \in Pixel : canvas[p] # Undrawn => d.fb[p] = canvas[p]
  BY <1>2, <1>3 DEF ScreenInv, SameLook
<1> QED BY <1>1, <1>2, <1>4 DEF Good

LEMMA QuietStep ==
    ASSUME ScreenInv, NEW D, DamageOK(D), \A p \in Pixel : InDamage(dirty, p) => InDamage(D, p),
           NEW e, Good(e, size), SameLook(State, e, size), Present(e, D), UNCHANGED canvas
    PROVE  ScreenInv'
<1>1. \A p \in Pixel : FinalAt(e, p, size) = FinalAt(State, p, size) BY DEF SameLook
<1>2. \A p \in Pixel : canvas[p] # Undrawn => BareAt(e, p, size) = canvas[p]
  BY DEF SameLook, ScreenInv
<1>3. /\ canvas' \in [Pixel -> Values(size) \cup {Undrawn}]
      /\ \A p \in Pixel : canvas'[p] # Undrawn => BareAt(e, p, size) = canvas'[p]
  BY <1>2 DEF ScreenInv
<1> QED BY <1>1, <1>3, PresentStep

LEMMA IdleStep ==
    ASSUME ScreenInv, NEW x \in Word, NEW y \in Word, NEW w \in Word, NEW h \in Word,
           Present(State, rootdisplay_damage(dirty, <<x, y, w, h>>)), UNCHANGED canvas
    PROVE  ScreenInv'
<1>1. PICK D : D = rootdisplay_damage(dirty, <<x, y, w, h>>) OBVIOUS
<1>2. DamageOK(D) /\ \A p \in Pixel : InDamage(dirty, p) => InDamage(D, p)
  BY <1>1, DamageFact DEF ScreenInv
<1>3. Good(State, size) /\ SameLook(State, State, size) BY DEF ScreenInv, SameLook
<1> QED BY <1>1, <1>2, <1>3, QuietStep

LEMMA PaintStep ==
    ASSUME ScreenInv, NEW x \in Word, NEW y \in Word, NEW w \in Word, NEW h \in Word,
           NEW d, d = legacy_begin_update(State),
           NEW f \in [Pixel -> Values(size)], NEW c \in [Pixel -> Values(size) \cup {Undrawn}],
           \A p \in Pixel : ~Covers(<<x, y, w, h>>, p) => f[p] = d.fb[p],
           \A p \in Pixel : c[p] # Undrawn => f[p] = c[p],
           Present(legacy_end_update([d EXCEPT !.fb = f]), rootdisplay_damage(dirty, <<x, y, w, h>>)),
           canvas' = c
    PROVE  ScreenInv'
<1>1. PICK D : D = rootdisplay_damage(dirty, <<x, y, w, h>>) OBVIOUS
<1>2. PICK r : r = <<x, y, w, h>> OBVIOUS
<1>3. /\ DamageOK(D) /\ \A p \in Pixel : InDamage(dirty, p) => InDamage(D, p)
      /\ rootdisplay_shadow_active => \A p \in Pixel : Covers(r, p) => InDamage(D, p)
  BY <1>1, <1>2, DamageFact DEF ScreenInv
<1>4. /\ DOMAIN d = StateFields /\ Good(d, size) /\ SameLook(State, d, size)
      /\ ~d.drawn /\ d.depth = update_depth + 1
  BY BeginFact, StateFact DEF ScreenInv
<1>5. PICK b : b = [d EXCEPT !.fb = f] OBVIOUS
<1>6. /\ DOMAIN b = StateFields /\ b.fb = f /\ b.on = d.on /\ b.drawn = d.drawn /\ b.x = d.x
      /\ b.y = d.y /\ b.bg = d.bg /\ b.depth = d.depth
  BY <1>4, <1>5 DEF StateFields
<1>7. Good(b, size) BY <1>4, <1>6 DEF Good
<1>8. b.depth > 0
  <2>1. update_depth \in Nat BY StateFact DEF ScreenInv, Good
  <2> QED BY <1>4, <1>6, <2>1
<1>9. PICK e : e = legacy_end_update(b) OBVIOUS
<1>10. Good(e, size) /\ SameLook(b, e, size) BY <1>6, <1>7, <1>8, <1>9, EndFact DEF ScreenInv
<1>11. ASSUME NEW p \in Pixel PROVE BareAt(e, p, size) = f[p]
  <2>1. BareAt(b, p, size) = f[p] BY <1>4, <1>6 DEF BareAt
  <2> QED BY <1>10, <2>1 DEF SameLook
<1>12. ASSUME NEW p \in Pixel, ~Covers(r, p)
       PROVE  FinalAt(e, p, size) = FinalAt(State, p, size)
  <2>1. BareAt(b, p, size) = f[p] /\ BareAt(d, p, size) = d.fb[p] BY <1>4, <1>6 DEF BareAt
  <2>2. BareAt(b, p, size) = BareAt(d, p, size) BY <1>2, <1>12, <2>1
  <2>3. LocalOf(b, p) = LocalOf(d, p) BY <1>6 DEF LocalOf
  <2>4. InsideCursor(b, p) <=> InsideCursor(d, p) BY <1>6 DEF InsideCursor
  <2>5. (b.on /\ Opaque(b, p)) <=> (d.on /\ Opaque(d, p)) BY <1>6, <2>3, <2>4 DEF Opaque
  <2>6. InkOf(b, p, size) = InkOf(d, p, size) BY <2>3 DEF InkOf
  <2>7. FinalAt(b, p, size) = FinalAt(d, p, size)
    <3>1. CASE d.on /\ Opaque(d, p) BY <2>5, <2>6, <3>1 DEF FinalAt
    <3>2. CASE ~(d.on /\ Opaque(d, p)) BY <2>2, <2>5, <3>2 DEF FinalAt
    <3> QED BY <3>1, <3>2
  <2> QED BY <1>4, <1>10, <2>7 DEF SameLook
<1>13. \/ ~rootdisplay_shadow_active
       \/ \A p \in Pixel : ~InDamage(D, p) => FinalAt(e, p, size) = FinalAt(State, p, size)
  BY <1>3, <1>12
<1>14. \A p \in Pixel : canvas'[p] # Undrawn => BareAt(e, p, size) = canvas'[p] BY <1>11
<1>15. Present(e, D) BY <1>1, <1>5, <1>9
<1> QED BY <1>3, <1>10, <1>13, <1>14, <1>15, PresentStep

LEMMA ColorFact ==
    ASSUME size \in Small, NEW c \in Colors
    PROVE  c \in 0 .. 255 /\ Packed(c) \in Values(size)
<1>1. Colors \subseteq 0 .. 255 BY DisplayAssumption, Zenon
<1> QED BY <1>1, PackFact DEF Packed

LEMMA UndrawnFact ==
    ASSUME size \in Small
    PROVE  /\ Undrawn \notin Values(size) /\ channel_mask(size) \in Nat
           /\ \A v \in Values(size) : channel_mask(size) - v \in Values(size)
  BY MaskFact DEF Undrawn, Values

\* What each way of painting does, and that it paints inside its rectangle.
LEMMA FilledFact ==
    ASSUME size \in Small, NEW f \in [Pixel -> Values(size)],
           NEW c \in [Pixel -> Values(size) \cup {Undrawn}],
           \A p \in Pixel : c[p] # Undrawn => f[p] = c[p],
           NEW r, NEW v \in Colors
    PROVE  /\ Filled(f, r, v) \in [Pixel -> Values(size)]
           /\ Filled(c, r, v) \in [Pixel -> Values(size) \cup {Undrawn}]
           /\ \A p \in Pixel : ~Covers(r, p) => Filled(f, r, v)[p] = f[p]
           /\ \A p \in Pixel : Filled(c, r, v)[p] # Undrawn => Filled(f, r, v)[p] = Filled(c, r, v)[p]
  BY ColorFact DEF Filled

LEMMA InvertedFact ==
    ASSUME size \in Small, NEW f \in [Pixel -> Values(size)],
           NEW c \in [Pixel -> Values(size) \cup {Undrawn}],
           \A p \in Pixel : c[p] # Undrawn => f[p] = c[p],
           NEW r
    PROVE  /\ Inverted(f, r) \in [Pixel -> Values(size)]
           /\ Inverted(c, r) \in [Pixel -> Values(size) \cup {Undrawn}]
           /\ \A p \in Pixel : ~Covers(r, p) => Inverted(f, r)[p] = f[p]
           /\ \A p \in Pixel : Inverted(c, r)[p] # Undrawn => Inverted(f, r)[p] = Inverted(c, r)[p]
<1>1. \A p \in Pixel : f[p] # Undrawn BY UndrawnFact
<1>2. \A p \in Pixel : c[p] # Undrawn => c[p] \in Values(size) OBVIOUS
<1> QED BY <1>1, <1>2, UndrawnFact DEF Inverted

LEMMA BitmapFact ==
    ASSUME size \in Small, NEW f \in [Pixel -> Values(size)],
           NEW c \in [Pixel -> Values(size) \cup {Undrawn}],
           \A p \in Pixel : c[p] # Undrawn => f[p] = c[p],
           NEW r, NEW s, NEW v, Packed(v) \in Values(size), NEW b, Packed(b) \in Values(size), NEW o
    PROVE  /\ Bitmap(f, r, s, v, b, o) \in [Pixel -> Values(size)]
           /\ Bitmap(c, r, s, v, b, o) \in [Pixel -> Values(size) \cup {Undrawn}]
           /\ \A p \in Pixel : ~Covers(r, p) => Bitmap(f, r, s, v, b, o)[p] = f[p]
           /\ \A p \in Pixel : Bitmap(c, r, s, v, b, o)[p] # Undrawn =>
                                 Bitmap(f, r, s, v, b, o)[p] = Bitmap(c, r, s, v, b, o)[p]
  BY DEF Bitmap

LEMMA ShiftedFact ==
    ASSUME size \in Small, NEW f \in [Pixel -> Values(size)],
           NEW c \in [Pixel -> Values(size) \cup {Undrawn}],
           \A p \in Pixel : c[p] # Undrawn => f[p] = c[p],
           NEW y \in Nat, NEW h \in Nat, y + h <= DISPLAY_HEIGHT, NEW delta \in Int, NEW v \in Colors
    PROVE  /\ Shifted(f, y, h, delta, v) \in [Pixel -> Values(size)]
           /\ Shifted(c, y, h, delta, v) \in [Pixel -> Values(size) \cup {Undrawn}]
           /\ \A p \in Pixel : p[2] < y \/ p[2] >= y + h => Shifted(f, y, h, delta, v)[p] = f[p]
           /\ \A p \in Pixel : Shifted(c, y, h, delta, v)[p] # Undrawn =>
                                 Shifted(f, y, h, delta, v)[p] = Shifted(c, y, h, delta, v)[p]
<1>1. ASSUME NEW p \in Pixel, p[2] - delta >= y, p[2] - delta < y + h
      PROVE  <<p[1], p[2] - delta>> \in Pixel
  <2>1. p[1] \in 0 .. DISPLAY_WIDTH - 1 BY DEF Pixel
  <2>2. p[2] \in Nat BY PixelFact
  <2>3. p[2] - delta \in 0 .. DISPLAY_HEIGHT - 1 BY <1>1, <2>2, Dims
  <2> QED BY <2>1, <2>3 DEF Pixel
<1>2. Packed(v) \in Values(size) BY ColorFact
<1> QED BY <1>1, <1>2 DEF Shifted

LEMMA RectFact ==
    ASSUME NEW r \in Rects
    PROVE  \E x, y, w, h \in Word : r = <<x, y, w, h>>
<1>1. Rects \subseteq (0 .. U32 - 1) \X (0 .. U32 - 1) \X (0 .. U32 - 1) \X (0 .. U32 - 1)
  BY DisplayAssumption, Zenon
<1> QED BY <1>1 DEF Word

LEMMA EverythingFact == Everything = <<0, 0, DISPLAY_WIDTH, DISPLAY_HEIGHT>> /\ 0 \in Word
                        /\ DISPLAY_WIDTH \in Word /\ DISPLAY_HEIGHT \in Word
  BY Dims DEF Everything, Word

\* fill_rect and clear.
LEMMA FillStep ==
    ASSUME ScreenInv, NEW x \in Word, NEW y \in Word, NEW w \in Word, NEW h \in Word,
           NEW v \in Colors, rootdisplay_fill_rect(<<x, y, w, h>>, v)
    PROVE  ScreenInv'
<1>1. PICK r : r = <<x, y, w, h>> OBVIOUS
<1>2. PICK d : d = legacy_begin_update(State) OBVIOUS
<1>3. CASE Empty(r)
  <2>1. Present(State, rootdisplay_damage(dirty, r)) /\ UNCHANGED canvas
    BY <1>1, <1>3 DEF rootdisplay_fill_rect, Draws
  <2> QED BY <1>1, <2>1, IdleStep
<1>4. CASE ~Empty(r)
  <2>1. PICK f : f = Filled(d.fb, r, v) OBVIOUS
  <2>2. PICK c : c = Filled(canvas, r, v) OBVIOUS
  <2>3. /\ Present(legacy_end_update([d EXCEPT !.fb = f]), rootdisplay_damage(dirty, r))
        /\ canvas' = c
    BY <1>1, <1>2, <1>4, <2>1, <2>2 DEF rootdisplay_fill_rect, Draws
  <2>4. /\ f \in [Pixel -> Values(size)] /\ c \in [Pixel -> Values(size) \cup {Undrawn}]
        /\ \A p \in Pixel : ~Covers(r, p) => f[p] = d.fb[p]
        /\ \A p \in Pixel : c[p] # Undrawn => f[p] = c[p]
    BY <1>2, <2>1, <2>2, OpenFact, FilledFact DEF ScreenInv
  <2> QED BY <1>1, <1>2, <2>3, <2>4, PaintStep
<1> QED BY <1>3, <1>4

LEMMA InvertStep ==
    ASSUME ScreenInv, NEW x \in Word, NEW y \in Word, NEW w \in Word, NEW h \in Word,
           rootdisplay_invert_rect(<<x, y, w, h>>)
    PROVE  ScreenInv'
<1>1. PICK r : r = <<x, y, w, h>> OBVIOUS
<1>2. PICK d : d = legacy_begin_update(State) OBVIOUS
<1>3. CASE Empty(r)
  <2>1. Present(State, rootdisplay_damage(dirty, r)) /\ UNCHANGED canvas
    BY <1>1, <1>3 DEF rootdisplay_invert_rect, Draws
  <2> QED BY <1>1, <2>1, IdleStep
<1>4. CASE ~Empty(r)
  <2>1. PICK f : f = Inverted(d.fb, r) OBVIOUS
  <2>2. PICK c : c = Inverted(canvas, r) OBVIOUS
  <2>3. /\ Present(legacy_end_update([d EXCEPT !.fb = f]), rootdisplay_damage(dirty, r))
        /\ canvas' = c
    BY <1>1, <1>2, <1>4, <2>1, <2>2 DEF rootdisplay_invert_rect, Draws
  <2>4. /\ f \in [Pixel -> Values(size)] /\ c \in [Pixel -> Values(size) \cup {Undrawn}]
        /\ \A p \in Pixel : ~Covers(r, p) => f[p] = d.fb[p]
        /\ \A p \in Pixel : c[p] # Undrawn => f[p] = c[p]
    BY <1>2, <2>1, <2>2, OpenFact, InvertedFact DEF ScreenInv
  <2> QED BY <1>1, <1>2, <2>3, <2>4, PaintStep
<1> QED BY <1>3, <1>4

LEMMA BitmapStep ==
    ASSUME ScreenInv, NEW x \in Word, NEW y \in Word, NEW w \in Word, NEW h \in Word,
           NEW s, NEW v \in Colors, NEW o,
           rootdisplay_draw_mono_bitmap(<<x, y, w, h>>, s, v, 0, o)
    PROVE  ScreenInv'
<1>1. PICK r : r = <<x, y, w, h>> OBVIOUS
<1>2. PICK d : d = legacy_begin_update(State) OBVIOUS
<1>3. CASE Empty(r)
  <2>1. Present(State, rootdisplay_damage(dirty, r)) /\ UNCHANGED canvas
    BY <1>1, <1>3 DEF rootdisplay_draw_mono_bitmap, Draws
  <2> QED BY <1>1, <2>1, IdleStep
<1>4. CASE ~Empty(r)
  <2>1. PICK f : f = Bitmap(d.fb, r, s, v, 0, o) OBVIOUS
  <2>2. PICK c : c = Bitmap(canvas, r, s, v, 0, o) OBVIOUS
  <2>3. /\ Present(legacy_end_update([d EXCEPT !.fb = f]), rootdisplay_damage(dirty, r))
        /\ canvas' = c
    BY <1>1, <1>2, <1>4, <2>1, <2>2 DEF rootdisplay_draw_mono_bitmap, Draws
  <2>4. Packed(v) \in Values(size) /\ Packed(0) \in Values(size)
    BY ColorFact, PackFact DEF ScreenInv, Packed
  <2>5. /\ f \in [Pixel -> Values(size)] /\ c \in [Pixel -> Values(size) \cup {Undrawn}]
        /\ \A p \in Pixel : ~Covers(r, p) => f[p] = d.fb[p]
        /\ \A p \in Pixel : c[p] # Undrawn => f[p] = c[p]
    BY <1>2, <2>1, <2>2, <2>4, OpenFact, BitmapFact DEF ScreenInv
  <2> QED BY <1>1, <1>2, <2>3, <2>5, PaintStep
<1> QED BY <1>3, <1>4

LEMMA ScrollStep ==
    ASSUME ScreenInv, NEW n \in Nat, NEW v \in Colors, rootdisplay_scroll_up(n, v)
    PROVE  ScreenInv'
<1>1. PICK d : d = legacy_begin_update(State) OBVIOUS
<1>2. CASE n = 0
  <2>1. Present(State, rootdisplay_damage(dirty, Everything)) /\ UNCHANGED canvas
    BY <1>2 DEF rootdisplay_scroll_up, Draws
  <2> QED BY <2>1, IdleStep, EverythingFact
<1>3. CASE n # 0
  <2>1. PICK f : f = Shifted(d.fb, 0, DISPLAY_HEIGHT, -n, v) OBVIOUS
  <2>2. PICK c : c = Shifted(canvas, 0, DISPLAY_HEIGHT, -n, v) OBVIOUS
  <2>3. /\ Present(legacy_end_update([d EXCEPT !.fb = f]), rootdisplay_damage(dirty, Everything))
        /\ canvas' = c
    BY <1>1, <1>3, <2>1, <2>2 DEF rootdisplay_scroll_up, Draws
  <2>4. DISPLAY_HEIGHT \in Nat /\ 0 + DISPLAY_HEIGHT <= DISPLAY_HEIGHT /\ -n \in Int BY Dims
  <2>5. /\ f \in [Pixel -> Values(size)] /\ c \in [Pixel -> Values(size) \cup {Undrawn}]
        /\ \A p \in Pixel : c[p] # Undrawn => f[p] = c[p]
    BY <1>1, <2>1, <2>2, <2>4, OpenFact, ShiftedFact DEF ScreenInv
  <2>6. \A p \in Pixel : ~Covers(Everything, p) => f[p] = d.fb[p] BY CoverFact
  <2> QED BY <1>1, <2>3, <2>5, <2>6, PaintStep, EverythingFact
<1> QED BY <1>2, <1>3

LEMMA ShiftStep ==
    ASSUME ScreenInv, NEW y \in Word, NEW h \in Word, NEW delta \in Int, NEW v \in Colors,
           rootdisplay_shift_vertical(y, h, delta, v)
    PROVE  ScreenInv'
<1>1. PICK d : d = legacy_begin_update(State) OBVIOUS
<1>2. PICK r : r = <<0, y, DISPLAY_WIDTH, h>> OBVIOUS
<1>3. CASE h = 0 \/ delta = 0 \/ y >= DISPLAY_HEIGHT
  <2>1. Present(State, rootdisplay_damage(dirty, r)) /\ UNCHANGED canvas
    BY <1>2, <1>3 DEF rootdisplay_shift_vertical, Draws
  <2> QED BY <1>2, <2>1, IdleStep, EverythingFact
<1>4. CASE ~(h = 0 \/ delta = 0 \/ y >= DISPLAY_HEIGHT)
  <2>1. PICK k : k = Least2(h, DISPLAY_HEIGHT - y) OBVIOUS
  <2>2. PICK f : f = Shifted(d.fb, y, k, delta, v) OBVIOUS
  <2>3. PICK c : c = Shifted(canvas, y, k, delta, v) OBVIOUS
  <2>4. /\ Present(legacy_end_update([d EXCEPT !.fb = f]), rootdisplay_damage(dirty, r))
        /\ canvas' = c
    BY <1>1, <1>2, <1>4, <2>1, <2>2, <2>3 DEF rootdisplay_shift_vertical, Draws
  <2>5. /\ y \in Nat /\ y < DISPLAY_HEIGHT /\ h > 0 /\ k \in Nat /\ k <= h
        /\ y + k <= DISPLAY_HEIGHT
    BY <1>4, <2>1, Dims DEF Least2, Word
  <2>6. /\ f \in [Pixel -> Values(size)] /\ c \in [Pixel -> Values(size) \cup {Undrawn}]
        /\ \A p \in Pixel : p[2] < y \/ p[2] >= y + k => f[p] = d.fb[p]
        /\ \A p \in Pixel : c[p] # Undrawn => f[p] = c[p]
    BY <1>1, <2>2, <2>3, <2>5, OpenFact, ShiftedFact DEF ScreenInv
  <2>7. ASSUME NEW p \in Pixel, ~Covers(r, p) PROVE f[p] = d.fb[p]
    <3>1. SUFFICES ASSUME p[2] >= y, p[2] < y + k PROVE Covers(r, p)
      BY <2>5, <2>6, <2>7, PixelFact
    <3>2. p[1] < Clip(0, DISPLAY_WIDTH, DISPLAY_WIDTH)
      <4>1. /\ 0 \in Nat /\ 0 < DISPLAY_WIDTH /\ DISPLAY_WIDTH \in 0 .. U32 - 1 /\ DISPLAY_WIDTH \in Nat
            /\ p[1] \in Nat /\ p[1] < DISPLAY_WIDTH /\ p[1] < 0 + DISPLAY_WIDTH
        BY PixelFact, Dims
      <4> QED BY <4>1, ClipFact, Dims
    <3>3. p[2] < Clip(y, h, DISPLAY_HEIGHT) BY <2>5, <3>1, ClipFact, PixelFact, Dims DEF Word
    <3>4. ~Empty(r) BY <1>2, <2>5, Dims DEF Empty
    <3> QED BY <1>2, <3>1, <3>2, <3>3, <3>4, PixelFact DEF Covers
  <2> QED BY <1>1, <1>2, <2>4, <2>6, <2>7, PaintStep, EverythingFact
<1> QED BY <1>3, <1>4

LEMMA NestStep ==
    ASSUME ScreenInv, rootdisplay_begin_update \/ rootdisplay_end_update
    PROVE  ScreenInv'
<1>1. PICK e : e = IF rootdisplay_begin_update THEN legacy_begin_update(State)
                   ELSE legacy_end_update(State)
  OBVIOUS
<1>2. Present(e, dirty) /\ UNCHANGED canvas
  BY <1>1 DEF rootdisplay_begin_update, rootdisplay_end_update
<1>3. Good(e, size) /\ SameLook(State, e, size)
  <2>1. CASE rootdisplay_begin_update BY <1>1, <2>1, BeginFact, StateFact DEF ScreenInv
  <2>2. CASE ~rootdisplay_begin_update
    <3>1. update_depth > 0 BY <2>2 DEF rootdisplay_end_update
    <3> QED BY <1>1, <2>2, <3>1, EndFact, StateFact DEF ScreenInv
  <2> QED BY <2>1, <2>2
<1>4. DamageOK(dirty) BY DEF ScreenInv
<1> QED BY <1>2, <1>3, <1>4, QuietStep

-----------------------------------------------------------------------------
(* One pixel, and the pointer itself.                                      *)

LEMMA PutPixelStep ==
    ASSUME ScreenInv, NEW x, NEW y, NEW v \in Colors, rootdisplay_put_pixel(x, y, v)
    PROVE  ScreenInv'
<1>1. PICK p : p = <<x, y>> OBVIOUS
<1>2. p \in Pixel BY <1>1 DEF rootdisplay_put_pixel
<1>3. x \in Nat /\ y \in Nat /\ x < DISPLAY_WIDTH /\ y < DISPLAY_HEIGHT BY <1>1, <1>2, PixelFact
<1>4. x \in Word /\ y \in Word /\ 1 \in Word BY <1>3, Dims DEF Word
<1>5. PICK D : D = rootdisplay_damage(dirty, <<x, y, 1, 1>>) OBVIOUS
<1>6. /\ DamageOK(D) /\ \A q \in Pixel : InDamage(dirty, q) => InDamage(D, q)
      /\ rootdisplay_shadow_active => \A q \in Pixel : Covers(<<x, y, 1, 1>>, q) => InDamage(D, q)
  BY <1>4, <1>5, DamageFact DEF ScreenInv
<1>7. Covers(<<x, y, 1, 1>>, p)
  <2>1. x < Clip(x, 1, DISPLAY_WIDTH) /\ y < Clip(y, 1, DISPLAY_HEIGHT)
    BY <1>3, <1>4, ClipFact, Dims DEF Word
  <2>2. ~Empty(<<x, y, 1, 1>>) BY <1>3, Dims DEF Empty
  <2> QED BY <1>1, <1>3, <2>1, <2>2 DEF Covers
<1>8. PICK d : d = State OBVIOUS
<1>9. DOMAIN d = StateFields /\ Good(d, size) BY <1>8, StateFact DEF ScreenInv
<1>10. PICK w : w = Packed(v) OBVIOUS
<1>11. v \in 0 .. 255 /\ w \in Values(size) BY <1>10, ColorFact DEF ScreenInv
<1>12. canvas' = [canvas EXCEPT ![p] = w] BY <1>1, <1>10 DEF rootdisplay_put_pixel
<1>13. ASSUME NEW e, Present(e, D), Good(e, size), BareAt(e, p, size) = w,
              \A q \in Pixel : q # p => /\ BareAt(e, q, size) = BareAt(d, q, size)
                                        /\ FinalAt(e, q, size) = FinalAt(d, q, size)
       PROVE  ScreenInv'
  <2>1. canvas' \in [Pixel -> Values(size) \cup {Undrawn}] BY <1>2, <1>11, <1>12 DEF ScreenInv
  <2>2. ASSUME NEW q \in Pixel, canvas'[q] # Undrawn PROVE BareAt(e, q, size) = canvas'[q]
    <3>1. CASE q = p BY <1>2, <1>12, <1>13, <3>1 DEF ScreenInv
    <3>2. CASE q # p
      <4>1. canvas'[q] = canvas[q] BY <1>12, <3>2 DEF ScreenInv
      <4> QED BY <1>8, <1>13, <2>2, <3>2, <4>1 DEF ScreenInv
    <3> QED BY <3>1, <3>2
  <2>3. \/ ~rootdisplay_shadow_active
        \/ \A q \in Pixel : ~InDamage(D, q) => FinalAt(e, q, size) = FinalAt(State, q, size)
    BY <1>6, <1>7, <1>8, <1>13
  <2> QED BY <1>6, <1>13, <2>1, <2>2, <2>3, PresentStep
<1>14. CASE d.depth = 0 /\ d.drawn /\ InsideCursor(d, p)
  <2>1. PICK l : l = LocalOf(d, p) OBVIOUS
  <2>2. l \in Local BY <1>2, <1>9, <1>14, <2>1, InsideFact DEF Good
  <2>3. PICK b : b = [d.bg EXCEPT ![l] = v] OBVIOUS
  <2>4. PICK f : f = [d.fb EXCEPT ![p] = IF Opaque(d, p) THEN @ ELSE w] OBVIOUS
  <2>5. PICK e : e = [d EXCEPT !.bg = b, !.fb = f] OBVIOUS
  <2>6. Present(e, D)
    <3>1. Present([d EXCEPT !.bg[l] = v, !.fb[p] = IF Opaque(d, p) THEN @ ELSE w], D)
      BY <1>1, <1>5, <1>8, <1>10, <1>14, <2>1 DEF rootdisplay_put_pixel
    <3>2. [d EXCEPT !.bg[l] = v, !.fb[p] = IF Opaque(d, p) THEN @ ELSE w] = e
      BY <1>9, <2>3, <2>4, <2>5 DEF StateFields
    <3> QED BY <3>1, <3>2
  <2>7. /\ e.bg = b /\ e.fb = f /\ e.on = d.on /\ e.drawn = d.drawn /\ e.x = d.x /\ e.y = d.y
        /\ e.depth = d.depth
    BY <1>9, <2>5 DEF StateFields
  <2>8. b \in [Local -> 0 .. 255] /\ f \in [Pixel -> Values(size)]
    BY <1>2, <1>9, <1>11, <2>2, <2>3, <2>4 DEF Good
  <2>9. d.on BY <1>9, <1>14 DEF Good
  <2>10. \A q : /\ LocalOf(e, q) = LocalOf(d, q)
                /\ InsideCursor(e, q) <=> InsideCursor(d, q)
                /\ Opaque(e, q) <=> Opaque(d, q)
                /\ InkOf(e, q, size) = InkOf(d, q, size)
    <3>1. ASSUME NEW q
          PROVE  /\ LocalOf(e, q) = LocalOf(d, q)
                 /\ InsideCursor(e, q) <=> InsideCursor(d, q)
                 /\ Opaque(e, q) <=> Opaque(d, q)
                 /\ InkOf(e, q, size) = InkOf(d, q, size)
      <4>1. LocalOf(e, q) = LocalOf(d, q) BY <2>7 DEF LocalOf
      <4>2. InsideCursor(e, q) <=> InsideCursor(d, q) BY <2>7 DEF InsideCursor
      <4> QED BY <4>1, <4>2 DEF Opaque, InkOf
    <3> QED BY <3>1
  <2>11. BareAt(e, p, size) = w
    <3>1. b[l] = v BY <1>9, <2>2, <2>3 DEF Good
    <3> QED BY <1>10, <1>14, <2>1, <2>7, <2>10, <3>1 DEF BareAt, Packed
  <2>12. ASSUME NEW q \in Pixel, q # p
         PROVE  BareAt(e, q, size) = BareAt(d, q, size) /\ f[q] = d.fb[q]
    <3>1. f[q] = d.fb[q] BY <1>9, <2>4, <2>12 DEF Good
    <3>2. CASE InsideCursor(d, q)
      <4>1. LocalOf(d, q) \in Local /\ At(d, LocalOf(d, q)) = q /\ At(d, l) = p
        BY <1>2, <1>9, <1>14, <2>1, <3>2, InsideFact DEF Good
      <4>2. LocalOf(d, q) # l BY <2>12, <4>1
      <4>3. b[LocalOf(d, q)] = d.bg[LocalOf(d, q)] BY <1>9, <2>3, <4>1, <4>2 DEF Good
      <4> QED BY <2>7, <2>10, <3>1, <3>2, <4>3 DEF BareAt
    <3>3. CASE ~InsideCursor(d, q) BY <2>7, <2>10, <3>1, <3>3 DEF BareAt
    <3> QED BY <3>1, <3>2, <3>3
  <2>13. \A q \in Pixel : q # p => FinalAt(e, q, size) = FinalAt(d, q, size)
    BY <2>7, <2>9, <2>10, <2>12 DEF FinalAt
  <2>14. ASSUME NEW q \in Pixel PROVE f[q] = FinalAt(e, q, size)
    <3>1. d.fb[q] = FinalAt(d, q, size) BY <1>9, <1>14 DEF Good
    <3>2. CASE q # p BY <2>12, <2>13, <3>1, <3>2
    <3>3. CASE q = p /\ Opaque(d, p)
      <4>1. f[q] = d.fb[q] BY <1>2, <1>9, <2>4, <3>3 DEF Good
      <4> QED BY <2>7, <2>9, <2>10, <3>1, <3>3, <4>1 DEF FinalAt
    <3>4. CASE q = p /\ ~Opaque(d, p)
      <4>1. f[q] = w BY <1>2, <1>9, <2>4, <3>4 DEF Good
      <4> QED BY <2>7, <2>9, <2>10, <2>11, <3>4, <4>1 DEF FinalAt
    <3> QED BY <3>2, <3>3, <3>4
  <2>15. Good(e, size) BY <1>9, <2>7, <2>8, <2>14 DEF Good
  <2> QED BY <1>13, <2>6, <2>11, <2>12, <2>13, <2>15
<1>15. CASE ~(d.depth = 0 /\ d.drawn /\ InsideCursor(d, p))
  <2>1. PICK f : f = [d.fb EXCEPT ![p] = w] OBVIOUS
  <2>2. PICK e : e = [d EXCEPT !.fb = f] OBVIOUS
  <2>3. Present(e, D)
    <3>1. Present([d EXCEPT !.fb[p] = w], D)
      BY <1>1, <1>5, <1>8, <1>10, <1>15 DEF rootdisplay_put_pixel
    <3>2. [d EXCEPT !.fb[p] = w] = e BY <1>9, <2>1, <2>2 DEF StateFields
    <3> QED BY <3>1, <3>2
  <2>4. /\ e.fb = f /\ e.on = d.on /\ e.drawn = d.drawn /\ e.x = d.x /\ e.y = d.y
        /\ e.bg = d.bg /\ e.depth = d.depth
    BY <1>9, <2>2 DEF StateFields
  <2>5. f \in [Pixel -> Values(size)] /\ f[p] = w /\ \A q \in Pixel : q # p => f[q] = d.fb[q]
    BY <1>2, <1>9, <1>11, <2>1 DEF Good
  <2>6. ~(d.drawn /\ InsideCursor(d, p)) BY <1>9, <1>15 DEF Good
  <2>7. \A q : /\ LocalOf(e, q) = LocalOf(d, q)
               /\ InsideCursor(e, q) <=> InsideCursor(d, q)
               /\ Opaque(e, q) <=> Opaque(d, q)
               /\ InkOf(e, q, size) = InkOf(d, q, size)
    <3>1. ASSUME NEW q
          PROVE  /\ LocalOf(e, q) = LocalOf(d, q)
                 /\ InsideCursor(e, q) <=> InsideCursor(d, q)
                 /\ Opaque(e, q) <=> Opaque(d, q)
                 /\ InkOf(e, q, size) = InkOf(d, q, size)
      <4>1. LocalOf(e, q) = LocalOf(d, q) BY <2>4 DEF LocalOf
      <4>2. InsideCursor(e, q) <=> InsideCursor(d, q) BY <2>4 DEF InsideCursor
      <4> QED BY <4>1, <4>2 DEF Opaque, InkOf
    <3> QED BY <3>1
  <2>8. BareAt(e, p, size) = w BY <2>4, <2>5, <2>6, <2>7 DEF BareAt
  <2>9. \A q \in Pixel : q # p => BareAt(e, q, size) = BareAt(d, q, size)
    BY <2>4, <2>5, <2>7 DEF BareAt
  <2>10. \A q \in Pixel : q # p => FinalAt(e, q, size) = FinalAt(d, q, size)
    BY <2>4, <2>7, <2>9 DEF FinalAt
  <2>11. ASSUME d.drawn, NEW q \in Pixel PROVE f[q] = FinalAt(e, q, size)
    <3>1. CASE q # p
      <4>1. d.fb[q] = FinalAt(d, q, size) BY <1>9, <2>11 DEF Good
      <4> QED BY <2>5, <2>10, <3>1, <4>1
    <3>2. CASE q = p
      <4>1. ~Opaque(e, p) BY <2>6, <2>7, <2>11 DEF Opaque
      <4> QED BY <2>5, <2>8, <3>2, <4>1 DEF FinalAt
    <3> QED BY <3>1, <3>2
  <2>12. Good(e, size) BY <1>9, <2>4, <2>5, <2>11 DEF Good
  <2> QED BY <1>13, <2>3, <2>8, <2>9, <2>10, <2>12
<1> QED BY <1>14, <1>15

\* A change of the pointer over an unchanged picture.
LEMMA PointerStep ==
    ASSUME ScreenInv, NEW e, Good(e, size), NEW D, DamageOK(D), Present(e, D), UNCHANGED canvas,
           \A p \in Pixel : BareAt(e, p, size) = BareAt(State, p, size),
           \A p \in Pixel : InDamage(dirty, p) => InDamage(D, p),
           ~rootdisplay_shadow_active \/
             \A p \in Pixel : InsideCursor(State, p) \/ InsideCursor(e, p) => InDamage(D, p)
    PROVE  ScreenInv'
<1>1. ASSUME NEW p \in Pixel, ~InsideCursor(State, p), ~InsideCursor(e, p)
      PROVE  FinalAt(e, p, size) = FinalAt(State, p, size)
  <2>1. ~Opaque(State, p) /\ ~Opaque(e, p) BY <1>1 DEF Opaque
  <2> QED BY <2>1 DEF FinalAt
<1>2. \/ ~rootdisplay_shadow_active
      \/ \A p \in Pixel : ~InDamage(D, p) => FinalAt(e, p, size) = FinalAt(State, p, size)
  BY <1>1
<1>3. /\ canvas' \in [Pixel -> Values(size) \cup {Undrawn}]
      /\ \A p \in Pixel : canvas'[p] # Undrawn => BareAt(e, p, size) = canvas'[p]
  BY DEF ScreenInv
<1> QED BY <1>2, <1>3, PresentStep

LEMMA CursorDamageFact ==
    ASSUME NEW D, DamageOK(D), NEW d, <<d.x, d.y>> \in Pixel
    PROVE  LET E == rootdisplay_damage(D, CursorRect(d.x, d.y))
           IN  /\ DamageOK(E)
               /\ \A p \in Pixel : InDamage(D, p) => InDamage(E, p)
               /\ rootdisplay_shadow_active =>
                    \A p \in Pixel : InsideCursor(d, p) => InDamage(E, p)
<1>1. d.x \in Word /\ d.y \in Word
  <2>1. d.x \in 0 .. DISPLAY_WIDTH - 1 /\ d.y \in 0 .. DISPLAY_HEIGHT - 1 BY DEF Pixel
  <2> QED BY <2>1, Dims DEF Word
<1>2. CURSOR_WIDTH \in Word /\ CURSOR_HEIGHT \in Word BY Dims DEF Word
<1>3. \A p \in Pixel : InsideCursor(d, p) => Covers(CursorRect(d.x, d.y), p)
  BY CoverFact DEF InsideCursor
<1>4. CursorRect(d.x, d.y) = <<d.x, d.y, CURSOR_WIDTH, CURSOR_HEIGHT>> BY DEF CursorRect
<1>5. PICK E : E = rootdisplay_damage(D, CursorRect(d.x, d.y)) OBVIOUS
<1>6. E = rootdisplay_damage(D, <<d.x, d.y, CURSOR_WIDTH, CURSOR_HEIGHT>>) BY <1>4, <1>5
<1>7. /\ DamageOK(E) /\ \A p \in Pixel : InDamage(D, p) => InDamage(E, p)
      /\ rootdisplay_shadow_active =>
           \A p \in Pixel : Covers(<<d.x, d.y, CURSOR_WIDTH, CURSOR_HEIGHT>>, p) => InDamage(E, p)
  BY <1>1, <1>2, <1>6, DamageFact, Zenon
<1> QED BY <1>3, <1>4, <1>5, <1>7

LEMMA EnableStep ==
    ASSUME ScreenInv, NEW on, rootdisplay_cursor_enable(on)
    PROVE  ScreenInv'
<1>1. PICK d : d = State OBVIOUS
<1>2. DOMAIN d = StateFields /\ Good(d, size) BY <1>1, StateFact DEF ScreenInv
<1>3. PICK D : D = rootdisplay_damage(dirty, CursorRect(d.x, d.y)) OBVIOUS
<1>4. <<d.x, d.y>> \in Pixel /\ DamageOK(dirty) BY <1>2 DEF Good, ScreenInv
<1>5. /\ DamageOK(D) /\ \A p \in Pixel : InDamage(dirty, p) => InDamage(D, p)
      /\ rootdisplay_shadow_active => \A p \in Pixel : InsideCursor(d, p) => InDamage(D, p)
  BY <1>3, <1>4, CursorDamageFact
<1>6. UNCHANGED canvas /\ size \in Small BY DEF rootdisplay_cursor_enable, ScreenInv
<1>7. ASSUME NEW e, Present(e, D), Good(e, size), e.x = d.x, e.y = d.y,
             \A p \in Pixel : BareAt(e, p, size) = BareAt(d, p, size)
      PROVE  ScreenInv'
  <2>1. \A p \in Pixel : InsideCursor(e, p) <=> InsideCursor(d, p) BY <1>7 DEF InsideCursor
  <2>2. \/ ~rootdisplay_shadow_active
        \/ \A p \in Pixel : InsideCursor(State, p) \/ InsideCursor(e, p) => InDamage(D, p)
    BY <1>1, <1>5, <2>1
  <2> QED BY <1>1, <1>5, <1>6, <1>7, <2>2, PointerStep
<1>8. CASE ~on
  <2>1. PICK b : b = cursor_restore_background(d) OBVIOUS
  <2>2. /\ DOMAIN b = StateFields /\ ~b.drawn /\ b.x = d.x /\ b.y = d.y /\ b.bg = d.bg
        /\ b.depth = d.depth /\ b.fb \in [Pixel -> Values(size)] /\ SameLook(d, b, size)
    BY <1>2, <1>6, <2>1, RestoreFact
  <2>3. PICK e : e = [b EXCEPT !.on = FALSE] OBVIOUS
  <2>4. /\ e.fb = b.fb /\ ~e.on /\ ~e.drawn /\ e.x = d.x /\ e.y = d.y /\ e.bg = d.bg
        /\ e.depth = d.depth
    BY <2>2, <2>3 DEF StateFields
  <2>5. Good(e, size) BY <1>2, <2>2, <2>4 DEF Good
  <2>6. \A p \in Pixel : BareAt(e, p, size) = BareAt(d, p, size)
    <3>1. \A p \in Pixel : BareAt(e, p, size) = b.fb[p] /\ BareAt(b, p, size) = b.fb[p]
      BY <2>2, <2>4 DEF BareAt
    <3> QED BY <2>2, <3>1 DEF SameLook
  <2>7. Present(e, D) BY <1>1, <1>3, <1>8, <2>1, <2>3 DEF rootdisplay_cursor_enable
  <2> QED BY <1>7, <2>4, <2>5, <2>6, <2>7
<1>9. CASE on /\ d.on
  <2>1. Present(d, D) BY <1>1, <1>3, <1>9 DEF rootdisplay_cursor_enable
  <2> QED BY <1>2, <1>7, <2>1
<1>10. CASE on /\ ~d.on
  <2>1. PICK b : b = [d EXCEPT !.on = TRUE] OBVIOUS
  <2>2. /\ DOMAIN b = StateFields /\ b.fb = d.fb /\ b.on /\ b.drawn = d.drawn /\ b.x = d.x
        /\ b.y = d.y /\ b.bg = d.bg /\ b.depth = d.depth
    BY <1>2, <2>1 DEF StateFields
  <2>3. ~d.drawn /\ ~b.drawn BY <1>2, <1>10, <2>2 DEF Good
  <2>4. PICK e : e = IF d.depth = 0 THEN Redraw(b) ELSE b OBVIOUS
  <2>5. Present(e, D) BY <1>1, <1>3, <1>10, <2>1, <2>4 DEF rootdisplay_cursor_enable
  <2>6. \A p \in Pixel : BareAt(b, p, size) = BareAt(d, p, size) BY <2>2, <2>3 DEF BareAt
  <2>7. CASE d.depth = 0
    <3>1. e = Redraw(b) BY <2>4, <2>7
    <3>2. Good(e, size) /\ SameLook(b, e, size)
      BY <1>2, <1>4, <1>6, <2>2, <2>3, <2>7, <3>1, RedrawFact DEF Good
    <3>3. e.x = b.x /\ e.y = b.y
      BY <1>6, <2>2, <3>1 DEF Redraw, cursor_draw, cursor_capture_background, StateFields
    <3> QED BY <1>7, <2>2, <2>5, <2>6, <3>2, <3>3 DEF SameLook
  <2>8. CASE d.depth # 0
    <3>1. e = b BY <2>4, <2>8
    <3>2. Good(b, size) BY <1>2, <2>2, <2>3, <2>8 DEF Good
    <3> QED BY <1>7, <2>2, <2>5, <2>6, <3>1, <3>2
  <2> QED BY <2>7, <2>8
<1> QED BY <1>8, <1>9, <1>10

LEMMA MoveStep ==
    ASSUME ScreenInv, NEW x, NEW y, rootdisplay_cursor_move(x, y)
    PROVE  ScreenInv'
<1>1. PICK d : d = State OBVIOUS
<1>2. DOMAIN d = StateFields /\ Good(d, size) BY <1>1, StateFact DEF ScreenInv
<1>3. PICK E : E = rootdisplay_damage(dirty, CursorRect(d.x, d.y)) OBVIOUS
<1>4. PICK D : D = rootdisplay_damage(E, CursorRect(x, y)) OBVIOUS
<1>5. <<d.x, d.y>> \in Pixel /\ DamageOK(dirty) BY <1>2 DEF Good, ScreenInv
<1>6. /\ DamageOK(E) /\ \A p \in Pixel : InDamage(dirty, p) => InDamage(E, p)
      /\ rootdisplay_shadow_active => \A p \in Pixel : InsideCursor(d, p) => InDamage(E, p)
  BY <1>3, <1>5, CursorDamageFact
<1>7. PICK b : b = cursor_restore_background(d) OBVIOUS
<1>8. PICK t : t = [b EXCEPT !.x = x, !.y = y] OBVIOUS
<1>9. UNCHANGED canvas /\ size \in Small /\ <<x, y>> \in Pixel
  BY DEF rootdisplay_cursor_move, ScreenInv
<1>10. /\ DOMAIN b = StateFields /\ ~b.drawn /\ b.on = d.on /\ b.bg = d.bg
       /\ b.depth = d.depth /\ b.fb \in [Pixel -> Values(size)] /\ SameLook(d, b, size)
  BY <1>2, <1>7, <1>9, RestoreFact
<1>11. /\ DOMAIN t = StateFields /\ t.fb = b.fb /\ t.on = d.on /\ ~t.drawn /\ t.x = x /\ t.y = y
       /\ t.bg = d.bg /\ t.depth = d.depth
  BY <1>8, <1>10 DEF StateFields
<1>12. /\ DamageOK(D) /\ \A p \in Pixel : InDamage(E, p) => InDamage(D, p)
       /\ rootdisplay_shadow_active => \A p \in Pixel : InsideCursor(t, p) => InDamage(D, p)
  <2>1. <<t.x, t.y>> \in Pixel /\ D = rootdisplay_damage(E, CursorRect(t.x, t.y))
    BY <1>4, <1>9, <1>11
  <2> QED BY <1>6, <2>1, CursorDamageFact
<1>13. ASSUME NEW e, Present(e, D), Good(e, size), e = d \/ (e.x = x /\ e.y = y),
              \A p \in Pixel : BareAt(e, p, size) = BareAt(d, p, size)
       PROVE  ScreenInv'
  <2>1. ASSUME NEW p \in Pixel, InsideCursor(e, p) PROVE InsideCursor(d, p) \/ InsideCursor(t, p)
    BY <1>11, <1>13, <2>1 DEF InsideCursor
  <2>2. \/ ~rootdisplay_shadow_active
        \/ \A p \in Pixel : InsideCursor(State, p) \/ InsideCursor(e, p) => InDamage(D, p)
    BY <1>1, <1>6, <1>12, <2>1
  <2>3. \A p \in Pixel : InDamage(dirty, p) => InDamage(D, p) BY <1>6, <1>12
  <2> QED BY <1>1, <1>9, <1>12, <1>13, <2>2, <2>3, PointerStep
<1>14. CASE x = d.x /\ y = d.y
  <2>1. Present(d, D) BY <1>1, <1>3, <1>4, <1>14 DEF rootdisplay_cursor_move
  <2> QED BY <1>2, <1>13, <2>1
<1>15. CASE ~(x = d.x /\ y = d.y)
  <2>1. PICK e : e = IF d.on /\ d.depth = 0 THEN Redraw(t) ELSE t OBVIOUS
  <2>2. Present(e, D)
    BY <1>1, <1>3, <1>4, <1>7, <1>8, <1>15, <2>1 DEF rootdisplay_cursor_move
  <2>3. \A p \in Pixel : BareAt(t, p, size) = BareAt(d, p, size)
    <3>1. \A p \in Pixel : BareAt(t, p, size) = b.fb[p] /\ BareAt(b, p, size) = b.fb[p]
      BY <1>10, <1>11 DEF BareAt
    <3> QED BY <1>10, <3>1 DEF SameLook
  <2>4. CASE d.on /\ d.depth = 0
    <3>1. e = Redraw(t) BY <2>1, <2>4
    <3>2. Good(e, size) /\ SameLook(t, e, size)
      BY <1>9, <1>10, <1>11, <2>4, <3>1, RedrawFact
    <3>3. e.x = t.x /\ e.y = t.y
      BY <1>11, <3>1 DEF Redraw, cursor_draw, cursor_capture_background, StateFields
    <3> QED BY <1>11, <1>13, <2>2, <2>3, <3>2, <3>3 DEF SameLook
  <2>5. CASE ~(d.on /\ d.depth = 0)
    <3>1. e = t BY <2>1, <2>5
    <3>2. Good(t, size) BY <1>2, <1>9, <1>10, <1>11, <2>5 DEF Good
    <3> QED BY <1>11, <1>13, <2>2, <2>3, <3>1, <3>2
  <2> QED BY <2>4, <2>5
<1> QED BY <1>14, <1>15

-----------------------------------------------------------------------------
LEMMA ScreenInit == DisplayInit => ScreenInv
<1> SUFFICES ASSUME DisplayInit PROVE ScreenInv
  OBVIOUS
<1>1. size \in Small BY DEF DisplayInit, ChannelSize, Small
<1>2. 0 \in Values(size) BY <1>1, MaskFact DEF Values
<1>3. <<0, 0>> \in Pixel /\ 0 \in 0 .. 255 BY Dims DEF Pixel
<1>4. Good(State, size) BY <1>2, <1>3 DEF DisplayInit, Good, State
<1>5. canvas \in [Pixel -> Values(size) \cup {Undrawn}] /\ \A p \in Pixel : canvas[p] = Undrawn
  BY DEF DisplayInit
<1>6. DamageOK(dirty) /\ dirty = {} /\ screen = framebuffer BY DEF DisplayInit, DamageOK
<1>7. \A p \in Pixel : framebuffer[p] = FinalAt(State, p, size)
  <2>1. State.depth = 0 /\ State.fb = framebuffer BY DEF DisplayInit, State
  <2> QED BY <1>4, <2>1, IdleFact
<1> QED BY <1>1, <1>4, <1>5, <1>6, <1>7 DEF ScreenInv

LEMMA ScreenNext == ScreenInv /\ [DisplayNext]_displayVars => ScreenInv'
<1> SUFFICES ASSUME ScreenInv, [DisplayNext]_displayVars PROVE ScreenInv'
  OBVIOUS
<1>1. CASE Painting
  <2>1. ASSUME NEW r \in Rects, NEW c \in Colors, rootdisplay_fill_rect(r, c) PROVE ScreenInv'
    BY <2>1, RectFact, FillStep
  <2>2. ASSUME NEW r \in Rects, rootdisplay_invert_rect(r) PROVE ScreenInv'
    BY <2>2, RectFact, InvertStep
  <2>3. ASSUME NEW r \in Rects, NEW c \in Colors, NEW o \in BOOLEAN,
               rootdisplay_draw_mono_bitmap(r, {<<0, 0>>}, c, 0, o)
        PROVE  ScreenInv'
    BY <2>3, RectFact, BitmapStep
  <2>4. ASSUME NEW p \in Pixel, NEW c \in Colors, rootdisplay_put_pixel(p[1], p[2], c)
        PROVE  ScreenInv'
    BY <2>4, PutPixelStep
  <2>5. ASSUME NEW c \in Colors, rootdisplay_clear(c) PROVE ScreenInv'
    <3>1. rootdisplay_fill_rect(<<0, 0, DISPLAY_WIDTH, DISPLAY_HEIGHT>>, c)
      BY <2>5 DEF rootdisplay_clear, Everything
    <3> QED BY <3>1, EverythingFact, FillStep
  <2> QED BY <1>1, <2>1, <2>2, <2>3, <2>4, <2>5, Zenon DEF Painting
<1>2. CASE Scroll
  <2>1. ASSUME NEW n \in {0, 1, DISPLAY_HEIGHT + 1}, NEW c \in Colors, rootdisplay_scroll_up(n, c)
        PROVE  ScreenInv'
    <3>1. n \in Nat BY Dims
    <3> QED BY <2>1, <3>1, ScrollStep
  <2>2. ASSUME NEW s \in Shifts, NEW c \in Colors, rootdisplay_shift_vertical(s[1], s[2], s[3], c)
        PROVE  ScreenInv'
    <3>1. Shifts \subseteq (0 .. U32 - 1) \X (0 .. U32 - 1) \X Int BY DisplayAssumption, Zenon
    <3>2. s[1] \in Word /\ s[2] \in Word /\ s[3] \in Int BY <3>1 DEF Word
    <3> QED BY <2>2, <3>2, ShiftStep
  <2> QED BY <1>2, <2>1, <2>2, Zenon DEF Scroll
<1>3. CASE Pointer
  <2>1. ASSUME NEW on \in BOOLEAN, rootdisplay_cursor_enable(on) PROVE ScreenInv'
    BY <2>1, EnableStep
  <2>2. ASSUME NEW p \in Pixel, rootdisplay_cursor_move(p[1], p[2]) PROVE ScreenInv'
    BY <2>2, MoveStep
  <2> QED BY <1>3, <2>1, <2>2, Zenon DEF Pointer
<1>4. CASE rootdisplay_begin_update \/ rootdisplay_end_update BY <1>4, NestStep
<1>5. CASE UNCHANGED displayVars
  <2>1. State' = State BY <1>5 DEF State, displayVars, bootVars
  <2>2. /\ size' = size /\ canvas' = canvas /\ dirty' = dirty /\ screen' = screen
        /\ framebuffer' = framebuffer /\ update_depth' = update_depth
        /\ (rootdisplay_shadow_active' <=> rootdisplay_shadow_active)
    BY <1>5 DEF displayVars, bootVars
  <2> QED BY <2>1, <2>2 DEF ScreenInv
<1> QED BY <1>1, <1>2, <1>3, <1>4, <1>5, Zenon DEF DisplayNext, Headless

LEMMA ScreenShown == ScreenInv => ScreenShowsDrawing
<1> SUFFICES ASSUME ScreenInv PROVE ScreenShowsDrawing
  OBVIOUS
<1>1. PICK d : d = State OBVIOUS
<1>2. /\ Good(d, size) /\ d.fb = framebuffer /\ d.depth = update_depth
      /\ (d.drawn <=> cursor.drawn)
  BY <1>1 DEF ScreenInv, State
<1>3. ASSUME update_depth = 0, NEW p \in Pixel, Overlaid(p) # Undrawn
      PROVE  screen[p] = Overlaid(p)
  <2>1. framebuffer[p] = FinalAt(d, p, size) BY <1>2, <1>3, IdleFact
  <2>2. screen[p] = FinalAt(d, p, size)
    <3>1. CASE rootdisplay_shadow_active
      <4>1. ~InDamage(dirty, p) BY <1>3, <3>1 DEF ScreenInv, InDamage
      <4> QED BY <1>1, <3>1, <4>1 DEF ScreenInv
    <3>2. CASE ~rootdisplay_shadow_active BY <2>1, <3>2 DEF ScreenInv
    <3> QED BY <3>1, <3>2
  <2>3. CASE d.drawn /\ Opaque(d, p)
    <3>1. d.on BY <1>2, <2>3 DEF Good
    <3>2. Overlaid(p) = Ink(d, p) BY <1>1, <1>2, <2>3 DEF Overlaid
    <3>3. Ink(d, p) = InkOf(d, p, size) BY DEF Ink, InkOf, Packed
    <3> QED BY <2>2, <2>3, <3>1, <3>2, <3>3 DEF FinalAt
  <2>4. CASE ~(d.drawn /\ Opaque(d, p))
    <3>1. Overlaid(p) = canvas[p] BY <1>1, <1>2, <2>4 DEF Overlaid
    <3>2. BareAt(d, p, size) = canvas[p] BY <1>1, <1>3, <3>1 DEF ScreenInv
    <3>3. ~(d.on /\ Opaque(d, p)) BY <1>2, <1>3, <2>4 DEF Good
    <3> QED BY <2>2, <3>1, <3>2, <3>3 DEF FinalAt
  <2> QED BY <2>3, <2>4
<1>4. ASSUME update_depth > 0
      PROVE  ~cursor.drawn /\ \A p \in Pixel : canvas[p] # Undrawn => framebuffer[p] = canvas[p]
  <2>1. update_depth # 0 /\ ~d.drawn BY <1>2, <1>4 DEF Good
  <2>2. \A p \in Pixel : BareAt(d, p, size) = framebuffer[p] BY <1>2, <2>1 DEF BareAt
  <2> QED BY <1>1, <1>2, <2>1, <2>2 DEF ScreenInv
<1> QED BY <1>3, <1>4 DEF ScreenShowsDrawing

\* However drawing calls, pointer movements, scrolling and nested updates
\* follow one another, whatever the boot loader reported and whatever the
\* colour depth: when no update is open the screen shows everything that was
\* drawn, with the pointer over it, and while one is open nothing of the
\* pointer is in what the renderer works on (rootdisplay_damage,
\* rootdisplay_flush_if_idle and the saved background of the pointer).
THEOREM ScreenAlwaysShowsDrawing == DisplaySpec => []ScreenShowsDrawing
<1>1. DisplaySpec => []ScreenInv BY ScreenInit, ScreenNext, PTL DEF DisplaySpec
<1> QED BY <1>1, ScreenShown, PTL

-----------------------------------------------------------------------------
(* The aperture.                                                           *)

LEMMA DivFact ==
    ASSUME NEW u \in Nat, u > 0, NEW x \in Nat
    PROVE  /\ (x \div u) \in Nat /\ (x % u) \in 0 .. u - 1
           /\ x = (x \div u) * u + (x % u)
<1>1. x = u * (x \div u) + (x % u) BY SMT
<1>2. (x \div u) \in Nat /\ (x % u) \in 0 .. u - 1 BY SMT
<1>3. u * (x \div u) = (x \div u) * u BY <1>2, SMT
<1> QED BY <1>1, <1>2, <1>3

LEMMA DivOf ==
    ASSUME NEW u \in Nat, u > 0, NEW q \in Nat, NEW k \in 0 .. u - 1
    PROVE  (q * u + k) \div u = q /\ (q * u + k) % u = k
<1>1. (u * q + k) \div u = q /\ (u * q + k) % u = k BY SMT
<1>2. u * q = q * u BY SMT
<1> QED BY <1>1, <1>2

LEMMA MulMono ==
    ASSUME NEW u \in Nat, NEW q \in Int, NEW t \in Int, q <= t
    PROVE  q * u <= t * u
  BY SMT

LEMMA MulStrict ==
    ASSUME NEW u \in Nat, u > 0, NEW q \in Int, NEW t \in Int, q * u < t * u
    PROVE  q < t
<1> SUFFICES ASSUME ~(q < t) PROVE FALSE OBVIOUS
<1>1. t <= q OBVIOUS
<1>2. t * u <= q * u BY <1>1, MulMono
<1>3. q * u \in Int /\ t * u \in Int OBVIOUS
<1> QED BY <1>2, <1>3

LEMMA DivBound ==
    ASSUME NEW u \in Nat, u > 0, NEW x \in Nat, NEW q \in Nat
    PROVE  /\ x < q * u => (x \div u) < q
           /\ x >= q * u => (x \div u) >= q
<1>1. PICK k \in Nat : k = x \div u BY DivFact
<1>2. PICK r \in 0 .. u - 1 : r = x % u BY DivFact
<1>3. x = k * u + r BY <1>1, <1>2, DivFact
<1>4. k * u \in Int /\ q * u \in Int /\ (k + 1) * u = k * u + u BY SMT
<1>5. ASSUME x < q * u PROVE k < q
  <2>1. k * u < q * u BY <1>3, <1>4, <1>5
  <2> QED BY <2>1, MulStrict
<1>6. ASSUME x >= q * u PROVE k >= q
  <2>1. q * u < (k + 1) * u BY <1>3, <1>4, <1>6
  <2>2. q < k + 1 BY <2>1, MulStrict
  <2> QED BY <2>2
<1> QED BY <1>1, <1>5, <1>6

LEMMA DivShift ==
    ASSUME NEW u \in Nat, u > 0, NEW b \in Nat, NEW x \in Nat
    PROVE  ((b * u + x) \div u) = b + (x \div u) /\ (b * u + x) % u = x % u
<1>1. PICK k \in Nat : k = x \div u BY DivFact
<1>2. PICK r \in 0 .. u - 1 : r = x % u BY DivFact
<1>3. x = k * u + r BY <1>1, <1>2, DivFact
<1>4. b * u + (k * u + r) = (b + k) * u + r BY SMT
<1>5. b + k \in Nat OBVIOUS
<1>6. ((b + k) * u + r) \div u = b + k /\ ((b + k) * u + r) % u = r BY <1>5, DivOf
<1> QED BY <1>1, <1>2, <1>3, <1>4, <1>6

\* The window in pages: pages b .. b + c - 1 of the m pages of the address space.
LEMMA WindowFact ==
    \E b, c, m \in Nat :
      /\ FB_WINDOW_BASE = b * PAGE_SIZE_2M /\ FB_WINDOW_BASE \div PAGE_SIZE_2M = b
      /\ FB_WINDOW_SIZE = c * PAGE_SIZE_2M /\ FB_WINDOW_SIZE \div PAGE_SIZE_2M = c
      /\ ADDRESS_SPACE = m * PAGE_SIZE_2M /\ ADDRESS_SPACE \div PAGE_SIZE_2M = m
      /\ b + c <= m
<1>1. PAGE_SIZE_2M \in Nat /\ PAGE_SIZE_2M > 0
  <2>1. PAGE_SIZE_2M \in Nat \ {0} BY ApertureAssumption, Zenon
  <2> QED BY <2>1
<1>2. /\ ADDRESS_SPACE \in Nat /\ FB_WINDOW_BASE \in Nat /\ FB_WINDOW_SIZE \in Nat
      /\ FB_WINDOW_BASE + FB_WINDOW_SIZE <= ADDRESS_SPACE
      /\ ADDRESS_SPACE % PAGE_SIZE_2M = 0 /\ FB_WINDOW_BASE % PAGE_SIZE_2M = 0
      /\ FB_WINDOW_SIZE % PAGE_SIZE_2M = 0
  BY ApertureAssumption, Zenon
<1>3. \A n \in Nat : n % PAGE_SIZE_2M = 0 => \E q \in Nat : n = q * PAGE_SIZE_2M /\ n \div PAGE_SIZE_2M = q
  <2>1. ASSUME NEW n \in Nat, n % PAGE_SIZE_2M = 0
        PROVE  \E q \in Nat : n = q * PAGE_SIZE_2M /\ n \div PAGE_SIZE_2M = q
    <3>1. PICK q \in Nat : q = n \div PAGE_SIZE_2M BY <1>1, DivFact
    <3>2. n = q * PAGE_SIZE_2M + 0 BY <1>1, <2>1, <3>1, DivFact
    <3>3. q * PAGE_SIZE_2M \in Nat BY <1>1
    <3> QED BY <3>1, <3>2, <3>3
  <2> QED BY <2>1
<1>4. PICK b \in Nat : FB_WINDOW_BASE = b * PAGE_SIZE_2M /\ FB_WINDOW_BASE \div PAGE_SIZE_2M = b
  BY <1>2, <1>3
<1>5. PICK c \in Nat : FB_WINDOW_SIZE = c * PAGE_SIZE_2M /\ FB_WINDOW_SIZE \div PAGE_SIZE_2M = c
  BY <1>2, <1>3
<1>6. PICK m \in Nat : ADDRESS_SPACE = m * PAGE_SIZE_2M /\ ADDRESS_SPACE \div PAGE_SIZE_2M = m
  BY <1>2, <1>3
<1>7. b + c <= m
  <2>1. (b + c) * PAGE_SIZE_2M = b * PAGE_SIZE_2M + c * PAGE_SIZE_2M BY <1>1, SMT
  <2>2. (m + 1) * PAGE_SIZE_2M = m * PAGE_SIZE_2M + PAGE_SIZE_2M BY <1>1, SMT
  <2>3. b * PAGE_SIZE_2M \in Int /\ c * PAGE_SIZE_2M \in Int /\ m * PAGE_SIZE_2M \in Int BY <1>1
  <2>4. b * PAGE_SIZE_2M + c * PAGE_SIZE_2M <= m * PAGE_SIZE_2M
    BY <1>2, <1>4, <1>5, <1>6
  <2>5. (b + c) * PAGE_SIZE_2M < (m + 1) * PAGE_SIZE_2M BY <1>1, <2>1, <2>2, <2>3, <2>4
  <2>6. b + c < m + 1 BY <1>1, <2>5, MulStrict
  <2> QED BY <2>6
<1> QED BY <1>4, <1>5, <1>6, <1>7

BootInv == multiboot \in Multiboots /\ (display_available => Usable(multiboot))

LEMMA ApertureFact == BootInv => ApertureReachesFramebuffer
<1> SUFFICES ASSUME BootInv, display_available PROVE ApertureReachesFramebuffer
  BY DEF ApertureReachesFramebuffer
<1>1. PICK u : u = PAGE_SIZE_2M OBVIOUS
<1>2. u \in Nat /\ u > 0
  <2>1. PAGE_SIZE_2M \in Nat \ {0} BY ApertureAssumption, Zenon
  <2> QED BY <1>1, <2>1
<1>3. PICK b \in Nat, c \in Nat, m \in Nat :
        /\ FB_WINDOW_BASE = b * u /\ FB_WINDOW_BASE \div u = b
        /\ FB_WINDOW_SIZE = c * u /\ FB_WINDOW_SIZE \div u = c
        /\ ADDRESS_SPACE = m * u /\ ADDRESS_SPACE \div u = m
        /\ b + c <= m
  BY <1>1, WindowFact
<1>4. PICK mb : mb = multiboot OBVIOUS
<1>5. mb.addr \in Nat /\ mb.pitch \in Nat /\ mb.pae \in BOOLEAN
  <2>1. mb \in Multiboots BY <1>4 DEF BootInv
  <2> QED BY <2>1, ApertureAssumption, Zenon
<1>6. PICK n : n = Bytes(mb) OBVIOUS
<1>7. n \in Nat BY <1>5, <1>6, Dims DEF Bytes
<1>8. Usable(mb) BY <1>4 DEF BootInv
<1>9. PICK ident : ident = [k \in 0 .. m - 1 |-> k] OBVIOUS
<1>10. uefi_build_identity_map = ident BY <1>1, <1>3, <1>9 DEF uefi_build_identity_map
<1>11. \A x \in Nat : x < m * u => /\ (x \div u) \in 0 .. m - 1 /\ (x \div u) \in Nat
                                   /\ x = (x \div u) * u + (x % u)
  <2>1. ASSUME NEW x \in Nat, x < m * u
        PROVE  /\ (x \div u) \in 0 .. m - 1 /\ (x \div u) \in Nat
               /\ x = (x \div u) * u + (x % u)
    <3>1. x \div u < m BY <1>2, <2>1, DivBound
    <3>2. (x \div u) \in Nat BY <1>2, DivFact
    <3> QED BY <1>2, <3>1, <3>2, DivFact
  <2> QED BY <2>1
<1>12. CASE ~mb.pae
  <2>1. PICK map : map = uefi_page_directories OBVIOUS
  <2>2. map = ident BY <1>4, <1>10, <1>12, <2>1 DEF uefi_page_directories
  <2>3. \A x \in 0 .. m * u - 1 : map[x \div u] * u + (x % u) = x
    <3>1. ASSUME NEW x \in 0 .. m * u - 1 PROVE map[x \div u] * u + (x % u) = x
      <4>1. m * u \in Nat BY <1>2
      <4>2. x \in Nat /\ x < m * u BY <4>1
      <4>3. (x \div u) \in 0 .. m - 1 /\ x = (x \div u) * u + (x % u) BY <1>11, <4>2
      <4>4. map[x \div u] = x \div u BY <1>9, <2>2, <4>3
      <4> QED BY <4>3, <4>4
    <3> QED BY <3>1
  <2>4. rootdisplay_physical_framebuffer = mb.addr
    BY <1>4, <1>12 DEF rootdisplay_physical_framebuffer
  <2>5. mb.addr + n - 1 < m * u BY <1>3, <1>6, <1>8, <1>12 DEF Usable, LastByte
  <2>6. ASSUME NEW i \in 0 .. n - 1 PROVE mb.addr + i \in 0 .. m * u - 1
    <3>1. m * u \in Nat BY <1>2
    <3> QED BY <1>5, <1>7, <2>5, <3>1
  <2> QED BY <1>1, <1>3, <1>4, <1>6, <2>1, <2>3, <2>4, <2>6 DEF ApertureReachesFramebuffer
<1>13. CASE mb.pae
  <2>1. PICK q \in Nat : q = mb.addr \div u BY <1>2, <1>5, DivFact
  <2>2. PICK r \in 0 .. u - 1 : r = mb.addr % u BY <1>2, <1>5, DivFact
  <2>3. mb.addr = q * u + r BY <1>2, <1>5, <2>1, <2>2, DivFact
  <2>4. PICK w : w = WindowPages(mb) OBVIOUS
  <2>5. w = (r + n + u - 1) \div u BY <1>1, <1>6, <2>2, <2>4 DEF WindowPages
  <2>6. r + n + u - 1 \in Nat BY <1>2, <1>7
  <2>7. w \in Nat BY <1>2, <2>5, <2>6, DivFact
  <2>8. w <= c BY <1>1, <1>3, <1>8, <1>13, <2>4 DEF Usable, WindowFits
  <2>9. PICK map : map = uefi_page_directories OBVIOUS
  <2>10. map = [k \in 0 .. m - 1 |-> IF k \in b .. b + w - 1 THEN q + (k - b) ELSE k]
    <3>1. map = uefi_install_framebuffer_window(ident, mb)
      BY <1>4, <1>10, <1>13, <2>9 DEF uefi_page_directories
    <3> QED BY <1>1, <1>3, <1>9, <2>1, <2>4, <3>1 DEF uefi_install_framebuffer_window
  <2>11. rootdisplay_physical_framebuffer = b * u + r
    BY <1>1, <1>3, <1>4, <1>13, <2>2 DEF rootdisplay_physical_framebuffer
  <2>12. ASSUME NEW i \in 0 .. n - 1
         PROVE  map[(b * u + r + i) \div u] * u + ((b * u + r + i) % u) = mb.addr + i
    <3>1. PICK x \in Nat : x = r + i BY <1>7
    <3>2. PICK k \in Nat : k = x \div u BY <1>2, <3>1, DivFact
    <3>3. PICK s \in 0 .. u - 1 : s = x % u BY <1>2, <3>1, DivFact
    <3>4. x = k * u + s BY <1>2, <3>2, <3>3, DivFact
    <3>5. b * u + r + i = b * u + x
      <4>1. b * u \in Int BY <1>2
      <4> QED BY <3>1, <4>1
    <3>6. ((b * u + x) \div u) = b + k /\ (b * u + x) % u = s BY <1>2, <3>2, <3>3, DivShift
    <3>7. k < w
      <4>1. r + n + u - 1 >= x + u BY <1>2, <1>7, <3>1
      <4>2. (k + 1) * u = k * u + u BY <1>2, SMT
      <4>3. k * u \in Int BY <1>2
      <4>4. r + n + u - 1 >= (k + 1) * u BY <1>2, <1>7, <3>4, <4>1, <4>2, <4>3
      <4>5. k + 1 \in Nat OBVIOUS
      <4>6. w >= k + 1 BY <1>2, <2>5, <2>6, <4>4, <4>5, DivBound
      <4> QED BY <2>7, <4>6
    <3>8. b + k \in 0 .. m - 1 /\ b + k \in b .. b + w - 1 BY <1>3, <2>7, <2>8, <3>7
    <3>9. map[b + k] = q + k
      <4>1. map[b + k] = q + ((b + k) - b) BY <2>10, <3>8
      <4> QED BY <4>1
    <3>10. (q + k) * u + s = q * u + (k * u + s) BY <1>2, SMT
    <3>11. q * u + x = mb.addr + i
      <4>1. q * u \in Int BY <1>2
      <4> QED BY <2>3, <3>1, <4>1
    <3> QED BY <3>4, <3>5, <3>6, <3>9, <3>10, <3>11
  <2>13. ASSUME NEW x \in (0 .. m * u - 1) \ (b * u .. b * u + c * u - 1)
         PROVE  map[x \div u] * u + (x % u) = x
    <3>1. m * u \in Nat /\ b * u \in Nat /\ c * u \in Nat BY <1>2
    <3>2. x \in Nat /\ x < m * u BY <3>1
    <3>3. PICK k : k = x \div u OBVIOUS
    <3>4. k \in 0 .. m - 1 /\ k \in Nat /\ x = k * u + (x % u) BY <1>11, <3>2, <3>3
    <3>5. (b + c) * u = b * u + c * u BY <1>2, SMT
    <3>6. CASE x < b * u
      <4>1. k < b BY <1>2, <3>2, <3>3, <3>6, DivBound
      <4>2. k \notin b .. b + w - 1 BY <3>4, <4>1
      <4> QED BY <2>10, <3>3, <3>4, <4>2
    <3>7. CASE x >= (b + c) * u
      <4>1. b + c \in Nat OBVIOUS
      <4>2. k >= b + c BY <1>2, <3>2, <3>3, <3>7, <4>1, DivBound
      <4>3. k \notin b .. b + w - 1 BY <2>7, <2>8, <3>4, <4>2
      <4> QED BY <2>10, <3>3, <3>4, <4>3
    <3> QED BY <3>1, <3>2, <3>5, <3>6, <3>7
  <2>14. \A i \in 0 .. n - 1 :
           map[(rootdisplay_physical_framebuffer + i) \div u] * u
             + ((rootdisplay_physical_framebuffer + i) % u) = mb.addr + i
    BY <2>11, <2>12
  <2> QED BY <1>1, <1>3, <1>4, <1>6, <2>9, <2>13, <2>14 DEF ApertureReachesFramebuffer
<1> QED BY <1>5, <1>12, <1>13

LEMMA BootNext == BootInv /\ [DisplayNext]_displayVars => BootInv'
<1> SUFFICES ASSUME BootInv, [DisplayNext]_displayVars PROVE BootInv'
  OBVIOUS
<1>1. SUFFICES UNCHANGED bootVars BY <1>1 DEF BootInv, bootVars
<1>2. \A e, D : Present(e, D) => UNCHANGED bootVars BY DEF Present
<1>3. CASE Painting
  <2>1. CASE \E r \in Rects, c \in Colors : rootdisplay_fill_rect(r, c)
    BY <1>2, <2>1, Zenon DEF rootdisplay_fill_rect, Draws
  <2>2. CASE \E r \in Rects : rootdisplay_invert_rect(r)
    BY <1>2, <2>2, Zenon DEF rootdisplay_invert_rect, Draws
  <2>3. CASE \E r \in Rects, c \in Colors, opaque \in BOOLEAN :
               rootdisplay_draw_mono_bitmap(r, {<<0, 0>>}, c, 0, opaque)
    BY <1>2, <2>3, Zenon DEF rootdisplay_draw_mono_bitmap, Draws
  <2>4. CASE \E p \in Pixel, c \in Colors : rootdisplay_put_pixel(p[1], p[2], c)
    BY <1>2, <2>4, Zenon DEF rootdisplay_put_pixel
  <2>5. CASE \E c \in Colors : rootdisplay_clear(c)
    BY <1>2, <2>5, Zenon DEF rootdisplay_clear, rootdisplay_fill_rect, Draws
  <2> QED BY <1>3, <2>1, <2>2, <2>3, <2>4, <2>5, Zenon DEF Painting
<1>4. CASE Scroll
  BY <1>2, <1>4, Zenon DEF Scroll, rootdisplay_scroll_up, rootdisplay_shift_vertical, Draws
<1>5. CASE Pointer \/ rootdisplay_begin_update \/ rootdisplay_end_update
  BY <1>2, <1>5, Zenon DEF Pointer, rootdisplay_cursor_enable, rootdisplay_cursor_move,
     rootdisplay_begin_update, rootdisplay_end_update
<1>6. CASE UNCHANGED displayVars BY <1>6, Zenon DEF displayVars
<1> QED BY <1>3, <1>4, <1>5, <1>6, Zenon DEF DisplayNext, Headless

\* Whatever framebuffer the boot loader reports and rootdisplay_init accepts,
\* every byte of it is reached at the address the renderer is given, and every
\* address outside the aperture still means itself
\* (uefi_install_framebuffer_window over uefi_build_identity_map).
THEOREM ApertureAlwaysReaches == DisplaySpec => []ApertureReachesFramebuffer
<1>1. DisplayInit => BootInv BY DEF DisplayInit, BootInv
<1>2. DisplaySpec => []BootInv BY <1>1, BootNext, PTL DEF DisplaySpec
<1> QED BY <1>2, ApertureFact, PTL
===============================================================================
