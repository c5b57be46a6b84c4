-------------------------------- MODULE Timer --------------------------------
(***************************************************************************)
(* The tick counter (drivers/timer/pit.c) and sleeping (kernel/time.c).    *)
(*                                                                         *)
(* The interrupt handler counts in a 64-bit variable that the kernel, on a *)
(* 32-bit processor, reads in two halves, in an order the compiler chose.  *)
(* pit_ticks reads until two readings agree; root_sleep_ms calls it until  *)
(* the time has come, and halts in between.                                *)
(*                                                                         *)
(* Ghosts: since is the count when pit_ticks was called, began the count   *)
(* when the sleep began.                                                   *)
(***************************************************************************)
EXTENDS Integers

CONSTANTS
    HALF,               \* 2^32
    FREQUENCY, SECOND,  \* ticks and milliseconds in a second
    Sleeps,             \* how many milliseconds to sleep
    MaxTicks,           \* bound on the count
    CallTicks           \* bound on the ticks during one pit_ticks

ASSUME TimerAssumption ==
    /\ HALF \in Nat \ {0} /\ FREQUENCY \in Nat \ {0} /\ SECOND \in Nat
    /\ Sleeps \subseteq Nat
    /\ MaxTicks \in Nat
    /\ CallTicks \in Nat /\ CallTicks < HALF

VARIABLES ticks, timer

timerVars == <<ticks, timer>>

Millis(t) == (t * SECOND) \div FREQUENCY

Half(t, half) == IF half = "low" THEN t % HALF ELSE t \div HALF
Whole(r) == r["high"] * HALF + r["low"]
Nothing == [half \in {"low", "high"} |-> 0]
Other(half) == IF half = "low" THEN "high" ELSE "low"

At(pc) == timer.pc = pc /\ UNCHANGED ticks

-----------------------------------------------------------------------------
(* pit_ticks, called with the step to take afterwards.                     *)

Called(t, next) == [t EXCEPT !.pc = "first", !.since = ticks, !.next = next]

\* One half of the variable.
LoadHalf(which, half, pc) ==
    timer' = [timer EXCEPT ![which][half] = Half(ticks, half), !.pc = pc]

FirstReading == At("first") /\ LoadHalf("first", timer.order, "first2")
FirstRest == At("first2") /\ LoadHalf("first", Other(timer.order), "second")
SecondReading == At("second") /\ LoadHalf("second", timer.order, "second2")
SecondRest == At("second2") /\ LoadHalf("second", Other(timer.order), "compare")

\* Mutant: the first reading is taken as it is.
CompareNothing == At("compare") /\ timer' = [timer EXCEPT !.pc = timer.next]

Compare ==
    /\ At("compare")
    /\ timer' = [timer EXCEPT !.pc = IF timer.first = timer.second THEN timer.next ELSE "first"]

-----------------------------------------------------------------------------
(* root_sleep_ms.                                                          *)

root_sleep_ms(ms) ==
    /\ At("idle") /\ ms > 0
    /\ timer' = [Called(timer, "target") EXCEPT !.ms = ms, !.began = ticks]

SetTarget ==
    /\ At("target")
    /\ timer' = [Called(timer, "check") EXCEPT !.target = Millis(Whole(timer.first)) + timer.ms]

CheckTarget ==
    /\ At("check")
    /\ timer' = [timer EXCEPT !.pc = IF Millis(Whole(timer.first)) < timer.target THEN "hlt" ELSE "done"]

Return == At("done") /\ timer' = [timer EXCEPT !.pc = "idle"]

-----------------------------------------------------------------------------
(* The interrupt: it counts, and wakes a processor that halts.             *)

Reading == timer.pc \in {"first", "first2", "second", "second2", "compare"}

pit_irq_handler ==
    /\ ticks < MaxTicks /\ (Reading => ticks - timer.since < CallTicks)
    /\ ticks' = ticks + 1
    /\ timer' = IF timer.pc = "hlt" THEN [timer EXCEPT !.pc = "first", !.since = ticks + 1] ELSE timer

TimerInit ==
    /\ ticks = 0
    /\ \E order \in {"low", "high"} :
         timer = [pc |-> "idle", next |-> "idle", order |-> order, first |-> Nothing,
                  second |-> Nothing, since |-> 0, ms |-> 0, target |-> 0, began |-> 0]

TimerNext ==
    \/ FirstReading \/ FirstRest \/ SecondReading \/ SecondRest \/ Compare
    \/ (\E ms \in Sleeps : root_sleep_ms(ms)) \/ SetTarget \/ CheckTarget \/ Return
    \/ pit_irq_handler

TimerSpec == TimerInit /\ [][TimerNext]_timerVars

-----------------------------------------------------------------------------
(* Properties.                                                             *)

\* root_sleep_ms sleeps at least as long as it was asked to, by the clock of whole
\* milliseconds that it reads: pit_ticks returns a value the counter had during
\* the call, though the handler may count between the loads of any two halves.
SleptLongEnough ==
    /\ timer.pc \in {"target", "check"} => Whole(timer.first) \in timer.since .. ticks
    /\ timer.pc = "done" => Millis(ticks) >= Millis(timer.began) + timer.ms
=============================================================================
