--------------------------------- MODULE Key ---------------------------------
(***************************************************************************)
(* The push button driver (driver/key.c): a pin interrupt that switches    *)
(* between the two edges, a 50 ms timer that debounces the release and a   *)
(* 5 s timer that detects a long press.                                    *)
(*                                                                         *)
(* The pin moves, and bounces, at any time: also between the instruction   *)
(* of the handler or callback that reads or disarms it and the one that    *)
(* arms the interrupt again.  The interrupt preempts a timer callback.     *)
(***************************************************************************)
EXTENDS Integers

CONSTANT MaxPresses     \* bound: falling edges of the pin

ASSUME KeyAssumption == MaxPresses \in Nat \ {0}

VARIABLES
    pin,        \* the level of the pin; 0 while the button is down
    intr,       \* the edge that interrupts: "NEGEDGE", "POSEDGE" or "DISABLE"
    status,     \* the pin's bit in GPIO_STATUS
    key_level,  \* single_key->key_level
    handler,    \* key_intr_handler is between its two accesses to the interrupt type
    key_5s,     \* the 5 s timer is armed
    key_50ms,   \* the 50 ms timer is armed
    cb,         \* what key_50ms_cb has read of the pin: 0 or 1, or -1 while it does not run
    presses,    \* history: falling edges of the pin
    shorts,     \* history: calls of short_press
    longs       \* history: calls of long_press

keyVars == <<pin, intr, status, key_level, handler, key_5s, key_50ms, cb, presses, shorts, longs>>

\* key_init, with the button up.
KeyInit ==
    /\ pin = 1
    /\ intr = "NEGEDGE"
    /\ status = FALSE
    /\ key_level = 1
    /\ handler = FALSE
    /\ key_5s = FALSE
    /\ key_50ms = FALSE
    /\ cb = -1
    /\ presses = 0
    /\ shorts = 0
    /\ longs = 0

-----------------------------------------------------------------------------

\* The pin changes.  The GPIO unit latches an edge of the type it waits for.
PinFalls ==
    /\ pin = 1
    /\ presses < MaxPresses
    /\ pin' = 0
    /\ presses' = presses + 1
    /\ status' = (status \/ intr = "NEGEDGE")
    /\ UNCHANGED <<intr, key_level, handler, key_5s, key_50ms, cb, shorts, longs>>

PinRises ==
    /\ pin = 0
    /\ pin' = 1
    /\ status' = (status \/ intr = "POSEDGE")
    /\ UNCHANGED <<intr, key_level, handler, key_5s, key_50ms, cb, presses, shorts, longs>>

\* key_intr_handler disables the pin's interrupt and clears its status ...
InterruptBegins ==
    /\ status
    /\ ~handler
    /\ handler' = TRUE
    /\ intr' = "DISABLE"
    /\ status' = FALSE
    /\ UNCHANGED <<pin, key_level, key_5s, key_50ms, cb, presses, shorts, longs>>

\* ... and then, by the level it believes the key to have, waits for the
\* release with the 5 s timer running,
AwaitRelease == intr' = "POSEDGE"

HandlePress ==
    /\ handler
    /\ key_level = 1
    /\ handler' = FALSE
    /\ key_5s' = TRUE
    /\ key_level' = 0
    /\ AwaitRelease
    /\ UNCHANGED <<pin, status, key_50ms, cb, presses, shorts, longs>>

\* or starts the 50 ms timer and leaves the interrupt disabled until then.
HandleRelease ==
    /\ handler
    /\ key_level = 0
    /\ handler' = FALSE
    /\ key_50ms' = TRUE
    /\ UNCHANGED <<pin, intr, status, key_level, key_5s, cb, presses, shorts, longs>>

\* Both timers fire once.  Mutant: the 5 s timer repeats.
Mut_OneShot == key_5s' = key_5s
OneShot == key_5s' = FALSE

\* key_5s_cb: a button that is down now has been pressed long.
key_5s_cb ==
    /\ key_5s
    /\ ~handler
    /\ cb = -1
    /\ OneShot
    /\ longs' = IF pin = 0 THEN longs + 1 ELSE longs
    /\ UNCHANGED <<pin, intr, status, key_level, handler, key_50ms, cb, presses, shorts>>

\* key_50ms_cb reads the pin ...
DebounceReads ==
    /\ key_50ms
    /\ ~handler
    /\ cb = -1
    /\ key_50ms' = FALSE
    /\ cb' = pin
    /\ UNCHANGED <<pin, intr, status, key_level, handler, key_5s, presses, shorts, longs>>

\* ... and a key that is up is released: the press is no longer timed, and
\* short_press is called.
StopTiming == key_5s' = FALSE

DebounceUp ==
    /\ cb = 1
    /\ ~handler
    /\ cb' = -1
    /\ StopTiming
    /\ key_level' = 1
    /\ intr' = "NEGEDGE"
    /\ shorts' = shorts + 1
    /\ UNCHANGED <<pin, status, handler, key_50ms, presses, longs>>

\* One that is down has bounced.
DebounceDown ==
    /\ cb = 0
    /\ ~handler
    /\ cb' = -1
    /\ intr' = "POSEDGE"
    /\ UNCHANGED <<pin, status, key_level, handler, key_5s, key_50ms, presses, shorts, longs>>

KeyStep ==
    \/ InterruptBegins \/ HandlePress \/ HandleRelease
    \/ key_5s_cb \/ DebounceReads \/ DebounceUp \/ DebounceDown

KeyNext == PinFalls \/ PinRises \/ KeyStep

KeySpec == KeyInit /\ [][KeyNext]_keyVars

-----------------------------------------------------------------------------
(* Properties                                                              *)

\* The button never dies: whatever edges are missed, either an interrupt is
\* enabled or the handler, the 50 ms timer or its callback, one of which will
\* enable it, is under way.
KeyAlive == intr = "DISABLE" => handler \/ key_50ms \/ cb # -1

\* Bounces never become presses: however the edges fall between the reads of
\* the pin and the changes of the interrupt type, short_press and long_press
\* are each called at most once for a falling edge of the pin.
PressesCounted == shorts <= presses /\ longs <= presses

\* While a press is timed the driver believes the key to be down, and while
\* it believes the key up it waits for the falling edge and for nothing else.
LevelsAgree ==
    /\ key_level = 1 /\ ~handler => intr = "NEGEDGE"
    /\ key_level = 1 => ~key_5s /\ ~key_50ms /\ cb = -1

\* The key, whatever the bounces: alive, counting presses and not edges, and
\* waiting for the edge that comes next.
KeyInv == KeyAlive /\ PressesCounted /\ LevelsAgree
==============================================================================
