------------------------------ MODULE Keyboard ------------------------------
(***************************************************************************)
(* The keyboard's interrupt up to read_q (kernel/chr_drv/kboard.c): scan   *)
(* codes become the state of the shift, control and lock keys, and         *)
(* characters.  Tty has what happens to the characters.                    *)
(*                                                                         *)
(* Characters are their ASCII codes; key_map and shift_map have the keys   *)
(* of Key only.  A key that is held repeats its code.                      *)
(***************************************************************************)
EXTENDS Naturals, Sequences, SequencesExt, FiniteSetsExt, TLC

CONSTANTS Key,        \* the keys that are used, among those of Base
          MaxDown,    \* keys that are down at a time
          CtrlAlone   \* no key with a prefixed code is used while a control key is down

VARIABLES mode,   \* the bits of mode: 1, 2, 4, 8, 64 and 128
          leds,   \* the lamps that are lit
          e0,     \* the last prefix, 1 for 0xE0 and 2 for 0xE1
          down,   \* the keys that are down
          last,   \* the key whose code came last, and what it sent
          locked  \* history: whether caps lock was pressed an odd number of times

keyVars == <<mode, leds, e0, down, last, locked>>

Init == /\ mode = {} /\ leds = {} /\ e0 = 0
        /\ down = {} /\ last = [key |-> "none", sent |-> <<>>] /\ locked = FALSE

----------------------------------------------------------------------------
\* What the keyboard sends for a key: its code, behind a prefix for the keys that the
\* first keyboards did not have, with bit 7 when it comes up; Pause only when it goes
\* down.
Base == [d |-> 32, five |-> 6, enter |-> 28, slash |-> 53, lshift |-> 42, rshift |-> 54,
         ctrl |-> 29, caps |-> 58, num |-> 69, scroll |-> 70, home |-> 71, pgup |-> 73,
         f1 |-> 59, f11 |-> 87, rctrl |-> 29, greyhome |-> 71, kpslash |-> 53, pause |-> 0]
Extended == {"rctrl", "greyhome", "kpslash"}
Control  == {"ctrl", "rctrl"}

Codes(k, up) ==
    IF k = "pause" THEN IF up = 0 THEN <<225, 29, 69, 225, 157, 197>> ELSE <<>>
    ELSE (IF k \in Extended THEN <<224>> ELSE <<>>) \o <<Base[k] + up>>

----------------------------------------------------------------------------
\* The handler.

\* key_table
Func(code) ==
    CASE code = 29 -> "ctrl"     [] code = 157 -> "unctrl"
      [] code = 42 -> "lshift"   [] code = 170 -> "unlshift"
      [] code = 54 -> "rshift"   [] code = 182 -> "unrshift"
      [] code = 58 -> "caps"     [] code = 186 -> "uncaps"
      [] code = 69 -> "num"      [] code = 70  -> "scroll"
      [] code = 53 -> "minus"
      [] code \in (71 .. 83) \ {74, 78} -> "cursor"
      [] code \in (59 .. 68) \cup {87, 88} -> "func"
      [] code \in ((1 .. 57) \ {56}) \cup {74, 78, 86} -> "self"
      [] OTHER -> "none"

key_map   == (32 :> 100) @@ (6 :> 53) @@ (28 :> 10) @@ (53 :> 47)
shift_map == (32 :> 68) @@ (6 :> 37) @@ (28 :> 10) @@ (53 :> 63)

\* do_self with control looking at one of the two bits only.
SelfLeftOnly(s, code) ==
    LET c == IF s.mode \cap {1, 2} # {} THEN shift_map[code] ELSE key_map[code]
    IN  <<IF 4 \in s.mode /\ c \in 64 .. 125 THEN c % 32 ELSE c>>

\* do_self: capitals with caps lock, and control characters from what lies between
\* 64 and 95 then.
Self(s, code) ==
    LET c     == IF s.mode \cap {1, 2} # {} THEN shift_map[code] ELSE key_map[code]
        upper == IF s.mode \cap {4, 8, 64} # {} /\ c \in 97 .. 125 THEN c - 32 ELSE c
    IN  <<IF s.mode \cap {4, 8} # {} /\ upper \in 64 .. 95 THEN upper - 64 ELSE upper>>

\* cursor: the letters and digits of cur_table and num_table by place.
cur_table == <<72, 65, 53, 32, 68, 71, 67, 32, 89, 66, 54, 50, 51>>
num_table == <<55, 56, 57, 32, 52, 53, 54, 32, 49, 50, 51, 48, 46>>

Cursor(s, code) ==
    LET c == cur_table[code - 70]
    IN  IF s.e0 # 0 \/ 2 \in s.leds THEN (IF c < 57 THEN <<126>> ELSE <<>>) \o <<27, 91, c>>
        ELSE <<num_table[code - 70]>>

\* func: F11 and F12 follow F10.
Fn(code) == <<27, 91, 91, 65 + (IF code - 59 > 9 THEN code - 59 - 18 ELSE code - 59)>>

Toggled(S, x) == IF x \in S THEN S \ {x} ELSE S \cup {x}

Caps(s) == IF 128 \in s.mode THEN s
           ELSE [s EXCEPT !.leds = Toggled(@, 4), !.mode = Toggled(@, 64) \cup {128}]

\* ctrl and unctrl go by the prefix that came last, however long ago.
CtrlBit(s) == IF s.e0 # 0 THEN 8 ELSE 4

Puts(s, cs) == [s EXCEPT !.sent = @ \o cs]

keyboard_handler(s, code) ==
    LET f == Func(code)
    IN  CASE code = 224 -> [s EXCEPT !.e0 = 1]
          [] code = 225 -> [s EXCEPT !.e0 = 2]
          [] f = "lshift"   -> [s EXCEPT !.mode = @ \cup {1}]
          [] f = "unlshift" -> [s EXCEPT !.mode = @ \ {1}]
          [] f = "rshift"   -> [s EXCEPT !.mode = @ \cup {2}]
          [] f = "unrshift" -> [s EXCEPT !.mode = @ \ {2}]
          [] f = "ctrl"     -> [s EXCEPT !.mode = @ \cup {CtrlBit(s)}]
          [] f = "unctrl"   -> [s EXCEPT !.mode = @ \ {CtrlBit(s)}]
          [] f = "caps"     -> Caps(s)
          [] f = "uncaps"   -> [s EXCEPT !.mode = @ \ {128}]
          [] f = "num"      -> [s EXCEPT !.leds = Toggled(@, 2)]
          [] f = "scroll"   -> [s EXCEPT !.leds = Toggled(@, 1)]
          [] f = "minus"    -> Puts(s, IF s.e0 = 1 THEN <<47>> ELSE Self(s, code))
          [] f = "cursor"   -> Puts(s, Cursor(s, code))
          [] f = "func"     -> Puts(s, Fn(code))
          [] f = "self"     -> Puts(s, Self(s, code))
          [] OTHER          -> s

Handles(k, up) ==
    LET s == FoldLeft(keyboard_handler, [mode |-> mode, leds |-> leds, e0 |-> e0, sent |-> <<>>],
                      Codes(k, up))
    IN  /\ mode' = s.mode /\ leds' = s.leds /\ e0' = s.e0
        /\ last' = [key |-> k, sent |-> s.sent]

Prefixed(k) == CtrlAlone /\ k \in Extended \cup {"pause"} => down \cap Control \subseteq {k}
Apart(k)    == CtrlAlone /\ k \in Control => down \cap Control \subseteq {k}

\* A key goes down, or repeats.
Press(k) == /\ Prefixed(k) /\ Apart(k)
            /\ Cardinality(down \cup {k}) <= MaxDown
            /\ down' = down \cup {k}
            /\ locked' = IF k = "caps" /\ k \notin down THEN ~locked ELSE locked
            /\ Handles(k, 0)

Release(k) == /\ k \in down /\ Prefixed(k)
              /\ down' = down \ {k}
              /\ Handles(k, 128)
              /\ UNCHANGED locked

Next == \E k \in Key : Press(k) \/ Release(k)

Spec == Init /\ [][Next]_keyVars

----------------------------------------------------------------------------
\* Properties.
TypeOK == /\ mode \subseteq {1, 2, 4, 8, 64, 128} /\ leds \subseteq {1, 2, 4}
          /\ e0 \in 0 .. 2 /\ down \subseteq Key /\ locked \in BOOLEAN

Shift == down \cap {"lshift", "rshift"} # {}
Ctrl  == down \cap Control # {}

\* What a key means, by the keys that are down and the locks.  The last two are left
\* open behind the first code with a prefix, which is never forgotten.
Meaning(k) ==
    CASE k = "d"        -> <<IF Ctrl THEN 4 ELSE IF Shift \/ locked THEN 68 ELSE 100>>
      [] k = "five"     -> <<IF Shift THEN 37 ELSE 53>>
      [] k = "enter"    -> <<10>>
      [] k = "kpslash"  -> <<47>>
      [] k = "greyhome" -> <<27, 91, 72>>
      [] k = "f1"       -> <<27, 91, 91, 65>>
      [] k = "f11"      -> <<27, 91, 91, 75>>
      [] k = "slash" /\ e0 = 0 -> <<IF Shift THEN 63 ELSE 47>>
      [] k = "home" /\ e0 = 0  -> IF 2 \in leds THEN <<27, 91, 72>> ELSE <<55>>
      [] k \in {"slash", "home"} /\ e0 # 0 -> last.sent
      [] OTHER -> <<>>

\* The bits of mode are the keys that are down, in every order in which they go down,
\* repeat and come up; the lamp and the effect of caps lock change once for each time
\* that it is pressed; and a key sends what it means with them (kboard.c:154-246).
KeysMean == /\ TypeOK
            /\ (1 \in mode) <=> ("lshift" \in down)
            /\ (2 \in mode) <=> ("rshift" \in down)
            /\ (mode \cap {4, 8} # {}) <=> Ctrl
            /\ (128 \in mode) <=> ("caps" \in down)
            /\ (64 \in mode) <=> locked
            /\ (4 \in leds) <=> locked
            /\ last.key \in down => last.sent = Meaning(last.key)
==============================================================================
