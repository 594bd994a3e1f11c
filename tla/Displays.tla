--------------------------------- MODULE Displays ---------------------------------
(* Single colour LEDs on a pin or a pin group, the seven segment LED whose      *)
(* hardware decodes a digit, and the segment display whose driver does, under   *)
(* the LED API. A call on a pin group takes its lock, accesses it and gives the *)
(* lock back; either may fail.                                                  *)
EXTENDS DeviceBus, SequencesExt

CONSTANT LedConf   \* the LEDs and displays

(* Callers ask for strings of bytes. *)
LedDevs == {"pin_led", "group_led"}
DisplayDevs == {"seven", "segment"}
ASSUME LedConfAssumption ==
  \A c \in LedConf :
    /\ c.dev \in LedDevs \cup DisplayDevs
    /\ c.dev \in DisplayDevs => c.strings \subseteq Seq(0..255)

(* conf.on and conf.off are the levels of a LED, off -1 where the configuration *)
(* has none; conf.nodes are the entries of a display's map in the order of the  *)
(* file, conf.strings what callers ask it to show, a character as its code.     *)
(* Nothing initialises what the driver of a display wrote last.                 *)
LedInit ==
  /\ conf \in LedConf
  /\ chip \in [shown : conf.levels, lit : {0, 1}]
  /\ drv \in [last : conf.levels]
  /\ out = NoCall
  /\ seen = [text |-> <<>>, state |-> "unknown"]

OnLed == \E d \in LedDevs : On(d)
OnDisplay == \E d \in DisplayDevs : On(d)

WriteLevel(s, v) == LET locked == Access(s, s) IN Access(locked, [locked EXCEPT !.chip.shown = v])
ReadLevel(s) == LET locked == Access(s, s) IN Access(locked, locked)

(* What the caller of a command that succeeds may count on, and after one that *)
(* fails.                                                                      *)
Shows(text, state) == [seen EXCEPT !.text = text, !.state = state]
Commanded(call, s, text, state) == Finish(call, s, 0, IF s.ok THEN Shows(text, state) ELSE seen)

--------------------------------------------------------------------------------
(* LEDs. *)

LedOn == \E n \in Fails :
  /\ OnLed
  /\ Commanded("led_on", IF Is("pin_led") THEN Access(Begin(n), [Begin(n) EXCEPT !.chip.shown = 1])
                       ELSE WriteLevel(Begin(n), conf.on), <<>>, "on")

LedOff == \E n \in Fails :
  /\ OnLed
  /\ IF Is("group_led") /\ conf.off = -1 THEN Refuse("led_off", "unsupported")
     ELSE Commanded("led_off", IF Is("pin_led") THEN Access(Begin(n), [Begin(n) EXCEPT !.chip.shown = 0])
                             ELSE WriteLevel(Begin(n), conf.off), <<>>, "off")

--------------------------------------------------------------------------------
(* Displays. *)

Char(digit) == IF digit < 10 THEN 48 + digit ELSE 55 + digit
HexValue(c) == CASE c \in 48..57 -> c - 48 [] c \in 65..70 -> c - 55 [] OTHER -> c - 87
IsDisplayStringValid(c) == c \in (48..57) \cup (65..70) \cup (97..102)

(* The map of the driver: every character is dark unless an entry names it, and *)
(* the last entry of a character counts.                                        *)
MapSize == 256
CharMap(c) ==
  LET entries == {i \in 1..Len(conf.nodes) : conf.nodes[i].input = c}
  IN IF entries = {} \/ c >= MapSize THEN conf.off ELSE conf.nodes[Max(entries)].output

(* The first character with the pattern, or a question mark. *)
Parsed(level) ==
  LET chars == {c \in 0..(MapSize - 1) : CharMap(c) = level}
  IN IF chars = {} THEN 63 ELSE Min(chars)

(* The first digit of the level in hexadecimal. *)
FirstDigit(level) == Char(IF level < 16 THEN level ELSE level \div 16)

Pattern(c) == IF Is("seven") THEN HexValue(c) ELSE CharMap(c)

DisplayRefuses(text) == Len(text) # 1 \/ (Is("seven") /\ ~IsDisplayStringValid(text[1]))

(* Mutant: what the driver remembers is what it was asked for. *)
RememberAsked(s, v) == [s EXCEPT !.drv.last = v]

Remember(s, v) == Then(s, [s EXCEPT !.drv.last = v])

DisplaySet == OnDisplay /\ \E n \in Fails, text \in conf.strings :
  IF DisplayRefuses(text) THEN Refuse("display_set", "invalid")
  ELSE LET s == WriteLevel(Begin(n), Pattern(text[1]))
       IN Commanded("display_set", IF Is("segment") THEN Remember(s, Pattern(text[1])) ELSE s, text,
                  IF Is("segment") THEN "on" ELSE seen.state)

DisplayGet == OnDisplay /\ \E n \in Fails :
  Finish("display_get", ReadLevel(Begin(n)),
         IF Is("seven") THEN FirstDigit(chip.shown) ELSE Parsed(chip.shown), seen)

(* The seven segment LED is switched by a pin of its own. *)
SwitchPin(s, level) == Access(s, [s EXCEPT !.chip.lit = level])

DisplayOn == OnDisplay /\ \E n \in Fails :
  Commanded("display_on", IF Is("seven") THEN SwitchPin(Begin(n), 1)
                        ELSE WriteLevel(Begin(n), drv.last), seen.text, "on")

DisplayOff == OnDisplay /\ \E n \in Fails :
  Commanded("display_off", IF Is("seven") THEN SwitchPin(Begin(n), 0)
                         ELSE WriteLevel(Begin(n), conf.off), seen.text, "off")

Lit(reg) == IF Is("seven") THEN reg.lit = 1 ELSE reg.shown # conf.off

DisplayGetState == OnDisplay /\ \E n \in Fails :
  Finish("display_state", IF Is("seven") THEN Access(Begin(n), Begin(n)) ELSE ReadLevel(Begin(n)),
         IF Lit(chip) THEN 1 ELSE 0, seen)

(* A call on a resource of another type. *)
LedApiRefuses == (OnLed \/ OnDisplay) /\ Refuse("led", "not_a_led")

LedNext == LedOn \/ LedOff \/ DisplaySet \/ DisplayGet \/ DisplayOn \/ DisplayOff
           \/ DisplayGetState \/ LedApiRefuses

--------------------------------------------------------------------------------
(* Properties. *)

ADisplay == \E d \in DisplayDevs : Is(d)

(* A display that was told to show a text and, since, was switched on and off   *)
(* any number of times shows that text whenever it is on: commands that failed  *)
(* in between before they reached the pins, and the texts they asked for, leave *)
(* no trace, in the driver's memory of the last text either.                    *)
TextStands ==
  ADisplay /\ seen.text # <<>> /\ seen.state = "on" => chip.shown = Pattern(seen.text[1])

(* What display_get delivers reads, on that display, like the text it shows:  *)
(* the search through the map, or the formatting of the digit, is the inverse *)
(* of set.                                                                    *)
GetTellsText ==
  ADisplay /\ out.call = "display_get" /\ out.res = "ok" /\ seen.text # <<>> /\ seen.state = "on"
    => Pattern(out.val) = Pattern(seen.text[1])

(* The state that is delivered is that of the last switch that succeeded, *)
(* unless the text itself is dark on this display.                        *)
Dark == Is("segment") /\ (seen.text = <<>> \/ Pattern(seen.text[1]) = conf.off)
StateTold ==
  ADisplay /\ out.call = "display_state" /\ out.res = "ok" =>
    /\ seen.state = "off" => out.val = 0
    /\ seen.state = "on" /\ ~Dark => out.val = 1

(* The driver's memory of the last text, the pins and what the calls deliver *)
(* agree, through any order of set, on, off and failing commands.            *)
DisplayShows == TextStands /\ GetTellsText /\ StateTold
================================================================================
