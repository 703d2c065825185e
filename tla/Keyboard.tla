------------------------------ MODULE Keyboard ------------------------------
(* The keyboard, src/kernel/shell/keyboard.c: keyboard_handler runs at each *)
(* interrupt, between any two steps of getc, which looks for characters     *)
(* that are held down and that it has not returned yet.                     *)
EXTENDS Integers, Sequences, FiniteSets, FiniteSetsExt

CONSTANTS
  Users,               \* the people at the keyboard: [keys |-> the keys they use,
                       \*   prompt |-> whether they type more slowly than getc scans];
                       \*   a key is [prefix |-> BOOLEAN, code |-> 0 .. 127]
  keyboard_layout_us,  \* the two layouts, [{0, 1} -> [codes -> characters]]
  QueueLength          \* how many bytes the keyboard keeps until they are read

Keys == UNION {u.keys : u \in Users}

ASSUME KeyboardAssumption ==
  /\ \A k \in Keys : k.prefix \in BOOLEAN /\ k.code \in 0 .. 127
  /\ \A s \in {0, 1} : \A k \in Keys : keyboard_layout_us[s][k.code] \in 0 .. 255
  /\ \A u \in Users : u.prompt \in BOOLEAN
  /\ QueueLength \in Nat \ {0}

VARIABLES
  mods, keys, chars,   \* keyboard.mods, .keys and .chars, each as the set that is on
  extended,            \* the handler's static variable
  key_was_pressed,     \* getc's static variable, as a set
  key,                 \* where getc's scan is, an index of its ScanOrder
  got,                 \* the character getc returned, or NONE while it runs
  user,                \* who is at the keyboard
  down,                \* the keys that are held down
  out,                 \* the bytes the keyboard has sent that are not read yet
  fresh                \* the characters pressed and not returned since

handlerVars == <<mods, keys, chars, extended>>
getcVars == <<key_was_pressed, key, got>>
vars == <<mods, keys, chars, extended, key_was_pressed, key, got, user, down, out, fresh>>

NONE == -1
KEY_BACKSPACE == 8
KEY_TAB == 9
KEY_ENTER == 10
KEY_CAPS_LOCK == 58

(* The modifier a key stands for; left and right are one.                  *)
Modifier(code) ==
  CASE code = 56 -> {"ALT"}
    [] code = 29 -> {"CTRL"}
    [] code \in {42, 54} -> {"SHIFT"}
    [] code = 69 -> {"NUM_LOCK"}
    [] code = 70 -> {"SCROLL_LOCK"}
    [] OTHER -> {}

BIT_SET(set, bits, on) == IF on THEN set \cup bits ELSE set \ bits

KEY_CHAR(code, m) == keyboard_layout_us[IF "SHIFT" \in m THEN 1 ELSE 0][code]

(* The character a key stands for: with caps lock a lower case letter is    *)
(* raised (the other branch, for shift, needs a letter the shifted layout   *)
(* does not have).                                                          *)
CharOf(code, m) ==
  LET c == KEY_CHAR(code, m)
  IN  IF "CAPS_LOCK" \in m /\ c \in 97 .. 122
        THEN c + (IF "SHIFT" \in m THEN 32 ELSE -32)
        ELSE c

(* What getc returns of the characters it finds.                           *)
Returned(c) == c \in 32 .. 126 \/ c \in {KEY_ENTER, KEY_BACKSPACE, KEY_TAB}

(* The characters a user's keys can stand for; of chars[] only these are    *)
(* ever on and getc comes upon them in ascending order.                     *)
Chars ==
  [u \in Users |->
     {CharOf(k.code, m) : k \in {k \in u.keys : ~ k.prefix},
                          m \in SUBSET {"SHIFT", "CAPS_LOCK"}}]
ScanOrder ==
  [u \in Users |->
     LET S == {c \in Chars[u] : c < 128}
     IN  [i \in 1 .. Cardinality(S) |-> CHOOSE c \in S : Cardinality({d \in S : d < c}) = i - 1]]

Init ==
  /\ mods = {} /\ keys = {} /\ chars = {} /\ extended = FALSE
  /\ key_was_pressed = {} /\ key = 1 /\ got = NONE
  /\ user \in Users /\ down = {} /\ out = <<>> /\ fresh = {}

-----------------------------------------------------------------------------
(* The keyboard and the person at it.                                      *)

(* "again" tells a repeated make code from the first, "prefixed" that a     *)
(* prefix was sent before; the handler sees neither.                        *)
Bytes(k, make, again) ==
  (IF k.prefix THEN <<[byte |-> "E0"]>> ELSE <<>>)
    \o <<[byte |-> "code", code |-> k.code, make |-> make,
         again |-> again, prefixed |-> k.prefix]>>

(* getc's scan has nothing left to find.                                   *)
Quiescent == got = NONE /\ chars \cap 0 .. 127 = key_was_pressed

Send(bytes) ==
  /\ user.prompt => Quiescent /\ out = <<>>
  /\ Len(out) + Len(bytes) <= QueueLength
  /\ out' = out \o bytes
  /\ UNCHANGED <<handlerVars, getcVars, user, fresh>>

Press(k) ==
  /\ k \notin down
  /\ Send(Bytes(k, TRUE, FALSE))
  /\ down' = down \cup {k}

Repeat(k) ==
  /\ k \in down
  /\ Send(Bytes(k, TRUE, TRUE))
  /\ UNCHANGED down

Release(k) ==
  /\ k \in down
  /\ Send(Bytes(k, FALSE, FALSE))
  /\ down' = down \ {k}

-----------------------------------------------------------------------------
(* keyboard_handler, once for each byte.                                   *)

HandlePrefix(b) ==
  /\ b.byte = "E0"
  /\ extended' = TRUE
  /\ UNCHANGED <<mods, keys, chars>>

(* The keys behind a prefix have names of their own; a modifier among them  *)
(* counts as the plain one.                                                 *)
ExtendedKey(code) ==
  CASE code = 75 -> {155} [] code = 77 -> {157} [] code = 72 -> {152}
    [] code = 80 -> {160} [] code = 83 -> {145} [] OTHER -> {}

ExtendedModifier(code) ==
  IF code = KEY_CAPS_LOCK THEN {"CAPS_LOCK"} ELSE Modifier(code)

HandleExtendedSticks(b) ==
  /\ b.byte = "code" /\ extended
  /\ keys' = BIT_SET(keys, ExtendedKey(b.code), b.make)
  /\ mods' = BIT_SET(mods, ExtendedModifier(b.code), b.make)
  /\ UNCHANGED <<extended, chars>>

HandleExtended(b) ==
  /\ b.byte = "code" /\ extended
  /\ keys' = BIT_SET(keys, ExtendedKey(b.code), b.make)
  /\ mods' = BIT_SET(mods, ExtendedModifier(b.code), b.make)
  /\ extended' = FALSE
  /\ UNCHANGED chars

(* Caps lock is toggled by its make code, the others follow the key.       *)
NewModsToggled(b) ==
  IF b.make THEN SymDiff(mods, IF b.code = KEY_CAPS_LOCK THEN {"CAPS_LOCK"} ELSE Modifier(b.code))
            ELSE mods

NewMods(b) ==
  IF b.code = KEY_CAPS_LOCK /\ b.make
    THEN SymDiff(mods, {"CAPS_LOCK"})
    ELSE BIT_SET(mods, Modifier(b.code), b.make)

HandlePlainKeepsChar(b) ==
  /\ b.byte = "code" /\ ~ extended
  /\ mods' = NewMods(b)
  /\ keys' = BIT_SET(keys, {b.code}, b.make)
  /\ chars' = chars \cup {CharOf(b.code, mods')}
  /\ UNCHANGED extended

HandlePlain(b) ==
  /\ b.byte = "code" /\ ~ extended
  /\ mods' = NewMods(b)
  /\ keys' = BIT_SET(keys, {b.code}, b.make)
  /\ chars' = BIT_SET(chars, {CharOf(b.code, mods')}, b.make)
  /\ UNCHANGED extended

(* The character a byte reports as pressed, for fresh: a repeated make code *)
(* counts if it stands for another character than before.                   *)
Pressed(b, m) ==
  IF b.byte = "E0" \/ b.prefixed \/ ~ b.make THEN {}
  ELSE {c \in {CharOf(b.code, m)} : Returned(c) /\ (~ b.again \/ c \notin chars)}

keyboard_handler ==
  /\ out # <<>>
  /\ HandlePrefix(Head(out)) \/ HandleExtended(Head(out)) \/ HandlePlain(Head(out))
  /\ out' = Tail(out)
  /\ fresh' = fresh \cup Pressed(Head(out), mods')
  /\ UNCHANGED <<getcVars, user, down>>

-----------------------------------------------------------------------------
(* getc, one key of its scan at a time.                                    *)

NextKeyShort == key' = IF key >= Len(ScanOrder[user]) - 1 THEN 1 ELSE key + 1

NextKey == key' = IF key = Len(ScanOrder[user]) THEN 1 ELSE key + 1

FindPressedForgets(c) ==
  /\ c \in chars /\ c \notin key_was_pressed
  /\ IF Returned(c)
       THEN got' = c /\ fresh' = fresh \ {c} /\ UNCHANGED <<key, key_was_pressed>>
       ELSE NextKey /\ key_was_pressed' = key_was_pressed \cup {c} /\ UNCHANGED <<got, fresh>>

FindPressed(c) ==
  /\ c \in chars /\ c \notin key_was_pressed
  /\ key_was_pressed' = key_was_pressed \cup {c}
  /\ IF Returned(c)
       THEN got' = c /\ fresh' = fresh \ {c} /\ UNCHANGED key
       ELSE NextKey /\ UNCHANGED <<got, fresh>>

FindReleased(c) ==
  /\ c \notin chars /\ c \in key_was_pressed
  /\ key_was_pressed' = key_was_pressed \ {c}
  /\ NextKey
  /\ UNCHANGED <<got, fresh>>

FindNothing(c) ==
  /\ c \in chars <=> c \in key_was_pressed
  /\ NextKey
  /\ UNCHANGED <<got, fresh, key_was_pressed>>

getc ==
  /\ got = NONE
  /\ LET c == ScanOrder[user][key] IN FindPressed(c) \/ FindReleased(c) \/ FindNothing(c)
  /\ UNCHANGED <<handlerVars, user, down, out>>

(* The caller takes the character and calls getc again.                    *)
CallAgain ==
  /\ got # NONE
  /\ got' = NONE /\ key' = 1
  /\ UNCHANGED <<handlerVars, key_was_pressed, user, down, out, fresh>>

Next ==
  \/ \E k \in user.keys : Press(k) \/ Repeat(k) \/ Release(k)
  \/ keyboard_handler
  \/ getc
  \/ CallAgain

(* The interrupt is taken while it is enabled, which it is from kernel_main *)
(* on, and between interrupts the processor runs the shell.                 *)
Spec == Init /\ [][Next]_vars /\ WF_vars(keyboard_handler)
             /\ WF_vars(getc) /\ WF_vars(CallAgain)

-----------------------------------------------------------------------------
(* getc returns a character only if a key that stands for it was pressed    *)
(* since the last time it returned it: holding a key, or an interrupt in    *)
(* the middle of the scan, repeats nothing (keyboard.c:359-375).            *)
NoPhantomChar == [][got' \in {got, NONE} \/ got' \in fresh]_vars

(* Once the bytes are read the shift modifier is on exactly when the shift  *)
(* key is held down, with one such key (keyboard.c:253-266).                *)
ShiftFollowsKey ==
  out = <<>> =>
    ("SHIFT" \in mods <=> \E k \in down : ~ k.prefix /\ k.code \in {42, 54})

(* When keys come slowly no press is lost: when the scan has nothing left   *)
(* to find, every character pressed was returned (keyboard.c:212-276,       *)
(* 359-375).                                                                *)
NoLostPress == user.prompt /\ out = <<>> /\ Quiescent => fresh = {}

(* When keys come slowly, then with all keys up, their bytes read and       *)
(* nothing left for the scan to find, getc has reverted its record of every *)
(* key: "if not pressed, revert key to false" (keyboard.c:371-374).         *)
RevertedWhenUp ==
  user.prompt /\ down = {} /\ out = <<>> /\ Quiescent => key_was_pressed = {}

(* When keys come slowly, every press is returned by getc in the end.       *)
EveryPressReturned == user.prompt /\ fresh # {} ~> fresh = {}
=============================================================================
