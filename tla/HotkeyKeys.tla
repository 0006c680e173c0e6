----------------------------- MODULE HotkeyKeys -----------------------------
(***************************************************************************)
(* The way of a hotkey from the keyboard to its registration: the page     *)
(* captures a key with its modifiers as a name (controls.js), the daemon   *)
(* parses the name into modifiers and a virtual key of Windows             *)
(* (hotkey.rs).  A name is a sequence of its parts here.                   *)
(*                                                                         *)
(* External: the names a browser gives to keys, what they are in lower     *)
(* case, their codes, and the virtual key a key has on an American         *)
(* keyboard.                                                               *)
(***************************************************************************)
EXTENDS Naturals, Sequences, SequencesExt

CONSTANTS
    Keys,        \* names of keys in KeyboardEvent.key
    MaxDowns     \* bound on the keys pressed in the field

Modifiers == {"ctrl", "alt", "shift", "meta"}
ModifierKeys == [Control |-> "ctrl", Alt |-> "alt", Shift |-> "shift", Meta |-> "meta"]

OtherKeys == {"a", "A", "7", ".", "+", " ", "Enter", "Escape", "Delete", "PageUp", "ArrowUp",
              "ScrollLock", "CapsLock", "F1", "F12", "F24", "Find"}

\* name in lower case, code of a key of one character, virtual key; 0: none.
KeyTable == [key \in OtherKeys |->
    CASE key \in {"a", "A"} -> <<"a", 97, 65>>
      [] key = "7" -> <<"7", 55, 55>>
      [] key = "." -> <<".", 46, 190>>
      [] key = "+" -> <<"+", 43, 187>>
      [] key = " " -> <<"space", 32, 32>>
      [] key = "Enter" -> <<"enter", 0, 13>>
      [] key = "Escape" -> <<"esc", 0, 27>>
      [] key = "Delete" -> <<"delete", 0, 46>>
      [] key = "PageUp" -> <<"page_up", 0, 33>>
      [] key = "ArrowUp" -> <<"arrow_up", 0, 38>>
      [] key = "ScrollLock" -> <<"scroll_lock", 0, 145>>
      [] key = "CapsLock" -> <<"capslock", 0, 20>>
      [] key = "F1" -> <<"f1", 0, 112>>
      [] key = "F12" -> <<"f12", 0, 123>>
      [] key = "F24" -> <<"f24", 0, 135>>
      [] key = "Find" -> <<"find", 0, 0>>]

HotkeyKeysAssumption ==
    /\ Keys \subseteq OtherKeys \cup DOMAIN ModifierKeys
    /\ MaxDowns \in Nat

VARIABLES
    value,    \* the hotkey in the field, <<>> when it is cleared
    down,     \* history: the keys that were down when it was captured
    downs

vars == <<value, down, downs>>

NoKey == [modifiers |-> {}, key |-> "none"]

\* A modifier key that is down is one of the modifiers of its own event.
Events ==
    {e \in [modifiers : SUBSET Modifiers, key : Keys] :
        e.key \in DOMAIN ModifierKeys => ModifierKeys[e.key] \in e.modifiers}
-----------------------------------------------------------------------------
(* normalizeHotkeyEvent.                                                   *)

NormalizeKey(key) ==
    IF key \in DOMAIN ModifierKeys THEN ModifierKeys[key] ELSE KeyTable[key][1]

Push(condition, part) == IF condition THEN <<part>> ELSE <<>>

NormalizeHotkeyEvent(e) ==
    Push("ctrl" \in e.modifiers, "ctrl") \o Push("alt" \in e.modifiers, "alt")
        \o Push("shift" \in e.modifiers, "shift") \o Push("meta" \in e.modifiers, "meta")
        \o Push(e.key \notin DOMAIN ModifierKeys, NormalizeKey(e.key))
-----------------------------------------------------------------------------
(* parse_hotkey.                                                           *)

NamedKeys ==
    [scroll_lock |-> 145, caps_lock |-> 20, num_lock |-> 144, space |-> 32,
     enter |-> 13, tab |-> 9, esc |-> 27, escape |-> 27, backspace |-> 8,
     delete |-> 46, insert |-> 45, home |-> 36, end |-> 35, page_up |-> 33,
     page_down |-> 34, arrow_left |-> 37, arrow_up |-> 38, arrow_right |-> 39,
     arrow_down |-> 40]

\* "f" and a number from 1 to 24.
FunctionKeys == [f1 |-> 1, f12 |-> 12, f24 |-> 24]

Entry(name) == CHOOSE e \in {KeyTable[key] : key \in OtherKeys} : e[1] = name

\* The virtual key, had the character been taken as it is.
KeyToVk_AsTyped(name) ==
    CASE name \in DOMAIN NamedKeys -> NamedKeys[name]
      [] name \notin DOMAIN NamedKeys /\ Entry(name)[2] # 0 -> Entry(name)[2]
      [] name \in DOMAIN FunctionKeys -> 112 + FunctionKeys[name] - 1
      [] OTHER -> 0

\* The code of a character in upper case is taken for its virtual key; 0: not
\* supported.
KeyToVk(name) ==
    LET code == Entry(name)[2]
    IN  CASE name \in DOMAIN NamedKeys -> NamedKeys[name]
          [] name \notin DOMAIN NamedKeys /\ code # 0 ->
                IF code \in 97..122 THEN code - 32 ELSE code
          [] name \in DOMAIN FunctionKeys -> 112 + FunctionKeys[name] - 1
          [] OTHER -> 0

\* The parts between "+": a "+" of its own leaves nothing.  The modifiers are
\* gathered, of other keys the last one counts.
ParseHotkey(name) ==
    LET parts == {i \in DOMAIN name : name[i] # "+"}
        keys == {i \in parts : name[i] \notin Modifiers}
        last == CHOOSE i \in keys : \A j \in keys : j <= i
    IN  [modifiers |-> {name[i] : i \in parts} \cap Modifiers,
         vk |-> IF keys = {} THEN 0 ELSE KeyToVk(name[last])]

IsSupported(name) == ParseHotkey(name).vk # 0
-----------------------------------------------------------------------------
Init ==
    /\ value = <<"scroll_lock">>
    /\ down = [modifiers |-> {}, key |-> "ScrollLock"]
    /\ downs = 0

\* keydown in the field: each replaces the one before.
KeyDown(e) ==
    /\ downs < MaxDowns /\ downs' = downs + 1
    /\ value' = NormalizeHotkeyEvent(e)
    /\ down' = e

Clear ==
    /\ downs < MaxDowns /\ downs' = downs + 1
    /\ value' = <<>>
    /\ down' = NoKey

Next == Clear \/ \E e \in Events : KeyDown(e)

Spec == Init /\ [][Next]_vars
-----------------------------------------------------------------------------
\* What is captured names the modifiers that were down and at most one key,
\* which comes last.
TypeOK ==
    /\ ToSet(value) \cap Modifiers = down.modifiers
    /\ \A i \in 1 .. Len(value) - 1 : value[i] \in Modifiers

\* Characters that are neither letters nor digits nor the space.
Marks == {key \in OtherKeys : LET code == KeyTable[key][2]
                              IN  code \notin {0, 32} \cup 48..57 \cup 97..122}

\* The hotkey that is registered for a name, if the name is supported, has the
\* modifiers that were down and the key that was pressed in the field, for
\* every key but a mark: of a mark, the key whose virtual key is the mark's code
\* ("." registers Delete), and "+" is never supported.
RegistersThePressedKey ==
    IsSupported(value) =>
        /\ ParseHotkey(value).modifiers = down.modifiers
        /\ ParseHotkey(value).vk =
                IF down.key \in Marks THEN KeyTable[down.key][2] ELSE KeyTable[down.key][3]
        /\ down.key # "+"

\* The manifest of safe-input-key calls the setting the "Key or combo registered
\* by the Copper daemon on Windows".
HotkeyIsThePressedKey == IsSupported(value) => ParseHotkey(value).vk = KeyTable[down.key][3]
=============================================================================
