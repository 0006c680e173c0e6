----------------------------- MODULE SafeInput -----------------------------
(***************************************************************************)
(* The extension safe-input-key (main.ts) on the host's keychain and       *)
(* keyboard calls (api/secure_store.rs, api/keyboard.rs): a text is saved  *)
(* in the keychain, typed at the cursor, or cleared.                       *)
(*                                                                         *)
(* A run is started by the settings page, by the command line, each in a   *)
(* process or thread of its own, or by the daemon, which serves the hotkey *)
(* and all other requests one after the other.  Each call of the host is a *)
(* step, but for typing, which sends one character at a time.              *)
(*                                                                         *)
(* External: the keychain of the system, which may be locked, and the      *)
(* input queue that all typed characters go to.                            *)
(***************************************************************************)
EXTENDS Naturals, Sequences, FiniteSets

CONSTANTS
    Texts,
    Runs,
    Surfaces,    \* who starts runs: some of "page", "cli", "daemon"
    Length,      \* characters of a text
    MaxLocks     \* how often the keychain is locked or unlocked

NoText == "none"

SafeInputAssumption ==
    /\ Surfaces \subseteq {"page", "cli", "daemon"}
    /\ Length \in Nat \ {0} /\ MaxLocks \in Nat /\ NoText \notin Texts

VARIABLES
    setting,     \* the text saved in config.json
    keychain,    \* the text in the keychain
    available,   \* the keychain can be reached
    locks,       \* how often that has changed
    pc,          \* where each run is
    via,         \* what has started it
    text,        \* the text it works on
    told,        \* what it notified the user of
    typed,       \* history: the characters sent, and by which run
    held         \* history: for each run, what the keychain held meanwhile

run == <<pc, via, text, told>>
vars == <<setting, keychain, available, locks, run, typed, held>>

TextOrNone == Texts \cup {NoText}
-----------------------------------------------------------------------------
Init ==
    /\ setting \in TextOrNone /\ keychain \in TextOrNone
    /\ available \in BOOLEAN /\ locks = 0
    /\ pc = [r \in Runs |-> "idle"] /\ via = [r \in Runs |-> "nobody"]
    /\ text = [r \in Runs |-> NoText] /\ told = [r \in Runs |-> "nothing"]
    /\ typed = <<>> /\ held = [r \in Runs |-> {}]

Goto(r, l) == pc' = [pc EXCEPT ![r] = l]
Tell(r, notice) == told' = [told EXCEPT ![r] = notice] /\ Goto(r, "done")
Active(r) == pc[r] \notin {"idle", "done"}

\* What the keychain holds next, with the history of the runs under way.
Keep(new) ==
    /\ keychain' = new
    /\ held' = [r \in Runs |-> IF Active(r) THEN held[r] \cup {new} ELSE held[r]]
-----------------------------------------------------------------------------
(* The start of a run.                                                     *)

\* The page sends the saved settings, the command line what the user typed, the
\* daemon nothing.
Inputs(surface) ==
    CASE surface = "page" -> {setting}
      [] surface = "cli" -> TextOrNone
      [] surface = "daemon" -> {NoText}

MayStart(surface) ==
    /\ surface \in Surfaces
    /\ surface = "daemon" => \A r \in Runs : ~(via[r] = "daemon" /\ Active(r))

\* A request to save nothing ends here.
Begin(r, surface) ==
    /\ pc[r] = "idle" /\ MayStart(surface)
    /\ via' = [via EXCEPT ![r] = surface]
    /\ held' = [held EXCEPT ![r] = {keychain}]
    /\ \E input \in Inputs(surface) :
        /\ text' = [text EXCEPT ![r] = input]
        /\ \/ Goto(r, "get") /\ UNCHANGED told
           \/ Goto(r, "delete") /\ UNCHANGED told
           \/ input # NoText /\ Goto(r, "set") /\ UNCHANGED told
           \/ input = NoText /\ Tell(r, "provide a text")
    /\ UNCHANGED <<setting, keychain, available, locks, typed>>
-----------------------------------------------------------------------------
(* The calls.                                                              *)

\* The text read, had the one that came with the request been preferred.
Get_InputFirst(r) ==
    LET found == IF text[r] # NoText THEN text[r]
                 ELSE IF available THEN keychain ELSE NoText
    IN  /\ pc[r] = "get"
        /\ text' = [text EXCEPT ![r] = found]
        /\ IF found = NoText THEN Tell(r, "no text saved")
           ELSE Goto(r, "type") /\ UNCHANGED told
        /\ UNCHANGED <<setting, keychain, available, locks, via, typed, held>>

Get(r) ==
    LET found == IF available THEN keychain ELSE NoText
    IN  /\ pc[r] = "get"
        /\ text' = [text EXCEPT ![r] = found]
        /\ IF found = NoText THEN Tell(r, "no text saved")
           ELSE Goto(r, "type") /\ UNCHANGED told
        /\ UNCHANGED <<setting, keychain, available, locks, via, typed, held>>

\* How many characters a run has sent.
TypedBy(r) == Cardinality({i \in DOMAIN typed : typed[i].by = r})

\* One character goes down and up.
TypeUnit(r) ==
    LET n == TypedBy(r) + 1
    IN  /\ pc[r] = "type"
        /\ typed' = Append(typed, [by |-> r, char |-> <<text[r], n>>])
        /\ Goto(r, IF n = Length THEN "done" ELSE "type")
        /\ UNCHANGED <<setting, keychain, available, locks, via, text, told, held>>

\* An error of the keychain is dropped.
Set(r) ==
    /\ pc[r] = "set"
    /\ Keep(IF available THEN text[r] ELSE keychain)
    /\ Tell(r, "saved")
    /\ UNCHANGED <<setting, available, locks, via, text, typed>>

Delete(r) ==
    /\ pc[r] = "delete"
    /\ Keep(IF available THEN NoText ELSE keychain)
    /\ Tell(r, "cleared")
    /\ UNCHANGED <<setting, available, locks, via, text, typed>>
-----------------------------------------------------------------------------
SaveSettings ==
    /\ setting' \in TextOrNone \ {setting}
    /\ UNCHANGED <<keychain, available, locks, run, typed, held>>

Lock ==
    /\ locks < MaxLocks /\ locks' = locks + 1
    /\ available' = ~available
    /\ UNCHANGED <<setting, keychain, run, typed, held>>

Step(r) == Get(r) \/ TypeUnit(r) \/ Set(r) \/ Delete(r)

Next ==
    \/ \E r \in Runs : (\E s \in Surfaces : Begin(r, s)) \/ Step(r)
    \/ SaveSettings \/ Lock

Spec == Init /\ [][Next]_vars
-----------------------------------------------------------------------------
\* Types, and no run sends more than its text.
TypeOK ==
    /\ setting \in TextOrNone /\ keychain \in TextOrNone
    /\ pc \in [Runs -> {"idle", "get", "type", "set", "delete", "done"}]
    /\ text \in [Runs -> TextOrNone]
    /\ \A r \in Runs :
        /\ TypedBy(r) <= Length
        /\ pc[r] = "type" => text[r] # NoText /\ TypedBy(r) < Length

\* Only a text that the keychain held at some time since the run began is
\* typed: never one that was cleared before, and never the text of the settings.
OnlyStoredIsTyped ==
    \A i \in DOMAIN typed : typed[i].char[1] \in held[typed[i].by]

\* A text that no one has cleared or replaced stays in the keychain: a saving
\* that fails leaves the one before.
StaysUntilCleared ==
    [][ keychain # NoText /\ keychain' = NoText
        => \E r \in Runs : pc[r] = "delete" /\ told'[r] = "cleared" ]_vars

\* The daemon serves one request after the other: the texts of two of its runs
\* never mix, whatever other surfaces type between their characters.
DaemonRunsDoNotMix ==
    \A i, j, k \in DOMAIN typed :
        i < j /\ j < k /\ typed[i].by = typed[k].by /\ via[typed[i].by] = "daemon"
            => typed[j].by = typed[i].by \/ via[typed[j].by] # "daemon"

\* manifest.json: "Type the securely stored text at the current cursor
\* position": its characters follow each other.
TypedInOnePiece ==
    \A i \in DOMAIN typed :
        i > 1 /\ typed[i].char[2] > 1 => typed[i - 1].by = typed[i].by

\* main.ts: the user is told "text saved to OS keychain" when the keychain has
\* it.
NoticeIsTrue ==
    [][ \A r \in Runs : told'[r] = "saved" /\ told[r] # "saved" => keychain' = text[r] ]_vars
=============================================================================
