------------------------------ MODULE ExtStore ------------------------------
(***************************************************************************)
(* store.json of one extension: daemon/src/api/store.rs, as dispatch_api   *)
(* of runtime/deno_runner.rs calls it for the extension's runs.            *)
(*                                                                         *)
(* Runs of one extension may overlap: the main thread, the connection      *)
(* handler of the settings UI and the command line each start some.  The   *)
(* extension of the model counts its runs in one key with a get and a set, *)
(* as session-counter does, and notes something in another key without     *)
(* reading it, as desktop-torrent-organizer does.                          *)
(*                                                                         *)
(* A set reads the file, changes the object in memory and writes the file  *)
(* in place: std::fs::write first makes the file empty, then writes the    *)
(* text from its beginning.  No lock, no temporary file.                   *)
(***************************************************************************)
EXTENDS JsonObject, Integers

CONSTANTS
    Runs,        \* threads that run the extension
    Processes,   \* the sets of runs that share a process
    Counter,     \* the key that counts
    Empty,       \* a file without a text
    MaxCount,    \* bound on the counter
    MaxFaults    \* bound on the errors and ends of processes

ExtStoreAssumption ==
    /\ Processes \subseteq SUBSET Runs
    /\ Counter \in Keys
    /\ Values = 1 .. MaxCount /\ MaxCount \in Nat \ {0} /\ MaxFaults \in Nat
    /\ Missing \notin Values /\ {Absent, Bad, Empty} \cap Object = {}
    /\ Empty \notin {Absent, Bad}

VARIABLES
    file,      \* content of store.json
    pc,        \* what each run does next
    key,       \* key of its set
    value,     \* value of its set
    base,      \* object its set has read
    count,     \* what its get returned
    answer,    \* what its latest set returned
    faults,    \* errors and ends of processes so far
    alone,     \* history: no other run's write was open at or after the read
    begun      \* history: sets of the counter that were begun

callVars == <<key, value, base, count>>
vars == <<file, pc, key, value, base, count, answer, faults, alone, begun>>

Init ==
    /\ file = Absent
    /\ pc = [r \in Runs |-> "idle"]
    /\ key = [r \in Runs |-> Counter]
    /\ value = [r \in Runs |-> 1]
    /\ base = [r \in Runs |-> EmptyObject]
    /\ count = [r \in Runs |-> Missing]
    /\ answer = [r \in Runs |-> "none"]
    /\ faults = 0
    /\ alone = [r \in Runs |-> FALSE]
    /\ begun = 0

Goto(r, label) == pc' = [pc EXCEPT ![r] = label]

Fault == faults < MaxFaults /\ faults' = faults + 1

\* `Number((await api.store.get(COUNTER_KEY)) ?? 0)`
Count(x) == IF x = Missing THEN 0 ELSE x

\* What becomes of the other runs' sets when r changes the file.
Disturb(r) == alone' = [o \in Runs |-> o = r /\ alone[r]]

-----------------------------------------------------------------------------

\* store.get: anything that is no object reads as nothing.
Get(r) ==
    /\ pc[r] = "idle"
    /\ count' = [count EXCEPT ![r] = ReadObject(file)[Counter]]
    /\ Goto(r, "counted")
    /\ UNCHANGED <<file, key, value, base, answer, faults, alone, begun>>

\* store.set, first line, had it taken what its run read before.
BeginSet_Cached(r, k, v) ==
    /\ base' = IF base[r] = EmptyObject THEN [base EXCEPT ![r] = ReadObject(file)] ELSE base
    /\ key' = [key EXCEPT ![r] = k]
    /\ value' = [value EXCEPT ![r] = v]
    /\ alone' = [alone EXCEPT ![r] = \A o \in Runs : pc[o] # "write"]
    /\ answer' = [answer EXCEPT ![r] = "none"]
    /\ Goto(r, "open")
    /\ UNCHANGED <<file, count, faults>>

\* store.set: the file is read; what is no object counts as {}.
BeginSet(r, k, v) ==
    /\ base' = [base EXCEPT ![r] = ReadObject(file)]
    /\ key' = [key EXCEPT ![r] = k]
    /\ value' = [value EXCEPT ![r] = v]
    /\ alone' = [alone EXCEPT ![r] = \A o \in Runs : pc[o] # "write"]
    /\ answer' = [answer EXCEPT ![r] = "none"]
    /\ Goto(r, "open")
    /\ UNCHANGED <<file, count, faults>>

\* onTrigger of session-counter: set what was read, plus one.
Increment(r) ==
    /\ pc[r] = "counted"
    /\ Count(count[r]) < MaxCount
    /\ begun < MaxCount
    /\ BeginSet(r, Counter, Count(count[r]) + 1)
    /\ begun' = begun + 1

\* A set without a get.
Note(r) ==
    /\ pc[r] = "idle"
    /\ \E k \in Keys \ {Counter}, v \in {1} : BeginSet(r, k, v)
    /\ UNCHANGED begun

\* The opening, had an existing file been opened only to see that it can be.
Open_Returns(r) ==
    /\ pc[r] = "open"
    /\ file' = Empty
    /\ Disturb(r)
    /\ Goto(r, "idle")
    /\ answer' = [answer EXCEPT ![r] = "ok"]
    /\ UNCHANGED <<callVars, faults, begun>>

\* create_dir_all, and the opening of the file, which makes it empty.
Open(r) ==
    /\ pc[r] = "open"
    /\ \/ /\ file' = Empty
          /\ Disturb(r)
          /\ Goto(r, "write")
          /\ UNCHANGED <<answer, faults>>
       \/ /\ Fault
          /\ answer' = [answer EXCEPT ![r] = "error"]
          /\ Goto(r, "idle")
          /\ UNCHANGED <<file, alone>>
    /\ UNCHANGED <<callVars, begun>>

\* obj.insert
Draft(r) == [base[r] EXCEPT ![key[r]] = value[r]]

\* The text goes over what the file holds by now: nothing, or the text of a
\* run that came in between, the rest of which stays behind it if it is longer.
Write(r) ==
    /\ pc[r] = "write"
    /\ \/ /\ file' \in IF file = Empty THEN {Draft(r)} ELSE {Draft(r), Bad}
          /\ answer' = [answer EXCEPT ![r] = "ok"]
          /\ UNCHANGED faults
       \/ /\ Fault
          /\ file' \in {Empty, Bad}
          /\ answer' = [answer EXCEPT ![r] = "error"]
    /\ Disturb(r)
    /\ Goto(r, "idle")
    /\ UNCHANGED <<callVars, begun>>

\* The process of some runs ends.
Kill(p) ==
    /\ \E r \in p : pc[r] # "idle"
    /\ Fault
    /\ pc' = [r \in Runs |-> IF r \in p THEN "idle" ELSE pc[r]]
    /\ answer' = [r \in Runs |-> IF r \in p THEN "error" ELSE answer[r]]
    /\ UNCHANGED <<file, callVars, alone, begun>>

Next ==
    \/ \E r \in Runs : Get(r) \/ Increment(r) \/ Note(r) \/ Open(r) \/ Write(r)
    \/ \E p \in Processes : Kill(p)

Spec == Init /\ [][Next]_vars

-----------------------------------------------------------------------------
(***************************************************************************)
(* Properties                                                              *)
(***************************************************************************)

\* The variables hold what the code's variables can hold; a file without a text
\* is being written or was left by a fault.
TypeOK ==
    /\ file \in Content \cup {Empty}
    /\ file = Empty => faults > 0 \/ \E r \in Runs : pc[r] = "write"
    /\ pc \in [Runs -> {"idle", "counted", "open", "write"}]
    /\ key \in [Runs -> Keys]
    /\ value \in [Runs -> Values]
    /\ base \in [Runs -> Object]
    /\ count \in [Runs -> Values \cup {Missing}]
    /\ answer \in [Runs -> {"none", "ok", "error"}]
    /\ faults \in 0 .. MaxFaults
    /\ alone \in [Runs -> BOOLEAN]
    /\ begun \in 0 .. MaxCount

\* A set that returns and that no other run crossed changed its key and no
\* other, whatever earlier runs left in the file.
KeepsOthers ==
    \A r \in Runs :
        pc[r] = "write" /\ answer'[r] = "ok" /\ alone[r]
            => file' = [base[r] EXCEPT ![key[r]] = value[r]]
UncrossedSetKeepsOthers == [][KeepsOthers]_vars

\* However runs cross, fail and end, the counter never tells more runs than
\* there were.
NoRunIsCountedTwice == Count(ReadObject(file)[Counter]) <= begun

\* The object behind the store: while a set is between its truncation and its
\* text, what it has read.
Stored ==
    IF \E r \in Runs : pc[r] = "write" /\ file = Empty
    THEN base[CHOOSE r \in Runs : pc[r] = "write"]
    ELSE ReadObject(file)

Store == INSTANCE KeyValueStore WITH map <- Stored

\* With one run at a time the store is a map that an interrupted set can empty.
ImplementsKeyValueStore == Store!Spec

\* "Uses atomic state-file replacement during writes" (docs/ARCHITECTURE.md) and
\* "All state flows through `state_store`": while nobody writes the file, it
\* holds an object.
StoreIsNeverTorn ==
    (\A r \in Runs : pc[r] # "write") => file \in Object \cup {Absent}
=============================================================================
