---------------------------- MODULE AtomicObject ----------------------------
(***************************************************************************)
(* What Copper promises about one state file: at any moment every reader   *)
(* and every restart sees one whole version of the object.  A save drafts  *)
(* a new version from a whole version it has seen, and later installs it   *)
(* in one step or abandons it.  The promise stops there: a draft may be    *)
(* out of date when it is installed, and then the later save wins for      *)
(* every key, not only for the keys it names.                              *)
(*                                                                         *)
(* Installed versions reach the disk later and in order; a loss of power   *)
(* takes the object back to the version the disk has.                      *)
(***************************************************************************)
EXTENDS JsonObject

CONSTANTS
    Client,    \* the threads that save
    Patches,   \* the bodies of their saves
    Edits,     \* what a person leaves in the file with a text editor
    None       \* the client has no draft

VARIABLES
    object,    \* the content of the file
    durable,   \* the content that a loss of power leaves
    legacy,    \* the content of the file of older versions, read only
    draft      \* the version each client is about to install

vars == <<object, durable, legacy, draft>>

Init ==
    /\ object \in Content
    /\ durable = object
    /\ legacy \in Content
    /\ draft = [c \in Client |-> None]

Begin(c) ==
    /\ draft[c] = None
    /\ \E patch \in Patches,
          base \in {ReadObject(object), ReadOrLegacy(object, legacy)} :
         draft' = [draft EXCEPT ![c] = MergeObject(base, patch)]
    /\ UNCHANGED <<object, durable, legacy>>

Install(c) ==
    /\ draft[c] # None
    /\ object' = draft[c]
    /\ draft' = [draft EXCEPT ![c] = None]
    /\ UNCHANGED <<durable, legacy>>

\* An error, or the end of the clients' process.
Abandon(clients) ==
    /\ draft' = [c \in Client |-> IF c \in clients THEN None ELSE draft[c]]
    /\ UNCHANGED <<object, durable, legacy>>

Settle ==
    /\ durable' = object
    /\ UNCHANGED <<object, legacy, draft>>

PowerLoss ==
    /\ object' = durable
    /\ draft' = [c \in Client |-> None]
    /\ UNCHANGED <<durable, legacy>>

Edit ==
    /\ object' \in Edits
    /\ durable' = object'
    /\ UNCHANGED <<legacy, draft>>

Next ==
    \/ \E c \in Client : Begin(c) \/ Install(c)
    \/ \E clients \in SUBSET Client : Abandon(clients)
    \/ Settle
    \/ PowerLoss
    \/ Edit

Spec == Init /\ [][Next]_vars
=============================================================================
