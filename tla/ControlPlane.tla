---------------------------- MODULE ControlPlane ----------------------------
(***************************************************************************)
(* The token of the control plane (control_plane.rs): a daemon takes the   *)
(* one in auth.json or makes one and writes it there, its clients read the *)
(* file and send what it says (daemon_transport.rs).                       *)
(*                                                                         *)
(* The file is written in place: it is empty, then it holds a part of the  *)
(* text, then all of it, and others read it meanwhile.  A daemon may end   *)
(* between any two steps.  Daemons with several addresses share the file.  *)
(***************************************************************************)
EXTENDS Naturals

CONSTANTS
    Daemons, Clients,
    Tokens,      \* random tokens: each is generated once
    Absent,      \* no file, no token
    Torn,        \* a file that is empty or was cut off
    MaxStarts    \* bound on the starts of daemons

ControlPlaneAssumption ==
    /\ {Absent, Torn} \cap Tokens = {} /\ Absent # Torn
    /\ MaxStarts \in Nat

VARIABLES
    file,      \* auth.json
    pc,        \* where each daemon is
    token,     \* ControlPlaneAuth.token of each daemon
    used,      \* tokens that were generated
    starts,
    client,    \* where each client is
    target,    \* the daemon it asks
    sent,      \* the token it read, or Absent
    reply      \* "none", "ok", "unauthorized", "damaged", "refused"

daemonVars == <<pc, token, used, starts>>
clientVars == <<client, target, sent, reply>>
vars == <<file, daemonVars, clientVars>>

Replies == {"none", "ok", "unauthorized", "damaged", "refused"}
-----------------------------------------------------------------------------
Init ==
    /\ file \in {Absent, Torn}
    /\ pc = [d \in Daemons |-> "off"]
    /\ token = [d \in Daemons |-> Absent]
    /\ used = {} /\ starts = 0
    /\ client = [c \in Clients |-> "idle"]
    /\ target \in [Clients -> Daemons]
    /\ sent = [c \in Clients |-> Absent]
    /\ reply = [c \in Clients |-> "none"]
-----------------------------------------------------------------------------
(* ensure_persisted.                                                       *)

Goto(d, l) == pc' = [pc EXCEPT ![d] = l]

\* A daemon has its port; another with the same address cannot start.
Start(d) ==
    /\ pc[d] = "off" /\ starts < MaxStarts
    /\ starts' = starts + 1
    /\ Goto(d, "exists")
    /\ UNCHANGED <<file, token, used, clientVars>>

FileExists(d) ==
    /\ pc[d] = "exists"
    /\ Goto(d, IF file = Absent THEN "generate" ELSE "read")
    /\ UNCHANGED <<file, token, used, starts, clientVars>>

\* A text that does not parse is replaced; a file that cannot be read ends the
\* start.
ReadSaved(d) ==
    /\ pc[d] = "read"
    /\ \/ /\ file \in Tokens
          /\ Goto(d, "serving") /\ token' = [token EXCEPT ![d] = file]
       \/ file \notin Tokens /\ Goto(d, "generate") /\ UNCHANGED token
       \/ Goto(d, "off") /\ UNCHANGED token
    /\ UNCHANGED <<file, used, starts, clientVars>>

\* A new token, had it not been written where there is a file.
Generate_KeepsFile(d) ==
    \E t \in Tokens \ used :
        /\ pc[d] = "generate"
        /\ Goto(d, IF file = Absent THEN "truncate" ELSE "serving")
        /\ token' = [token EXCEPT ![d] = t] /\ used' = used \cup {t}
        /\ UNCHANGED <<file, starts, clientVars>>

Generate(d) ==
    \E t \in Tokens \ used :
        /\ pc[d] = "generate"
        /\ Goto(d, "truncate")
        /\ token' = [token EXCEPT ![d] = t] /\ used' = used \cup {t}
        /\ UNCHANGED <<file, starts, clientVars>>

\* persist: fs::write creates the file or empties it, then writes the text.
Truncate(d) ==
    /\ pc[d] = "truncate"
    /\ Goto(d, "write")
    /\ file' = Torn
    /\ UNCHANGED <<token, used, starts, clientVars>>

\* The write fails, as on a full disk: the daemon does not start.
Write(d) ==
    /\ pc[d] = "write"
    /\ \/ Goto(d, "serving") /\ file' = token[d]
       \/ Goto(d, "off") /\ UNCHANGED file
    /\ UNCHANGED <<token, used, starts, clientVars>>

\* A shutdown, an error of the start, or the end of the process.
Stop(d) ==
    /\ pc[d] # "off"
    /\ Goto(d, "off")
    /\ UNCHANGED <<file, token, used, starts, clientVars>>
-----------------------------------------------------------------------------
(* send_request and the check of handle_http_request.                      *)

ClientGoto(c, l) == client' = [client EXCEPT ![c] = l]
Answer(c, r) == reply' = [reply EXCEPT ![c] = r]

LookForToken(c) ==
    /\ client[c] = "idle"
    /\ ClientGoto(c, IF file = Absent THEN "send" ELSE "read")
    /\ UNCHANGED <<file, daemonVars, target, sent, reply>>

\* A file that is torn or cannot be read ends the request.
LoadToken(c) ==
    /\ client[c] = "read"
    /\ \/ /\ file \in Tokens
          /\ ClientGoto(c, "send") /\ sent' = [sent EXCEPT ![c] = file] /\ UNCHANGED reply
       \/ ClientGoto(c, "done") /\ Answer(c, "damaged") /\ UNCHANGED sent
    /\ UNCHANGED <<file, daemonVars, target>>

\* A daemon that is not serving yet has its port already: the request waits.
Send(c) ==
    /\ client[c] = "send"
    /\ IF pc[target[c]] = "off"
       THEN ClientGoto(c, "done") /\ Answer(c, "refused")
       ELSE ClientGoto(c, "queued") /\ UNCHANGED reply
    /\ UNCHANGED <<file, daemonVars, target, sent>>

\* The connection of a queued request ends with its daemon.
Serve(c) ==
    /\ client[c] = "queued" /\ pc[target[c]] \in {"serving", "off"}
    /\ ClientGoto(c, "done")
    /\ Answer(c, IF pc[target[c]] = "off" THEN "refused"
                 ELSE IF sent[c] = token[target[c]] THEN "ok" ELSE "unauthorized")
    /\ UNCHANGED <<file, daemonVars, target, sent>>
-----------------------------------------------------------------------------
DaemonStep(d) ==
    Start(d) \/ FileExists(d) \/ ReadSaved(d) \/ Generate(d) \/ Truncate(d) \/ Write(d) \/ Stop(d)
ClientStep(c) == LookForToken(c) \/ LoadToken(c) \/ Send(c) \/ Serve(c)

Next == (\E d \in Daemons : DaemonStep(d)) \/ (\E c \in Clients : ClientStep(c))

Spec == Init /\ [][Next]_vars
-----------------------------------------------------------------------------
\* Types, and a daemon has a token of its own from the moment it generates or
\* reads one.
TypeOK ==
    /\ file \in Tokens \cup {Absent, Torn}
    /\ \A d \in Daemons :
        /\ pc[d] \in {"off", "exists", "read", "generate", "truncate", "write", "serving"}
        /\ token[d] \in used \cup {Absent}
        /\ pc[d] \in {"truncate", "write", "serving"} => token[d] # Absent
    /\ \A c \in Clients : reply[c] \in Replies /\ sent[c] \in used \cup {Absent}

\* While a daemon serves, the file has the token it asks for, however many
\* starts ended in the middle of a write before.
TokenIsOnDisk == \A d \in Daemons : pc[d] = "serving" => file = token[d]

\* A request with the token the file had is not refused as unauthorized, though
\* the daemon may have ended and started again since the client read it.  Only
\* a client that came before there was any file is.
\* (docs/ARCHITECTURE.md: the daemon requires the token it has generated.)
TokenIsAccepted == \A c \in Clients : reply[c] = "unauthorized" => sent[c] = Absent
=============================================================================
