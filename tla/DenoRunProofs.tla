---------------------------- MODULE DenoRunProofs ----------------------------
(***************************************************************************)
(* Proofs about DenoRun, for pipes of every capacity and extensions that   *)
(* call, print, throw and die as they like.  The inductive invariant says  *)
(* which line means what, wherever it is on its way: only calls carry an   *)
(* id, a last line is sent by an extension that has ended, and every       *)
(* answer the host will have to write is counted by the extension.         *)
(***************************************************************************)
EXTENDS DenoRun, FiniteSetTheorems, FunctionTheorems, TLAPS

\* Lines that are answered, and last lines.
Asks(l) == l.kind \in {"call", "stray"}
Ends(l) == l.kind \in {"done", "error"}

\* A line that is no call has the id 0, which no call has.
Anonymous(l) == l.kind # "call" => l.id = 0

\* Nothing is under way before the start, and both pipes are open while the
\* host is in its loop.
Opened ==
    /\ host = "start" => child = "none" /\ ended = "no"
    /\ host \in {"start", "read", "answer"} => result = "none"
    /\ host \in {"read", "answer"} => stdinOpen /\ stdoutOpen /\ child # "none"

\* Whose answer a line is, wherever it is.
Addressed ==
    /\ 0 \notin pending /\ 1 <= nextId
    /\ Anonymous(line) /\ Anonymous(reply)
    /\ \A i \in 1 .. Len(toHost) : Anonymous(toHost[i])
    /\ \A i \in 1 .. Len(toChild) : Anonymous(toChild[i])

\* What the host reads and decides goes back to how the extension ended.
Told ==
    /\ line.kind = "done" => ended = "done"
    /\ line.kind = "error" => ended = "error"
    /\ child = "closing" => ended \in {"done", "error"}
    /\ \A i \in 1 .. Len(toHost) :
        /\ toHost[i].kind = "done" => ended \in {"done", "died"}
        /\ toHost[i].kind = "error" => ended \in {"error", "died"}
        /\ Ends(toHost[i]) => child \in {"closing", "exited"}
    /\ child = "exited" /\ host \in {"read", "answer"} => ended = "died"
    /\ result = "ok" => ended \in {"done", "died"} /\ child \in {"closing", "exited"}

\* The answers owed, with the one the line that is being written will cause,
\* are no more than the extension allows itself.
Bounded == Owed + (IF Asks(line) THEN 1 ELSE 0) <= MaxOutstanding

IInv == TypeOK /\ Opened /\ Addressed /\ Told /\ AnswersMatchCalls

-----------------------------------------------------------------------------
(***************************************************************************)
(* Lines and pipes.                                                        *)
(***************************************************************************)

\* What is taken from a pipe is its first line, and the others keep their order.
LEMMA TakeLine ==
    ASSUME NEW pipe \in Seq(LineType), pipe # <<>>
    PROVE  /\ Len(pipe) \in Nat \ {0} /\ 1 \in 1 .. Len(pipe)
           /\ Head(pipe) = pipe[1] /\ Head(pipe) \in LineType
           /\ Tail(pipe) \in Seq(LineType) /\ Len(Tail(pipe)) = Len(pipe) - 1
           /\ \A i \in 1 .. Len(Tail(pipe)) :
                 i + 1 \in 1 .. Len(pipe) /\ Tail(pipe)[i] = pipe[i + 1]
  OBVIOUS

\* What is written into a pipe is its last line.
LEMMA PutLine ==
    ASSUME NEW pipe \in Seq(LineType), NEW l \in LineType
    PROVE  /\ Append(pipe, l) \in Seq(LineType)
           /\ Len(pipe) \in Nat /\ Len(Append(pipe, l)) = Len(pipe) + 1
           /\ \A i \in 1 .. Len(Append(pipe, l)) :
                 Append(pipe, l)[i] = IF i \in 1 .. Len(pipe) THEN pipe[i] ELSE l
  OBVIOUS

\* The lines the program makes.
LEMMA MadeLines ==
    /\ NoLine \in LineType /\ Anonymous(NoLine) /\ ~Asks(NoLine) /\ ~Ends(NoLine)
    /\ \A kind \in {"done", "error", "noise", "stray", "binary"} :
          Line(kind) \in LineType /\ Line(kind) # NoLine /\ Anonymous(Line(kind))
            /\ Line(kind).kind = kind
    /\ \A id \in Ids :
          CallLine(id) \in LineType /\ CallLine(id) # NoLine /\ Anonymous(CallLine(id))
            /\ CallLine(id).kind = "call"
  BY DenoRunAssumption
  DEF NoLine, Line, CallLine, LineType, LineKinds, Ids, Anonymous, Asks, Ends

-----------------------------------------------------------------------------
(***************************************************************************)
(* The inductive invariant.                                                *)
(***************************************************************************)

LEMMA InitIInv == Init => IInv
  <1> SUFFICES ASSUME Init
               PROVE  IInv
    OBVIOUS
  <1>1. TypeOK
    <2>1. NoLine \in LineType /\ <<>> \in Seq(LineType) /\ Len(<<>>) <= Capacity
      BY DenoRunAssumption, MadeLines
    <2>2. nextId \in 0 .. MaxCalls + 1
      BY DenoRunAssumption DEF Init, FirstId
    <2>3. QED
      BY <2>1, <2>2 DEF Init, TypeOK
  <1>2. Opened /\ Told
    BY DEF Init, Opened, Told, NoLine
  <1>3. Addressed /\ AnswersMatchCalls
    BY MadeLines DEF Init, Addressed, AnswersMatchCalls, FirstId
  <1>4. QED
    BY <1>1, <1>2, <1>3 DEF IInv

LEMMA NextTypeOK == IInv /\ [Next]_vars => TypeOK'
  <1> SUFFICES ASSUME IInv, [Next]_vars
               PROVE  TypeOK'
    OBVIOUS
  <1> USE DenoRunAssumption DEF TypeOK, IInv, hostVars, childVars
  <1>1. CASE Start
    BY <1>1 DEF Start, Opened
  <1>2. CASE StartFails
    BY <1>2 DEF StartFails
  <1>3. CASE ReadLine
    <2>1. /\ Tail(toHost) \in Seq(LineType) /\ Len(Tail(toHost)) <= Capacity
          /\ Head(toHost) \in LineType
      BY <1>3, TakeLine DEF ReadLine
    <2>2. Head(toHost).kind \in {"call", "stray"} => Head(toHost) # NoLine
      BY DEF NoLine
    <2>3. UNCHANGED <<toChild, childVars>> /\ toHost' = Tail(toHost)
      BY <1>3 DEF ReadLine
    <2>4. CASE ReadDone /\ UNCHANGED bridgeFile
      BY <1>3, <2>1, <2>3, <2>4 DEF ReadLine, ReadDone, LeaveLoop
    <2>5. CASE ReadError /\ UNCHANGED bridgeFile
      BY <1>3, <2>1, <2>3, <2>5 DEF ReadLine, ReadError
    <2>6. CASE ReadNoise
      BY <1>3, <2>1, <2>3, <2>6 DEF ReadLine, ReadNoise
    <2>7. CASE ReadBinary
      BY <1>3, <2>1, <2>3, <2>7 DEF ReadLine, ReadBinary
    <2>8. CASE ReadCall
      BY <1>3, <2>1, <2>2, <2>3, <2>8 DEF ReadLine, ReadCall
    <2>9. QED
      BY <1>3, <2>4, <2>5, <2>6, <2>7, <2>8 DEF ReadLine
  <1>4. CASE ReadEof
    BY <1>4 DEF ReadEof, LeaveLoop
  <1>5. CASE WriteReply
    <2>1. Append(toChild, reply) \in Seq(LineType)
            /\ Len(Append(toChild, reply)) = Len(toChild) + 1 /\ Len(toChild) \in Nat
      BY PutLine
    <2>2. NoLine \in LineType
      BY MadeLines
    <2>3. CASE child = "exited"
      BY <1>5, <2>2, <2>3 DEF WriteReply, LeaveLoop
    <2>4. CASE child # "exited"
      <3>1. toChild' \in Seq(LineType) /\ Len(toChild') <= Capacity
        BY <1>5, <2>1, <2>4 DEF WriteReply
      <3>2. QED
        BY <1>5, <2>2, <2>4, <3>1 DEF WriteReply
    <2>5. QED
      BY <2>3, <2>4
  <1>6. CASE WaitReturns
    BY <1>6 DEF WaitReturns
  <1>7. CASE Call
    BY <1>7, MadeLines DEF Call, BeginWrite, Ids, Addressed
  <1>8. ASSUME NEW kind \in Prints, PrintLine(kind)
        PROVE  TypeOK'
    BY <1>8, MadeLines DEF PrintLine, BeginWrite
  <1>9. CASE Finish \/ Throw
    BY <1>9, MadeLines DEF Finish, Throw, BeginWrite
  <1>10. CASE WriteLine
    <2>1. Append(toHost, line) \in Seq(LineType)
            /\ Len(Append(toHost, line)) = Len(toHost) + 1 /\ Len(toHost) \in Nat
      BY PutLine
    <2>2. QED
      BY <1>10, <2>1, MadeLines DEF WriteLine
  <1>11. CASE WriteBroken
    BY <1>11, MadeLines DEF WriteBroken
  <1>12. CASE Receive
    <2>1. Tail(toChild) \in Seq(LineType) /\ Len(Tail(toChild)) <= Capacity
      BY <1>12, TakeLine DEF Receive
    <2>2. pending' \subseteq Ids /\ settled' \in [Ids -> {"none", "own", "foreign"}]
      BY <1>12 DEF Receive
    <2>3. QED
      BY <1>12, <2>1, <2>2 DEF Receive
  <1>13. CASE StdinEof
    BY <1>13 DEF StdinEof
  <1>14. CASE Die
    BY <1>14, MadeLines DEF Die
  <1>15. CASE UNCHANGED vars
    BY <1>15 DEF vars
  <1>16. QED
    BY <1>1, <1>2, <1>3, <1>4, <1>5, <1>6, <1>7, <1>8, <1>9, <1>10, <1>11, <1>12, <1>13,
       <1>14, <1>15
    DEF Next, HostStep, ExtensionStep, BridgeStep

LEMMA NextOpened == IInv /\ [Next]_vars => Opened'
  <1> SUFFICES ASSUME IInv, [Next]_vars
               PROVE  Opened'
    OBVIOUS
  <1> USE DEF Opened, IInv, TypeOK, hostVars, childVars
  <1>1. CASE Start \/ StartFails
    BY <1>1 DEF Start, StartFails
  <1>2. CASE ReadLine
    <2>1. UNCHANGED child /\ stdinOpen /\ stdoutOpen /\ child # "none" /\ result = "none"
      BY <1>2 DEF ReadLine
    <2>2. CASE ReadDone \/ ReadError \/ ReadBinary
      BY <2>2 DEF ReadDone, ReadError, ReadBinary, LeaveLoop
    <2>3. CASE ReadNoise \/ ReadCall
      BY <1>2, <2>1, <2>3 DEF ReadLine, ReadNoise, ReadCall
    <2>4. QED
      BY <1>2, <2>2, <2>3 DEF ReadLine
  <1>3. CASE ReadEof \/ WriteReply \/ WaitReturns
    BY <1>3 DEF ReadEof, WriteReply, WaitReturns, LeaveLoop
  <1>4. CASE ExtensionStep
    BY <1>4 DEF ExtensionStep, Call, PrintLine, Finish, Throw, BeginWrite
  <1>5. CASE WriteLine \/ WriteBroken \/ StdinEof \/ Die
    BY <1>5 DEF WriteLine, WriteBroken, StdinEof, Die
  <1>6. CASE Receive \/ UNCHANGED vars
    BY <1>6 DEF Receive, vars
  <1>7. QED
    BY <1>1, <1>2, <1>3, <1>4, <1>5, <1>6 DEF Next, HostStep, BridgeStep

LEMMA NextAddressed == IInv /\ [Next]_vars => Addressed'
  <1> SUFFICES ASSUME IInv, [Next]_vars
               PROVE  Addressed'
    OBVIOUS
  <1> USE DEF Addressed, hostVars, childVars
  <1> toHost \in Seq(LineType) /\ toChild \in Seq(LineType) /\ line \in LineType
        /\ reply \in LineType /\ nextId \in Nat /\ Addressed
    BY DenoRunAssumption DEF IInv, TypeOK
  <1>1. CASE Start \/ StartFails \/ ReadEof \/ WaitReturns
    BY <1>1 DEF Start, StartFails, ReadEof, WaitReturns, LeaveLoop
  <1>2. CASE ReadLine
    <2>1. UNCHANGED <<toChild, line, nextId, pending>> /\ toHost' = Tail(toHost)
            /\ toHost # <<>>
      BY <1>2 DEF ReadLine
    <2>2. Anonymous(reply)'
      <3>1. reply' \in {reply, Head(toHost)}
        BY <1>2 DEF ReadLine, ReadDone, ReadError, ReadNoise, ReadBinary, ReadCall
      <3>2. Anonymous(Head(toHost))
        BY <2>1, TakeLine
      <3>3. QED
        BY <3>1, <3>2 DEF Anonymous
    <2>3. \A i \in 1 .. Len(toHost') : Anonymous(toHost'[i])
      BY <2>1, TakeLine
    <2>4. QED
      BY <2>1, <2>2, <2>3 DEF Anonymous
  <1>3. CASE WriteReply
    <2>1. UNCHANGED <<toHost, line, nextId, pending>> /\ reply' = NoLine
            /\ (toChild' = toChild \/ toChild' = Append(toChild, reply))
      BY <1>3 DEF WriteReply
    <2>2. \A i \in 1 .. Len(toChild') : Anonymous(toChild'[i])
      BY <2>1, PutLine
    <2>3. QED
      BY <2>1, <2>2, MadeLines DEF Anonymous
  <1>4. CASE Call
    <2>1. nextId \in Ids
      BY <1>4, DenoRunAssumption DEF Call, Ids
    <2>2. /\ UNCHANGED <<reply, toHost, toChild>> /\ line' = CallLine(nextId)
          /\ nextId' = nextId + 1 /\ pending' = pending \cup {nextId}
      BY <1>4 DEF Call, BeginWrite
    <2>3. Anonymous(line)'
      BY <2>1, <2>2, MadeLines DEF Anonymous
    <2>4. QED
      BY <2>2, <2>3 DEF Anonymous
  <1>5. ASSUME NEW kind \in {"noise", "stray", "binary", "done", "error"},
               BeginWrite(Line(kind)), UNCHANGED <<nextId, pending>>
        PROVE  Addressed'
    <2>1. Anonymous(line)'
      BY <1>5, MadeLines DEF BeginWrite, Anonymous
    <2>2. QED
      BY <1>5, <2>1 DEF BeginWrite, Anonymous
  <1>6. CASE WriteLine
    <2>1. UNCHANGED <<toChild, reply, nextId, pending>> /\ line' = NoLine
            /\ toHost' = Append(toHost, line)
      BY <1>6 DEF WriteLine
    <2>2. \A i \in 1 .. Len(toHost') : Anonymous(toHost'[i])
      BY <2>1, PutLine
    <2>3. QED
      BY <2>1, <2>2, MadeLines DEF Anonymous
  <1>7. CASE WriteBroken \/ Die
    BY <1>7, MadeLines DEF WriteBroken, Die, Anonymous
  <1>8. CASE Receive
    <2>1. UNCHANGED <<toHost, reply, line, nextId>> /\ toChild' = Tail(toChild)
            /\ toChild # <<>> /\ pending' \subseteq pending
      BY <1>8 DEF Receive
    <2>2. \A i \in 1 .. Len(toChild') : Anonymous(toChild'[i])
      BY <2>1, TakeLine
    <2>3. QED
      BY <2>1, <2>2 DEF Anonymous
  <1>9. CASE StdinEof \/ UNCHANGED vars
    BY <1>9 DEF StdinEof, vars
  <1>10. QED
    BY <1>1, <1>2, <1>3, <1>4, <1>5, <1>6, <1>7, <1>8, <1>9, DenoRunAssumption
    DEF Next, HostStep, ExtensionStep, BridgeStep, PrintLine, Finish, Throw

LEMMA NextTold == IInv /\ [Next]_vars => Told'
  <1> SUFFICES ASSUME IInv, [Next]_vars
               PROVE  Told'
    OBVIOUS
  <1> USE DEF Told, hostVars, childVars
  <1> toHost \in Seq(LineType) /\ line \in LineType /\ TypeOK /\ Told /\ Opened
    BY DEF IInv, TypeOK
  <1>1. CASE Start
    <2>1. child = "none" /\ ended = "no" /\ result = "none" /\ host = "start"
      BY <1>1 DEF Start, Opened
    <2>2. UNCHANGED <<toHost, line, ended, result>> /\ child' = "running"
      BY <1>1 DEF Start
    <2>3. QED
      BY <2>1, <2>2 DEF Ends
  <1>2. CASE StartFails \/ WaitReturns
    BY <1>2 DEF StartFails, WaitReturns, Ends
  <1>3. CASE ReadLine
    <2>1. /\ toHost' = Tail(toHost) /\ toHost # <<>> /\ UNCHANGED childVars
          /\ host = "read" /\ Head(toHost) = toHost[1] /\ 1 \in 1 .. Len(toHost)
      BY <1>3, TakeLine DEF ReadLine
    <2>2. \A i \in 1 .. Len(toHost') :
             i + 1 \in 1 .. Len(toHost) /\ toHost'[i] = toHost[i + 1]
      BY <2>1, TakeLine
    <2>3. result' = "ok" => Head(toHost).kind = "done"
      BY <1>3 DEF ReadLine, ReadDone, ReadError, ReadNoise, ReadBinary, ReadCall, Opened
    <2>4. host' \in {"read", "answer"} => host \in {"read", "answer"}
      BY <2>1
    <2>5. QED
      BY <2>1, <2>2, <2>3, <2>4 DEF Ends
  <1>4. CASE ReadEof \/ WriteReply
    <2>1. UNCHANGED <<toHost, childVars>>
      BY <1>4 DEF ReadEof, WriteReply
    <2>2. host \in {"read", "answer"} /\ (result' = "ok" => child = "exited")
      BY <1>4 DEF ReadEof, WriteReply, Opened
    <2>3. QED
      BY <2>1, <2>2 DEF Ends
  <1>5. CASE Call \/ \E kind \in Prints : PrintLine(kind)
    <2>1. line' # NoLine /\ line'.kind \in {"call", "noise", "stray", "binary"}
      BY <1>5, DenoRunAssumption DEF Call, PrintLine, BeginWrite, CallLine, Line, NoLine
    <2>2. /\ child = "running" /\ child' = "writing"
          /\ UNCHANGED <<host, result, toHost, ended>>
      BY <1>5 DEF Call, PrintLine, BeginWrite
    <2>3. QED
      BY <2>1, <2>2 DEF Ends
  <1>6. CASE Finish \/ Throw
    <2>1. line'.kind \in {"done", "error"} /\ ended' = line'.kind
      BY <1>6 DEF Finish, Throw, BeginWrite, Line
    <2>2. child = "running" /\ child' = "writing" /\ UNCHANGED <<host, result, toHost>>
      BY <1>6 DEF Finish, Throw, BeginWrite
    <2>3. QED
      BY <2>1, <2>2 DEF Ends
  <1>7. CASE WriteLine
    <2>1. /\ child = "writing" /\ line' = NoLine /\ toHost' = Append(toHost, line)
          /\ child' = IF line.kind \in {"done", "error"} THEN "closing" ELSE "running"
          /\ UNCHANGED <<host, result, ended>>
      BY <1>7 DEF WriteLine
    <2>2. \A i \in 1 .. Len(toHost') :
             toHost'[i] = IF i \in 1 .. Len(toHost) THEN toHost[i] ELSE line
      BY <2>1, PutLine
    <2>3. line'.kind = "none"
      BY <2>1 DEF NoLine
    <2>4. \A i \in 1 .. Len(toHost) : ~Ends(toHost[i])
      BY <2>1
    <2>5. QED
      BY <2>1, <2>2, <2>3, <2>4 DEF Ends
  <1>8. CASE WriteBroken \/ Die \/ StdinEof
    <2>1. /\ child' = "exited" /\ UNCHANGED <<host, result, toHost>>
          /\ line'.kind \notin {"done", "error"}
          /\ child \in {"running", "writing", "closing"}
      BY <1>8 DEF WriteBroken, Die, StdinEof, NoLine, TypeOK
    <2>2. ended' = "died" \/ (ended' = ended /\ host \notin {"read", "answer"})
      BY <1>8 DEF WriteBroken, Die, StdinEof, Opened
    <2>3. QED
      BY <2>1, <2>2 DEF Ends
  <1>9. CASE Receive \/ UNCHANGED vars
    BY <1>9 DEF Receive, vars, Ends
  <1>10. QED
    BY <1>1, <1>2, <1>3, <1>4, <1>5, <1>6, <1>7, <1>8, <1>9
    DEF Next, HostStep, ExtensionStep, BridgeStep

LEMMA NextAnswersMatch == IInv /\ [Next]_vars => AnswersMatchCalls'
  <1> SUFFICES ASSUME IInv, [Next]_vars
               PROVE  AnswersMatchCalls'
    OBVIOUS
  <1>1. CASE Receive
    <2>1. Anonymous(Head(toChild))
      BY <1>1, TakeLine DEF Receive, IInv, TypeOK, Addressed
    <2>2. Head(toChild).id \in pending => Head(toChild).kind = "call"
      BY <2>1 DEF Anonymous, IInv, Addressed
    <2>3. settled \in [Ids -> {"none", "own", "foreign"}] /\ AnswersMatchCalls
      BY DEF IInv, TypeOK
    <2>4. QED
      BY <1>1, <2>2, <2>3 DEF Receive, AnswersMatchCalls
  <1>2. CASE ~Receive
    <2>1. UNCHANGED settled
      BY <1>2
      DEF Next, HostStep, Start, StartFails, ReadLine, ReadEof, WriteReply, WaitReturns,
          ExtensionStep, Call, PrintLine, Finish, Throw, BeginWrite,
          BridgeStep, WriteLine, WriteBroken, StdinEof, Die, vars, childVars
    <2>2. QED
      BY <2>1 DEF IInv, AnswersMatchCalls
  <1>3. QED
    BY <1>1, <1>2

LEMMA NextIInv == IInv /\ [Next]_vars => IInv'
  BY NextTypeOK, NextOpened, NextAddressed, NextTold, NextAnswersMatch DEF IInv

THEOREM Invariance == Spec => []IInv
  BY InitIInv, NextIInv, PTL DEF Spec

\* The variables keep their types: the host has an answer to write exactly while
\* it is about to write one, and no pipe holds more than its capacity.
THEOREM TypeCorrect == Spec => []TypeOK
  BY Invariance, PTL DEF IInv

\* Whatever an extension prints and however many calls it leaves open, no call
\* is settled by an answer that was computed for another line (drive_extension,
\* _rpc, _stdinLoop).
THEOREM AnswersAreOwn == Spec => []AnswersMatchCalls
  BY Invariance, PTL DEF IInv

\* A trigger that is reported as a success ran an extension that ended without
\* throwing, or whose process was killed.
THEOREM Success == Spec => []SuccessIsEarned
  <1>1. IInv => SuccessIsEarned
    BY DEF IInv, Told, SuccessIsEarned
  <1>2. QED
    BY <1>1, Invariance, PTL

-----------------------------------------------------------------------------
(***************************************************************************)
(* The answers owed, and the absence of a deadlock on full pipes.          *)
(***************************************************************************)

\* The places of the lines of a pipe that will be answered.
Asking(pipe) == {i \in 1 .. Len(pipe) : pipe[i].kind \in {"call", "stray"}}

LEMMA AskingFinite ==
    ASSUME NEW pipe \in Seq(LineType)
    PROVE  /\ IsFiniteSet(Asking(pipe))
           /\ Cardinality(Asking(pipe)) \in Nat
  <1>1. IsFiniteSet(1 .. Len(pipe))
    BY FS_Interval
  <1>2. Asking(pipe) \in SUBSET (1 .. Len(pipe))
    BY DEF Asking
  <1>3. QED
    BY <1>1, <1>2, FS_Subset, FS_CardinalityType

\* A line that is written adds one if it is to be answered.
LEMMA AskingPut ==
    ASSUME NEW pipe \in Seq(LineType), NEW l \in LineType
    PROVE  Cardinality(Asking(Append(pipe, l)))
             = Cardinality(Asking(pipe)) + (IF Asks(l) THEN 1 ELSE 0)
  <1> DEFINE n == Len(pipe) + 1
  <1>1. IsFiniteSet(Asking(pipe)) /\ Cardinality(Asking(pipe)) \in Nat
    BY AskingFinite
  <1>2. n \notin Asking(pipe)
    BY PutLine DEF Asking
  <1>3. Asking(Append(pipe, l)) = IF Asks(l) THEN Asking(pipe) \cup {n} ELSE Asking(pipe)
    <2>1. /\ Len(Append(pipe, l)) = n /\ Len(pipe) \in Nat
          /\ \A i \in 1 .. n :
               Append(pipe, l)[i] = IF i \in 1 .. Len(pipe) THEN pipe[i] ELSE l
      BY PutLine
    <2>2. \A i \in 1 .. n : i \in 1 .. Len(pipe) \/ i = n
      BY <2>1
    <2>3. n \in 1 .. n /\ n \notin 1 .. Len(pipe) /\ 1 .. Len(pipe) \subseteq 1 .. n
      BY <2>1
    <2> HIDE DEF n
    <2>4. QED
      BY <2>1, <2>2, <2>3 DEF Asking, Asks
  <1>4. Cardinality(Asking(pipe) \cup {n}) = Cardinality(Asking(pipe)) + 1
    BY <1>1, <1>2, FS_AddElement
  <1>5. QED
    BY <1>1, <1>3, <1>4

\* A line that is taken removes one if it is to be answered.
LEMMA AskingTake ==
    ASSUME NEW pipe \in Seq(LineType), pipe # <<>>
    PROVE  Cardinality(Asking(Tail(pipe)))
             = Cardinality(Asking(pipe)) - (IF Asks(Head(pipe)) THEN 1 ELSE 0)
  <1> DEFINE S == Asking(Tail(pipe))
             T == Asking(pipe) \ {1}
             up == [i \in S |-> i + 1]
  <1>1. IsFiniteSet(S) /\ IsFiniteSet(Asking(pipe))
          /\ Cardinality(Asking(pipe)) \in Nat
    BY AskingFinite, TakeLine
  <1>2. 1 \in Asking(pipe) <=> Asks(Head(pipe))
    BY TakeLine DEF Asking, Asks
  <1>3. S \subseteq Nat /\ \A i \in S : i + 1 \in T
    BY TakeLine DEF Asking
  <1>4. \A j \in T : j - 1 \in S /\ (j - 1) + 1 = j
    <2> SUFFICES ASSUME NEW j \in T
                 PROVE  j - 1 \in S /\ (j - 1) + 1 = j
      OBVIOUS
    <2>1. j \in 1 .. Len(pipe) /\ j # 1 /\ pipe[j].kind \in {"call", "stray"}
      BY DEF Asking
    <2>2. j - 1 \in 1 .. Len(Tail(pipe)) /\ (j - 1) + 1 = j
      BY <2>1, TakeLine
    <2>3. Tail(pipe)[j - 1] = pipe[j]
      BY <2>2, TakeLine
    <2>4. QED
      BY <2>1, <2>2, <2>3 DEF Asking
  <1>5. up \in Bijection(S, T)
    <2> HIDE DEF S, T
    <2>1. up \in [S -> T]
      BY <1>3
    <2>2. \A a, b \in S : up[a] = up[b] => a = b
      BY <1>3
    <2>3. \A j \in T : \E i \in S : up[i] = j
      BY <1>4
    <2>4. QED
      BY <2>1, <2>2, <2>3, Fun_IsBij
  <1>6. Cardinality(T) = Cardinality(S)
    <2> HIDE DEF S, T
    <2>1. ExistsBijection(S, T)
      BY <1>5, Fun_ExistsBij
    <2>2. QED
      BY <1>1, <2>1, FS_Bijection
  <1>7. Cardinality(T) = IF 1 \in Asking(pipe) THEN Cardinality(Asking(pipe)) - 1
                         ELSE Cardinality(Asking(pipe))
    BY <1>1, FS_RemoveElement
  <1>8. QED
    BY <1>1, <1>2, <1>6, <1>7

\* The lines under way, and the number of those that will be answered.
LEMMA UnderWay ==
    ASSUME TypeOK
    PROVE  /\ toHost \in Seq(LineType) /\ toChild \in Seq(LineType)
           /\ line \in LineType /\ reply \in LineType
           /\ Len(toChild) \in Nat
           /\ Cardinality(Asking(toHost)) \in Nat
           /\ Owed = Len(toChild) + Cardinality(Asking(toHost))
                       + (IF reply = NoLine THEN 0 ELSE 1)
  <1>1. /\ toHost \in Seq(LineType) /\ toChild \in Seq(LineType)
        /\ line \in LineType /\ reply \in LineType
    BY DEF TypeOK
  <1>2. Len(toChild) \in Nat /\ Cardinality(Asking(toHost)) \in Nat
    BY <1>1, AskingFinite
  <1>3. QED
    BY <1>1, <1>2 DEF Owed, Asking

\* Each step moves what is owed along, and only the extension adds to it.
LEMMA NextBounded == IInv /\ Bounded /\ [Next]_vars => Bounded'
  <1> SUFFICES ASSUME IInv, Bounded, [Next]_vars
               PROVE  Bounded'
    OBVIOUS
  <1> DEFINE sent == Len(toChild)
             asking == Cardinality(Asking(toHost))
             answer == IF reply = NoLine THEN 0 ELSE 1
             next == IF Asks(line) THEN 1 ELSE 0
  <1>1. TypeOK /\ TypeOK' /\ MaxOutstanding \in Nat /\ ~Asks(NoLine)
    BY NextTypeOK, MadeLines, DenoRunAssumption DEF IInv
  <1>2. /\ sent \in Nat /\ asking \in Nat /\ answer \in {0, 1} /\ next \in {0, 1}
        /\ Owed = sent + asking + answer
    BY <1>1, UnderWay
  <1>3. sent + asking + answer + next <= MaxOutstanding
    BY <1>2 DEF Bounded
  <1>4. /\ sent' \in Nat /\ asking' \in Nat /\ answer' \in {0, 1} /\ next' \in {0, 1}
        /\ Owed' = sent' + asking' + answer'
    <2>1. /\ Len(toChild') \in Nat /\ Cardinality(Asking(toHost')) \in Nat
          /\ Owed' = Len(toChild') + Cardinality(Asking(toHost'))
                       + (IF reply' = NoLine THEN 0 ELSE 1)
      <3>1. toHost' \in Seq(LineType) /\ toChild' \in Seq(LineType)
        BY <1>1 DEF TypeOK
      <3>2. Len(toChild') \in Nat /\ Cardinality(Asking(toHost')) \in Nat
        BY <3>1, AskingFinite
      <3>3. QED
        BY <3>1, <3>2 DEF Owed, Asking
    <2>2. QED
      BY <2>1
  <1>5. PICK sent1 \in Nat, asking1 \in Nat, answer1 \in {0, 1}, next1 \in {0, 1} :
          sent1 = sent' /\ asking1 = asking' /\ answer1 = answer' /\ next1 = next'
    BY <1>4
  <1> SUFFICES sent1 + asking1 + answer1 + next1 <= MaxOutstanding
    BY <1>4, <1>5 DEF Bounded
  <1>6. UNCHANGED toHost => asking1 = asking
    BY <1>5
  <1>7. UNCHANGED toChild => sent1 = sent
    BY <1>5
  <1>8. UNCHANGED reply => answer1 = answer
    BY <1>5
  <1>9. UNCHANGED line => next1 = next
    BY <1>5 DEF Asks
  <1> USE DEF hostVars, childVars
  <1>10. CASE Start \/ StartFails \/ ReadEof \/ WaitReturns \/ StdinEof \/ UNCHANGED vars
    <2>1. UNCHANGED <<toHost, toChild, reply, line>>
      BY <1>10 DEF Start, StartFails, ReadEof, WaitReturns, StdinEof, vars
    <2> HIDE DEF sent, asking, answer, next
    <2>2. QED
      BY <1>3, <1>6, <1>7, <1>8, <1>9, <2>1
  <1>11. CASE ReadLine
    <2>1. /\ UNCHANGED <<toChild, line>> /\ toHost' = Tail(toHost) /\ toHost # <<>>
          /\ reply = NoLine
      BY <1>1, <1>11 DEF ReadLine, TypeOK
    <2>2. asking1 = asking - (IF Asks(Head(toHost)) THEN 1 ELSE 0)
      BY <1>5, <1>1, <2>1, UnderWay, AskingTake
    <2>3. reply' = reply \/ Asks(Head(toHost))
      BY <1>11
      DEF ReadLine, ReadDone, ReadError, ReadNoise, ReadBinary, ReadCall, Asks
    <2>4. answer = 0 /\ (answer1 = 0 \/ Asks(Head(toHost)))
      BY <1>5, <2>1, <2>3
    <2> HIDE DEF sent, asking, answer, next
    <2>5. QED
      BY <1>1, <1>2, <1>3, <1>7, <1>9, <2>1, <2>2, <2>4
  <1>12. CASE WriteReply
    <2>1. /\ UNCHANGED <<toHost, line>> /\ reply' = NoLine /\ reply # NoLine
          /\ toChild' = toChild \/ toChild' = Append(toChild, reply)
      BY <1>1, <1>12 DEF WriteReply, TypeOK
    <2>2. sent1 <= sent + 1
      BY <1>5, <1>1, <1>2, <2>1, UnderWay, PutLine
    <2>3. answer = 1 /\ answer1 = 0
      BY <1>5, <2>1
    <2> HIDE DEF sent, asking, answer, next
    <2>4. QED
      BY <1>1, <1>2, <1>3, <1>6, <1>9, <2>1, <2>2, <2>3
  <1>13. CASE Call \/ \E kind \in Prints : PrintLine(kind)
    <2>1. UNCHANGED <<toHost, toChild, reply>>
      BY <1>13 DEF Call, PrintLine, BeginWrite
    <2>2. Asks(line') => Owed < MaxOutstanding
      <3>1. CASE Call
        BY <3>1 DEF Call
      <3>2. ASSUME NEW kind \in Prints, PrintLine(kind)
            PROVE  Asks(line') => Owed < MaxOutstanding
        <4>1. line'.kind = kind /\ kind # "call"
          BY <3>2, DenoRunAssumption DEF PrintLine, BeginWrite, Line
        <4>2. QED
          BY <3>2, <4>1 DEF PrintLine, Asks
      <3>3. QED
        BY <1>13, <3>1, <3>2
    <2>3. next1 = 0 \/ Owed < MaxOutstanding
      BY <1>5, <2>2 DEF Asks
    <2> HIDE DEF sent, asking, answer, next
    <2>4. sent1 = sent /\ asking1 = asking /\ answer1 = answer
      BY <1>6, <1>7, <1>8, <2>1
    <2>5. next1 = 0 \/ sent + asking + answer < MaxOutstanding
      BY <1>2, <2>3
    <2>6. QED
      BY <1>1, <1>2, <1>3, <2>4, <2>5
  <1>14. CASE Finish \/ Throw \/ WriteBroken \/ Die
    <2>1. UNCHANGED <<toHost, toChild, reply>>
      BY <1>14 DEF Finish, Throw, WriteBroken, Die, BeginWrite
    <2>2. next1 = 0
      <3>1. line'.kind \notin {"call", "stray"}
        BY <1>14 DEF Finish, Throw, WriteBroken, Die, BeginWrite, Line, NoLine
      <3>2. QED
        BY <1>5, <3>1 DEF Asks
    <2> HIDE DEF sent, asking, answer, next
    <2>3. QED
      BY <1>1, <1>2, <1>3, <1>6, <1>7, <1>8, <2>1, <2>2
  <1>15. CASE WriteLine
    <2>1. UNCHANGED <<toChild, reply>> /\ toHost' = Append(toHost, line) /\ line' = NoLine
      BY <1>15 DEF WriteLine
    <2>2. asking1 = asking + next
      BY <1>5, <1>1, <2>1, UnderWay, AskingPut
    <2>3. next1 = 0
      BY <1>5, <2>1 DEF NoLine, Asks
    <2> HIDE DEF sent, asking, answer, next
    <2>4. QED
      BY <1>2, <1>3, <1>7, <1>8, <2>1, <2>2, <2>3
  <1>16. CASE Receive
    <2>1. UNCHANGED <<toHost, reply, line>> /\ toChild' = Tail(toChild) /\ toChild # <<>>
      BY <1>16 DEF Receive
    <2>2. sent1 = sent - 1
      BY <1>5, <1>1, <2>1, UnderWay, TakeLine
    <2> HIDE DEF sent, asking, answer, next
    <2>3. QED
      BY <1>1, <1>2, <1>3, <1>6, <1>8, <1>9, <2>1, <2>2
  <1>17. QED
    BY <1>10, <1>11, <1>12, <1>13, <1>14, <1>15, <1>16
    DEF Next, HostStep, ExtensionStep, BridgeStep

\* Nothing is owed where nothing is under way.
LEMMA EmptyBounded ==
    ASSUME TypeOK, toHost = <<>>, toChild = <<>>, reply = NoLine, line = NoLine
    PROVE  Bounded
  <1>1. Asking(toHost) = {} /\ Cardinality(Asking(toHost)) = 0
    BY FS_EmptySet DEF Asking
  <1>2. Len(toChild) = 0
    OBVIOUS
  <1>3. Owed = 0
    BY <1>1, <1>2, UnderWay
  <1>4. ~Asks(line)
    BY MadeLines
  <1>5. QED
    BY <1>3, <1>4, DenoRunAssumption DEF Bounded

\* With no more owed than allowed there is room for the answer.
LEMMA BoundedHasRoom == IInv /\ Bounded => NoFullPipeDeadlock
  <1>1. SUFFICES ASSUME IInv, Bounded, MaxOutstanding <= Capacity, host = "answer"
                 PROVE  Len(toChild) # Capacity
    BY DEF NoFullPipeDeadlock
  <1>2. TypeOK /\ reply # NoLine
    BY <1>1 DEF IInv, TypeOK
  <1>3. /\ Len(toChild) \in Nat /\ Cardinality(Asking(toHost)) \in Nat
        /\ Owed = Len(toChild) + Cardinality(Asking(toHost)) + 1
    BY <1>2, UnderWay
  <1>4. Owed <= MaxOutstanding
    BY <1>1, <1>3, DenoRunAssumption DEF Bounded
  <1>5. QED
    BY <1>1, <1>3, <1>4, DenoRunAssumption

\* Host and child never wait for each other to make room in a pipe, as long as the
\* extension leaves no more calls unanswered than a pipe holds answers.
THEOREM NoDeadlock == Spec => []NoFullPipeDeadlock
  <1>1. Init => Bounded
    BY InitIInv, EmptyBounded DEF IInv, Init
  <1>2. QED
    BY <1>1, BoundedHasRoom, NextBounded, Invariance, PTL DEF Spec

-----------------------------------------------------------------------------
(***************************************************************************)
(* That a run that is over returns, and that no call is lost.              *)
(***************************************************************************)

\* An extension that has ended writes no other line than its last; where that one
\* is, and which end of a run leaves the stdin of the child open.
Ending ==
    /\ child = "running" => ended = "no"
    /\ child = "writing" => ended = "no" \/ Ends(line)
    /\ \A i \in 1 .. Len(toHost) : toHost[i].kind # "none"
    /\ child = "closing" /\ host \in {"read", "answer"} =>
          \E i \in 1 .. Len(toHost) : Ends(toHost[i])
    /\ ended = "died" => child = "exited"
    /\ host = "wait" /\ stdinOpen =>
          child = "exited" \/ (child = "closing" /\ ended = "error")
    /\ host = "returned" /\ stdinOpen => child = "none"

\* No run has ended in the beginning.
LEMMA InitEnding == Init => Ending
  BY DEF Init, Ending

\* Every step keeps it.
LEMMA NextEnding == IInv /\ Ending /\ [Next]_vars => Ending'
  <1> SUFFICES ASSUME IInv, Ending, [Next]_vars
               PROVE  Ending'
    OBVIOUS
  <1> USE DEF Ending, hostVars, childVars
  <1> toHost \in Seq(LineType) /\ line \in LineType /\ TypeOK /\ Told /\ Opened
    BY DEF IInv, TypeOK
  <1>1. CASE Start \/ StartFails \/ ReadEof \/ WriteReply \/ WaitReturns
    <2>1. UNCHANGED <<toHost, ended>>
      BY <1>1 DEF Start, StartFails, ReadEof, WriteReply, WaitReturns
    <2>2. child' = "closing" => child = "closing" /\ host # "start"
      BY <1>1 DEF Start, StartFails, ReadEof, WriteReply, WaitReturns, Opened
    <2>3. host' \in {"read", "answer"} => host \in {"start", "read", "answer"}
      BY <1>1 DEF Start, StartFails, ReadEof, WriteReply, WaitReturns, LeaveLoop
    <2>4. ended = "died" => child' = "exited"
      BY <1>1 DEF Start, StartFails, ReadEof, WriteReply, WaitReturns, Opened
    <2>5. /\ host' = "wait" => ~stdinOpen'
          /\ host' = "returned" => ~stdinOpen' \/ child' = "none"
      BY <1>1 DEF Start, StartFails, ReadEof, WriteReply, WaitReturns, LeaveLoop, Opened
    <2>6. host \in {"start", "read", "answer", "wait", "returned"}
      BY DEF TypeOK
    <2>7. /\ child' = "running" => ended' = "no"
          /\ child' = "writing" => child = "writing" /\ line' = line
      BY <1>1 DEF Start, StartFails, ReadEof, WriteReply, WaitReturns, Opened
    <2>8. QED
      BY <2>1, <2>2, <2>3, <2>4, <2>5, <2>6, <2>7 DEF Ends
  <1>2. CASE ReadLine
    <2>1. /\ toHost' = Tail(toHost) /\ toHost # <<>> /\ UNCHANGED <<child, ended>>
          /\ host = "read" /\ Head(toHost) = toHost[1] /\ 1 \in 1 .. Len(toHost)
      BY <1>2, TakeLine DEF ReadLine
    <2>2. \A i \in 1 .. Len(toHost') :
             i + 1 \in 1 .. Len(toHost) /\ toHost'[i] = toHost[i + 1]
      BY <2>1, TakeLine
    <2>3. host' \in {"read", "answer"} => ~Ends(Head(toHost))
      BY <1>2 DEF ReadLine, ReadDone, ReadError, ReadNoise, ReadBinary, ReadCall,
                  LeaveLoop, Ends
    <2>4. ASSUME NEW i \in 1 .. Len(toHost), Ends(toHost[i]), ~Ends(Head(toHost))
          PROVE  \E j \in 1 .. Len(toHost') : Ends(toHost'[j])
      <3>1. i # 1 /\ i - 1 \in 1 .. Len(toHost') /\ (i - 1) + 1 = i
        BY <2>1, <2>4, TakeLine
      <3>2. QED
        BY <2>2, <2>4, <3>1
    <2>5. host' = "wait" /\ stdinOpen' => Head(toHost).kind = "error"
      BY <1>2 DEF ReadLine, ReadDone, ReadError, ReadNoise, ReadBinary, ReadCall, LeaveLoop
    <2>6. Head(toHost).kind = "error" =>
             child = "exited" \/ (child = "closing" /\ ended = "error")
      BY <2>1 DEF Told, Ends
    <2>7. host' = "returned" => ~stdinOpen'
      BY <1>2 DEF ReadLine, ReadDone, ReadError, ReadNoise, ReadBinary, ReadCall, LeaveLoop
    <2>8. UNCHANGED line
      BY <1>2 DEF ReadLine
    <2>9. QED
      BY <2>1, <2>2, <2>3, <2>4, <2>5, <2>6, <2>7, <2>8 DEF Ends
  <1>3. CASE ExtensionStep
    <2>1. /\ child = "running" /\ child' = "writing" /\ UNCHANGED <<host, stdinOpen, toHost>>
          /\ ended' \in {"no", "done", "error"}
      BY <1>3 DEF ExtensionStep, Call, PrintLine, Finish, Throw, BeginWrite
    <2>2. ended' = "no" \/ Ends(line')
      BY <1>3, <2>1
      DEF ExtensionStep, Call, PrintLine, Finish, Throw, BeginWrite, Line, Ends
    <2>3. QED
      BY <2>1, <2>2 DEF Ends
  <1>4. CASE WriteLine
    <2>1. /\ child = "writing" /\ toHost' = Append(toHost, line)
          /\ child' = IF line.kind \in {"done", "error"} THEN "closing" ELSE "running"
          /\ UNCHANGED <<host, stdinOpen, ended>>
      BY <1>4 DEF WriteLine
    <2>2. \A i \in 1 .. Len(toHost') :
             toHost'[i] = IF i \in 1 .. Len(toHost) THEN toHost[i] ELSE line
      BY <2>1, PutLine
    <2>3. line.kind # "none"
      <3>1. line # NoLine /\ (line.kind = "none" => line.id = 0)
        BY <2>1 DEF TypeOK, IInv, Addressed, Anonymous
      <3>2. QED
        BY <3>1 DEF NoLine, LineType
    <2>4. Len(toHost') \in 1 .. Len(toHost') /\ toHost'[Len(toHost')] = line
      BY <2>1, PutLine
    <2>5. child' = "closing" => \E i \in 1 .. Len(toHost') : Ends(toHost'[i])
      BY <2>1, <2>4 DEF Ends
    <2>6. child' = "running" => ended = "no"
      BY <2>1 DEF Ends
    <2>7. QED
      BY <2>1, <2>2, <2>3, <2>5, <2>6
  <1>5. CASE WriteBroken \/ Die \/ StdinEof
    <2>1. /\ child' = "exited" /\ child # "none"
          /\ UNCHANGED <<host, toHost, stdinOpen>>
      BY <1>5 DEF WriteBroken, Die, StdinEof
    <2>2. QED
      BY <2>1
  <1>6. CASE Receive \/ UNCHANGED vars
    BY <1>6 DEF Receive, vars, Ends
  <1>7. QED
    BY <1>1, <1>2, <1>3, <1>4, <1>5, <1>6 DEF Next, HostStep, BridgeStep

\* The extension is over and did not throw.
Over == child \in {"closing", "exited"} /\ ended # "error"

\* Nobody is left of it.
Returned == host = "returned" /\ child = "exited"

\* The thread of the trigger can go on.
HostCan ==
    \/ host = "read" /\ toHost # <<>> /\ Head(toHost).kind # "none"
    \/ host = "read" /\ toHost = <<>> /\ child = "exited"
    \/ host = "answer" /\ (child = "exited" \/ Len(toChild) < Capacity)
    \/ host = "wait" /\ child = "exited"

\* The bridge can read an answer, or the end of its stdin.
ChildCan == child = "closing" /\ (toChild # <<>> \/ ~stdinOpen)

\* What is left to do: a line to the host may become an answer, which is written
\* and read; then the host waits and the child ends.
OverLeft ==
    3 * Len(toHost) + Len(toChild)
      + (IF reply = NoLine THEN 0 ELSE 2)
      + (IF host = "returned" THEN 0 ELSE IF host = "wait" THEN 1 ELSE 2)
      + (IF child = "exited" THEN 0 ELSE 1)

\* What is left is a number.
LEMMA LeftCounts == TypeOK => OverLeft \in Nat
  <1> SUFFICES ASSUME TypeOK
               PROVE  OverLeft \in Nat
    OBVIOUS
  <1>1. Len(toHost) \in Nat /\ Len(toChild) \in Nat
    BY DEF TypeOK
  <1>2. QED
    BY <1>1 DEF OverLeft

\* As long as not both are done, one of them has something to do: a line that
\* ends the run is on its way to a host that reads, and the stdin of the child
\* is closed by one that does not.
LEMMA OverNotStuck == IInv /\ Ending /\ Over => Returned \/ HostCan \/ ChildCan
  <1> SUFFICES ASSUME IInv, Ending, Over
               PROVE  Returned \/ HostCan \/ ChildCan
    OBVIOUS
  <1>1. /\ host \in {"read", "answer", "wait", "returned"}
        /\ toChild \in Seq(LineType) /\ Len(toChild) <= Capacity
    BY DEF IInv, TypeOK, Opened, Over
  <1>a. toHost # <<>> => Head(toHost).kind # "none"
    BY TakeLine DEF Ending, IInv, TypeOK
  <1>2. CASE child = "exited"
    BY <1>a, <1>1, <1>2 DEF Returned, HostCan
  <1>3. CASE child = "closing"
    <2>1. CASE host = "read"
      <3>1. toHost # <<>>
        BY <1>3, <2>1 DEF Ending
      <3>2. QED
        BY <1>a, <2>1, <3>1 DEF HostCan
    <2>2. CASE host = "answer"
      <3>1. toChild = <<>> => Len(toChild) = 0
        OBVIOUS
      <3>2. Len(toChild) < Capacity \/ toChild # <<>>
        BY <3>1, DenoRunAssumption
      <3>3. QED
        BY <1>3, <2>2, <3>2 DEF HostCan, ChildCan
    <2>3. CASE host \in {"wait", "returned"}
      BY <1>3, <2>3 DEF Ending, Over, ChildCan, IInv, TypeOK
    <2>4. QED
      BY <1>1, <2>1, <2>2, <2>3
  <1>4. QED
    BY <1>2, <1>3 DEF Over

\* Every step leaves less to do and the extension over: those of the host, of the
\* bridge, and the one that kills it.
LEMMA OverGoesOn == IInv /\ Over /\ Next => Over' /\ OverLeft' < OverLeft
  <1> SUFFICES ASSUME IInv, Over, Next
               PROVE  Over' /\ OverLeft' < OverLeft
    OBVIOUS
  <1> USE DEF hostVars, childVars
  <1>1. /\ toHost \in Seq(LineType) /\ toChild \in Seq(LineType)
        /\ Len(toHost) \in Nat /\ Len(toChild) \in Nat /\ reply \in LineType
        /\ (reply # NoLine) <=> (host = "answer")
        /\ host \in {"read", "answer", "wait", "returned"}
    BY DEF IInv, TypeOK, Opened, Over
  <1>2. CASE ReadLine
    <2>1. /\ toHost # <<>> /\ toHost' = Tail(toHost) /\ Len(toHost') = Len(toHost) - 1
          /\ host = "read" /\ reply = NoLine /\ UNCHANGED <<toChild, child, ended>>
      BY <1>1, <1>2, TakeLine DEF ReadLine
    <2>2. host' = "answer" \/ reply' = NoLine
      BY <1>2, <2>1 DEF ReadLine, ReadDone, ReadError, ReadNoise, ReadBinary, ReadCall
    <2>3. OverLeft' < OverLeft
      BY <1>1, <2>1, <2>2 DEF OverLeft
    <2>4. QED
      BY <2>1, <2>3 DEF Over
  <1>3. CASE ReadEof \/ WaitReturns
    <2>1. /\ host \in {"read", "wait"} /\ UNCHANGED <<toHost, toChild, reply, child, ended>>
          /\ host = "read" => host' = "wait"
          /\ host = "wait" => host' = "returned"
      BY <1>3 DEF ReadEof, WaitReturns, LeaveLoop
    <2>2. OverLeft' < OverLeft
      BY <1>1, <2>1 DEF OverLeft
    <2>3. QED
      BY <2>1, <2>2 DEF Over
  <1>4. CASE WriteReply
    <2>1. /\ host = "answer" /\ reply # NoLine /\ reply' = NoLine
          /\ host' \in {"read", "wait"} /\ UNCHANGED <<toHost, child, ended>>
          /\ toChild' = toChild \/ toChild' = Append(toChild, reply)
      BY <1>1, <1>4 DEF WriteReply, LeaveLoop
    <2>2. Len(toChild') \in Nat /\ Len(toChild') <= Len(toChild) + 1
      BY <1>1, <2>1, PutLine
    <2>3. OverLeft' < OverLeft
      BY <1>1, <2>1, <2>2 DEF OverLeft
    <2>4. QED
      BY <2>1, <2>3 DEF Over
  <1>5. CASE Receive
    <2>1. /\ toChild # <<>> /\ Len(toChild') = Len(toChild) - 1
          /\ UNCHANGED <<toHost, host, reply, child, ended>>
      BY <1>1, <1>5, TakeLine DEF Receive
    <2>2. OverLeft' < OverLeft
      BY <1>1, <2>1 DEF OverLeft
    <2>3. QED
      BY <2>1, <2>2 DEF Over
  <1>6. CASE StdinEof \/ Die
    <2>1. /\ child # "exited" /\ child' = "exited" /\ ended' \in {ended, "died"}
          /\ UNCHANGED <<toHost, toChild, host, reply>>
      BY <1>6 DEF StdinEof, Die
    <2>2. OverLeft' < OverLeft
      BY <1>1, <2>1 DEF OverLeft
    <2>3. QED
      BY <2>1, <2>2 DEF Over
  <1>7. ~Start /\ ~StartFails /\ ~ExtensionStep /\ ~WriteLine /\ ~WriteBroken
    BY <1>1
    DEF Over, Start, StartFails, ExtensionStep, Call, PrintLine, Finish, Throw, BeginWrite,
        WriteLine, WriteBroken
  <1>8. QED
    BY <1>2, <1>3, <1>4, <1>5, <1>6, <1>7 DEF Next, HostStep, BridgeStep

\* An extension that is over without having thrown lets its trigger return, and its
\* process ends: until then the thread of the trigger or the bridge has something
\* to do, and every step of anybody leaves less.  That they run on is the rest of
\* OverReturns (drop(stdin) and child.wait() of drive_extension).
THEOREM OverNearsItsEnd ==
  Spec => /\ [](Over => Returned \/ HostCan \/ ChildCan)
          /\ [](OverLeft \in Nat)
          /\ [][Over => Over' /\ OverLeft' < OverLeft]_vars
  <1>1. IInv => OverLeft \in Nat
    BY LeftCounts DEF IInv
  <1>2. IInv /\ [Next]_vars => [Over => Over' /\ OverLeft' < OverLeft]_vars
    BY OverGoesOn
  <1>3. QED
    BY <1>1, <1>2, InitEnding, NextEnding, OverNotStuck, Invariance, PTL DEF Spec

\* The line of a call is being written, in a pipe, or in the hand of the host.
OnItsWay(id) ==
    \/ line = CallLine(id)
    \/ reply = CallLine(id)
    \/ \E i \in 1 .. Len(toHost) : toHost[i] = CallLine(id)
    \/ \E i \in 1 .. Len(toChild) : toChild[i] = CallLine(id)

\* While the process lives, and the run has not failed, that is so of every call
\* that is still open.
NoCallIsLost ==
    child # "exited" /\ ended # "error" /\ result # "error" =>
       \A id \in pending : OnItsWay(id)

\* In the beginning no call is open.
LEMMA InitNoCallIsLost == Init => NoCallIsLost
  BY DEF Init, NoCallIsLost

\* No step drops the line of an open call, but one that ends the process or fails
\* the run.
LEMMA NextNoCallIsLost == IInv /\ Ending /\ NoCallIsLost /\ [Next]_vars => NoCallIsLost'
  <1> SUFFICES ASSUME IInv, Ending, NoCallIsLost, [Next]_vars,
                      child' # "exited", ended' # "error", result' # "error",
                      NEW id \in pending'
               PROVE  OnItsWay(id)'
    BY DEF NoCallIsLost
  <1> USE DEF hostVars, childVars
  <1>1. /\ toHost \in Seq(LineType) /\ toChild \in Seq(LineType)
        /\ line \in LineType /\ reply \in LineType
        /\ (line # NoLine) <=> (child = "writing")
        /\ (reply # NoLine) <=> (host = "answer")
        /\ ended \in {"no", "done", "error", "died"}
    BY DEF IInv, TypeOK
  <1>2. CallLine(id).kind = "call" /\ CallLine(id).id = id /\ CallLine(id) # NoLine
    BY DEF CallLine, NoLine
  <1>3. CASE Call
    <2>1. /\ UNCHANGED <<toHost, toChild, reply, ended, result>> /\ line = NoLine
          /\ child = "running" /\ line' = CallLine(nextId) /\ pending' = pending \cup {nextId}
      BY <1>1, <1>3 DEF Call, BeginWrite
    <2>2. CASE id = nextId
      BY <2>1, <2>2 DEF OnItsWay
    <2>3. CASE id \in pending
      <3>1. OnItsWay(id)
        BY <2>1, <2>3 DEF NoCallIsLost
      <3>2. QED
        BY <1>2, <2>1, <3>1 DEF OnItsWay
    <2>4. QED
      BY <2>1, <2>2, <2>3
  <1>4. CASE (\E kind \in Prints : PrintLine(kind)) \/ Finish \/ Throw
    <2>1. /\ UNCHANGED <<toHost, toChild, reply, result, pending>> /\ line = NoLine
          /\ child = "running"
      BY <1>1, <1>4 DEF PrintLine, Finish, Throw, BeginWrite
    <2>2. ended # "error"
      BY <2>1 DEF Ending
    <2>3. OnItsWay(id)
      BY <2>1, <2>2 DEF NoCallIsLost
    <2>4. QED
      BY <1>2, <2>1, <2>3 DEF OnItsWay
  <1>5. CASE ~ExtensionStep
    <2>1. /\ pending' \subseteq pending /\ ended' \in {ended, "died"}
          /\ result' = "error" \/ result # "error"
          /\ child # "exited" /\ (ended' = "died" => ended = "died")
      BY <1>5
      DEF Next, HostStep, Start, StartFails, ReadLine, ReadDone, ReadError, ReadNoise,
          ReadBinary, ReadCall, ReadEof, WriteReply, WaitReturns, LeaveLoop, BridgeStep,
          WriteLine, WriteBroken, Receive, StdinEof, Die, vars, IInv, Opened
    <2>2. OnItsWay(id)
      BY <2>1 DEF NoCallIsLost
    <2>3. CASE Start \/ StartFails \/ ReadEof \/ WaitReturns \/ UNCHANGED vars
      BY <2>2, <2>3 DEF Start, StartFails, ReadEof, WaitReturns, LeaveLoop, vars, OnItsWay
    <2>4. CASE ReadLine
      <3>1. /\ toHost # <<>> /\ toHost' = Tail(toHost) /\ reply = NoLine
            /\ UNCHANGED <<toChild, line>>
        BY <1>1, <2>4 DEF ReadLine
      <3>2. Head(toHost) = CallLine(id) => reply' = Head(toHost)
        BY <1>2, <2>4
        DEF ReadLine, ReadDone, ReadError, ReadNoise, ReadBinary, ReadCall
      <3>3. ASSUME NEW i \in 1 .. Len(toHost), toHost[i] = CallLine(id)
            PROVE  OnItsWay(id)'
        <4>1. CASE i = 1
          BY <1>1, <3>1, <3>2, <3>3, <4>1, TakeLine DEF OnItsWay
        <4>2. CASE i # 1
          <5>1. i - 1 \in 1 .. Len(toHost') /\ toHost'[i - 1] = toHost[(i - 1) + 1]
                  /\ (i - 1) + 1 = i
            BY <1>1, <3>1, <4>2, TakeLine
          <5>2. QED
            BY <3>3, <5>1 DEF OnItsWay
        <4>3. QED
          BY <4>1, <4>2
      <3>4. QED
        BY <1>2, <2>2, <3>1, <3>3 DEF OnItsWay
    <2>5. CASE WriteReply
      <3>1. /\ UNCHANGED <<toHost, line, child>> /\ toChild' = Append(toChild, reply)
        BY <2>1, <2>5 DEF WriteReply
      <3>2. /\ Len(toChild') \in 1 .. Len(toChild') /\ toChild'[Len(toChild')] = reply
            /\ \A i \in 1 .. Len(toChild) :
                  i \in 1 .. Len(toChild') /\ toChild'[i] = toChild[i]
        BY <1>1, <3>1, PutLine
      <3>3. QED
        BY <2>2, <3>1, <3>2 DEF OnItsWay
    <2>6. CASE WriteLine
      <3>1. /\ UNCHANGED <<toChild, reply>> /\ toHost' = Append(toHost, line)
        BY <2>6 DEF WriteLine
      <3>2. /\ Len(toHost') \in 1 .. Len(toHost') /\ toHost'[Len(toHost')] = line
            /\ \A i \in 1 .. Len(toHost) : i \in 1 .. Len(toHost') /\ toHost'[i] = toHost[i]
        BY <1>1, <3>1, PutLine
      <3>3. QED
        BY <2>2, <3>1, <3>2 DEF OnItsWay
    <2>7. CASE Receive
      <3>1. /\ UNCHANGED <<toHost, line, reply>> /\ toChild' = Tail(toChild)
            /\ toChild # <<>> /\ pending' = pending \ {Head(toChild).id}
        BY <2>7 DEF Receive
      <3>2. Head(toChild) # CallLine(id)
        BY <1>2, <3>1
      <3>3. ASSUME NEW i \in 1 .. Len(toChild), toChild[i] = CallLine(id)
            PROVE  OnItsWay(id)'
        <4>1. i # 1
          BY <1>1, <3>1, <3>2, <3>3, TakeLine
        <4>2. i - 1 \in 1 .. Len(toChild') /\ toChild'[i - 1] = toChild[(i - 1) + 1]
                /\ (i - 1) + 1 = i
          BY <1>1, <3>1, <4>1, TakeLine
        <4>3. QED
          BY <3>3, <4>2 DEF OnItsWay
      <3>4. QED
        BY <2>2, <3>1, <3>3 DEF OnItsWay
    <2>8. ~WriteBroken /\ ~StdinEof /\ ~Die
      BY DEF WriteBroken, StdinEof, Die
    <2>9. QED
      BY <1>5, <2>3, <2>4, <2>5, <2>6, <2>7, <2>8 DEF Next, HostStep, BridgeStep
  <1>6. QED
    BY <1>3, <1>4, <1>5 DEF ExtensionStep

\* A call that is open is on its way to its answer, however many are open at once
\* and whatever else is printed: neither side drops a line, as long as the process
\* lives and the run has not failed.  That host and bridge pass it on is the rest
\* of CallsAreAnswered (_rpc, drive_extension, _stdinLoop).
THEOREM CallsAreOnTheirWay == Spec => []NoCallIsLost
  BY InitNoCallIsLost, NextNoCallIsLost, InitEnding, NextEnding, Invariance, PTL DEF Spec
=============================================================================
