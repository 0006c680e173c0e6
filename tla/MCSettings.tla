----------------------------- MODULE MCSettings -----------------------------
(***************************************************************************)
(* The parts of Settings for TLC: pages of which one disables an extension *)
(* while others save; triggers of the page and requests that cross them,   *)
(* some cut short; and each way a request can go wrong.                    *)
(***************************************************************************)
EXTENDS Settings

CONSTANTS e1, e2

\* Requests of the page, one of each kind that the handlers tell apart.
MCPage == [op |-> "page", post |-> FALSE, ext |-> Unset, token |-> FALSE,
           origin |-> "none", body |-> "none", cut |-> "none",
           autoStart |-> Keep, disabled |-> Keep]
MCGet(op) == [MCPage EXCEPT !.op = op, !.token = TRUE, !.ext = e1]
MCPost(op) == [MCGet(op) EXCEPT !.post = TRUE, !.origin = "own", !.body = "object"]
MCTrigger == [MCPost("trigger") EXCEPT !.body = "none"]
MCForeign == [MCTrigger EXCEPT !.ext = e2]
MCOddTrigger == [MCPost("trigger") EXCEPT !.body = "other"]
MCCut(where) == [MCPost("trigger") EXCEPT !.cut = where]

\* The page always names disabledExtensions and autoStart; others need not.
MCTheme == MCPost("core")
MCDisable == [MCPost("core") EXCEPT !.autoStart = Unset, !.disabled = {e1}]
MCAutoStart == [MCPost("core") EXCEPT !.autoStart = TRUE, !.disabled = {}]

MCSaves == {MCTheme, MCDisable, MCAutoStart}
MCRuns == {MCTrigger, MCForeign, MCDisable, MCPost("close"), MCPost("descriptor"),
           MCGet("info"), MCPost("config"), MCCut("line"), MCCut("headers"), MCCut("body")}
MCHard == {MCDisable, MCOddTrigger, MCCut("body"), MCPost("apply")}
=============================================================================
