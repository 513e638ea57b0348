------------------------------ MODULE PassRun -------------------------------
(***************************************************************************)
(* One pass as the analyst service sees it (AnalystService's steps Turn,    *)
(* GraphError, PauseForApproval, Persist and the budget stop): it pays for  *)
(* model calls, and then leaves for good by exactly one way out.            *)
(* AnalystGraph is shown to implement this specification.                   *)
(***************************************************************************)
EXTENDS Naturals

VARIABLES exit,       \* "none" while the pass runs, then its way out
          calls,      \* model calls made so far
          mayPause    \* the pass asks for approval before it stores

runVars == <<exit, calls, mayPause>>

Exits == {"ok", "invalid", "paused", "capped", "failed"}

RunInit == exit = "none" /\ calls = 0 /\ mayPause \in BOOLEAN

\* One model call; the call after which the budget is spent may end the pass.
Call ==
  /\ exit = "none"
  /\ calls' = calls + 1
  /\ exit' \in {"none", "capped", "failed"}
  /\ UNCHANGED mayPause

\* Only a pass that does not ask for approval stores a result, only one that
\* does pauses, and a pass that stores has paid for at least a draft.
Leave ==
  /\ exit = "none"
  /\ exit' \in (IF mayPause THEN {"paused", "failed"} ELSE {"ok", "invalid", "failed"})
  /\ exit' # "failed" => calls > 0
  /\ UNCHANGED <<calls, mayPause>>

\* A database or provider error before any call.
Break ==
  /\ exit = "none"
  /\ exit' = "failed"
  /\ UNCHANGED <<calls, mayPause>>

RunNext == Call \/ Leave \/ Break
RunSpec == RunInit /\ [][RunNext]_runVars
=============================================================================
