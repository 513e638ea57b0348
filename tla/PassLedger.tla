----------------------------- MODULE PassLedger -----------------------------
(***************************************************************************)
(* What the analyst service promises its callers, without the executor,    *)
(* the lock or the tables: a pass is accepted under a key only while no     *)
(* other pass holds that key, it is worked on once, it ends once, its key   *)
(* comes free after it ended, and a restart ends whatever was open.         *)
(* AnalystService is shown to implement this specification.                 *)
(***************************************************************************)
EXTENDS Naturals

CONSTANTS PassIds,   \* identifiers of the analyses rows
          PassKeys   \* the keys requests are deduplicated by

VARIABLES serving,   \* TRUE while the app answers requests
          stage,     \* stage[i]: how far pass i has come
          holder     \* holder[k]: the pass that holds key k, or 0

ledgerVars == <<serving, stage, holder>>

Stages == {"absent", "accepted", "started", "ended"}
Open(i) == stage[i] \in {"accepted", "started"}

LedgerInit ==
  /\ serving = TRUE
  /\ stage = [i \in PassIds |-> "absent"]
  /\ holder = [k \in PassKeys |-> 0]

\* A free key takes a pass nobody has seen before.
Accept(k, i) ==
  /\ serving
  /\ holder[k] = 0
  /\ stage[i] = "absent"
  /\ stage' = [stage EXCEPT ![i] = "accepted"]
  /\ holder' = [holder EXCEPT ![k] = i]
  /\ UNCHANGED serving

\* Only a pass that holds its key moves, and only forward.
Advance(k, i, s) ==
  /\ serving
  /\ holder[k] = i
  /\ <<stage[i], s>> \in {<<"accepted", "started">>, <<"accepted", "ended">>,
                          <<"started", "ended">>}
  /\ stage' = [stage EXCEPT ![i] = s]
  /\ UNCHANGED <<serving, holder>>

\* A key comes free only after its pass ended.
Free(k) ==
  /\ serving
  /\ holder[k] # 0
  /\ stage[holder[k]] = "ended"
  /\ holder' = [holder EXCEPT ![k] = 0]
  /\ UNCHANGED <<serving, stage>>

Stop ==
  /\ serving
  /\ serving' = FALSE
  /\ holder' = [k \in PassKeys |-> 0]
  /\ UNCHANGED stage

\* Before it serves again the app ends every pass the stop left open.
Resume ==
  /\ ~serving
  /\ serving' = TRUE
  /\ stage' = [i \in PassIds |-> IF Open(i) THEN "ended" ELSE stage[i]]
  /\ UNCHANGED holder

LedgerNext ==
  \/ \E k \in PassKeys, i \in PassIds :
       \/ Accept(k, i)
       \/ \E s \in Stages : Advance(k, i, s)
  \/ \E k \in PassKeys : Free(k)
  \/ Stop
  \/ Resume

LedgerSpec == LedgerInit /\ [][LedgerNext]_ledgerVars
=============================================================================
