---------------------------- MODULE RecorderLease ----------------------------
(***************************************************************************)
(* The single-writer lease of the intraday recorder (intraday/recorder.py,  *)
(* intraday/db.py): processes claim the ingestion_jobs row of their session, *)
(* renew it before every poll, and exit when the renewal finds another       *)
(* owner. Processes stall, die and are started again at any moment.          *)
(*                                                                           *)
(* Time is what is left of each lease: a row can be claimed by another owner *)
(* once nothing is left. A slot runs one process at a time; the uuid of a    *)
(* process that is gone is written Departed, since nobody else can have it.  *)
(***************************************************************************)
EXTENDS Integers

CONSTANTS Slots,      \* places a recorder process can run in
          Nobody,     \* no row yet
          Departed,   \* the owner of the row is a process that is gone
          Lease,      \* LEASE_SECONDS in ticks
          MaxDays,    \* bound: trade dates
          MaxStarts   \* bound: processes ever started

ASSUME LeaseAssumption ==
  /\ {Nobody, Departed} \cap Slots = {}
  /\ Nobody # Departed
  /\ Lease \in Nat \ {0}
  /\ MaxDays \in Nat \ {0}
  /\ MaxStarts \in Nat

Days == 1 .. MaxDays

VARIABLES today,    \* the trade date in New York
          starts,   \* processes started so far; stands for the start time
          pc,       \* where each slot's process stands in run()
          mine,     \* its trade date and token, fixed when it started
          row,      \* ingestion_jobs: one row per session
          late      \* polls a process made after it lost its row

vars == <<today, starts, pc, mine, row, late>>

\* "claim": about to claim. "renew": at the top of the loop, sleep included.
\* "poll": renewed, now fetching and writing.
Points == {"off", "claim", "renew", "poll"}
Row == [owner: Slots \cup {Nobody, Departed}, token: 0 .. MaxStarts, left: 0 .. Lease]

TypeOK ==
  /\ today \in Days
  /\ starts \in 0 .. MaxStarts
  /\ pc \in [Slots -> Points]
  /\ mine \in [Slots -> [day: Days, token: 0 .. MaxStarts]]
  /\ row \in [Days -> Row]
  /\ late \in [Slots -> 0 .. 2]

Init ==
  /\ today = 1
  /\ starts = 0
  /\ pc = [s \in Slots |-> "off"]
  /\ mine = [s \in Slots |-> [day |-> 1, token |-> 0]]
  /\ row = [d \in Days |-> [owner |-> Nobody, token |-> 0, left |-> 0]]
  /\ late = [s \in Slots |-> 0]

MyRow(s) == row[mine[s].day]

-----------------------------------------------------------------------------
\* A container starts: the token is its start time, the date is read once.
Start(s) ==
  /\ pc[s] = "off"
  /\ starts < MaxStarts
  /\ starts' = starts + 1
  /\ mine' = [mine EXCEPT ![s] = [day |-> today, token |-> starts + 1]]
  /\ late' = [late EXCEPT ![s] = 0]
  /\ pc' = [pc EXCEPT ![s] = "claim"]
  /\ UNCHANGED <<today, row>>

\* The process ends: its uuid will not come back.
Vacated(s) == [d \in Days |-> IF row[d].owner = s THEN [row[d] EXCEPT !.owner = Departed]
                              ELSE row[d]]

\* claim_lease's WHERE: the lease ran out. The clause "or it is already mine"
\* never applies, a process claims once. Mutant: the clause is missing.
AlwaysClaimable(r) == TRUE
Claimable(r) == r.owner = Nobody \/ r.left = 0

Claim(s) ==
  /\ pc[s] = "claim"
  /\ \/ /\ Claimable(MyRow(s))
        /\ row' = [row EXCEPT ![mine[s].day] =
                     [owner |-> s, token |-> mine[s].token, left |-> Lease]]
        /\ pc' = [pc EXCEPT ![s] = "renew"]
     \/ /\ ~Claimable(MyRow(s))
        /\ pc' = [pc EXCEPT ![s] = "off"]
        /\ UNCHANGED row
  /\ UNCHANGED <<today, starts, mine, late>>

\* renew_lease's WHERE asks for owner and token, not for time left. Mutant:
\* only the session is asked for.
RenewsUnowned(s) == TRUE
Renewable(s) == MyRow(s).owner = s /\ MyRow(s).token = mine[s].token

\* The new expiry counts from now.
Renewed(r) == Lease

Renew(s) ==
  /\ pc[s] = "renew"
  /\ Renewable(s)
  /\ row' = [row EXCEPT ![mine[s].day].left = Renewed(MyRow(s))]
  /\ pc' = [pc EXCEPT ![s] = "poll"]
  /\ UNCHANGED <<today, starts, mine, late>>

\* "lost lease (fenced by a newer writer); exiting"
Fenced(s) ==
  /\ pc[s] = "renew"
  /\ ~Renewable(s)
  /\ pc' = [pc EXCEPT ![s] = "off"]
  /\ UNCHANGED <<today, starts, mine, row, late>>

\* Bars, quotes and the heartbeat are written; a dead feed only changes the
\* heartbeat's status. late is history.
Poll(s) ==
  /\ pc[s] = "poll"
  /\ late' = [late EXCEPT ![s] = IF MyRow(s).owner # s /\ @ < 2 THEN @ + 1 ELSE @]
  /\ pc' = [pc EXCEPT ![s] = "renew"]
  /\ UNCHANGED <<today, starts, mine, row>>

\* Killed, --once, or a database error that leaves the loop.
Die(s) ==
  /\ pc[s] # "off"
  /\ pc' = [pc EXCEPT ![s] = "off"]
  /\ row' = Vacated(s)
  /\ UNCHANGED <<today, starts, mine, late>>

Tick ==
  /\ \E d \in Days : row[d].left > 0
  /\ row' = [d \in Days |-> [row[d] EXCEPT !.left = IF @ > 0 THEN @ - 1 ELSE 0]]
  /\ UNCHANGED <<today, starts, pc, mine, late>>

Midnight ==
  /\ today < MaxDays
  /\ today' = today + 1
  /\ UNCHANGED <<starts, pc, mine, row, late>>

Step(s) == Claim(s) \/ Renew(s) \/ Fenced(s) \/ Poll(s)

Next ==
  \/ \E s \in Slots : Start(s) \/ Step(s) \/ Die(s)
  \/ Tick
  \/ Midnight

Spec == Init /\ [][Next]_vars
\* A running process is scheduled and time passes; nothing else is promised.
FairSpec == Spec /\ WF_vars(Tick) /\ \A s \in Slots : WF_vars(Step(s))
-----------------------------------------------------------------------------
(* Correctness *)

InLoop(s) == pc[s] \in {"renew", "poll"}

\* However long a recorder stalls between its renewal and its writes, it
\* writes at most one more poll after another process took its session.
AtMostOneLatePoll == \A s \in Slots : late[s] <= 1

\* Nobody takes a session whose lease is running: a session changes hands only
\* through an expiry or the end of its process.
LiveLeaseIsKept ==
  [][\A d \in Days : row[d].left > 0 /\ row'[d].owner # row[d].owner =>
       row'[d].owner = Departed]_vars

\* docs/INTRADAY.md: "a fenced writer exits".
FencedWriterExits ==
  \A s \in Slots : InLoop(s) /\ MyRow(s).owner # s ~> pc[s] = "off"

\* A recorder that died does not lock its session for good, whatever the
\* stalled processes do meanwhile.
SessionOpensAgain ==
  \A d \in Days : row[d].owner = Departed ~> row[d].left = 0 \/ row[d].owner # Departed
=============================================================================
