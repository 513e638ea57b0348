------------------------------ MODULE Holdings ------------------------------
(***************************************************************************)
(* The watchlist row of a ticker, its position and the tag "holding", under  *)
(* concurrent requests to the API (app/stockintel/api.py) and runs of         *)
(* scripts/seed_watchlist.py, with the trigger of sql/003_positions.sql.      *)
(* Each table has one row per ticker and no statement here relates two        *)
(* tickers, so the module is about one ticker.                               *)
(*                                                                         *)
(* A handler is the statements it runs, each on what is committed then. A     *)
(* transaction that writes a position is its statement, whose locks others    *)
(* wait for, and its commit, before which nobody sees it. Names are distinct *)
(* from those of EntryWatch, so that a module may extend both.                *)
(***************************************************************************)
CONSTANT Handlers   \* handlers under way at once

VARIABLES watch,    \* the watchlist row: known, active, tags has "holding"
          held,     \* there is an open position
          tx,       \* the open PUT or DELETE of the position, and whether its trigger
                    \* changed the watchlist row and holds its lock
          pc,       \* where each request stands
          crashed,  \* history: the application died
          strayed   \* history: a PUT found a tag that no position gave the ticker,
                    \* and committed when somebody had taken it

holdingVars == <<watch, held, tx, pc, crashed, strayed>>

Points == {"idle", "retire", "retire_missing", "rederive", "put_add", "put_rederive", "put",
           "put_commit", "close_commit"}
NoTx == [op |-> "none", locks |-> FALSE]

HoldingsTypeOK ==
  /\ watch \in [known : BOOLEAN, active : BOOLEAN, holding : BOOLEAN]
  /\ held \in BOOLEAN /\ (held => watch.known)
  /\ tx \in [op : {"none", "put", "close"}, locks : BOOLEAN]
  /\ pc \in [Handlers -> Points]
  /\ crashed \in BOOLEAN /\ strayed \in BOOLEAN
  /\ tx.op = "put" <=> \E c \in Handlers : pc[c] = "put_commit"
  /\ tx.op = "close" <=> \E c \in Handlers : pc[c] = "close_commit"
  /\ tx.op = "close" => held

HoldingsInit ==
  /\ watch = [known |-> FALSE, active |-> FALSE, holding |-> FALSE]
  /\ held = FALSE
  /\ tx = NoTx
  /\ pc = [c \in Handlers |-> "idle"]
  /\ crashed = FALSE /\ strayed = FALSE

Goes(c, from, to) == pc[c] = from /\ pc' = [pc EXCEPT ![c] = to]

Unlocked == ~tx.locks

-----------------------------------------------------------------------------
(* Watchlist *)

\* The upsert of _ensure_watchlist: tags are replaced, the ticker is active.
Upserted(holding) == watch' = [known |-> TRUE, active |-> TRUE, holding |-> holding]

\* POST /watchlist, which writes the tags it is sent, "holding" like any other;
\* POST /entries of an unknown ticker, without it.
AddTicker(c) ==
  /\ Goes(c, "idle", "rederive")
  /\ Unlocked
  /\ \E typed \in BOOLEAN : Upserted(typed)
  /\ UNCHANGED <<held, tx, strayed>>

\* POST /entries of a retired ticker; PATCH with active and no tags.
Activate(c) ==
  /\ Goes(c, "idle", "idle")
  /\ watch.known /\ ~watch.active /\ Unlocked
  /\ watch' = [watch EXCEPT !.active = TRUE]
  /\ UNCHANGED <<held, tx, strayed>>

\* _rederive_holding, one UPDATE of its own: it sees committed positions.
Rederived == [watch EXCEPT !.holding = @ \/ held]

Rederive(c) ==
  /\ \/ Goes(c, "rederive", "idle")
     \/ Goes(c, "put_rederive", "put")
  /\ watch' = Rederived
  /\ watch' # watch => Unlocked
  /\ UNCHANGED <<held, tx, strayed>>

\* PATCH of tags, with or without active: "holding" is filtered out.
PatchTags(c) ==
  /\ Goes(c, "idle", "rederive")
  /\ watch.known /\ Unlocked
  /\ \E a \in {watch.active, TRUE} : watch' = [watch EXCEPT !.active = a, !.holding = FALSE]
  /\ UNCHANGED <<held, tx, strayed>>

\* PATCH with active false: no open position when it looked.
RetireCheck(c) ==
  /\ Goes(c, "idle", "retire")
  /\ ~held
  /\ UNCHANGED <<watch, held, tx, strayed>>

\* The UPDATE, with or without tags, or 404.
Retire(c) ==
  /\ \/ Goes(c, "retire", "idle") /\ watch.known /\ watch' = [watch EXCEPT !.active = FALSE]
     \/ Goes(c, "retire", "rederive") /\ watch.known
        /\ watch' = [watch EXCEPT !.active = FALSE, !.holding = FALSE]
     \/ Goes(c, "retire", "idle") /\ ~watch.known /\ UNCHANGED watch
  /\ Unlocked
  /\ UNCHANGED <<held, tx, strayed>>

-----------------------------------------------------------------------------
(* seed_watchlist.py, a client of its own *)

\* The ticker is in the file: one upsert, which keeps the tag. Mutant: it takes
\* the tags of the file, as the upsert of the API does.
FileTags == FALSE
SeededTag == watch.holding

Seed(c) ==
  /\ Goes(c, "idle", "idle")
  /\ Unlocked
  /\ watch' = [known |-> TRUE, active |-> TRUE, holding |-> SeededTag]
  /\ UNCHANGED <<held, tx, strayed>>

\* It is not, and --retire-missing: an UPDATE that looks for a position itself,
\* in its snapshot, and may then wait for the row.
RetireMissingLooks(c) ==
  /\ Goes(c, "idle", "retire_missing")
  /\ watch.active /\ ~held
  /\ UNCHANGED <<watch, held, tx, strayed>>

RetireMissing(c) ==
  /\ Goes(c, "retire_missing", "idle")
  /\ Unlocked
  /\ watch' = [watch EXCEPT !.active = FALSE]
  /\ UNCHANGED <<held, tx, strayed>>

-----------------------------------------------------------------------------
(* Positions *)

\* PUT /positions: is the ticker on the watchlist? Retired counts.
OnList == watch.known

PutCheck(c) ==
  /\ \/ OnList /\ Goes(c, "idle", "put")
     \/ ~OnList /\ Goes(c, "idle", "put_add")
  /\ UNCHANGED <<watch, held, tx, strayed>>

PutAdd(c) ==
  /\ Goes(c, "put_add", "put_rederive")
  /\ Unlocked /\ Upserted(FALSE)
  /\ UNCHANGED <<held, tx, strayed>>

\* The upsert, which waits for another transaction on the position; its trigger
\* touches the watchlist row only if the tag is missing.
Put(c) ==
  /\ Goes(c, "put", "put_commit")
  /\ tx = NoTx
  /\ tx' = [op |-> "put", locks |-> ~watch.holding]
  /\ UNCHANGED <<watch, held, strayed>>

PutCommit(c) ==
  /\ Goes(c, "put_commit", "idle")
  /\ held' = TRUE
  /\ watch' = [watch EXCEPT !.holding = @ \/ tx.locks]
  /\ strayed' = (strayed \/ (~held /\ ~watch'.holding))
  /\ tx' = NoTx

\* DELETE /positions of a committed one: its trigger touches the row if the tag
\* is there.
CloseDelete(c) ==
  /\ Goes(c, "idle", "close_commit")
  /\ held /\ tx = NoTx
  /\ tx' = [op |-> "close", locks |-> watch.holding]
  /\ UNCHANGED <<watch, held, strayed>>

CloseCommit(c) ==
  /\ Goes(c, "close_commit", "idle")
  /\ held' = FALSE
  /\ watch' = [watch EXCEPT !.holding = @ /\ Unlocked]
  /\ tx' = NoTx
  /\ UNCHANGED strayed

\* Open transactions are rolled back.
Crash ==
  /\ crashed' = TRUE
  /\ pc' = [c \in Handlers |-> "idle"]
  /\ tx' = NoTx
  /\ UNCHANGED <<watch, held, strayed>>

-----------------------------------------------------------------------------
Handled(c) ==
  \/ AddTicker(c) \/ Activate(c) \/ Rederive(c) \/ PatchTags(c)
  \/ RetireCheck(c) \/ Retire(c)
  \/ Seed(c) \/ RetireMissingLooks(c) \/ RetireMissing(c)
  \/ PutCheck(c) \/ PutAdd(c) \/ Put(c) \/ PutCommit(c)
  \/ CloseDelete(c) \/ CloseCommit(c)

HoldingsNext == ((\E c \in Handlers : Handled(c)) /\ UNCHANGED crashed) \/ Crash

HoldingsSpec == HoldingsInit /\ [][HoldingsNext]_holdingVars

-----------------------------------------------------------------------------
(* Correctness *)

\* A position never lacks its tag but for the moment between a wholesale write
\* of the tags and the UPDATE that derives it again, whoever else adds,
\* patches, opens and closes meanwhile, unless the application died in between or
\* the position was opened under a tag that was there already and then was not.
MissingTagIsPending ==
  ~crashed /\ ~strayed /\ held /\ ~watch.holding =>
    \E c \in Handlers : pc[c] \in {"rederive", "put_rederive"}
=============================================================================
