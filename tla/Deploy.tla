------------------------------- MODULE Deploy -------------------------------
(***************************************************************************)
(* How workflows reach n8n: scripts/deploy_workflow.py sends one, behind the  *)
(* gate of Canvas, to the id in its ledger or else the pinned id;             *)
(* scripts/bootstrap.py imports them all at their pinned ids; the editor is   *)
(* open beside both.                                                          *)
(*                                                                           *)
(* n8n is external, modelled from what the scripts rely on. A workflow has a  *)
(* draft and a published version. A PUT to an active workflow publishes it,   *)
(* so the script activates first; to activate brings back the version         *)
(* published last, if there is one (deploy_workflow.py:143-146). Credentials  *)
(* and the tags on n8n are left out.                                          *)
(***************************************************************************)
EXTENDS Canvas

CONSTANTS Names,      \* workflows
          Callee,     \* the sub-workflow each calls, or Nobody
          Nobody,
          Activated,  \* ids.json: those that bootstrap.py activates
          Deployers,  \* runs of deploy_workflow.py at once
          Places,     \* bound: where the author lays a node
          MaxCopies,  \* bound: ids n8n hands out per workflow
          MaxDeploys, MaxBoots, MaxEdits  \* bounds: runs, and acts by hand

ASSUME DeployAssumption ==
  /\ Nobody \notin Names /\ Callee \in [Names -> Names \cup {Nobody}]
  /\ Activated \subseteq Names /\ Places \subseteq [x : Int, y : Int]
  /\ {MaxCopies, MaxDeploys, MaxBoots, MaxEdits} \subseteq Nat
  /\ Deployers \cap {"import", "earlier", "editor"} = {}

VARIABLES file,    \* the canvas of the workflow file, until it is first sent to n8n
          server,  \* the workflows on n8n, by id
          copies,  \* how many ids n8n has handed out for a name
          ledger,  \* n8n_workflows.json
          job,     \* the runs of deploy_workflow.py
          boot,    \* the run of bootstrap.py
          done     \* what the bounds count; whether two deploys ever overlapped; the ids
                   \* first published in the editor although the ledger had another

vars == <<file, server, copies, ledger, job, boot, done>>

\* A workflow's first id is pinned in its JSON; a POST gets a new one.
Ids == Names \X (0 .. MaxCopies)
NoId == <<Nobody, 0>>
Pinned(n) == <<n, 0>>

\* A version: who wrote it, whether its nodes have the names of the JSON, and
\* the id its sub-workflow node calls.
Version == [by : Deployers \cup {"import", "earlier", "editor"}, whole : BOOLEAN,
            calls : Ids \cup {NoId}]
NoVersion == [by |-> "import", whole |-> FALSE, calls |-> NoId]

\* live is what runs while the workflow is active, current that it is the draft
\* (versionId = activeVersionId).
Workflow == [exists : BOOLEAN, active : BOOLEAN, published : BOOLEAN, current : BOOLEAN,
             draft : Version, live : Version]
Absent == [exists |-> FALSE, active |-> FALSE, published |-> FALSE, current |-> FALSE,
           draft |-> NoVersion, live |-> NoVersion]

Idle == [pc |-> "idle", name |-> Nobody, wid |-> NoId, calls |-> NoId,
         ledger |-> [n \in Names |-> NoId], activate |-> FALSE,
         failed |-> FALSE, touched |-> FALSE]
NoBoot == [pc |-> "idle", left |-> {}]
Sent == [at |-> [n \in Nodes |-> [x |-> 0, y |-> 0]], stickies |-> <<>>, laid |-> FALSE, sent |-> TRUE]

TypeOK ==
  /\ server \in [Ids -> Workflow]
  /\ copies \in [Names -> 0 .. MaxCopies]
  /\ ledger \in [Names -> Ids \cup {NoId}]
  /\ job \in [Deployers ->
       [pc : {"idle", "before", "put", "post", "record", "activate", "verify", "tag"},
        name : Names \cup {Nobody}, wid : Ids \cup {NoId}, calls : Ids \cup {NoId},
        ledger : [Names -> Ids \cup {NoId}], activate : BOOLEAN,
        failed : BOOLEAN, touched : BOOLEAN]]
  /\ boot \in [pc : {"idle", "import", "publish"}, left : SUBSET Names]

Init ==
  /\ file \in [at : [Nodes -> Places], stickies : {<<>>}, laid : {FALSE}, sent : {FALSE}]
  /\ server = [i \in Ids |-> Absent]
  /\ copies = [n \in Names |-> 0]
  /\ ledger = [n \in Names |-> NoId]
  /\ job = [d \in Deployers |-> Idle]
  /\ boot = NoBoot
  /\ done = [deploys |-> 0, boots |-> 0, edits |-> 0, overlapped |-> FALSE,
             byHand |-> {}]

-----------------------------------------------------------------------------
(* n8n *)

\* A save: published at once where the workflow is active.
Saved(w, v) ==
  [w EXCEPT !.exists = TRUE, !.draft = v, !.current = w.active,
            !.live = IF w.active THEN v ELSE @]

Published(w) == [w EXCEPT !.active = TRUE, !.published = TRUE, !.current = TRUE, !.live = w.draft]

\* POST /activate brings back the version published last, not the draft.
Reactivated(w) == IF w.published THEN [w EXCEPT !.active = TRUE] ELSE Published(w)

\* Somebody writes workflow i; the deploys that are at work on it are disturbed.
Writes(jobs, i, w) ==
  /\ server' = [server EXCEPT ![i] = w]
  /\ job' = [d \in Deployers |->
       IF jobs[d] = job[d] /\ jobs[d].wid = i THEN [jobs[d] EXCEPT !.touched = TRUE] ELSE jobs[d]]

-----------------------------------------------------------------------------
(* The author: zone_layout.py over nodes laid anywhere *)

Generate ==
  /\ ~file.sent
  /\ file' = [Generated(file.at) EXCEPT !.laid = TRUE]
  /\ UNCHANGED <<server, copies, ledger, job, boot, done>>

-----------------------------------------------------------------------------
(* deploy_workflow.py *)

With(d, j) == [job EXCEPT ![d] = j]
At(d, pc) == [job[d] EXCEPT !.pc = pc]

\* wire_credentials, for the sub-workflow: the ledger's id, else the pinned one.
Wired(n) ==
  CASE Callee[n] = Nobody -> NoId
    [] Callee[n] # Nobody /\ ledger[Callee[n]] # NoId -> ledger[Callee[n]]
    [] OTHER -> Pinned(Callee[n])

\* Up to the first call: the gate, and both ledgers. Bound: a file that was sent
\* or imported is not laid out anew. What this deployer wrote before is by now
\* an earlier deploy's.
Start(d) ==
  \E n \in Names, activate \in BOOLEAN :
    LET Old(v) == IF v.by = d THEN [v EXCEPT !.by = "earlier"] ELSE v
    IN /\ job[d].pc = "idle" /\ done.deploys < MaxDeploys
       /\ file.sent \/ Errors(file) = {}
       /\ file' = Sent
       /\ job' = With(d, [pc |-> IF activate THEN "before" ELSE "put", name |-> n,
                          wid |-> IF ledger[n] # NoId THEN ledger[n] ELSE Pinned(n),
                          calls |-> Wired(n), ledger |-> ledger, activate |-> activate,
                          failed |-> FALSE, touched |-> FALSE])
       /\ server' = [i \in Ids |-> [server[i] EXCEPT !.draft = Old(@), !.live = Old(@)]]
       /\ done' = [done EXCEPT !.deploys = @ + 1,
                     !.overlapped = @ \/ \E e \in Deployers : job[e].pc # "idle"]
       /\ UNCHANGED <<copies, ledger, boot>>

\* Both activations only print what n8n answers.
Activates(d, pc, next) ==
  LET w == server[job[d].wid]
  IN /\ job[d].pc = pc
     /\ \/ w.exists /\ Writes(With(d, At(d, next)), job[d].wid, Reactivated(w))
        \/ ~w.exists /\ job' = With(d, At(d, next)) /\ UNCHANGED server
        \/ job' = With(d, [At(d, next) EXCEPT !.failed = TRUE]) /\ UNCHANGED server
     /\ UNCHANGED <<file, copies, ledger, boot, done>>

\* Mutant: no activation before the PUT.
NotBefore(d) ==
  /\ job[d].pc = "before"
  /\ job' = With(d, At(d, "put"))
  /\ UNCHANGED <<file, server, copies, ledger, boot, done>>
PreActivate(d) == Activates(d, "before", "put")

Mine(d) == [by |-> d, whole |-> TRUE, calls |-> job[d].calls]

\* A 404 goes on to the POST; any other error ends the run.
Put(d) ==
  LET w == server[job[d].wid]
  IN /\ job[d].pc = "put"
     /\ \/ w.exists /\ Writes(With(d, At(d, "record")), job[d].wid, Saved(w, Mine(d)))
        \/ ~w.exists /\ job' = With(d, At(d, "post")) /\ UNCHANGED server
     /\ UNCHANGED <<file, copies, ledger, boot, done>>

Post(d) ==
  LET n == job[d].name
      id == <<n, copies[n] + 1>>
  IN /\ job[d].pc = "post"
     /\ copies[n] < MaxCopies
     /\ Writes(With(d, [At(d, "record") EXCEPT !.wid = id]), id, Saved(Absent, Mine(d)))
     /\ copies' = [copies EXCEPT ![n] = @ + 1]
     /\ UNCHANGED <<file, ledger, boot, done>>

\* The ledger is written whole, as it was when the run began. Mutant: without
\* the new entry.
RecordNothing(d) ==
  /\ job[d].pc = "record"
  /\ ledger' = job[d].ledger
  /\ job' = With(d, At(d, IF job[d].activate THEN "activate" ELSE "verify"))
  /\ UNCHANGED <<file, server, copies, boot, done>>
Record(d) ==
  /\ job[d].pc = "record"
  /\ ledger' = [job[d].ledger EXCEPT ![job[d].name] = job[d].wid]
  /\ job' = With(d, At(d, IF job[d].activate THEN "activate" ELSE "verify"))
  /\ UNCHANGED <<file, server, copies, boot, done>>

Activate(d) == Activates(d, "activate", "verify")

\* The read-back. Mutant: of the node names only, as before the versions were
\* compared.
NamesMatch(w) == w.exists /\ w.draft.whole
Verifies(w) == w.exists /\ w.draft.whole /\ w.current

Verify(d) ==
  /\ job[d].pc = "verify"
  /\ job' = With(d, IF Verifies(server[job[d].wid]) THEN At(d, "tag") ELSE Idle)
  /\ UNCHANGED <<file, server, copies, ledger, boot, done>>

\* Any other way out: the last call, an error, a timeout, a killed process.
End(d) ==
  /\ job[d].pc # "idle"
  /\ job' = With(d, Idle)
  /\ UNCHANGED <<file, server, copies, ledger, boot, done>>

Deployment(d) ==
  \/ Start(d) \/ PreActivate(d) \/ Put(d) \/ Post(d) \/ Record(d)
  \/ Activate(d) \/ Verify(d) \/ End(d)

-----------------------------------------------------------------------------
(* bootstrap.py *)

BootStart ==
  /\ boot.pc = "idle" /\ done.boots < MaxBoots
  /\ boot' = [pc |-> "import", left |-> Names]
  /\ file' = Sent
  /\ done' = [done EXCEPT !.boots = @ + 1]
  /\ UNCHANGED <<server, copies, ledger, job>>

\* import_workflows, as shipped; what is imported is inactive.
Import(n) ==
  /\ boot.pc = "import" /\ n \in boot.left
  /\ Writes(job, Pinned(n),
       Saved(Absent, [by |-> "import", whole |-> TRUE,
                      calls |-> IF Callee[n] = Nobody THEN NoId ELSE Pinned(Callee[n])]))
  /\ boot' = IF boot.left = {n} THEN [pc |-> "publish", left |-> Activated]
             ELSE [boot EXCEPT !.left = @ \ {n}]
  /\ UNCHANGED <<file, copies, ledger, done>>

\* activate: publish:workflow.
Publish(n) ==
  /\ boot.pc = "publish" /\ n \in boot.left /\ server[Pinned(n)].exists
  /\ Writes(job, Pinned(n), Published(server[Pinned(n)]))
  /\ boot' = [boot EXCEPT !.left = @ \ {n}]
  /\ UNCHANGED <<file, copies, ledger, done>>

BootEnd ==
  /\ boot.pc # "idle"
  /\ boot' = NoBoot
  /\ UNCHANGED <<file, server, copies, ledger, job, done>>

-----------------------------------------------------------------------------
(* The editor: a new draft, Publish, off, delete.  Publish is offered for any *)
(* draft, and deploy_workflow.py:178-180 asks for it.                         *)

Edit(i) ==
  LET w == server[i]
      Counted(hand) == done' = [done EXCEPT !.edits = @ + 1, !.byHand = @ \cup hand]
  IN /\ w.exists /\ done.edits < MaxEdits
     /\ \/ \E whole \in BOOLEAN :
             Writes(job, i, [w EXCEPT !.draft = [@ EXCEPT !.by = "editor", !.whole = whole],
                                      !.current = FALSE]) /\ Counted({})
        \/ Writes(job, i, Published(w)) /\ Counted(IF w.published \/ ledger[i[1]] = i THEN {} ELSE {i})
        \/ w.active /\ Writes(job, i, [w EXCEPT !.active = FALSE]) /\ Counted({})
        \/ Writes(job, i, Absent) /\ Counted({})
     /\ UNCHANGED <<file, copies, ledger, boot>>

-----------------------------------------------------------------------------
Next ==
  \/ Generate
  \/ \E d \in Deployers : Deployment(d)
  \/ BootStart \/ BootEnd
  \/ \E n \in Names : Import(n) \/ Publish(n)
  \/ \E i \in Ids : Edit(i)

Spec == Init /\ [][Next]_vars

-----------------------------------------------------------------------------
(* Correctness *)

\* docs/WORKFLOWS.md: the script "verifies that the published version is the one
\* it just sent": a deploy that reports success, and that nobody disturbed, left
\* its own version running, and that calls the copy of its sub-workflow that was
\* deployed. The read-back itself compares no contents.
VerifiedIsLive ==
  [][\A d \in Deployers :
       job[d].pc = "verify" /\ job'[d].pc = "tag" /\ ~job[d].touched =>
         LET w == server[job[d].wid]
             sub == Callee[job[d].name]
         IN /\ w.active /\ w.live.by = d
            /\ sub # Nobody /\ job[d].ledger[sub] # NoId => w.live.calls = job[d].ledger[sub]]_vars

\* deploy_workflow.py:143, "Activate BEFORE the PUT": if n8n answers every call
\* and nobody disturbs it, a deploy with --activate passes its own read-back,
\* whether the workflow is new, active, switched off or has an unpublished draft.
DeployLands ==
  \A d \in Deployers :
    job[d].pc = "verify" /\ job[d].activate /\ ~job[d].failed /\ ~job[d].touched =>
      Verifies(server[job[d].wid])

\* A run may die between the POST and the ledger and leave a copy nobody knows
\* of.  As long as no two deploys overlap, each writing its ledger over the other's,
\* at most one copy of a workflow runs, besides those that somebody first published
\* by hand although the ledger had another.
OneLiveCopy ==
  ~done.overlapped =>
    \A n \in Names : \A k, l \in 1 .. MaxCopies :
      /\ server[<<n, k>>].active /\ <<n, k>> \notin done.byHand
      /\ server[<<n, l>>].active /\ <<n, l>> \notin done.byHand
      => k = l

\* docs/CANVAS.md: the generator "levels and spaces the rows for you". Wherever
\* the nodes were laid, what it writes passes the gate, but for a row of too many
\* columns and a row the check splits; and it would write the same again.
GeneratedPasses ==
  file.laid =>
    /\ Errors(file) \subseteq {"overflow"} \cup {e \in {"tight", "row"} : SplitRow(file.at)}
    /\ [Generated(file.at) EXCEPT !.laid = TRUE] = file
=============================================================================
