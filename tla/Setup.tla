-------------------------------- MODULE Setup --------------------------------
(***************************************************************************)
(* Installing and upgrading beside a running app: scripts/migrate.py applies  *)
(* the SQL files and records them, scripts/bootstrap.py runs it and then      *)
(* points the analyst at LLM_PROVIDER, and the Settings screen reads and      *)
(* writes the same rows of intel.config (app/static/ui.html over api.py and   *)
(* providers.py).                                                            *)
(*                                                                         *)
(* Only the files whose effects meet are modelled: 002 and 004 seed the model *)
(* references, 005 and 017 the provider registry, 008 and 010 define the      *)
(* audit function of entry_watch, 018 pins its search path. One run of the    *)
(* scripts and one open page at a time; files are edited between runs.        *)
(***************************************************************************)
EXTENDS Integers, Sequences, FiniteSetsExt

CONSTANTS Kind,      \* kinds LLM_PROVIDER may name
          Menu,      \* per provider, the models its catalog offers
          Edited,    \* bound: the files that are edited
          MaxCrashes, MaxEdits, MaxVisits  \* bounds

None == "none"   \* no provider, no model: the empty string
DefaultProvider == "openrouter"
Provider == Kind \cup {DefaultProvider}

Cheap == "analyst_cheap_model"
Role == {"analyst_model", "analyst_deep_model", Cheap}
SeedOrder == <<"analyst_model", "analyst_deep_model", Cheap>>
PutOrder == <<"analyst_model", Cheap, "analyst_deep_model">>
File == {2, 4, 5, 8, 10, 17, 18}

\* Ids of the default provider begin with a vendor, those that 002 seeds do not
\* (004_analyst.sql:68).
ASSUME SetupAssumption ==
  /\ {DefaultProvider, None} \cap Kind = {}
  /\ DOMAIN Menu = Provider
  /\ "claude" \notin Menu[DefaultProvider]
  /\ Edited \subseteq File
  /\ {MaxCrashes, MaxEdits, MaxVisits} \subseteq Nat

\* A reference is a provider and a model; a bare model has no provider, and
\* belongs to the default one.
Unset == <<None, None>>
Claude == <<None, "claude">>
VendorClaude == <<None, "vendor_claude">>
Shipped == {Claude, VendorClaude}
Ref(kind) == <<kind, "default">>

\* parse_ref, parseRef, makeRef: the page writes models of the default provider bare.
Parsed(ref) == IF ref[1] = None THEN <<DefaultProvider, ref[2]>> ELSE ref
Made(choice) == IF choice[1] = DefaultProvider THEN <<None, choice[2]>> ELSE choice

\* An entry of the registry names the variable that holds its key.
Entry(id) == [id |-> id, env |-> "new"]
OldRegistry == {[id |-> DefaultProvider, env |-> "old"]}
NewRegistry == {Entry(DefaultProvider)}
Ids(registry) == {p.id : p \in registry}

\* registry(): without a row the built-in default.
Effective(registry) == IF registry = {} THEN NewRegistry ELSE registry

VARIABLES
  files,   \* version of each file on disk
  ledger,  \* schema_migrations: the version recorded, 0 if none
  config,  \* [model: a reference per role, providers: set of entries, {} if no row]
  audit,   \* log_entry_watch_change: the file it comes from, and whether its path is pinned
  at,      \* where the scripts are
  todo,    \* files still to apply, in the order of their names
  llm,     \* LLM_PROVIDER of this run
  seen,    \* config as seed_llm_provider read it
  role,    \* position in SeedOrder
  page,    \* "closed", "open", or "put": the registry is saved, the references follow
  form,    \* what the page holds: choices per role, and the registry
  put,     \* position in PutOrder
  raced,   \* history: scripts and page overlapped, or a save was cut short
  crashes, edits, visits

script == <<at, todo, llm, seen, role>>
screen == <<page, form, put>>
bounds == <<crashes, edits, visits>>
vars == <<files, ledger, config, audit, script, screen, raced, bounds>>

Names == {None, "claude", "vendor_claude", "default"} \cup UNION {Menu[p] : p \in Provider}
References == {<<k, m>> : k \in Provider \cup {None}, m \in Names}
Configs == [model: [Role -> References], providers: SUBSET [id: Provider, env: {"old", "new"}]]

TypeOK ==
  /\ files \in [File -> Nat \ {0}] /\ ledger \in [File -> Nat]
  /\ config \in Configs /\ seen \in Configs /\ form \in Configs
  /\ audit \in [from: {0, 8, 10}, pinned: BOOLEAN]
  /\ at \in {"off", "plan", "apply", "record", "read", "register", "roles"}
  /\ todo \subseteq File
  /\ llm \in Kind \cup {None} /\ (at = "off" <=> llm = None)
  /\ role \in 1 .. 3 /\ put \in 1 .. 3
  /\ page \in {"closed", "open", "put"}
  /\ raced \in BOOLEAN
  /\ crashes \in 0 .. MaxCrashes /\ edits \in 0 .. MaxEdits /\ visits \in 0 .. MaxVisits

-----------------------------------------------------------------------------
(* The files *)

\* INSERT ... ON CONFLICT DO NOTHING
Seeded(ref, seed) == IF ref = Unset THEN seed ELSE ref

\* 002 seeds two references; 004 seeds the third and spells the seeds of 002 anew.
Models(f, model) ==
  CASE f = 2 -> [r \in Role |-> IF r = Cheap THEN model[r] ELSE Seeded(model[r], Claude)]
    [] f = 4 -> [r \in Role |-> IF r = Cheap THEN Seeded(model[r], VendorClaude)
                                ELSE IF model[r] = Claude THEN VendorClaude ELSE model[r]]
    [] OTHER -> model
Registry(f, providers) ==
  CASE f = 5 /\ providers = {} -> OldRegistry
    [] f = 17 /\ providers = OldRegistry -> NewRegistry
    [] OTHER -> providers

\* CREATE OR REPLACE FUNCTION forgets a pinned path.
Audit(f) ==
  CASE f \in {8, 10} -> [from |-> f, pinned |-> FALSE]
    [] f = 18 -> [audit EXCEPT !.pinned = TRUE]
    [] OTHER -> audit

-----------------------------------------------------------------------------
(* migrate.py *)

Blank == [model |-> [r \in Role |-> Unset], providers |-> {}]

Init ==
  /\ files = [f \in File |-> 1]
  /\ ledger = [f \in File |-> 0]
  /\ config = Blank
  /\ audit = [from |-> 0, pinned |-> FALSE]
  /\ at = "off" /\ todo = {} /\ llm = None /\ seen = Blank /\ role = 1
  /\ page = "closed" /\ form = Blank /\ put = 1
  /\ raced = FALSE
  /\ crashes = 0 /\ edits = 0 /\ visits = 0

\* What a run knew is gone with it.
Quit == at' = "off" /\ todo' = {} /\ llm' = None /\ seen' = Blank /\ role' = 1

\* bootstrap.py starts migrate.py, which reads the ledger.
Start(kind) ==
  /\ at = "off"
  /\ at' = "plan" /\ llm' = kind
  /\ UNCHANGED <<files, ledger, config, audit, todo, seen, role, screen, bounds>>

Changed == {f \in File : ledger[f] # 0 /\ ledger[f] # files[f]}

\* plan() looks at every file before anything is applied; a changed one ends the run.
\* Mutant: only the file whose turn it is is compared.
NeverRefused == FALSE
Refused == Changed # {}

\* Mutant: a recorded file is applied again.
Always(f) == TRUE
IsPending(f) == ledger[f] = 0

Plan ==
  /\ at = "plan"
  /\ IF Refused
     THEN Quit
     ELSE /\ todo' = {f \in File : IsPending(f)}
          /\ at' = IF todo' = {} THEN "read" ELSE "apply"
          /\ UNCHANGED <<llm, seen, role>>
  /\ UNCHANGED <<files, ledger, config, audit, screen, bounds>>

\* The file whose turn it is.
Turn == Min(todo)

\* The statements of a file are one implicit transaction, its ledger row another.
Apply ==
  /\ at = "apply"
  /\ config' = [model |-> Models(Turn, config.model),
                providers |-> Registry(Turn, config.providers)]
  /\ audit' = Audit(Turn)
  /\ at' = "record"
  /\ UNCHANGED <<files, ledger, todo, llm, seen, role, screen, bounds>>

Record ==
  /\ at = "record"
  /\ ledger' = [ledger EXCEPT ![Turn] = files[Turn]]
  /\ todo' = todo \ {Turn}
  /\ at' = IF todo' = {} THEN "read" ELSE "apply"
  /\ UNCHANGED <<files, config, audit, llm, seen, role, screen, bounds>>

-----------------------------------------------------------------------------
(* seed_llm_provider *)

\* One SELECT reads the registry and the three references.
ReadConfig ==
  /\ at = "read"
  /\ seen' = config
  /\ at' = "register" /\ role' = 1
  /\ UNCHANGED <<files, ledger, config, audit, todo, llm, screen, bounds>>

\* The registry is written whole, from what was read. Mutant: it is started anew.
Replaced(registry, id) == {Entry(id)}
Extended(registry, id) == registry \cup {Entry(id)}

\* Mutant: a registered provider was set up by an earlier run.
DoneIfRegistered == llm \in Ids(seen.providers)
DoneAfterRegistry == FALSE

Register ==
  /\ at = "register"
  /\ config' = IF llm \in Ids(seen.providers) THEN config
               ELSE [config EXCEPT !.providers = Extended(seen.providers, llm)]
  /\ IF DoneAfterRegistry THEN Quit ELSE at' = "roles" /\ UNCHANGED <<todo, llm, seen, role>>
  /\ UNCHANGED <<files, ledger, audit, screen, bounds>>

Replaceable(ref) == ref \in Shipped

SeedRole ==
  /\ at = "roles"
  /\ LET r == SeedOrder[role] IN
       config' = IF Replaceable(seen.model[r]) THEN [config EXCEPT !.model[r] = Ref(llm)]
                 ELSE config
  /\ IF role < Len(SeedOrder) THEN role' = role + 1 /\ UNCHANGED <<at, todo, llm, seen>>
     ELSE Quit
  /\ UNCHANGED <<files, ledger, audit, screen, bounds>>

\* The scripts are killed; the next run starts over.
Crash ==
  /\ at # "off" /\ crashes < MaxCrashes
  /\ Quit
  /\ crashes' = crashes + 1
  /\ UNCHANGED <<files, ledger, config, audit, screen, edits, visits>>

EditFile(f) ==
  /\ at = "off" /\ edits < MaxEdits
  /\ files' = [files EXCEPT ![f] = @ + 1]
  /\ edits' = edits + 1
  /\ UNCHANGED <<ledger, config, audit, script, screen, crashes, visits>>

-----------------------------------------------------------------------------
(* The Settings screen *)

\* loadSettings
OpenPage ==
  /\ page = "closed" /\ visits < MaxVisits
  /\ form' = [model |-> [r \in Role |-> Parsed(config.model[r])],
              providers |-> Effective(config.providers)]
  /\ page' = "open" /\ visits' = visits + 1
  /\ UNCHANGED <<files, ledger, config, audit, script, put, crashes, edits>>

\* removeProvider: not one that a role of the page uses.
InUse(p, model) == \E r \in Role : model[r][1] = p.id

\* What the page may hold when it is saved: a role picked anew from the catalog
\* of a listed provider, a provider added or removed. One edit of each kind per visit.
Picks ==
  {form.model} \cup
    UNION {{[form.model EXCEPT ![r] = <<p.id, m>>] : m \in Menu[p.id]} :
             r \in Role, p \in form.providers}
Lists(model) ==
  {form.providers} \cup {form.providers \cup {Entry(k)} : k \in Provider \ Ids(form.providers)}
    \cup {form.providers \ {p} : p \in {q \in form.providers : ~InUse(q, model)}}

\* saveSettings: no role without a model; PUT /providers writes the list whole,
\* if validate() finds one provider in it.
SaveProviders ==
  /\ page = "open"
  /\ \E model \in Picks : \E list \in Lists(model) :
       /\ \A r \in Role : model[r][2] # None
       /\ list # {}
       /\ config' = [config EXCEPT !.providers = list]
       /\ form' = [model |-> model, providers |-> list]
  /\ page' = "put" /\ put' = 1
  /\ UNCHANGED <<files, ledger, audit, script, bounds>>

\* PUT /config writes every role the page holds, a statement per key.
PutModel ==
  /\ page = "put"
  /\ LET r == PutOrder[put]
         ref == Made(form.model[r]) IN
       /\ config' = [config EXCEPT !.model[r] = ref]
  /\ IF put < Len(PutOrder) THEN put' = put + 1 /\ UNCHANGED <<page, form>>
     ELSE page' = "closed" /\ form' = Blank /\ put' = 1
  /\ UNCHANGED <<files, ledger, audit, script, bounds>>

\* The tab is closed, or a request fails.
ClosePage ==
  /\ page # "closed"
  /\ page' = "closed" /\ form' = Blank /\ put' = 1
  /\ UNCHANGED <<files, ledger, config, audit, script, bounds>>

-----------------------------------------------------------------------------

Scripts ==
  \/ \E k \in Kind : Start(k)
  \/ Plan \/ Apply \/ Record
  \/ ReadConfig \/ Register \/ SeedRole
  \/ Crash
  \/ \E f \in Edited : EditFile(f)
Settings == OpenPage \/ SaveProviders \/ PutModel \/ ClosePage

Overlap == page' # "closed" /\ at' # "off"
CutShort ==
  /\ page = "put" /\ page' = "closed"
  /\ \E r \in Role : config'.model[r] # Made(form.model[r])

Next == (Scripts \/ Settings) /\ raced' = (raced \/ Overlap \/ CutShort)

Spec == Init /\ [][Next]_vars

-----------------------------------------------------------------------------
(* Properties *)

\* A recorded file left its mark and no earlier file ran over it since, with
\* crashes between a file and its row (migrate.py:83-84): entry_watch is audited
\* by the function of 010 with the path of 018, roles and registry are seeded.
RecordedIsInForce ==
  /\ ledger[10] # 0 => audit.from = 10
  /\ ledger[18] # 0 => audit.pinned
  /\ ledger[4] # 0 => \A r \in Role : config.model[r] # Unset
  /\ ledger[4] # 0 /\ ~raced => \A r \in Role : config.model[r] # Claude
  /\ ledger[5] # 0 => config.providers # {}

\* While a recorded file differs from its row no file is applied, not even one
\* that comes before it (migrate.py:55-56).
ChangedStopsAll == [][at = "apply" /\ at' = "record" => Changed = {}]_vars

\* Every reference names a registered provider (providers.py:133-137), through
\* any sequence of runs, crashes and visits, unless the scripts ran beside an
\* open page, a save was cut short, or one is going on.
RolesResolve ==
  ~raced /\ page # "put" =>
    \A r \in Role : config.model[r] # Unset =>
      Parsed(config.model[r])[1] \in Ids(Effective(config.providers))

\* A run that gets to its end leaves no role on a shipped reference, even after
\* one that died halfway, unless a page wrote meanwhile.
SeedingFinishes ==
  [][(at = "register" \/ at = "roles") /\ at' = "off" /\ crashes' = crashes /\ ~raced
       => \A r \in Role : config'.model[r] \notin Shipped]_vars
=============================================================================
