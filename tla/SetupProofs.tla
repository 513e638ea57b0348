---------------------------- MODULE SetupProofs ----------------------------
(***************************************************************************)
(* Theorems about Setup, for any kinds and catalogs of providers and any      *)
(* number of crashes, edits and visits.                                      *)
(***************************************************************************)
EXTENDS Setup, TLAPS, WellFoundedInduction

\* What a recorded file left behind.
InForce(f) ==
  CASE f = 2 -> \A r \in Role \ {Cheap} : config.model[r] # Unset
    [] f = 4 -> /\ \A r \in Role : config.model[r] # Unset
                /\ ~raced => \A r \in Role : config.model[r] # Claude
    [] f = 5 -> config.providers # {}
    [] f = 10 -> audit.from = 10
    [] f = 18 -> audit.pinned
    [] OTHER -> TRUE

\* Every recorded file is in force, and so is the one about to be recorded.
LedgerIsTrue ==
  /\ \A f \in File : ledger[f] # 0 => InForce(f)
  /\ at = "record" => InForce(Turn)

\* Files are recorded in their order, todo is what is left of them, nothing
\* recorded has changed meanwhile, and the seeding finds all of them.
LedgerInOrder ==
  /\ \A f, g \in File : f < g /\ ledger[g] # 0 => ledger[f] # 0
  /\ at \in {"apply", "record"} =>
       todo = {f \in File : IsPending(f)} /\ todo # {} /\ Changed = {}
  /\ at \in {"read", "register", "roles"} => \A f \in File : ledger[f] # 0

\* How references are spelt: those to the default provider have no provider, the
\* cheap role never had the model of 002, and the page names every provider.
Spelling ==
  /\ \A r \in Role : config.model[r][1] # DefaultProvider
  /\ config.model[Cheap] # Claude
  /\ page # "closed" =>
       /\ form.model[Cheap] # Parsed(Claude)
       /\ \A r \in Role : form.model[r][1] # None
       /\ ~raced /\ ledger[4] # 0 => \A r \in Role : form.model[r] # Parsed(Claude)
  /\ page = "put" => \A r \in Role : form.model[r][2] # None

\* While scripts and page never met, each knows what is stored.
Alone ==
  /\ page # "closed" /\ at # "off" => raced
  /\ ~raced =>
       /\ at = "register" => config = seen
       /\ at = "roles" => llm \in Ids(config.providers)
       /\ page = "open" => form = [model |-> [r \in Role |-> Parsed(config.model[r])],
                                   providers |-> Effective(config.providers)]
       /\ page = "put" => /\ config.providers = form.providers /\ config.providers # {}
                          /\ \A r \in Role : form.model[r][1] \in Ids(form.providers)

\* The roles that were seeded in this run, and those that were not.
RolesInTurn ==
  /\ at = "register" => role = 1
  /\ at = "roles" /\ ~raced =>
       \A i \in 1 .. 3 : /\ i < role => config.model[SeedOrder[i]] \notin Shipped
                         /\ i >= role => config.model[SeedOrder[i]] = seen.model[SeedOrder[i]]

\* Whoever left the default provider's entry out had given every role a model.
DefaultIsNeeded ==
  ~raced /\ page # "put" /\ (\E r \in Role : config.model[r] = Unset) =>
    DefaultProvider \in Ids(Effective(config.providers))

-----------------------------------------------------------------------------
(* Operators *)

\* No provider is named None.
LEMMA ProvidersHaveNames == None \notin Provider /\ DefaultProvider \in Provider /\ Kind \subseteq Provider
BY SetupAssumption DEF Provider, DefaultProvider, None

\* What parseRef does to a reference.
LEMMA ParsedRefs ==
  ASSUME NEW ref \in References
  PROVE  /\ Parsed(ref) \in References /\ Parsed(ref)[1] \in Provider /\ Parsed(ref)[2] = ref[2]
         /\ Parsed(ref) = Parsed(Claude) /\ ref[1] # DefaultProvider => ref = Claude
<1>1. \A k \in Provider \cup {None}, m \in Names : <<k, m>> \in References
  BY DEF References
<1>2. PICK k \in Provider \cup {None}, m \in Names : ref = <<k, m>>
  BY DEF References
<1>3. Parsed(Claude) = <<DefaultProvider, "claude">>
  BY DEF Parsed, Claude
<1>4. CASE k = None
  BY <1>1, <1>2, <1>3, <1>4, ProvidersHaveNames DEF Parsed, Claude
<1>5. CASE k # None
  BY <1>1, <1>2, <1>3, <1>5, ProvidersHaveNames DEF Parsed, Claude
<1> QED
  BY <1>4, <1>5

\* What makeRef does to a choice of the page, and that parseRef undoes it.
LEMMA MadeRefs ==
  ASSUME NEW choice \in References, choice[1] # None
  PROVE  /\ Made(choice) \in References /\ Made(choice)[1] # DefaultProvider
         /\ Made(choice)[2] = choice[2] /\ Parsed(Made(choice)) = choice
         /\ Made(choice) = Claude => choice = Parsed(Claude)
<1>1. \A k \in Provider \cup {None}, m \in Names : <<k, m>> \in References
  BY DEF References
<1>2. PICK k \in Provider \cup {None}, m \in Names : choice = <<k, m>>
  BY DEF References
<1>3. Parsed(Claude) = <<DefaultProvider, "claude">>
  BY DEF Parsed, Claude
<1>4. CASE k = DefaultProvider
  BY <1>1, <1>2, <1>3, <1>4, ProvidersHaveNames DEF Parsed, Made, Claude
<1>5. CASE k # DefaultProvider
  BY <1>1, <1>2, <1>3, <1>5, ProvidersHaveNames DEF Parsed, Made, Claude
<1> QED
  BY <1>4, <1>5

\* The references of the scripts.
LEMMA SeedRefs ==
  /\ {Unset, Claude, VendorClaude} \subseteq References
  /\ \A k \in Kind : Ref(k) \in References /\ Ref(k)[1] = k /\ Ref(k)[2] = "default" /\ Ref(k) \notin Shipped
  /\ Unset # Claude /\ Unset # VendorClaude /\ Claude # VendorClaude
  /\ \A ref \in {Unset, Claude, VendorClaude} : ref[1] = None /\ Parsed(ref)[1] = DefaultProvider
<1>1. {None, "claude", "vendor_claude", "default"} \subseteq Names
  BY DEF Names
<1>2. {Unset, Claude, VendorClaude} \subseteq References
  BY <1>1 DEF References, Unset, Claude, VendorClaude
<1>3. Unset # Claude /\ Unset # VendorClaude /\ Claude # VendorClaude
  BY DEF Unset, Claude, VendorClaude, None
<1>4. \A ref \in {Unset, Claude, VendorClaude} : ref[1] = None /\ Parsed(ref)[1] = DefaultProvider
  BY DEF Unset, Claude, VendorClaude, Parsed
<1>5. ASSUME NEW k \in Kind
      PROVE  Ref(k) \in References /\ Ref(k)[1] = k /\ Ref(k)[2] = "default"
  BY <1>1, ProvidersHaveNames DEF References, Ref
<1>6. ASSUME NEW k \in Kind PROVE Ref(k) \notin Shipped
  BY DEF Ref, Shipped, Claude, VendorClaude
<1> QED
  BY <1>2, <1>3, <1>4, <1>5, <1>6

\* Both orders are all the roles, each once.
LEMMA RoleOrders ==
  /\ Len(SeedOrder) = 3 /\ Len(PutOrder) = 3
  /\ \A i \in 1 .. 3 : SeedOrder[i] \in Role /\ PutOrder[i] \in Role
  /\ \A i, j \in 1 .. 3 : SeedOrder[i] = SeedOrder[j] => i = j
  /\ \A r \in Role : \E i \in 1 .. 3 : SeedOrder[i] = r
<1>1. \A i \in 1 .. 3 : i \in {1, 2, 3}
  OBVIOUS
<1>2. SeedOrder[1] = "analyst_model" /\ SeedOrder[2] = "analyst_deep_model" /\ SeedOrder[3] = Cheap
  BY DEF SeedOrder
<1>3. PutOrder[1] = "analyst_model" /\ PutOrder[2] = Cheap /\ PutOrder[3] = "analyst_deep_model"
  BY DEF PutOrder
<1>4. \A r \in Role : r \in {SeedOrder[1], SeedOrder[2], SeedOrder[3]}
  BY <1>2 DEF Role
<1>5. Len(SeedOrder) = 3 /\ Len(PutOrder) = 3
  BY DEF SeedOrder, PutOrder
<1>6. \A i \in 1 .. 3 : SeedOrder[i] \in Role /\ PutOrder[i] \in Role
  BY <1>1, <1>2, <1>3 DEF Role
<1>7. \A i, j \in 1 .. 3 : SeedOrder[i] = SeedOrder[j] => i = j
  BY <1>1, <1>2 DEF Cheap
<1>8. \A r \in Role : \E i \in 1 .. 3 : SeedOrder[i] = r
  BY <1>4
<1> QED
  BY <1>5, <1>6, <1>7, <1>8

\* The file whose turn it is.
LEMMA TurnIsLeast ==
  ASSUME todo \subseteq File, todo # {}
  PROVE  Turn \in todo /\ \A f \in todo : Turn <= f
<1>1. todo \subseteq Nat
  BY DEF File
<1>2. PICK least \in todo : \A f \in todo : ~(<<f, least>> \in OpToRel(<, Nat))
  BY <1>1, NatLessThanWellFounded, WFMin, Zenon
<1>3. \A f \in todo : ~(f < least)
  <2>1. \A f \in todo : f \in Nat /\ least \in Nat
    BY <1>1
  <2> QED
    BY <2>1, <1>2, Zenon DEF OpToRel
<1>4. \A f \in todo : least <= f
  BY <1>1, <1>3
<1> QED
  BY <1>4 DEF Turn, Min

\* What the files do to the references.
LEMMA ModelsOf ==
  ASSUME NEW model \in [Role -> References]
  PROVE  /\ \A f : Models(f, model) \in [Role -> References]
         /\ Models(2, model) = [r \in Role |-> IF r = Cheap THEN model[r] ELSE Seeded(model[r], Claude)]
         /\ Models(4, model) = [r \in Role |-> IF r = Cheap THEN Seeded(model[r], VendorClaude)
                                   ELSE IF model[r] = Claude THEN VendorClaude ELSE model[r]]
         /\ \A f : f \notin {2, 4} => Models(f, model) = model
<1>1. \A ref \in References : Seeded(ref, Claude) \in References /\ Seeded(ref, VendorClaude) \in References
  BY SeedRefs DEF Seeded
<1>2. Models(2, model) = [r \in Role |-> IF r = Cheap THEN model[r] ELSE Seeded(model[r], Claude)]
  BY DEF Models
<1>3. Models(4, model) = [r \in Role |-> IF r = Cheap THEN Seeded(model[r], VendorClaude)
                                   ELSE IF model[r] = Claude THEN VendorClaude ELSE model[r]]
  BY DEF Models
<1>4. \A f : f \notin {2, 4} => Models(f, model) = model
  BY DEF Models
<1>5. Models(2, model) \in [Role -> References] /\ Models(4, model) \in [Role -> References]
  BY <1>1, <1>2, <1>3, SeedRefs
<1> QED
  BY <1>2, <1>3, <1>4, <1>5

\* What the files do to the registry: it keeps its ids, without a row the default's.
LEMMA RegistryOf ==
  ASSUME NEW providers \in SUBSET [id: Provider, env: {"old", "new"}], NEW f
  PROVE  /\ Registry(f, providers) \in SUBSET [id: Provider, env: {"old", "new"}]
         /\ Ids(Effective(Registry(f, providers))) = Ids(Effective(providers))
         /\ Registry(f, providers) = {} => providers = {} /\ f # 5
<1>1. /\ OldRegistry \in SUBSET [id: Provider, env: {"old", "new"}]
      /\ NewRegistry \in SUBSET [id: Provider, env: {"old", "new"}]
      /\ OldRegistry # {} /\ NewRegistry # {}
      /\ Ids(OldRegistry) = {DefaultProvider} /\ Ids(NewRegistry) = {DefaultProvider}
  <2>1. /\ [id |-> DefaultProvider, env |-> "old"] \in [id: Provider, env: {"old", "new"}]
        /\ [id |-> DefaultProvider, env |-> "new"] \in [id: Provider, env: {"old", "new"}]
    BY ProvidersHaveNames
  <2>2. \A x : Ids({x}) = {x.id}
    BY DEF Ids
  <2> QED
    BY <2>1, <2>2 DEF OldRegistry, NewRegistry, Entry
<1>2. CASE f = 5 /\ providers = {}
  BY <1>1, <1>2 DEF Registry, Effective
<1>3. CASE f = 17 /\ providers = OldRegistry
  BY <1>1, <1>3 DEF Registry, Effective
<1>4. CASE ~(f = 5 /\ providers = {}) /\ ~(f = 17 /\ providers = OldRegistry)
  BY <1>4 DEF Registry
<1> QED
  BY <1>2, <1>3, <1>4

-----------------------------------------------------------------------------
(* Types *)

\* A choice of the page, and the lists it may hold, are references and entries.
LEMMA PicksAndLists ==
  ASSUME form \in Configs
  PROVE  /\ Picks \subseteq [Role -> References]
         /\ \A model : Lists(model) \subseteq SUBSET [id: Provider, env: {"old", "new"}]
<1>1. form.model \in [Role -> References] /\ form.providers \subseteq [id: Provider, env: {"old", "new"}]
  BY DEF Configs
<1>2. ASSUME NEW r \in Role, NEW p \in form.providers, NEW m \in Menu[p.id]
      PROVE  [form.model EXCEPT ![r] = <<p.id, m>>] \in [Role -> References]
  <2>1. p.id \in Provider
    BY <1>1
  <2>2. <<p.id, m>> \in References
    BY <2>1 DEF References, Names
  <2> QED
    BY <1>1, <2>2
<1>3. Picks \subseteq [Role -> References]
  BY <1>1, <1>2 DEF Picks
<1>4. \A k \in Provider : Entry(k) \in [id: Provider, env: {"old", "new"}]
  BY DEF Entry
<1>5. \A model : Lists(model) \subseteq SUBSET [id: Provider, env: {"old", "new"}]
  BY <1>1, <1>4 DEF Lists
<1> QED
  BY <1>3, <1>5

\* What a run or a page starts from, and what they forget.
LEMMA Blanks ==
  /\ Blank \in Configs
  /\ Quit => at' = "off" /\ todo' = {} /\ llm' = None /\ seen' = Blank /\ role' = 1
<1>1. Blank \in Configs
  BY SeedRefs DEF Blank, Configs
<1> QED
  BY <1>1 DEF Quit

\* Every variable keeps its type.
LEMMA TypeStep ==
  ASSUME TypeOK, [Next]_vars
  PROVE  TypeOK'
<1> USE SetupAssumption DEF TypeOK
<1>1. CASE UNCHANGED vars
  BY <1>1 DEF vars, script, screen, bounds
<1> SUFFICES ASSUME Scripts \/ Settings, raced' = (raced \/ Overlap \/ CutShort) PROVE TypeOK'
  BY <1>1 DEF Next
<1>2. raced' \in BOOLEAN
  OBVIOUS
<1>3. ASSUME NEW k \in Kind, Start(k) PROVE TypeOK'
  <2>1. k # None
    OBVIOUS
  <2> QED
    BY <1>2, <1>3, <2>1 DEF Start, screen, bounds
<1>4. CASE Plan
  BY <1>2, <1>4, Blanks DEF Plan, screen, bounds
<1>5. CASE Apply
  <2>1. Models(Turn, config.model) \in [Role -> References]
    BY ModelsOf DEF Configs
  <2>4. Registry(Turn, config.providers) \in SUBSET [id: Provider, env: {"old", "new"}]
    BY RegistryOf DEF Configs
  <2>2. config' \in Configs
    BY <1>5, <2>1, <2>4 DEF Apply, Configs
  <2>3. audit' \in [from: {0, 8, 10}, pinned: BOOLEAN]
    BY <1>5 DEF Apply, Audit
  <2> QED
    BY <1>2, <1>5, <2>2, <2>3 DEF Apply, screen, bounds
<1>6. CASE Record
  <2> QED
    BY <1>2, <1>6 DEF Record, screen, bounds
<1>7. CASE ReadConfig
  BY <1>2, <1>7 DEF ReadConfig, screen, bounds
<1>8. CASE Register
  <2>1. llm \in Kind
    BY <1>8 DEF Register
  <2>2. Extended(seen.providers, llm) \in SUBSET [id: Provider, env: {"old", "new"}]
    BY <2>1, ProvidersHaveNames DEF Configs, Extended, Entry
  <2>3. \A list \in SUBSET [id: Provider, env: {"old", "new"}] :
          [config EXCEPT !.providers = list] \in Configs
    BY DEF Configs
  <2>4. config' \in Configs
    BY <1>8, <2>2, <2>3 DEF Register
  <2> QED
    BY <1>2, <1>8, <2>4 DEF Register, DoneAfterRegistry, screen, bounds
<1>9. CASE SeedRole
  <2>1. llm \in Kind
    BY <1>9 DEF SeedRole
  <2>2. [config EXCEPT !.model[SeedOrder[role]] = Ref(llm)] \in Configs
    BY <2>1, SeedRefs DEF Configs
  <2>3. config' \in Configs
    BY <1>9, <2>2 DEF SeedRole
  <2>4. CASE role < 3
    BY <1>2, <1>9, <2>3, <2>4, RoleOrders DEF SeedRole, screen, bounds
  <2>5. CASE ~(role < 3)
    BY <1>2, <1>9, <2>3, <2>5, RoleOrders, Blanks DEF SeedRole, screen, bounds
  <2> QED
    BY <2>4, <2>5
<1>10. CASE Crash
  BY <1>2, <1>10, Blanks DEF Crash, screen, bounds
<1>11. ASSUME NEW f \in Edited, EditFile(f) PROVE TypeOK'
  BY <1>2, <1>11 DEF EditFile, script, screen, bounds
<1>12. CASE OpenPage
  <2>1. \A r \in Role : Parsed(config.model[r]) \in References
    BY ParsedRefs DEF Configs
  <2>2. Effective(config.providers) \in SUBSET [id: Provider, env: {"old", "new"}]
    BY ProvidersHaveNames DEF Configs, Effective, NewRegistry, Entry
  <2>3. form' \in Configs
    BY <1>12, <2>1, <2>2 DEF OpenPage, Configs
  <2> QED
    BY <1>2, <1>12, <2>3 DEF OpenPage, script
<1>13. CASE SaveProviders
  <2>1. PICK model \in Picks : \E list \in Lists(model) :
          /\ config' = [config EXCEPT !.providers = list]
          /\ form' = [model |-> model, providers |-> list]
    BY <1>13 DEF SaveProviders
  <2>2. PICK list \in Lists(model) :
          /\ config' = [config EXCEPT !.providers = list]
          /\ form' = [model |-> model, providers |-> list]
    BY <2>1
  <2>3. model \in [Role -> References] /\ list \in SUBSET [id: Provider, env: {"old", "new"}]
    BY PicksAndLists
  <2>4. config' \in Configs /\ form' \in Configs
    BY <2>2, <2>3 DEF Configs
  <2> QED
    BY <1>2, <1>13, <2>4 DEF SaveProviders, script, bounds
<1>14. CASE PutModel
  <2>1. \A ref \in References : Made(ref) \in References
    BY SeedRefs DEF Made, References
  <2>2. Made(form.model[PutOrder[put]]) \in References
    BY <2>1, RoleOrders DEF Configs
  <2>3. [config EXCEPT !.model[PutOrder[put]] = Made(form.model[PutOrder[put]])] \in Configs
    BY <2>2 DEF Configs
  <2>4. config' \in Configs
    BY <1>14, <2>3 DEF PutModel
  <2>5. CASE put < 3
    BY <1>2, <1>14, <2>4, <2>5, RoleOrders DEF PutModel, script, bounds
  <2>6. CASE ~(put < 3)
    BY <1>2, <1>14, <2>4, <2>6, RoleOrders, Blanks DEF PutModel, script, bounds
  <2> QED
    BY <2>5, <2>6
<1>15. CASE ClosePage
  BY <1>2, <1>15, Blanks DEF ClosePage, script, bounds
<1> QED
  BY <1>3, <1>4, <1>5, <1>6, <1>7, <1>8, <1>9, <1>10, <1>11, <1>12, <1>13, <1>14, <1>15
     DEF Scripts, Settings

-----------------------------------------------------------------------------
(* The steps *)

\* Scripts leave the page alone, and the page leaves the scripts alone.
LEMMA Frames ==
  /\ Scripts => UNCHANGED <<page, form, put>>
  /\ Settings => UNCHANGED <<files, ledger, audit, at, todo, llm, seen, role, crashes>>
BY DEF Scripts, Settings, Start, Plan, Apply, Record, ReadConfig, Register, SeedRole, Crash,
   EditFile, OpenPage, SaveProviders, PutModel, ClosePage, Quit, script, screen, bounds

\* Who meets, has met: raced never becomes false again.
LEMMA RacedStays ==
  ASSUME TypeOK, [Next]_vars, ~raced'
  PROVE  ~raced /\ (UNCHANGED vars \/ (~Overlap /\ ~CutShort))
<1>1. CASE UNCHANGED vars
  <2>1. raced' = raced
    BY <1>1 DEF vars
  <2> QED
    BY <1>1, <2>1
<1>2. CASE Next
  <2>1. raced' = (raced \/ Overlap \/ CutShort)
    BY <1>2 DEF Next
  <2> QED
    BY <2>1
<1> QED
  BY <1>1, <1>2

\* The step of the ledger's order.
LEMMA OrderStep ==
  ASSUME TypeOK, LedgerInOrder, [Next]_vars
  PROVE  LedgerInOrder'
<1> USE SetupAssumption DEF TypeOK, LedgerInOrder, Changed, IsPending
<1>1. CASE UNCHANGED <<files, ledger, at, todo>>
  BY <1>1
<1>2. ASSUME NEW k \in Kind, Start(k) PROVE LedgerInOrder'
  BY <1>2 DEF Start
<1>3. CASE Plan
  <2>1. CASE Refused
    BY <1>3, <2>1, Blanks DEF Plan
  <2>2. CASE ~Refused
    BY <1>3, <2>2 DEF Plan, Refused
  <2> QED
    BY <2>1, <2>2
<1>4. CASE Apply
  BY <1>4 DEF Apply
<1>5. CASE Record
  <2>1. Turn \in todo /\ Turn \in File /\ \A f \in todo : Turn <= f
    BY <1>5, TurnIsLeast DEF Record
  <2>2. \A f \in File : ledger'[f] = IF f = Turn THEN files[f] ELSE ledger[f]
    BY <1>5 DEF Record
  <2>3. \A f \in File : ledger'[f] = 0 <=> ledger[f] = 0 /\ f # Turn
    BY <2>1, <2>2
  <2>4. todo' = {f \in File : ledger'[f] = 0}
    BY <1>5, <2>3 DEF Record
  <2>5. \A f, g \in File : f < g /\ ledger'[g] # 0 => ledger'[f] # 0
    <3> SUFFICES ASSUME NEW f \in File, NEW g \in File, f < g, ledger'[g] # 0, ledger'[f] = 0
                 PROVE  FALSE
      OBVIOUS
    <3>1. ledger[f] = 0 /\ f # Turn /\ ledger[g] = 0 /\ g = Turn
      BY <2>3
    <3>2. f \in todo
      BY <1>5, <3>1 DEF Record
    <3>3. f \in Nat /\ g \in Nat
      BY DEF File
    <3> QED
      BY <2>1, <3>1, <3>2, <3>3
  <2>6. Changed' = {}
    BY <1>5, <2>2 DEF Record
  <2>7. at' = IF todo' = {} THEN "read" ELSE "apply"
    BY <1>5 DEF Record
  <2> QED
    BY <2>4, <2>5, <2>6, <2>7
<1>6. CASE ReadConfig
  BY <1>6 DEF ReadConfig
<1>7. CASE Register
  BY <1>7 DEF Register, DoneAfterRegistry
<1>8. CASE SeedRole
  BY <1>8, Blanks DEF SeedRole
<1>9. CASE Crash
  BY <1>9, Blanks DEF Crash
<1>10. ASSUME NEW f \in Edited, EditFile(f) PROVE LedgerInOrder'
  BY <1>10 DEF EditFile, script
<1>11. CASE Settings
  BY <1>1, <1>11, Frames
<1> QED
  BY <1>1, <1>2, <1>3, <1>4, <1>5, <1>6, <1>7, <1>8, <1>9, <1>10, <1>11
     DEF Next, Scripts, vars, script

\* A file that is applied leaves its mark and rubs out no recorded one's.
LEMMA ApplyForces ==
  ASSUME TypeOK, LedgerInOrder, LedgerIsTrue, Spelling, Apply, [Next]_vars
  PROVE  LedgerIsTrue'
<1> USE DEF TypeOK, LedgerInOrder, LedgerIsTrue
<1>1. /\ Turn \in todo /\ Turn \in File /\ ledger[Turn] = 0 /\ Turn' = Turn
      /\ UNCHANGED <<ledger, files>>
  BY TurnIsLeast DEF Apply, IsPending, Turn
<1>2. ASSUME NEW f \in File, ledger[f] # 0 PROVE f < Turn
  BY <1>1, <1>2 DEF File
<1>3. /\ config.model \in [Role -> References]
      /\ config.providers \in SUBSET [id: Provider, env: {"old", "new"}]
  BY DEF Configs
<1>4. /\ config'.model = Models(Turn, config.model)
      /\ config'.providers = Registry(Turn, config.providers)
  BY DEF Apply
<1>5. \A ref : Seeded(ref, Claude) # Unset /\ Seeded(ref, VendorClaude) # Unset
  BY SeedRefs DEF Seeded
<1>6. \A ref : Seeded(ref, Claude) = Unset \/ Seeded(ref, VendorClaude) = Claude => ref = Claude
  BY SeedRefs DEF Seeded
<1>7. \A r \in Role : config.model[r] # Unset => config'.model[r] # Unset
  <2>1. CASE Turn = 2
    BY <1>3, <1>4, <1>5, <2>1, ModelsOf
  <2>2. CASE Turn = 4
    BY <1>3, <1>4, <1>5, <2>2, ModelsOf, SeedRefs
  <2>3. CASE Turn \notin {2, 4}
    BY <1>3, <1>4, <2>3, ModelsOf
  <2> QED
    BY <2>1, <2>2, <2>3
<1>8. raced' = FALSE => raced = FALSE
  BY RacedStays
<1>9. ASSUME NEW f \in File, ledger[f] # 0 PROVE InForce(f)'
  <2>1. f < Turn /\ InForce(f)
    BY <1>2, <1>9
  <2>2. CASE f = 2
    BY <1>7, <2>1, <2>2 DEF InForce
  <2>3. CASE f = 4
    <3>1. Turn \notin {2, 4}
      BY <2>1, <2>3
    <3>2. config'.model = config.model
      BY <1>3, <1>4, <3>1, ModelsOf
    <3> QED
      BY <1>8, <2>1, <2>3, <3>2 DEF InForce
  <2>4. CASE f = 5
    <3>1. config.providers # {}
      BY <2>1, <2>4 DEF InForce
    <3>2. config'.providers # {}
      BY <1>3, <1>4, <3>1, RegistryOf
    <3> QED
      BY <2>4, <3>2 DEF InForce
  <2>5. CASE f = 10
    <3>1. audit'.from = audit.from
      BY <2>1, <2>5 DEF Apply, Audit
    <3> QED
      BY <2>1, <2>5, <3>1 DEF InForce
  <2>6. CASE f = 18
    BY <1>1, <2>1, <2>6 DEF File
  <2>7. CASE f \in {8, 17}
    BY <2>7 DEF InForce
  <2> QED
    BY <2>2, <2>3, <2>4, <2>5, <2>6, <2>7 DEF File
<1>10. InForce(Turn)'
  <2>1. CASE Turn = 2
    <3>1. \A r \in Role \ {Cheap} : config'.model[r] # Unset
      BY <1>3, <1>4, <1>5, <2>1, ModelsOf
    <3> QED
      BY <1>1, <2>1, <3>1 DEF InForce
  <2>2. CASE Turn = 4
    <3>1. 2 \in File /\ 2 < 4 /\ ledger[2] # 0
      <4>1. ledger[2] = 0 => 2 \in todo
        BY DEF File, Apply, IsPending
      <4> QED
        BY <2>2, <4>1, TurnIsLeast DEF File, Apply
    <3>2. \A r \in Role \ {Cheap} : config.model[r] # Unset
      BY <3>1 DEF InForce
    <3>3. \A r \in Role : config'.model[r] = IF r = Cheap THEN Seeded(config.model[r], VendorClaude)
                              ELSE IF config.model[r] = Claude THEN VendorClaude ELSE config.model[r]
      BY <1>3, <1>4, <2>2, ModelsOf
    <3>4. \A r \in Role : config'.model[r] # Unset
      BY <1>5, <3>2, <3>3, SeedRefs
    <3>5. \A r \in Role : config'.model[r] # Claude
      BY <1>6, <3>3, SeedRefs DEF Spelling
    <3> QED
      BY <1>1, <2>2, <3>4, <3>5 DEF InForce
  <2>3. CASE Turn = 5
    <3>1. config'.providers # {}
      BY <1>3, <1>4, <2>3, RegistryOf
    <3> QED
      BY <1>1, <2>3, <3>1 DEF InForce
  <2>4. CASE Turn = 10
    BY <1>1, <2>4 DEF InForce, Apply, Audit
  <2>5. CASE Turn = 18
    BY <1>1, <2>5 DEF InForce, Apply, Audit
  <2>6. CASE Turn \in {8, 17}
    BY <1>1, <2>6 DEF InForce
  <2> QED
    BY <1>1, <2>1, <2>2, <2>3, <2>4, <2>5, <2>6 DEF File
<1> QED
  BY <1>1, <1>9, <1>10

\* A step of the seeding or of the page that leaves no role without a model, and
\* no registry without entries, keeps every file in force.
LEMMA KeepsForce ==
  ASSUME TypeOK, LedgerIsTrue, UNCHANGED <<ledger, audit>>, raced => raced',
         at' = "record" => at = "record" /\ todo' = todo,
         \A r \in Role : config.model[r] # Unset => config'.model[r] # Unset,
         ~raced' /\ (ledger[4] # 0 \/ at = "record") =>
           \A r \in Role : config'.model[r] = Claude => config.model[r] = Claude,
         config.providers # {} => config'.providers # {}
  PROVE  LedgerIsTrue'
<1> USE DEF TypeOK
<1>1. at' = "record" => at = "record" /\ Turn' = Turn
  BY DEF Turn
<1>2. ASSUME NEW f, ledger[f] # 0 \/ at = "record", InForce(f), f = 4 => ledger[4] # 0 \/ at = "record"
      PROVE  InForce(f)'
  <2>1. CASE f = 2
    BY <1>2, <2>1 DEF InForce
  <2>2. CASE f = 4
    BY <1>2, <2>2 DEF InForce
  <2>3. CASE f \notin {2, 4}
    BY <1>2, <2>3 DEF InForce
  <2> QED
    BY <2>1, <2>2, <2>3
<1>3. ASSUME NEW f \in File, ledger'[f] # 0 PROVE InForce(f)'
  BY <1>2, <1>3 DEF LedgerIsTrue
<1>4. ASSUME at' = "record" PROVE InForce(Turn)'
  BY <1>1, <1>2, <1>4 DEF LedgerIsTrue
<1> QED
  BY <1>3, <1>4 DEF LedgerIsTrue

\* What is written of a reference: SeedRole and PutModel write one role.
LEMMA SeedRoleWrites ==
  ASSUME TypeOK, SeedRole
  PROVE  /\ \A r \in Role : config'.model[r] =
              IF r = SeedOrder[role] /\ Replaceable(seen.model[r]) THEN Ref(llm) ELSE config.model[r]
         /\ config'.providers = config.providers /\ llm \in Kind
<1>1. SeedOrder[role] \in Role
  BY RoleOrders DEF TypeOK
<1>2. config.model \in [Role -> References] /\ config \in Configs
  BY DEF TypeOK, Configs
<1>3. config' = IF Replaceable(seen.model[SeedOrder[role]])
                THEN [config EXCEPT !.model[SeedOrder[role]] = Ref(llm)] ELSE config
  BY DEF SeedRole
<1>4. llm \in Kind
  BY DEF SeedRole, TypeOK
<1> QED
  BY <1>1, <1>2, <1>3, <1>4 DEF Configs

\* PUT /models/{role} writes that role's row and no other.
LEMMA PutModelWrites ==
  ASSUME TypeOK, PutModel
  PROVE  /\ \A r \in Role : config'.model[r] =
              IF r = PutOrder[put] THEN Made(form.model[r]) ELSE config.model[r]
         /\ config'.providers = config.providers /\ page = "put"
<1>1. PutOrder[put] \in Role
  BY RoleOrders DEF TypeOK
<1>2. config.model \in [Role -> References] /\ config \in Configs
  BY DEF TypeOK, Configs
<1>3. config' = [config EXCEPT !.model[PutOrder[put]] = Made(form.model[PutOrder[put]])]
  BY DEF PutModel
<1>4. page = "put"
  BY DEF PutModel
<1> QED
  BY <1>1, <1>2, <1>3, <1>4 DEF Configs

\* What a saved list is.
LEMMA SaveProvidersWrites ==
  ASSUME TypeOK, SaveProviders
  PROVE  /\ form'.model \in Picks /\ form'.providers \in Lists(form'.model)
         /\ \A r \in Role : form'.model[r][2] # None
         /\ config'.model = config.model /\ config'.providers = form'.providers
         /\ form'.providers # {} /\ page = "open" /\ page' = "put"
<1>1. PICK model \in Picks : \E list \in Lists(model) :
        /\ \A r \in Role : model[r][2] # None
        /\ list # {}
        /\ config' = [config EXCEPT !.providers = list]
        /\ form' = [model |-> model, providers |-> list]
  BY DEF SaveProviders
<1>2. PICK list \in Lists(model) :
        /\ \A r \in Role : model[r][2] # None
        /\ list # {}
        /\ config' = [config EXCEPT !.providers = list]
        /\ form' = [model |-> model, providers |-> list]
  BY <1>1
<1>3. form'.model = model /\ form'.providers = list
  BY <1>2
<1>4. config'.model = config.model /\ config'.providers = list
  BY <1>2 DEF TypeOK, Configs
<1>5. page = "open" /\ page' = "put"
  BY DEF SaveProviders
<1> QED
  BY <1>2, <1>3, <1>4, <1>5

\* The step of the ledger's truth.
LEMMA ForceStep ==
  ASSUME TypeOK, LedgerInOrder, LedgerIsTrue, Spelling, Alone, [Next]_vars
  PROVE  LedgerIsTrue'
<1> USE DEF TypeOK
<1>1. raced => raced'
  BY RacedStays
<1>2. config.model \in [Role -> References] /\ form.model \in [Role -> References]
  BY DEF Configs
<1>3. CASE UNCHANGED <<ledger, audit, config>> /\ (at' = "record" => at = "record" /\ todo' = todo)
  BY <1>1, <1>3, KeepsForce
<1>4. CASE Apply
  BY <1>4, ApplyForces
<1>5. CASE Record
  <2>1. UNCHANGED <<config, audit>> /\ at' # "record" /\ at = "record"
    BY <1>5 DEF Record
  <2>2. \A f \in File : ledger'[f] # 0 => ledger[f] # 0 \/ f = Turn
    BY <1>5 DEF Record
  <2>3. \A f : InForce(f) => InForce(f)'
    BY <1>1, <2>1 DEF InForce
  <2> QED
    BY <2>1, <2>2, <2>3 DEF LedgerIsTrue
<1>6. CASE Register
  <2>1. UNCHANGED <<ledger, audit>> /\ at' # "record" /\ config'.model = config.model
    BY <1>6, Blanks DEF Register, DoneAfterRegistry, Configs
  <2>2. Extended(seen.providers, llm) # {}
    BY DEF Extended
  <2>3. config.providers # {} => config'.providers # {}
    BY <1>6, <2>2 DEF Register, Configs
  <2> QED
    BY <1>1, <2>1, <2>3, KeepsForce
<1>7. CASE SeedRole
  <2>1. UNCHANGED <<ledger, audit>> /\ at' # "record"
    BY <1>7 DEF SeedRole, Quit
  <2>2. Ref(llm) # Unset /\ Ref(llm) # Claude
    BY <1>7, SeedRoleWrites, SeedRefs, ProvidersHaveNames DEF Ref, Unset, Claude, None
  <2>3. \A r \in Role : config'.model[r] \in {Ref(llm), config.model[r]}
    BY <1>7, SeedRoleWrites
  <2> QED
    BY <1>1, <1>7, <2>1, <2>2, <2>3, SeedRoleWrites, KeepsForce
<1>8. CASE SaveProviders
  <2>1. UNCHANGED <<ledger, audit, at, todo>>
    BY <1>8, Frames DEF Settings
  <2> QED
    BY <1>1, <1>8, <2>1, SaveProvidersWrites, KeepsForce
<1>9. CASE PutModel
  <2>1. UNCHANGED <<ledger, audit, at, todo>>
    BY <1>9, Frames DEF Settings
  <2>2. \A r \in Role : config'.model[r] \in {Made(form.model[r]), config.model[r]}
    BY <1>9, PutModelWrites
  <2>3. \A r \in Role : Made(form.model[r])[2] # None
    BY <1>2, <1>9, PutModelWrites, MadeRefs DEF Spelling
  <2>4. \A r \in Role : Made(form.model[r]) # Unset
    BY <2>3 DEF Unset
  <2>5. ASSUME ~raced', ledger[4] # 0 \/ at = "record", NEW r \in Role
        PROVE  Made(form.model[r]) # Claude
    <3>1. at = "off" /\ page # "closed" /\ ~raced
      BY <1>1, <1>9, <2>5, PutModelWrites DEF Alone
    <3>2. form.model[r] # Parsed(Claude) /\ form.model[r][1] # None /\ form.model[r] \in References
      BY <1>2, <2>5, <3>1 DEF Spelling
    <3> QED
      BY <3>2, MadeRefs
  <2> QED
    BY <1>1, <1>9, <2>1, <2>2, <2>4, <2>5, PutModelWrites, KeepsForce
<1>10. ASSUME NEW k \in Kind, Start(k) PROVE LedgerIsTrue'
  BY <1>3, <1>10 DEF Start
<1>11. CASE Plan
  BY <1>3, <1>11 DEF Plan, Quit
<1>12. CASE ReadConfig \/ Crash
  BY <1>3, <1>12 DEF ReadConfig, Crash, Quit
<1>13. ASSUME NEW f \in Edited, EditFile(f) PROVE LedgerIsTrue'
  BY <1>3, <1>13 DEF EditFile, script
<1>14. CASE OpenPage \/ ClosePage
  BY <1>3, <1>14 DEF OpenPage, ClosePage, script
<1>15. CASE UNCHANGED vars
  BY <1>3, <1>15 DEF vars, script
<1> QED
  BY <1>4, <1>5, <1>6, <1>7, <1>8, <1>9, <1>10, <1>11, <1>12, <1>13, <1>14, <1>15
     DEF Next, Scripts, Settings

\* A choice is what the page showed, or a model of a listed provider's catalog.
LEMMA PickedRoles ==
  ASSUME TypeOK, NEW model \in Picks, NEW r \in Role
  PROVE  \/ model[r] = form.model[r]
         \/ /\ model[r][1] \in Provider /\ model[r][1] \in Ids(form.providers)
            /\ model[r] # Parsed(Claude)
<1>1. form.model \in [Role -> References] /\ form.providers \subseteq [id: Provider, env: {"old", "new"}]
  BY DEF TypeOK, Configs
<1>2. Parsed(Claude) = <<DefaultProvider, "claude">>
  BY DEF Parsed, Claude
<1>3. ASSUME NEW q \in Role, NEW p \in form.providers, NEW m \in Menu[p.id],
             model = [form.model EXCEPT ![q] = <<p.id, m>>], r = q
      PROVE  /\ model[r][1] \in Provider /\ model[r][1] \in Ids(form.providers)
             /\ model[r] # Parsed(Claude)
  <2>1. model[r] = <<p.id, m>>
    BY <1>1, <1>3
  <2>2. p.id \in Provider /\ p.id \in Ids(form.providers)
    BY <1>1 DEF Ids
  <2>3. p.id = DefaultProvider => m # "claude"
    BY SetupAssumption
  <2> QED
    BY <1>2, <2>1, <2>2, <2>3
<1>4. \/ model = form.model
      \/ \E q \in Role : \E p \in form.providers : \E m \in Menu[p.id] :
           model = [form.model EXCEPT ![q] = <<p.id, m>>]
  BY DEF Picks
<1>5. CASE model = form.model
  BY <1>5
<1>6. ASSUME NEW q \in Role, NEW p \in form.providers, NEW m \in Menu[p.id],
             model = [form.model EXCEPT ![q] = <<p.id, m>>], r # q
      PROVE  model[r] = form.model[r]
  BY <1>1, <1>6
<1> QED
  BY <1>3, <1>4, <1>5, <1>6

\* The step of the spelling.
LEMMA SpellingStep ==
  ASSUME TypeOK, LedgerIsTrue, Spelling, Alone, [Next]_vars
  PROVE  Spelling'
<1> USE DEF TypeOK
<1>1. raced => raced'
  BY RacedStays
<1>2. config.model \in [Role -> References] /\ form.model \in [Role -> References] /\ Cheap \in Role
  BY DEF Configs, Role
<1>3. CASE UNCHANGED <<ledger, config, page, form>>
  BY <1>1, <1>3 DEF Spelling
<1>4. CASE Apply
  <2>1. UNCHANGED <<ledger, page, form>> /\ config'.model = Models(Turn, config.model)
    BY <1>4 DEF Apply, screen
  <2>2. /\ \A ref : Seeded(ref, Claude) \in {ref, Claude} /\ Seeded(ref, VendorClaude) \in {ref, VendorClaude}
        /\ Claude[1] # DefaultProvider /\ VendorClaude[1] # DefaultProvider /\ VendorClaude # Claude
    BY SeedRefs DEF Seeded, Claude, VendorClaude, None, DefaultProvider
  <2>3. (\A r \in Role : config'.model[r][1] # DefaultProvider) /\ config'.model[Cheap] # Claude
    <3>1. CASE Turn = 2
      BY <1>2, <2>1, <2>2, <3>1, ModelsOf DEF Spelling
    <3>2. CASE Turn = 4
      BY <1>2, <2>1, <2>2, <3>2, ModelsOf DEF Spelling
    <3>3. CASE Turn \notin {2, 4}
      BY <1>2, <2>1, <3>3, ModelsOf DEF Spelling
    <3> QED
      BY <3>1, <3>2, <3>3
  <2> QED
    BY <1>1, <2>1, <2>3 DEF Spelling
<1>5. CASE Record
  <2>1. UNCHANGED <<config, page, form>> /\ at # "off"
    BY <1>5 DEF Record, screen
  <2>2. page # "closed" => raced'
    BY <1>1, <2>1 DEF Alone
  <2> QED
    BY <2>1, <2>2 DEF Spelling
<1>6. CASE Register
  <2>1. UNCHANGED <<ledger, page, form>> /\ config'.model = config.model
    BY <1>6 DEF Register, Configs, screen
  <2> QED
    BY <1>1, <2>1 DEF Spelling
<1>7. CASE SeedRole
  <2>1. UNCHANGED <<ledger, page, form>>
    BY <1>7 DEF SeedRole, screen
  <2>2. Ref(llm)[1] # DefaultProvider /\ Ref(llm) # Claude
    BY <1>7, SeedRoleWrites, SeedRefs, SetupAssumption DEF Ref, Claude
  <2>3. \A r \in Role : config'.model[r] \in {Ref(llm), config.model[r]}
    BY <1>7, SeedRoleWrites
  <2> QED
    BY <1>1, <1>2, <2>1, <2>2, <2>3 DEF Spelling
<1>8. CASE OpenPage
  <2>1. UNCHANGED <<ledger, config>> /\ page' = "open"
    BY <1>8 DEF OpenPage
  <2>2. \A r \in Role : form'.model[r] = Parsed(config.model[r])
    BY <1>8 DEF OpenPage
  <2>3. \A r \in Role : form'.model[r][1] # None /\ (form'.model[r] = Parsed(Claude) => config.model[r] = Claude)
    BY <1>2, <2>2, ParsedRefs, ProvidersHaveNames DEF Spelling
  <2>4. ~raced' /\ ledger[4] # 0 => \A r \in Role : config.model[r] # Claude
    BY <1>1 DEF LedgerIsTrue, InForce, File
  <2>5. (\A r \in Role : config'.model[r][1] # DefaultProvider) /\ config'.model[Cheap] # Claude
    BY <2>1 DEF Spelling
  <2>6. form'.model[Cheap] # Parsed(Claude)
    BY <1>2, <2>1, <2>3, <2>5
  <2>7. ~raced' /\ ledger'[4] # 0 => \A r \in Role : form'.model[r] # Parsed(Claude)
    BY <2>1, <2>3, <2>4
  <2> QED
    BY <2>1, <2>3, <2>5, <2>6, <2>7 DEF Spelling
<1>9. CASE SaveProviders
  <2>1. UNCHANGED ledger
    BY <1>9 DEF SaveProviders
  <2>2. ASSUME NEW r \in Role
        PROVE  \/ form'.model[r] = form.model[r]
               \/ /\ form'.model[r][1] # None
                  /\ form'.model[r] # Parsed(Claude)
    <3>1. form'.model \in Picks
      BY <1>9, SaveProvidersWrites
    <3> QED
      BY <3>1, PickedRoles, ProvidersHaveNames
  <2>3. page = "open" /\ config'.model = config.model /\ \A r \in Role : form'.model[r][2] # None
    BY <1>9, SaveProvidersWrites
  <2>4. /\ form'.model[Cheap] # Parsed(Claude)
        /\ \A r \in Role : form'.model[r][1] # None
    BY <1>2, <2>2, <2>3 DEF Spelling
  <2>5. ~raced' /\ ledger'[4] # 0 => \A r \in Role : form'.model[r] # Parsed(Claude)
    BY <1>1, <2>1, <2>2, <2>3 DEF Spelling
  <2> QED
    BY <2>3, <2>4, <2>5 DEF Spelling
<1>10. CASE PutModel
  <2>1. UNCHANGED ledger /\ (page' = "closed" \/ UNCHANGED <<page, form>>)
    BY <1>10 DEF PutModel
  <2>2. ASSUME NEW r \in Role
        PROVE  /\ Made(form.model[r])[1] # DefaultProvider
               /\ Made(form.model[r]) = Claude => form.model[r] = Parsed(Claude)
    <3>1. form.model[r] \in References /\ form.model[r][1] # None
      BY <1>2, <1>10 DEF Spelling, PutModel
    <3> QED
      BY <3>1, MadeRefs
  <2>3. (\A r \in Role : config'.model[r][1] # DefaultProvider) /\ config'.model[Cheap] # Claude
    <3>1. \A r \in Role : config'.model[r] \in {Made(form.model[r]), config.model[r]}
      BY <1>10, PutModelWrites
    <3>2. form.model[Cheap] # Parsed(Claude)
      BY <1>10 DEF Spelling, PutModel
    <3> QED
      BY <1>2, <2>2, <3>1, <3>2 DEF Spelling
  <2> QED
    BY <1>1, <2>1, <2>3 DEF Spelling
<1>11. CASE ClosePage
  <2>1. UNCHANGED <<ledger, config>> /\ page' = "closed"
    BY <1>11 DEF ClosePage
  <2> QED
    BY <2>1 DEF Spelling
<1>12. CASE UNCHANGED vars
  BY <1>3, <1>12 DEF vars, screen
<1>13. ASSUME NEW k \in Kind, Start(k) PROVE Spelling'
  BY <1>3, <1>13 DEF Start, screen
<1>14. CASE Plan \/ ReadConfig \/ Crash
  BY <1>3, <1>14 DEF Plan, ReadConfig, Crash, screen
<1>15. ASSUME NEW f \in Edited, EditFile(f) PROVE Spelling'
  BY <1>3, <1>15 DEF EditFile, screen
<1> QED
  BY <1>4, <1>5, <1>6, <1>7, <1>8, <1>9, <1>10, <1>11, <1>12, <1>13, <1>14, <1>15
     DEF Next, Scripts, Settings

\* Without an overlap the page is closed while the scripts run, and the page acts
\* only while they are off.
LEMMA OneAtATime ==
  ASSUME TypeOK, Alone, [Next]_vars, ~raced'
  PROVE  /\ ~raced /\ (at # "off" => page = "closed") /\ (at' # "off" => page' = "closed")
         /\ Settings => at = "off" /\ UNCHANGED at
         /\ page = "put" /\ page' = "closed" => \A r \in Role : config'.model[r] = Made(form.model[r])
<1>1. ~raced /\ (UNCHANGED vars \/ (~Overlap /\ ~CutShort))
  BY RacedStays
<1>2. at # "off" => page = "closed"
  BY <1>1 DEF Alone
<1>3. at' # "off" => page' = "closed"
  <2>1. CASE UNCHANGED vars
    BY <1>2, <2>1 DEF vars, script, screen
  <2>2. CASE ~Overlap
    BY <2>2 DEF Overlap
  <2> QED
    BY <1>1, <2>1, <2>2
<1>4. ASSUME Settings PROVE at = "off" /\ UNCHANGED at
  <2>1. UNCHANGED at
    BY <1>4, Frames
  <2>2. page # "closed" \/ page' # "closed"
    BY <1>4 DEF Settings, OpenPage, SaveProviders, PutModel, ClosePage
  <2> QED
    BY <1>2, <1>3, <2>1, <2>2
<1>5. ASSUME page = "put", page' = "closed"
      PROVE  \A r \in Role : config'.model[r] = Made(form.model[r])
  <2>1. ~(UNCHANGED vars)
    BY <1>5 DEF vars, screen
  <2> QED
    BY <1>1, <1>5, <2>1 DEF CutShort
<1> QED
  BY <1>1, <1>2, <1>3, <1>4, <1>5

\* What is saved names listed providers: removeProvider spares those in use.
LEMMA SavedRolesResolve ==
  ASSUME TypeOK, Alone, RolesResolve, SaveProviders, ~raced
  PROVE  \A r \in Role : form'.model[r][1] \in Ids(form'.providers)
<1> SUFFICES ASSUME NEW r \in Role PROVE form'.model[r][1] \in Ids(form'.providers)
  OBVIOUS
<1>1. /\ form'.model \in Picks /\ form'.providers \in Lists(form'.model)
      /\ form'.model[r][2] # None /\ page = "open"
  BY SaveProvidersWrites
<1>2. form'.model[r][1] \in Ids(form.providers)
  <2>1. CASE form'.model[r] = form.model[r]
    <3>1. form.model[r] = Parsed(config.model[r]) /\ form.providers = Effective(config.providers)
      BY <1>1 DEF Alone
    <3>2. config.model[r] \in References
      BY DEF TypeOK, Configs
    <3>3. config.model[r][2] # None
      BY <1>1, <2>1, <3>1, <3>2, ParsedRefs
    <3>4. config.model[r] # Unset
      BY <3>3 DEF Unset
    <3> QED
      BY <1>1, <2>1, <3>1, <3>4 DEF RolesResolve
  <2> QED
    BY <1>1, <2>1, PickedRoles
<1>3. PICK q \in form.providers : q.id = form'.model[r][1]
  BY <1>2 DEF Ids
<1>4. InUse(q, form'.model)
  BY <1>3 DEF InUse
<1>5. q \in form'.providers
  BY <1>1, <1>4 DEF Lists
<1> QED
  BY <1>3, <1>5 DEF Ids

\* The step of what scripts and page know while they are alone.
LEMMA AloneStep ==
  ASSUME TypeOK, Alone, RolesResolve, [Next]_vars
  PROVE  Alone'
<1> USE DEF TypeOK
<1>1. page' # "closed" /\ at' # "off" => raced'
  <2>1. CASE UNCHANGED vars
    BY <2>1 DEF vars, script, screen, Alone
  <2>2. CASE Next
    BY <2>2 DEF Next, Overlap
  <2> QED
    BY <2>1, <2>2
<1> SUFFICES ASSUME ~raced'
             PROVE  /\ at' = "register" => config' = seen'
                    /\ at' = "roles" => llm' \in Ids(config'.providers)
                    /\ page' = "open" => form' = [model |-> [r \in Role |-> Parsed(config'.model[r])],
                                                  providers |-> Effective(config'.providers)]
                    /\ page' = "put" => /\ config'.providers = form'.providers /\ config'.providers # {}
                                        /\ \A r \in Role : form'.model[r][1] \in Ids(form'.providers)
  BY <1>1 DEF Alone
<1>2. ~raced /\ (at # "off" => page = "closed") /\ (at' # "off" => page' = "closed")
  BY OneAtATime
<1>3. CASE UNCHANGED <<at, config, seen, llm, page, form>>
  BY <1>2, <1>3 DEF Alone
<1>4. CASE UNCHANGED page /\ at # "off" /\ at' \notin {"register", "roles"}
  BY <1>2, <1>4
<1>5. CASE ReadConfig
  BY <1>2, <1>5 DEF ReadConfig, screen
<1>6. CASE Register
  <2>1. config = seen /\ at' = "roles" /\ llm' = llm
    BY <1>2, <1>6 DEF Register, DoneAfterRegistry, Alone
  <2>2. CASE llm \in Ids(seen.providers)
    BY <1>2, <1>6, <2>1, <2>2 DEF Register
  <2>3. CASE llm \notin Ids(seen.providers)
    <3>1. config'.providers = Extended(seen.providers, llm)
      BY <1>6, <2>3 DEF Register, Configs
    <3>2. llm \in Ids(Extended(seen.providers, llm))
      <4>1. Entry(llm) \in Extended(seen.providers, llm) /\ Entry(llm).id = llm
        BY DEF Extended, Entry
      <4> QED
        BY <4>1 DEF Ids
    <3> QED
      BY <1>2, <2>1, <3>1, <3>2
  <2> QED
    BY <2>2, <2>3
<1>7. CASE SeedRole
  <2>1. config'.providers = config.providers /\ page' = "closed"
    BY <1>2, <1>7, SeedRoleWrites DEF SeedRole, screen
  <2>2. at = "roles" /\ (at' = "off" \/ (at' = "roles" /\ llm' = llm))
    BY <1>7 DEF SeedRole, Quit
  <2> QED
    BY <1>2, <2>1, <2>2 DEF Alone
<1>8. CASE OpenPage
  <2>1. at' = "off" /\ config' = config /\ page' = "open"
    BY <1>2, <1>8 DEF OpenPage
  <2> QED
    BY <1>8, <2>1 DEF OpenPage
<1>9. CASE SaveProviders
  <2>1. /\ page' = "put" /\ config'.providers = form'.providers /\ form'.providers # {}
        /\ \A r \in Role : form'.model[r][1] \in Ids(form'.providers)
    BY <1>2, <1>9, SaveProvidersWrites, SavedRolesResolve
  <2> QED
    BY <1>2, <2>1
<1>10. CASE PutModel
  <2>1. /\ config'.providers = config.providers /\ page = "put"
        /\ page' = "closed" \/ UNCHANGED <<page, form>>
    BY <1>10, PutModelWrites DEF PutModel
  <2>2. at' = "off"
    BY <1>10, OneAtATime DEF Settings
  <2> QED
    BY <1>2, <2>1, <2>2 DEF Alone
<1>11. CASE ClosePage
  <2>1. page' = "closed" /\ at' = "off"
    BY <1>11, OneAtATime DEF Settings, ClosePage
  <2> QED
    BY <2>1
<1>12. ASSUME NEW k \in Kind, Start(k) PROVE at' = "plan" /\ page' = "closed"
  BY <1>2, <1>12 DEF Start
<1>13. CASE Plan \/ Apply \/ Record \/ Crash
  BY <1>4, <1>13 DEF Plan, Apply, Record, Crash, Quit, screen
<1>14. ASSUME NEW f \in Edited, EditFile(f) PROVE UNCHANGED <<at, config, seen, llm, page, form>>
  BY <1>14 DEF EditFile, script, screen
<1>15. CASE UNCHANGED vars
  BY <1>3, <1>15 DEF vars, script, screen
<1> QED
  BY <1>3, <1>5, <1>6, <1>7, <1>8, <1>9, <1>10, <1>11, <1>12, <1>13, <1>14, <1>15
     DEF Next, Scripts, Settings

\* The step of the seeding.
LEMMA RolesInTurnStep ==
  ASSUME TypeOK, Alone, RolesInTurn, [Next]_vars
  PROVE  RolesInTurn'
<1> USE DEF TypeOK
<1>1. CASE UNCHANGED <<at, role, seen, config, raced>>
  BY <1>1 DEF RolesInTurn
<1>2. CASE at' \notin {"register", "roles"}
  BY <1>2 DEF RolesInTurn
<1>3. CASE ReadConfig
  BY <1>3 DEF ReadConfig, RolesInTurn
<1>4. CASE Register
  <2>1. /\ at = "register" /\ at' = "roles" /\ role' = 1 /\ seen' = seen
        /\ config'.model = config.model
    BY <1>4 DEF Register, DoneAfterRegistry, RolesInTurn, Configs
  <2>2. ~raced' => config = seen
    BY <2>1, OneAtATime DEF Alone
  <2> QED
    BY <2>1, <2>2 DEF RolesInTurn
<1>5. CASE SeedRole
  <2> SUFFICES ASSUME at' # "off", ~raced', NEW i \in 1 .. 3
               PROVE  /\ i < role' => config'.model[SeedOrder[i]] \notin Shipped
                      /\ i >= role' => config'.model[SeedOrder[i]] = seen'.model[SeedOrder[i]]
    BY <1>5, <1>2 DEF SeedRole, Quit, RolesInTurn
  <2>1. at = "roles" /\ ~raced /\ role' = role + 1 /\ seen' = seen
    BY <1>5, OneAtATime, RoleOrders DEF SeedRole, Quit
  <2>2. SeedOrder[i] \in Role /\ (SeedOrder[i] = SeedOrder[role] => i = role)
    BY RoleOrders
  <2>3. Ref(llm) \notin Shipped
    BY <1>5, SeedRoleWrites, SeedRefs
  <2>4. config'.model[SeedOrder[i]] =
          IF SeedOrder[i] = SeedOrder[role] /\ Replaceable(seen.model[SeedOrder[i]])
          THEN Ref(llm) ELSE config.model[SeedOrder[i]]
    BY <1>5, <2>2, SeedRoleWrites
  <2>5. /\ i < role => config.model[SeedOrder[i]] \notin Shipped
        /\ i >= role => config.model[SeedOrder[i]] = seen.model[SeedOrder[i]]
    BY <2>1 DEF RolesInTurn
  <2>6. CASE i < role
    BY <2>1, <2>2, <2>3, <2>4, <2>5, <2>6
  <2>7. CASE i = role
    BY <2>1, <2>3, <2>4, <2>5, <2>7 DEF Replaceable
  <2>8. CASE i > role
    BY <2>1, <2>2, <2>4, <2>5, <2>8
  <2> QED
    BY <2>6, <2>7, <2>8
<1>6. CASE Settings
  <2>1. UNCHANGED <<at, role, seen>>
    BY <1>6, Frames
  <2>2. at = "register" => role' = 1
    BY <2>1 DEF RolesInTurn
  <2>3. ~raced' => at' = "off"
    BY <1>6, OneAtATime
  <2> QED
    BY <2>1, <2>2, <2>3 DEF RolesInTurn
<1>7. ASSUME NEW k \in Kind, Start(k) PROVE at' = "plan"
  BY <1>7 DEF Start
<1>8. CASE Plan \/ Apply \/ Record \/ Crash
  BY <1>2, <1>8 DEF Plan, Apply, Record, Crash, Quit
<1>9. ASSUME NEW f \in Edited, EditFile(f) PROVE at' = "off"
  BY <1>9 DEF EditFile, script
<1>10. CASE UNCHANGED vars
  BY <1>1, <1>10 DEF vars, script
<1> QED
  BY <1>2, <1>3, <1>4, <1>5, <1>6, <1>7, <1>8, <1>9, <1>10 DEF Next, Scripts

\* The run's last write leaves no shipped reference.
LEMMA LastRoleSeeded ==
  ASSUME TypeOK, Alone, RolesInTurn, [Next]_vars, ~raced, at \in {"register", "roles"},
         at' = "off", crashes' = crashes
  PROVE  \A r \in Role : config'.model[r] \notin Shipped
<1> USE DEF TypeOK
<1>1. SeedRole
  <2>1. page = "closed"
    BY DEF Alone
  <2>2. ~Settings
    BY Frames
  <2>3. ~(UNCHANGED vars)
    BY DEF vars, script
  <2>4. ~Crash
    BY SetupAssumption DEF Crash
  <2>5. \A k \in Kind : ~Start(k)
    BY DEF Start
  <2>6. ~Plan /\ ~Apply /\ ~Record /\ ~ReadConfig /\ ~Register
    BY DEF Plan, Apply, Record, ReadConfig, Register, DoneAfterRegistry
  <2>7. \A f \in Edited : ~EditFile(f)
    BY DEF EditFile
  <2> QED
    BY <2>2, <2>3, <2>4, <2>5, <2>6, <2>7 DEF Next, Scripts
<1>2. at = "roles" /\ role = 3
  BY <1>1, RoleOrders DEF SeedRole
<1>3. Ref(llm) \notin Shipped
  BY <1>1, SeedRoleWrites, SeedRefs
<1>4. ASSUME NEW i \in 1 .. 3 PROVE config'.model[SeedOrder[i]] \notin Shipped
  <2>1. SeedOrder[i] \in Role /\ (SeedOrder[i] = SeedOrder[role] => i = role)
    BY RoleOrders
  <2>2. config'.model[SeedOrder[i]] =
          IF SeedOrder[i] = SeedOrder[role] /\ Replaceable(seen.model[SeedOrder[i]])
          THEN Ref(llm) ELSE config.model[SeedOrder[i]]
    BY <1>1, <2>1, SeedRoleWrites
  <2>3. /\ i < role => config.model[SeedOrder[i]] \notin Shipped
        /\ i >= role => config.model[SeedOrder[i]] = seen.model[SeedOrder[i]]
    BY <1>2 DEF RolesInTurn
  <2>4. CASE i < 3
    BY <1>2, <1>3, <2>2, <2>3, <2>4
  <2>5. CASE i = 3
    BY <1>2, <1>3, <2>2, <2>3, <2>5 DEF Replaceable
  <2> QED
    BY <2>4, <2>5
<1> QED
  BY <1>4, RoleOrders

-----------------------------------------------------------------------------
(* The references *)

\* A save that was not cut short leaves what the page held.
LEMMA WholeSavesResolve ==
  ASSUME TypeOK, Spelling, Alone, ~raced, page = "put",
         config'.providers = config.providers,
         \A r \in Role : config'.model[r] = Made(form.model[r])
  PROVE  RolesResolve' /\ DefaultIsNeeded'
<1>1. ASSUME NEW r \in Role
      PROVE  /\ config'.model[r] # Unset
             /\ Parsed(config'.model[r])[1] \in Ids(Effective(config'.providers))
  <2>1. /\ form.model[r] \in References /\ form.model[r][1] # None /\ form.model[r][2] # None
        /\ form.model[r][1] \in Ids(form.providers)
        /\ config.providers = form.providers /\ config.providers # {}
    BY DEF TypeOK, Configs, Spelling, Alone
  <2>2. Made(form.model[r])[2] = form.model[r][2] /\ Parsed(Made(form.model[r])) = form.model[r]
    BY <2>1, MadeRefs
  <2>3. Made(form.model[r]) # Unset
    BY <2>1, <2>2 DEF Unset
  <2> QED
    BY <2>1, <2>2, <2>3 DEF Effective
<1> QED
  BY <1>1 DEF RolesResolve, DefaultIsNeeded

\* A file seeds references to the default provider, for roles that had none or
\* one to it.
LEMMA AppliedRolesResolve ==
  ASSUME TypeOK, RolesResolve, DefaultIsNeeded, Apply, raced => raced'
  PROVE  RolesResolve' /\ DefaultIsNeeded'
<1> USE DEF TypeOK
<1>1. /\ config.model \in [Role -> References]
      /\ config.providers \in SUBSET [id: Provider, env: {"old", "new"}]
  BY DEF Configs
<1>2. /\ config'.model = Models(Turn, config.model)
      /\ config'.providers = Registry(Turn, config.providers) /\ UNCHANGED page
  BY DEF Apply, screen
<1>3. Ids(Effective(config'.providers)) = Ids(Effective(config.providers))
  BY <1>1, <1>2, RegistryOf
<1>4. \A ref : /\ Seeded(ref, Claude) = ref \/ (ref = Unset /\ Seeded(ref, Claude) = Claude)
               /\ Seeded(ref, VendorClaude) = ref \/ (ref = Unset /\ Seeded(ref, VendorClaude) = VendorClaude)
  BY DEF Seeded
<1>5. ASSUME NEW r \in Role
      PROVE  \/ config'.model[r] = config.model[r]
             \/ config.model[r] \in {Unset, Claude} /\ config'.model[r] \in {Claude, VendorClaude}
  <2>1. CASE Turn = 2
    BY <1>1, <1>2, <1>4, <2>1, ModelsOf
  <2>2. CASE Turn = 4
    BY <1>1, <1>2, <1>4, <2>2, ModelsOf
  <2>3. CASE Turn \notin {2, 4}
    BY <1>1, <1>2, <2>3, ModelsOf
  <2> QED
    BY <2>1, <2>2, <2>3
<1>6. Claude # Unset /\ VendorClaude # Unset
      /\ Parsed(Claude)[1] = DefaultProvider /\ Parsed(VendorClaude)[1] = DefaultProvider
  BY SeedRefs
<1>7. ASSUME ~raced, page # "put", NEW r \in Role, config'.model[r] # config.model[r]
      PROVE  DefaultProvider \in Ids(Effective(config.providers))
  <2>1. config.model[r] \in {Unset, Claude}
    BY <1>5, <1>7
  <2>2. CASE config.model[r] = Unset
    BY <1>7, <2>2 DEF DefaultIsNeeded
  <2>3. CASE config.model[r] = Claude
    BY <1>6, <1>7, <2>3 DEF RolesResolve
  <2> QED
    BY <2>1, <2>2, <2>3
<1>8. ASSUME ~raced', page' # "put", NEW r \in Role, config'.model[r] # Unset
      PROVE  Parsed(config'.model[r])[1] \in Ids(Effective(config'.providers))
  <2>1. ~raced /\ page # "put"
    BY <1>2, <1>8
  <2>2. CASE config'.model[r] = config.model[r]
    BY <1>3, <1>8, <2>1, <2>2 DEF RolesResolve
  <2>3. CASE config'.model[r] # config.model[r]
    BY <1>3, <1>5, <1>6, <1>7, <2>1, <2>3
  <2> QED
    BY <2>2, <2>3
<1>9. \A r \in Role : config'.model[r] = Unset => config.model[r] = Unset
  BY <1>5, <1>6
<1>10. DefaultIsNeeded'
  BY <1>2, <1>3, <1>9, Zenon DEF DefaultIsNeeded
<1> QED
  BY <1>8, <1>10 DEF RolesResolve

\* The step of the references.
LEMMA RolesResolveStep ==
  ASSUME TypeOK, LedgerInOrder, LedgerIsTrue, Spelling, Alone, RolesResolve, DefaultIsNeeded,
         [Next]_vars
  PROVE  RolesResolve' /\ DefaultIsNeeded'
<1> USE DEF TypeOK
<1> SUFFICES ASSUME ~raced' PROVE RolesResolve' /\ DefaultIsNeeded'
  BY DEF RolesResolve, DefaultIsNeeded
<1>1. ~raced /\ (at # "off" => page = "closed") /\ (at' # "off" => page' = "closed")
  BY OneAtATime
<1>2. CASE UNCHANGED config /\ (page' # "put" => page # "put")
  BY <1>1, <1>2 DEF RolesResolve, DefaultIsNeeded
<1>3. CASE Apply
  BY <1>1, <1>3, AppliedRolesResolve
<1>4. CASE Register \/ SeedRole
  <2>1. at \in {"register", "roles"} /\ page = "closed" /\ page' = "closed"
    BY <1>1, <1>4 DEF Register, SeedRole, screen
  <2>2. ledger[4] # 0 /\ ledger[5] # 0
    BY <2>1 DEF LedgerInOrder, File
  <2>3. (\A r \in Role : config.model[r] # Unset) /\ config.providers # {}
    BY <2>2 DEF LedgerIsTrue, InForce, File
  <2>4. /\ Effective(config.providers) = config.providers
        /\ \A r \in Role : Parsed(config.model[r])[1] \in Ids(config.providers)
    BY <1>1, <2>1, <2>3 DEF RolesResolve, Effective
  <2>5. CASE Register
    <3>1. config = seen /\ config'.model = config.model
      BY <1>1, <2>5 DEF Alone, Register, Configs
    <3>2. config'.providers = config.providers \/ config'.providers = Extended(config.providers, llm)
      BY <2>5, <3>1 DEF Register, Configs
    <3>3. config.providers \subseteq config'.providers
      BY <3>2 DEF Extended
    <3>4. Effective(config'.providers) = config'.providers
      BY <2>3, <3>3 DEF Effective
    <3>5. Ids(config.providers) \subseteq Ids(config'.providers)
      BY <3>3 DEF Ids
    <3> QED
      BY <2>3, <2>4, <3>1, <3>4, <3>5 DEF RolesResolve, DefaultIsNeeded
  <2>6. CASE SeedRole
    <3>1. llm \in Ids(config.providers) /\ config'.providers = config.providers /\ llm \in Kind
      BY <1>1, <2>6, SeedRoleWrites DEF Alone, SeedRole
    <3>2. Parsed(Ref(llm))[1] = llm /\ Ref(llm) # Unset
      BY <3>1, SeedRefs, ProvidersHaveNames DEF Parsed, Unset
    <3>3. \A r \in Role : config'.model[r] \in {Ref(llm), config.model[r]}
      BY <2>6, SeedRoleWrites
    <3>4. \A r \in Role : /\ config'.model[r] # Unset
                          /\ Parsed(config'.model[r])[1] \in Ids(Effective(config'.providers))
      BY <2>3, <2>4, <3>1, <3>2, <3>3
    <3> QED
      BY <3>4 DEF RolesResolve, DefaultIsNeeded
  <2> QED
    BY <1>4, <2>5, <2>6
<1>5. CASE SaveProviders
  <2>1. page' = "put"
    BY <1>5 DEF SaveProviders
  <2> QED
    BY <2>1 DEF RolesResolve, DefaultIsNeeded
<1>6. CASE PutModel \/ ClosePage
  <2>1. CASE page = "put" /\ page' = "closed"
    <3>1. \A r \in Role : config'.model[r] = Made(form.model[r])
      BY <2>1, OneAtATime
    <3>2. config'.providers = config.providers
      BY <1>6, PutModelWrites DEF ClosePage
    <3> QED
      BY <1>1, <2>1, <3>1, <3>2, WholeSavesResolve
  <2>2. CASE page' = "put"
    BY <2>2 DEF RolesResolve, DefaultIsNeeded
  <2>3. CASE page # "put"
    <3>1. UNCHANGED config /\ page' = "closed"
      BY <1>6, <2>3 DEF PutModel, ClosePage
    <3> QED
      BY <1>2, <2>3, <3>1
  <2>4. page' = "closed" \/ page' = page
    BY <1>6 DEF PutModel, ClosePage
  <2> QED
    BY <2>1, <2>2, <2>3, <2>4
<1>7. ASSUME NEW k \in Kind, Start(k) PROVE UNCHANGED <<config, page>>
  BY <1>7 DEF Start, screen
<1>8. CASE Plan \/ Record \/ ReadConfig \/ Crash
  BY <1>2, <1>8 DEF Plan, Record, ReadConfig, Crash, screen
<1>9. ASSUME NEW f \in Edited, EditFile(f) PROVE UNCHANGED <<config, page>>
  BY <1>9 DEF EditFile, screen
<1>10. CASE OpenPage
  BY <1>2, <1>10 DEF OpenPage
<1>11. CASE UNCHANGED vars
  BY <1>2, <1>11 DEF vars, screen
<1> QED
  BY <1>2, <1>3, <1>4, <1>5, <1>6, <1>7, <1>8, <1>9, <1>10, <1>11 DEF Next, Scripts, Settings

-----------------------------------------------------------------------------
(* The theorems *)

\* What holds in every state, and follows from itself.
Sound ==
  /\ TypeOK
  /\ LedgerInOrder /\ LedgerIsTrue
  /\ Spelling /\ Alone /\ RolesInTurn
  /\ RolesResolve /\ DefaultIsNeeded

\* A first install starts from nothing.
LEMMA SoundInit == Init => Sound
<1> SUFFICES ASSUME Init PROVE Sound
  OBVIOUS
<1>1. Blank \in Configs /\ \A r \in Role : Blank.model[r] = Unset
  BY Blanks DEF Blank
<1>2. TypeOK
  <2>1. 0 \in 0 .. MaxCrashes /\ 0 \in 0 .. MaxEdits /\ 0 \in 0 .. MaxVisits
    BY SetupAssumption
  <2>2. files \in [File -> Nat \ {0}] /\ ledger \in [File -> Nat]
    BY DEF Init
  <2>3. audit \in [from: {0, 8, 10}, pinned: BOOLEAN]
    BY DEF Init
  <2>4. config \in Configs /\ seen \in Configs /\ form \in Configs
    BY <1>1 DEF Init
  <2>5. crashes \in 0 .. MaxCrashes /\ edits \in 0 .. MaxEdits /\ visits \in 0 .. MaxVisits
    BY <2>1 DEF Init
  <2>6. role \in 1 .. 3 /\ put \in 1 .. 3
    BY DEF Init
  <2>7. raced \in BOOLEAN
    BY Zenon DEF Init
  <2>8. at = "off" /\ todo = {} /\ llm = None /\ page = "closed"
    BY DEF Init
  <2> QED
    BY <2>2, <2>3, <2>4, <2>5, <2>6, <2>7, <2>8 DEF TypeOK
<1>3. LedgerInOrder /\ RolesInTurn
  BY DEF Init, LedgerInOrder, RolesInTurn
<1>4. LedgerIsTrue
  BY DEF Init, LedgerIsTrue
<1>5. Cheap \in Role /\ Unset[1] # DefaultProvider /\ Unset # Claude
  BY SeedRefs DEF Role, Unset, None, DefaultProvider
<1>6. Spelling
  BY <1>1, <1>5 DEF Init, Spelling
<1>7. Alone
  BY DEF Init, Alone
<1>8. DefaultProvider \in Ids(Effective({}))
  <2>1. Entry(DefaultProvider) \in Effective({}) /\ Entry(DefaultProvider).id = DefaultProvider
    BY DEF Effective, NewRegistry, Entry
  <2> QED
    BY <2>1 DEF Ids
<1>9. config.providers = {}
  BY DEF Init, Blank
<1>10. RolesResolve /\ DefaultIsNeeded
  BY <1>1, <1>8, <1>9 DEF Init, RolesResolve, DefaultIsNeeded
<1> QED
  BY <1>2, <1>3, <1>4, <1>6, <1>7, <1>10 DEF Sound

\* The invariant of the installation.
LEMMA AlwaysSound == Spec => []Sound
<1>1. Sound /\ [Next]_vars => Sound'
  <2> SUFFICES ASSUME Sound, [Next]_vars PROVE Sound'
    OBVIOUS
  <2>1. TypeOK'
    BY TypeStep DEF Sound
  <2>2. LedgerInOrder' /\ LedgerIsTrue'
    BY OrderStep, ForceStep DEF Sound
  <2>3. Spelling' /\ Alone' /\ RolesInTurn'
    BY SpellingStep, AloneStep, RolesInTurnStep DEF Sound
  <2>4. RolesResolve' /\ DefaultIsNeeded'
    BY RolesResolveStep DEF Sound
  <2> QED
    BY <2>1, <2>2, <2>3, <2>4 DEF Sound
<1> QED
  BY <1>1, SoundInit, PTL DEF Spec

\* Every variable keeps its type, over runs, crashes, edits and visits.
THEOREM SetupTypeCorrect == Spec => []TypeOK
<1>1. Sound => TypeOK
  BY DEF Sound
<1> QED
  BY <1>1, AlwaysSound, PTL

\* What schema_migrations records is in force, however often a file was applied
\* again because a run died between a file and its row.
THEOREM RecordedStaysInForce == Spec => []RecordedIsInForce
<1>1. Sound => RecordedIsInForce
  BY DEF Sound, LedgerIsTrue, InForce, RecordedIsInForce, File
<1> QED
  BY <1>1, AlwaysSound, PTL

\* No file is applied while a recorded one differs from its row.
THEOREM ChangedFileStopsAll == Spec => ChangedStopsAll
<1>1. Sound /\ [Next]_vars => [at = "apply" /\ at' = "record" => Changed = {}]_vars
  BY DEF Sound, LedgerInOrder
<1> QED
  BY <1>1, AlwaysSound, PTL DEF Spec, ChangedStopsAll

\* Every model reference names a registered provider, unless scripts and page
\* overlapped or a save was cut short.
THEOREM ReferencesResolve == Spec => []RolesResolve
<1>1. Sound => RolesResolve
  BY DEF Sound
<1> QED
  BY <1>1, AlwaysSound, PTL

\* A run of bootstrap.py that gets to its end leaves no role on a shipped
\* reference, even after one that died halfway.
THEOREM SeedingGetsDone == Spec => SeedingFinishes
<1>1. Sound /\ [Next]_vars =>
        [(at = "register" \/ at = "roles") /\ at' = "off" /\ crashes' = crashes /\ ~raced
           => \A r \in Role : config'.model[r] \notin Shipped]_vars
  <2> SUFFICES ASSUME Sound, [Next]_vars,
                      at = "register" \/ at = "roles", at' = "off", crashes' = crashes, ~raced
               PROVE  \A r \in Role : config'.model[r] \notin Shipped
    OBVIOUS
  <2> QED
    BY LastRoleSeeded DEF Sound
<1> QED
  BY <1>1, AlwaysSound, PTL DEF Spec, SeedingFinishes
=============================================================================
