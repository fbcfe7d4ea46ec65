-------------------------------- MODULE Tools --------------------------------
(***************************************************************************)
(* A session's tool calls, one after another: every read may fail or be    *)
(* answered from a cache of some age, arguments and data decide the rest.  *)
(* What CCP asks of a request stands beside it as CCP documents it: the    *)
(* code has to know it too, as every refused request costs error budget.   *)
(***************************************************************************)
EXTENDS WriteTools, FiniteSets

CONSTANTS RoleSets,   \* what the corporation may have granted everywhere
          Ages,       \* ages of a response
          Minute      \* secondsPerMinute, in the unit of Ages

ASSUME AgesAssumption ==
    /\ IsFiniteSet(Ages) /\ Ages # {} /\ Ages \subseteq Nat
    /\ Minute \in Nat

VARIABLES
    tool,       \* the call, "" before the first
    roles, npc, \* the character's world
    todo,       \* the steps the handler still has before it
    seen,       \* the roles ResolveCorporation read
    reads,      \* every ESI read: whether the answer uses it, and its age
    told,       \* the sections whose failure the answer mentions
    listed,     \* available_tools
    confirmed,  \* Authorize let the call write
    wrote,      \* every mutation: its answer, its effect, its audit row
    result

world == <<roles, npc>>
vars == <<tool, world, todo, seen, reads, told, listed, confirmed, wrote, result>>

-----------------------------------------------------------------------------
(* Scopes: policy.go, without "esi-" and ".v1".                             *)

ReadScopes ==
    {"assets.read_assets", "calendar.read_calendar_events",
     "characters.read_agents_research", "characters.read_blueprints",
     "characters.read_contacts", "characters.read_corporation_roles",
     "characters.read_fatigue", "characters.read_fw_stats", "characters.read_loyalty",
     "characters.read_medals", "characters.read_notifications",
     "characters.read_standings", "characters.read_titles", "clones.read_clones",
     "clones.read_implants", "contracts.read_character_contracts",
     "fittings.read_fittings", "fleets.read_fleet", "industry.read_character_jobs",
     "industry.read_character_mining", "killmails.read_killmails",
     "location.read_location", "location.read_online", "location.read_ship_type",
     "mail.read_mail", "markets.read_character_orders", "markets.structure_markets",
     "planets.manage_planets", "search.search_structures", "skills.read_skillqueue",
     "skills.read_skills", "universe.read_structures", "wallet.read_character_wallet"}

CorpReadScopes ==
    {"assets.read_corporation_assets", "contracts.read_corporation_contracts",
     "corporations.read_blueprints", "corporations.read_corporation_membership",
     "corporations.read_divisions", "corporations.read_structures",
     "industry.read_corporation_jobs", "industry.read_corporation_mining",
     "killmails.read_corporation_killmails", "markets.read_corporation_orders",
     "wallet.read_corporation_wallets"}

Capabilities ==
    {"mail.organize_mail", "mail.send_mail", "ui.open_window", "ui.write_waypoint",
     "fittings.write_fittings", "calendar.respond_calendar_events",
     "characters.write_contacts"}

(* A session whose scopes fall short of these is revoked by Character, so   *)
(* they are the scopes of a call that goes on (SignIn.tla has the others).  *)
RequestedScopes == ReadScopes \cup CorpReadScopes \cup Capabilities

-----------------------------------------------------------------------------
(* External: what CCP asks of a request, and whose reads a tool is about.   *)

CCPScope ==
    [wallet |-> "wallet.read_character_wallet", journal |-> "wallet.read_character_wallet",
     transactions |-> "wallet.read_character_wallet", location |-> "location.read_location",
     ship |-> "location.read_ship_type", online |-> "location.read_online",
     skillqueue |-> "skills.read_skillqueue", attributes |-> "skills.read_skills",
     skills |-> "skills.read_skills", notifications |-> "characters.read_notifications",
     fittings |-> "fittings.read_fittings", mail |-> "mail.read_mail",
     mail_body |-> "mail.read_mail", calendar |-> "calendar.read_calendar_events",
     event |-> "calendar.read_calendar_events", attendees |-> "calendar.read_calendar_events",
     killmails |-> "killmails.read_killmails", assets |-> "assets.read_assets",
     blueprints |-> "characters.read_blueprints", clones |-> "clones.read_clones",
     implants |-> "clones.read_implants", standings |-> "characters.read_standings",
     loyalty |-> "characters.read_loyalty", jobs |-> "industry.read_character_jobs",
     planets |-> "planets.manage_planets", colony |-> "planets.manage_planets",
     mining |-> "industry.read_character_mining", orders |-> "markets.read_character_orders",
     contracts |-> "contracts.read_character_contracts",
     search |-> "search.search_structures", search_wide |-> "search.search_structures",
     contacts |-> "characters.read_contacts", cspa |-> "characters.read_contacts",
     own_roles |-> "characters.read_corporation_roles",
     corp_assets |-> "assets.read_corporation_assets",
     corp_blueprints |-> "corporations.read_blueprints",
     corp_killmails |-> "killmails.read_corporation_killmails",
     divisions |-> "corporations.read_divisions",
     corp_wallets |-> "wallet.read_corporation_wallets",
     corp_journal |-> "wallet.read_corporation_wallets",
     corp_transactions |-> "wallet.read_corporation_wallets",
     corp_jobs |-> "industry.read_corporation_jobs",
     corp_orders |-> "markets.read_corporation_orders",
     corp_contracts |-> "contracts.read_corporation_contracts",
     structures |-> "corporations.read_structures",
     members |-> "corporations.read_corporation_membership",
     member_roles |-> "corporations.read_corporation_membership",
     observers |-> "industry.read_corporation_mining",
     observer |-> "industry.read_corporation_mining",
     extractions |-> "industry.read_corporation_mining",
     mail_mark |-> "mail.organize_mail", mail_delete |-> "mail.organize_mail",
     mail_send |-> "mail.send_mail", open_newmail |-> "ui.open_window",
     open_window |-> "ui.open_window", waypoint |-> "ui.write_waypoint",
     fitting_save |-> "fittings.write_fittings", fitting_delete |-> "fittings.write_fittings",
     calendar_respond |-> "calendar.respond_calendar_events",
     contacts_write |-> "characters.write_contacts",
     contacts_delete |-> "characters.write_contacts"]

Everyone == {"everyone"}

CCPRoles ==
    [corp_assets |-> {"Director"}, corp_blueprints |-> {"Director"},
     corp_killmails |-> {"Director"}, divisions |-> {"Director"},
     member_roles |-> {"Director"},
     corp_wallets |-> {"Director", "Accountant", "Junior_Accountant"},
     corp_journal |-> {"Director", "Accountant", "Junior_Accountant"},
     corp_transactions |-> {"Director", "Accountant", "Junior_Accountant"},
     corp_jobs |-> {"Director", "Factory_Manager"},
     corp_orders |-> {"Director", "Accountant", "Trader"},
     structures |-> {"Director", "Station_Manager"},
     extractions |-> {"Director", "Station_Manager"},
     observers |-> {"Director", "Accountant"}, observer |-> {"Director", "Accountant"},
     corp_contracts |-> Everyone, members |-> Everyone]

CCPGrants(of) ==
    /\ of \in DOMAIN CCPScope => CCPScope[of] \in RequestedScopes
    /\ of \in DOMAIN CCPRoles => ~npc /\ (roles \cup Everyone) \cap CCPRoles[of] # {}

About ==
    [eve_corp_assets_list |-> {"corp_assets"}, eve_corp_assets_find |-> {"corp_assets"},
     eve_corp_blueprints |-> {"corp_blueprints"},
     eve_corp_wallet |-> {"corp_wallets", "corp_journal", "corp_transactions"},
     eve_corp_industry_jobs |-> {"corp_jobs"}, eve_corp_orders |-> {"corp_orders"},
     eve_corp_contracts |-> {"corp_contracts"}, eve_corp_killmails |-> {"corp_killmails"},
     eve_corp_structures |-> {"structures"}, eve_corp_members |-> {"members"},
     eve_corp_mining |-> {"extractions", "observers"}]

-----------------------------------------------------------------------------
(* The catalogue of register.go.  eve_auth_logout is an action of SignIn.   *)

CorpTools ==
    [eve_corp_overview |-> eveCorpOverview, eve_corp_assets_list |-> eveCorpAssetsList,
     eve_corp_assets_find |-> eveCorpAssetsFind, eve_corp_blueprints |-> eveCorpBlueprints,
     eve_corp_wallet |-> eveCorpWallet, eve_corp_industry_jobs |-> eveCorpIndustryJobs,
     eve_corp_mining |-> eveCorpMining, eve_corp_orders |-> eveCorpOrders,
     eve_corp_contracts |-> eveCorpContracts, eve_corp_killmails |-> eveCorpKillmails,
     eve_corp_structures |-> eveCorpStructures, eve_corp_members |-> eveCorpMembers]

OtherTools ==
    [eve_server_status |-> eveServerStatus, eve_auth_status |-> eveAuthStatus,
     eve_character_overview |-> eveCharacterOverview,
     eve_social_notifications |-> eveSocialNotifications, eve_fitting_list |-> eveFittingList,
     eve_mail_list |-> eveMailList, eve_mail_read |-> eveMailRead,
     eve_calendar_list |-> eveCalendarList, eve_social_killmails |-> eveSocialKillmails,
     eve_wallet_history |-> walletHistory, eve_assets_list |-> eveAssetsList,
     eve_assets_find |-> eveAssetsFind, eve_assets_blueprints |-> eveAssetsBlueprints,
     eve_character_skills |-> eveCharacterSkills,
     eve_character_skill_queue |-> eveCharacterSkillQueue,
     eve_character_clones |-> eveCharacterClones,
     eve_character_standings |-> eveCharacterStandings,
     eve_industry_jobs |-> eveIndustryJobs, eve_industry_planets |-> eveIndustryPlanets,
     eve_industry_mining |-> eveIndustryMining, eve_market_price |-> eveMarketPrice,
     eve_market_orders |-> eveMarketOrders, eve_market_contracts |-> eveMarketContracts,
     eve_universe_search |-> eveUniverseSearch, eve_universe_item |-> eveUniverseItem,
     eve_universe_system |-> eveUniverseSystem, eve_universe_route |-> eveUniverseRoute,
     eve_universe_hotspots |-> eveUniverseHotspots, eve_mail_mark |-> eveMailMark,
     eve_mail_delete |-> eveMailDelete, eve_mail_send |-> eveMailSend,
     eve_mail_compose |-> eveMailCompose, eve_contacts_set |-> eveContactsSet,
     eve_contacts_delete |-> eveContactsDelete, eve_ui_set_waypoint |-> eveUISetWaypoint,
     eve_ui_open_window |-> eveUIOpenWindow, eve_fitting_save |-> eveFittingSave,
     eve_fitting_delete |-> eveFittingDelete, eve_calendar_respond |-> eveCalendarRespond]

Programs ==
    [t \in DOMAIN CorpTools \cup DOMAIN OtherTools |->
       IF t \in DOMAIN CorpTools THEN CorpTools[t] ELSE OtherTools[t]]

(* Roles matter to the corporation's tools alone; an NPC corporation grants *)
(* none.                                                                    *)
Worlds(t) ==
    IF t \in DOMAIN CorpTools THEN {<<r, FALSE>> : r \in RoleSets} \cup {<<{}, TRUE>>}
    ELSE {<<{}, FALSE>>}

-----------------------------------------------------------------------------
(* A call.                                                                  *)

NoResult == [kind |-> "none", age |-> {}]
Calling == tool # "" /\ result = NoResult
Step == Head(todo)
Rest == Tail(todo)
At(kinds) == Calling /\ Step.do \in kinds

(* What never changes (names, items, systems, the body of a killmail), and  *)
(* the server's own row of the session.                                     *)
Timeless ==
    {"names", "ids", "type", "group", "session", "constellation", "hop", "killmail"}

AgesOf(of) == IF of \in Timeless THEN {Min(Ages)} ELSE Ages

Init ==
    /\ tool = "" /\ roles = {} /\ npc = FALSE
    /\ todo = <<>> /\ seen = {} /\ reads = <<>> /\ told = {} /\ listed = {}
    /\ confirmed = FALSE /\ wrote = <<>> /\ result = NoResult

Start(t) ==
    /\ ~Calling
    /\ \E w \in Worlds(t) : roles' = w[1] /\ npc' = w[2]
    /\ tool' = t /\ todo' = Programs[t]
    /\ seen' = {} /\ reads' = <<>> /\ told' = {} /\ listed' = {}
    /\ confirmed' = FALSE /\ wrote' = <<>> /\ result' = NoResult

(* Call and Handle: how a call ends.                                        *)
Ends(kind, age) ==
    /\ result' = [kind |-> kind, age |-> age] /\ todo' = <<>>

Gates == {"gate", "scope", "npc", "role"}

Admitted(s) ==
    \/ s.do = "gate"
    \/ s.do = "scope" /\ s.of \in RequestedScopes
    \/ s.do = "npc" /\ ~npc
    \/ s.do = "role" /\ HasRole(seen, s.any)

Pass ==
    /\ At(Gates) /\ Admitted(Step) /\ todo' = Rest
    /\ UNCHANGED <<tool, world, seen, reads, told, listed, confirmed, wrote, result>>

Refuse ==
    /\ At(Gates) /\ (Step.do = "gate" \/ ~Admitted(Step))
    /\ Ends(IF Step.do = "gate" THEN Step.of ELSE Step.do, {})
    /\ UNCHANGED <<tool, world, seen, reads, told, listed, confirmed, wrote>>

ReadAnswers ==
    /\ At({"read"})
    /\ \E a \in AgesOf(Step.of) :
         reads' = Append(reads, [of |-> Step.of, used |-> TRUE, age |-> a])
    /\ seen' = (IF Step.of = "own_roles" THEN roles ELSE seen)
    /\ todo' = Rest
    /\ UNCHANGED <<tool, world, told, listed, confirmed, wrote, result>>

(* The section a step stands in ends with the first end that is left.       *)
Open == {i \in DOMAIN todo : todo[i].do = "end"}
Failed == Append(reads, [of |-> Step.of, used |-> FALSE, age |-> 0])
Unused(n) == [i \in DOMAIN Failed |-> [Failed[i] EXCEPT !.used = @ /\ i <= n]]

ReadFails ==
    /\ At({"read"})
    /\ \/ /\ ~Step.fatal
          /\ reads' = Failed /\ todo' = Rest /\ UNCHANGED <<told, result>>
       \/ /\ Step.fatal /\ Open # {}
          /\ LET end == Min(Open)
             IN  /\ reads' = Unused(todo[end].before)
                 /\ told' = told \cup {todo[end].of}
                 /\ todo' = SubSeq(todo, end + 1, Len(todo))
          /\ UNCHANGED result
       \/ /\ Step.fatal /\ Open = {}
          /\ reads' = Failed /\ Ends("esi", {}) /\ UNCHANGED told
    /\ UNCHANGED <<tool, world, seen, listed, confirmed, wrote>>

(* What arguments, data and roles decide; the edges of a section.           *)
Branch ==
    /\ At({"either", "if", "ifnpc", "section", "end"})
    /\ \/ /\ Step.do = "either"
          /\ \E path \in Step.paths : todo' = path \o Rest
       \/ /\ Step.do = "if"
          /\ todo' = (IF Step.scope \subseteq RequestedScopes /\ HasRole(seen, Step.any)
                        THEN Step.then ELSE <<>>) \o Rest
       \/ /\ Step.do = "ifnpc"
          /\ todo' = (IF npc THEN Step.then ELSE <<>>) \o Rest
       \/ /\ Step.do = "section"
          /\ todo' = Step.body \o SectionEnd(Step.of, Len(reads)) \o Rest
       \/ /\ Step.do = "end"
          /\ todo' = Rest
    /\ UNCHANGED <<tool, world, seen, reads, told, listed, confirmed, wrote, result>>

List ==
    /\ At({"list"})
    /\ listed' = (IF npc THEN {} ELSE availableCorpTools(seen))
    /\ todo' = Rest
    /\ UNCHANGED <<tool, world, seen, reads, told, confirmed, wrote, result>>

(* Authorize: the first call gets a preview, the confirmed one goes on, a   *)
(* stale or foreign token and the mail cap refuse (WriteGuard.tla).         *)
Preview ==
    /\ At({"authorize"})
    /\ \E kind \in {"preview", "blocked"} : Ends(kind, {})
    /\ UNCHANGED <<tool, world, seen, reads, told, listed, confirmed, wrote>>

Confirm ==
    /\ At({"authorize"})
    /\ confirmed' = TRUE /\ todo' = Rest
    /\ UNCHANGED <<tool, world, seen, reads, told, listed, wrote, result>>

(* EVE may have carried out a change whose answer was an error or was lost. *)
Write ==
    /\ At({"write"})
    /\ \E ok, applied \in BOOLEAN :
         /\ ok => applied
         /\ wrote' = Append(wrote, [of |-> Step.of, ok |-> ok, applied |-> applied,
                                   recorded |-> "no"])
    /\ todo' = Rest
    /\ UNCHANGED <<tool, world, seen, reads, told, listed, confirmed, result>>

(* Mutant: only what CCP accepted is recorded.                              *)
BugRecordSuccess(log, outcome) ==
    [log EXCEPT ![Len(log)].recorded = IF log[Len(log)].ok THEN outcome ELSE "no"]

recordWrite(log, outcome) == [log EXCEPT ![Len(log)].recorded = outcome]

(* A row that cannot be written is logged as lost, and the call goes on.    *)
Record ==
    /\ At({"record"})
    /\ \E outcome \in {"yes", "failed"} : wrote' = recordWrite(wrote, outcome)
    /\ todo' = Rest
    /\ UNCHANGED <<tool, world, seen, reads, told, listed, confirmed, result>>

(* A mutation that fails ends the call: in an error, or in the answer that  *)
(* it was applied in part when an earlier one of the call was accepted.     *)
Check ==
    /\ At({"check"})
    /\ \/ /\ Last(wrote).ok
          /\ todo' = Rest /\ UNCHANGED result
       \/ /\ ~Last(wrote).ok
          /\ Ends(IF \E i \in DOMAIN wrote : wrote[i].ok THEN "partial" ELSE "esi", {})
    /\ UNCHANGED <<tool, world, seen, reads, told, listed, confirmed, wrote>>

AgesFused(names) ==
    {reads[i].age : i \in {k \in DOMAIN reads : reads[k].used /\ reads[k].of \in names}}

(* Result.StaleNote and staleNote: the oldest.                              *)
staleNote(names) ==
    {a \in AgesFused(names) : \A b \in AgesFused(names) : b <= a}

(* From a minute on, the age of the list of observers.                      *)
miningLedgerAge(names) ==
    IF \A a \in AgesFused(names) : a < Minute THEN staleNote(names)
    ELSE staleNote({"observers"})

Answered ==
    /\ At({"answer"})
    /\ Ends("ok", IF Step.rule = "ledger" THEN miningLedgerAge(Step.fused)
                  ELSE staleNote(Step.fused))
    /\ UNCHANGED <<tool, world, seen, reads, told, listed, confirmed, wrote>>

Next ==
    \/ \E t \in DOMAIN Programs : Start(t)
    \/ Pass \/ Refuse \/ ReadAnswers \/ ReadFails \/ Branch \/ List
    \/ Preview \/ Confirm \/ Write \/ Record \/ Check \/ Answered

Spec == Init /\ [][Next]_vars

-----------------------------------------------------------------------------
(* Properties.                                                              *)

(* Types, and: a call that goes on has steps left, so every handler ends in *)
(* an answer whatever its arguments and reads are.                          *)
TypeOK ==
    /\ tool \in DOMAIN Programs \cup {""}
    /\ roles \in RoleSets \cup {{}} /\ npc \in BOOLEAN
    /\ seen \in {{}, roles}
    /\ \A i \in DOMAIN reads : reads[i].used \in BOOLEAN /\ reads[i].age \in Nat
    /\ listed \subseteq DOMAIN CorpTools
    /\ confirmed \in BOOLEAN
    /\ \A i \in DOMAIN wrote :
         /\ wrote[i].ok \in BOOLEAN /\ wrote[i].applied \in BOOLEAN
         /\ wrote[i].recorded \in {"no", "yes", "failed"}
    /\ Calling => todo # <<>>

(* No request that CCP is bound to refuse: openCorp, corpCan and the scope  *)
(* policy let a call ask only for what the character's scopes and roles     *)
(* open.  A refused request costs the character error budget.               *)
NoDoomedRequest ==
    /\ \A i \in DOMAIN reads : CCPGrants(reads[i].of)
    /\ \A i \in DOMAIN wrote : CCPGrants(wrote[i].of)

(* The tools that eve_corp_overview lists are the ones whose data CCP would *)
(* give, and the gates of openCorp refuse for a role only when it would     *)
(* not; both hold of the roles once they are read.                          *)
RoleVerdictsExact ==
    seen = roles =>
      /\ result.kind = "ok" /\ tool = "eve_corp_overview" =>
           \A t \in DOMAIN About : t \in listed <=> \E r \in About[t] : CCPGrants(r)
      /\ result.kind \in {"role", "npc"} =>
           \A r \in About[tool] : ~CCPGrants(r)

(* The reads that the code leaves out of data_age, and the tools that use   *)
(* them beside what they date their answer by; the answers of               *)
(* eve_universe_item and the rows of killmails have no data_age at all.     *)
Withheld ==
    [sheet |-> DOMAIN CorpTools, corporation |-> DOMAIN CorpTools,
     own_roles |-> DOMAIN CorpTools,
     divisions |-> {"eve_corp_overview", "eve_corp_assets_list", "eve_corp_assets_find",
                    "eve_corp_blueprints", "eve_corp_wallet", "eve_corp_orders"},
     member_roles |-> {"eve_corp_members"},
     prices |-> {"eve_assets_list", "eve_assets_find", "eve_corp_assets_list",
                 "eve_corp_assets_find", "eve_industry_mining", "eve_market_price",
                 "eve_universe_item", "eve_social_killmails", "eve_corp_killmails"},
     skills |-> {"eve_character_skill_queue"},
     history |-> {"eve_market_price"},
     search_wide |-> {"eve_universe_search"}]

Undated(t) == Timeless \cup {x \in DOMAIN Withheld : t \in Withheld[x]}

(* data_age is no younger than any read the answer is made of, but for the  *)
(* ones that Withheld lists: staleNote over the reads a handler fuses,      *)
(* failed ones left out.  SPEC 5 wants the oldest of all of them, see       *)
(* DataAgeIsOldest; the mining ledger has a rule of its own.                *)
AgeIsOldest ==
    tool # "eve_corp_mining" =>
      \A a \in result.age : \A i \in DOMAIN reads :
        reads[i].used /\ reads[i].of \notin Undated(tool) => reads[i].age <= a

(* SPEC 5: "A result fused from several endpoints reports the oldest of     *)
(* them", read for every response that can grow old.  The code breaks it    *)
(* with every pair of Withheld whose answer has a data_age.                 *)
DataAgeIsOldest ==
    \A a \in result.age : \A i \in DOMAIN reads :
      reads[i].used /\ reads[i].of \notin Timeless => reads[i].age <= a

(* Every mutation that was sent has its audit row once the call ends, or    *)
(* the log line of a row that could not be written, and the answer tells    *)
(* what CCP accepted: "ok" all of it, "partial" a part, an error nothing.   *)
(* An error does not say that nothing changed: EVE may have carried out a   *)
(* mutation whose answer was lost.  That is at most the last one, nothing   *)
(* is sent after it (runContactOp, applyContactOps).                        *)
WritesAccounted ==
    /\ ~Calling => \A i \in DOMAIN wrote : wrote[i].recorded # "no"
    /\ \A i \in DOMAIN wrote : wrote[i].applied /\ ~wrote[i].ok => i = Len(wrote)
    /\ result.kind = "esi" => \A i \in DOMAIN wrote : ~wrote[i].ok
    /\ result.kind = "ok" => \A i \in DOMAIN wrote : wrote[i].ok
    /\ result.kind = "partial" => \E i \in DOMAIN wrote : wrote[i].ok

(* A mutation is sent only after the player confirmed it, and a             *)
(* confirmation, which is spent by Authorize, is not wasted on a call that  *)
(* then refuses: every check comes before it.                               *)
ConsentReachesESI ==
    /\ wrote # <<>> => confirmed
    /\ confirmed /\ ~Calling /\ result.kind # "ok" => wrote # <<>>

(* SPEC 5: a result fused from several endpoints reports the oldest of      *)
(* them; here of the list of observers and the ledger of each.              *)
LedgerAgeIsOldest ==
    \A a \in result.age : \A i \in DOMAIN reads :
      tool = "eve_corp_mining" /\ reads[i].used /\ reads[i].of \in {"observers", "observer"}
        => reads[i].age <= a

(* The sentence of errors.go: the character does not hold the role.         *)
RoleVerdictIsRead == result.kind = "role" => seen = roles

=============================================================================
