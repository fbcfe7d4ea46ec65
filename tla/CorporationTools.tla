-------------------------- MODULE CorporationTools --------------------------
(***************************************************************************)
(* The tools about a character's corporation.  The roles a call goes by    *)
(* are the ones it has read itself, in ResolveCorporation.                 *)
(***************************************************************************)
EXTENDS CharacterTools

(* Roles as HasRole has them: Director passes every check.                  *)
HasRole(roles, needed) == "Director" \in roles \/ roles \cap needed # {}

corpScope ==
    [assets |-> "assets.read_corporation_assets",
     blueprints |-> "corporations.read_blueprints",
     wallets |-> "wallet.read_corporation_wallets",
     jobs |-> "industry.read_corporation_jobs",
     mining |-> "industry.read_corporation_mining",
     orders |-> "markets.read_corporation_orders",
     contracts |-> "contracts.read_corporation_contracts",
     killmails |-> "killmails.read_corporation_killmails",
     structures |-> "corporations.read_structures",
     members |-> "corporations.read_corporation_membership",
     divisions |-> "corporations.read_divisions"]

corpRole(key) ==
    CASE key \in {"assets", "blueprints", "killmails", "divisions"} -> {"Director"}
      [] key = "wallets" -> {"Accountant", "Junior_Accountant"}
      [] key = "jobs" -> {"Factory_Manager"}
      [] key = "orders" -> {"Accountant", "Trader"}
      [] key \in {"structures", "mining_extractions"} -> {"Station_Manager"}
      [] key = "mining_ledger" -> {"Accountant"}

ResolveCorporation ==
    Character \o Get("sheet") \o Gate("corporation") \o Get("corporation") \o Try("own_roles")

openCorp(scopeKey, roleKey) ==
    ResolveCorporation \o PlayerCorp \o Scope(corpScope[scopeKey])
    \o (IF roleKey = "" THEN <<>> ELSE Role(corpRole(roleKey)))

corpCan(key, then) == IfCan(corpScope[key], corpRole(key), then)

(* Mutant: the divisions are read whatever the character's roles.           *)
BugDivisionsAlways == Try("divisions")

corpDivisions == corpCan("divisions", Try("divisions"))

-----------------------------------------------------------------------------
(* corp.go: the overview, and the tools it says are open.                   *)

(* Mutant: a tool is listed under a name nobody serves.                     *)
BugMisnamed ==
    [eve_corp_assets_list |-> "assets", eve_corp_assets_find |-> "assets",
     eve_corp_blueprints |-> "blueprints", eve_corp_wallet |-> "wallets",
     eve_corp_jobs |-> "jobs", eve_corp_orders |-> "orders",
     eve_corp_contracts |-> "", eve_corp_killmails |-> "killmails",
     eve_corp_structures |-> "structures", eve_corp_members |-> ""]

catalog ==
    [eve_corp_assets_list |-> "assets", eve_corp_assets_find |-> "assets",
     eve_corp_blueprints |-> "blueprints", eve_corp_wallet |-> "wallets",
     eve_corp_industry_jobs |-> "jobs", eve_corp_orders |-> "orders",
     eve_corp_contracts |-> "", eve_corp_killmails |-> "killmails",
     eve_corp_structures |-> "structures", eve_corp_members |-> ""]

Catalogued(roles) ==
    {t \in DOMAIN catalog : catalog[t] # "" => HasRole(roles, corpRole(catalog[t]))}

(* Mutant: the mining tool is listed for the Accountant alone.              *)
BugListsLedgerOnly(roles) ==
    {"eve_corp_overview"} \cup Catalogued(roles)
    \cup {t \in {"eve_corp_mining"} : HasRole(roles, corpRole("mining_ledger"))}

availableCorpTools(roles) ==
    {"eve_corp_overview"} \cup Catalogued(roles)
    \cup {t \in {"eve_corp_mining"} : \/ HasRole(roles, corpRole("mining_ledger"))
                                      \/ HasRole(roles, corpRole("mining_extractions"))}

corpOverviewAttachWallets ==
    corpCan("wallets", Section("wallets_note", Get("corp_wallets")))

eveCorpOverview ==
    ResolveCorporation \o Names \o IfNPC(ListTools \o Answer({}))
    \o corpDivisions \o corpOverviewAttachWallets \o ListTools \o Answer({"corp_wallets"})

-----------------------------------------------------------------------------
(* corp_assets.go *)

eveCorpAssetsList ==
    Args \o openCorp("assets", "assets") \o Get("corp_assets") \o EmptyAnswer({})
    \o corpDivisions \o ReferencePrices \o Names \o Names \o Answer({"corp_assets"})

eveCorpAssetsFind ==
    Args \o openCorp("assets", "assets") \o Get("corp_assets") \o Names \o EmptyAnswer({})
    \o corpDivisions \o Names \o ReferencePrices \o Answer({"corp_assets"})

corpBlueprintNames == Names \o Names

eveCorpBlueprints ==
    Args \o openCorp("blueprints", "blueprints") \o Get("corp_blueprints") \o EmptyAnswer({})
    \o corpDivisions \o corpBlueprintNames \o Answer({"corp_blueprints"})

-----------------------------------------------------------------------------
(* corp_wallet.go: the arguments are looked at after the corporation.       *)

corpWalletBalances == Get("corp_wallets") \o Answer({"corp_wallets"})

corpWalletMovements ==
    LET journal == Get("corp_journal")
        trades == transactionSection("corp_transactions") \o summarizeTransactions
    IN  Either({journal \o Either({Answer({"corp_journal"}), Answer({})}),
                trades \o Answer({"corp_transactions"}),
                journal \o trades \o Answer({})})

eveCorpWallet ==
    openCorp("wallets", "wallets") \o Args \o corpDivisions
    \o Either({corpWalletBalances, corpWalletMovements})

-----------------------------------------------------------------------------
(* corp_members.go, corp_market.go *)

corpMemberRoleMap == IfRole({"Director"}, Maybe(Try("member_roles")))

eveCorpMembers ==
    Args \o openCorp("members", "") \o Get("members") \o EmptyAnswer({})
    \o Names \o corpMemberRoleMap \o Answer({"members"})

eveCorpOrders ==
    Args \o openCorp("orders", "orders") \o Get("corp_orders") \o corpDivisions
    \o formatOrders("corp_orders") \o Answer({"corp_orders"})

eveCorpContracts ==
    Args \o openCorp("contracts", "") \o Get("corp_contracts")
    \o formatContracts("corp_contracts") \o Answer({"corp_contracts"})

eveCorpKillmails ==
    Args \o openCorp("killmails", "killmails") \o formatKillmails("corp_killmails")

eveCorpStructures ==
    Args \o openCorp("structures", "structures") \o Get("structures") \o EmptyAnswer({})
    \o Names \o Answer({"structures"})

-----------------------------------------------------------------------------
(* corp_industry.go *)

eveCorpIndustryJobs ==
    Args \o openCorp("jobs", "jobs") \o Get("corp_jobs")
    \o industryJobsResult("corp_jobs") \o Answer({"corp_jobs"})

(* One of the two roles is enough.                                          *)
corpMiningRequireRole ==
    Role(corpRole("mining_ledger") \cup corpRole("mining_extractions"))

corpExtractions == Get("extractions") \o Names

corpMiningAttachExtractions ==
    IfRole(corpRole("mining_extractions"), Section("extractions", corpExtractions))

fetchCorpMiningObservers == UpToTwo(Section("unavailable", Get("observer")))

(* Without an observer the ledger is empty.                                 *)
corpMiningLedger ==
    Get("observers") \o Maybe(fetchCorpMiningObservers \o Names \o ReferencePrices)

corpMiningAttachLedger ==
    IfRole(corpRole("mining_ledger"), Section("ledger", corpMiningLedger))

eveCorpMining ==
    Args \o ResolveCorporation \o PlayerCorp \o Scope(corpScope.mining)
    \o corpMiningRequireRole \o corpMiningAttachExtractions \o corpMiningAttachLedger
    \o AnswerLedger({"observers", "observer"})

=============================================================================
