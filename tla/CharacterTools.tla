--------------------------- MODULE CharacterTools ---------------------------
(***************************************************************************)
(* The tools that read: a character's own data, the market, the universe.  *)
(* One definition per handler, or per helper several of them share.        *)
(***************************************************************************)
EXTENDS ToolSteps

-----------------------------------------------------------------------------
(* account.go *)

eveServerStatus == Get("status") \o Answer({"status"})

eveAuthStatus == Character \o Try("session") \o Answer({})

fetchOverview ==
    Try("public") \o Try("wallet") \o Try("location") \o Try("ship") \o
    Try("online") \o Try("skillqueue") \o Try("attributes") \o Try("skills")

staleOf == {"public", "wallet", "location", "ship", "online", "skillqueue",
            "attributes", "skills"}

(* Of the corporation, the place, the ship and the skill in training.       *)
applyOverview == Names

eveCharacterOverview == Character \o fetchOverview \o applyOverview \o Answer(staleOf)

-----------------------------------------------------------------------------
(* social.go, social_mail.go, social_calendar.go, social_killmails.go *)

eveSocialNotifications ==
    Args \o Character \o Scope("characters.read_notifications")
    \o Get("notifications") \o EmptyAnswer({"notifications"})
    \o Names \o Answer({"notifications"})

eveFittingList ==
    Args \o Character \o Scope("fittings.read_fittings")
    \o Get("fittings") \o EmptyAnswer({"fittings"}) \o Names \o Answer({"fittings"})

eveMailList ==
    Args \o Character \o Scope("mail.read_mail")
    \o Get("mail") \o EmptyAnswer({"mail"}) \o Names \o Answer({"mail"})

eveMailRead ==
    Character \o Scope("mail.read_mail") \o Get("mail_body") \o Names \o Answer({"mail_body"})

fetchCalendarPage == Get("calendar")
attachCalendarDetail == UpToTwo(Get("event"))
attachCalendarAttendees == UpToTwo(Get("attendees") \o Names)

(* Mutant: the ages of the details are dropped.                             *)
BugDetailUndated ==
    Args \o Character \o Scope("calendar.read_calendar_events")
    \o fetchCalendarPage \o attachCalendarDetail \o attachCalendarAttendees
    \o Answer({"calendar", "attendees"})

eveCalendarList ==
    Args \o Character \o Scope("calendar.read_calendar_events")
    \o fetchCalendarPage \o attachCalendarDetail \o attachCalendarAttendees
    \o Answer({"calendar", "event", "attendees"})

(* A body that is missing is counted in the answer, which has no data_age   *)
(* once there is one.                                                       *)
fetchKillmailBodies == UpToTwo(Section("unavailable", Get("killmail")))
buildKillmailRows == Names \o ReferencePrices

formatKillmails(page) ==
    Get(page) \o EmptyAnswer({page}) \o fetchKillmailBodies \o buildKillmailRows \o Answer({})

eveSocialKillmails ==
    Args \o Character \o Scope("killmails.read_killmails") \o formatKillmails("killmails")

-----------------------------------------------------------------------------
(* wallet.go.  Asked for both, each section has an age of its own and the   *)
(* answer none; a ref_type that nothing matches answers without an age.     *)

journalSection == Get("journal")
summarizeJournal == Either({Answer({"journal"}), Answer({})})

transactionSection(of) == Get(of)
summarizeTransactions == Maybe(Names \o Names)

walletHistory ==
    Args \o Character \o Scope("wallet.read_character_wallet")
    \o Either({journalSection \o summarizeJournal,
               transactionSection("transactions") \o summarizeTransactions
                 \o Answer({"transactions"}),
               journalSection \o transactionSection("transactions")
                 \o summarizeTransactions \o Answer({})})

-----------------------------------------------------------------------------
(* assets.go *)

eveAssetsList ==
    Args \o Character \o Scope("assets.read_assets")
    \o Get("assets") \o EmptyAnswer({"assets"})
    \o ReferencePrices \o Names \o Names \o Answer({"assets"})

eveAssetsFind ==
    Args \o Character \o Scope("assets.read_assets")
    \o Get("assets") \o Names \o EmptyAnswer({"assets"})
    \o Names \o ReferencePrices \o Answer({"assets"})

eveAssetsBlueprints ==
    Args \o Character \o Scope("characters.read_blueprints")
    \o Get("blueprints") \o EmptyAnswer({"blueprints"})
    \o Names \o Names \o Answer({"blueprints"})

-----------------------------------------------------------------------------
(* character.go *)

eveCharacterSkills ==
    Args \o Character \o Scope("skills.read_skills")
    \o Get("skills") \o Names \o Answer({"skills"})

attachSkillSubscription == Try("skills")

eveCharacterSkillQueue ==
    Character \o Scope("skills.read_skillqueue") \o Get("skillqueue")
    \o attachSkillSubscription
    \o EmptyAnswer({"skillqueue"}) \o Names \o Answer({"skillqueue"})

eveCharacterClones ==
    Character \o Scope("clones.read_clones") \o Scope("clones.read_implants")
    \o Get("clones") \o Get("implants") \o Names \o Answer({"clones", "implants"})

fetchCharacterLP == Section("loyalty", Get("loyalty"))

(* standingsAge dates the answer by whatever came.                          *)
eveCharacterStandings ==
    Character \o Scope("characters.read_standings")
    \o Section("standings", Get("standings")) \o fetchCharacterLP
    \o Names \o Answer({"standings", "loyalty"})

-----------------------------------------------------------------------------
(* industry.go *)

industryJobsResult(of) == EmptyAnswer({of}) \o Names \o Names

eveIndustryJobs ==
    Args \o Character \o Scope("industry.read_character_jobs")
    \o Get("jobs") \o industryJobsResult("jobs") \o Answer({"jobs"})

decorateColonyDetails == UpToTwo(Try("colony"))

eveIndustryPlanets ==
    Character \o Scope("planets.manage_planets") \o Get("planets") \o EmptyAnswer({"planets"})
    \o Names \o decorateColonyDetails \o Answer({"planets", "colony"})

eveIndustryMining ==
    Character \o Scope("industry.read_character_mining") \o Get("mining")
    \o EmptyAnswer({"mining"}) \o Names \o ReferencePrices \o Answer({"mining"})

-----------------------------------------------------------------------------
(* market.go *)

marketPlace == Maybe(ResolveNames)
marketQuoteView == Try("prices") \o Get("type")
marketHistory == Try("history")

eveMarketPrice ==
    Args \o ResolveNames \o marketPlace \o Get("quotes") \o marketQuoteView
    \o Maybe(marketHistory) \o Answer({"quotes"})

formatOrders(of) == EmptyAnswer({of}) \o Names \o Names

eveMarketOrders ==
    Args \o Character \o Scope("markets.read_character_orders")
    \o Get("orders") \o formatOrders("orders") \o Answer({"orders"})

formatContracts(of) == EmptyAnswer({of}) \o Names

eveMarketContracts ==
    Args \o Character \o Scope("contracts.read_character_contracts")
    \o Get("contracts") \o formatContracts("contracts") \o Answer({"contracts"})

-----------------------------------------------------------------------------
(* universe.go *)

(* The search, and again with a shorter prefix; the answer has the age of   *)
(* the last.                                                                *)
searchWithFallback == Either({Get("search"), Get("search_wide") \o Get("search")})

eveUniverseSearch ==
    Args \o Character \o Scope("search.search_structures")
    \o searchWithFallback \o Names \o Answer({"search"})

eveUniverseItem ==
    ResolveNames \o Get("type") \o Try("group") \o Try("prices") \o Answer({})

universeSystemLookups == Get("system") \o Get("kills") \o Get("jumps")
universeRegionName == Try("constellation")

eveUniverseSystem ==
    ResolveNames \o universeSystemLookups \o universeRegionName
    \o Answer({"system", "kills", "jumps"})

(* A hop that cannot be read has security 0.                                *)
universeHopData == UpToTwo(Try("hop"))

eveUniverseRoute ==
    Args \o ResolveNames \o Get("route") \o universeHopData \o Answer({})

eveUniverseHotspots == Get("kills") \o Names \o Answer({"kills"})

=============================================================================
