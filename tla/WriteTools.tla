----------------------------- MODULE WriteTools -----------------------------
(***************************************************************************)
(* The tools that change something in the game.  Guard.Authorize answers   *)
(* with a preview, refuses, or lets the call write; WriteGuard.tla has it. *)
(***************************************************************************)
EXTENDS CorporationTools

Done == Answer({})

(* writes_mail.go *)

eveMailMark == Character \o Authorize \o Mutation("mail_mark") \o Done

eveMailDelete ==
    Character \o Get("mail_body") \o Names \o Authorize \o Mutation("mail_delete") \o Done

resolveMailRecipients == ResolveNames

(* No recipient that is a character, no charge.                             *)
priceCSPA == Maybe(Get("cspa") \o Gate("priced"))

(* Mutant: the cost is compared once the player has confirmed.              *)
BugCostAfterConsent ==
    Character \o Args \o resolveMailRecipients \o priceCSPA
    \o Authorize \o Gate("approved_cost") \o Mutation("mail_send") \o Done

eveMailSend ==
    Character \o Args \o resolveMailRecipients \o priceCSPA \o Gate("approved_cost")
    \o Authorize \o Mutation("mail_send") \o Done

(* A group is looked up after the characters.                               *)
resolveComposeRecipients == ResolveNames \o Maybe(resolveMailRecipients)

eveMailCompose ==
    Args \o Character \o resolveComposeRecipients
    \o Authorize \o Mutation("open_newmail") \o Done

(* writes_contacts.go *)

resolveContacts == ResolveNames

(* Known contacts and new ones, watched or not: up to four calls.           *)
applyContactOps ==
    LET op == Mutation("contacts_write")
    IN  Either({<<>>, op, op \o op, op \o op \o op, op \o op \o op \o op})

eveContactsSet ==
    Character \o resolveContacts \o Get("contacts") \o Authorize \o applyContactOps \o Done

eveContactsDelete ==
    Character \o resolveContacts \o Authorize \o Mutation("contacts_delete") \o Done

(* writes_ui.go *)

(* A place nobody knows by that name may be a structure the character sees. *)
resolveDestination == Get("ids") \o Maybe(Get("search") \o Unresolved \o Names)

eveUISetWaypoint ==
    Character \o resolveDestination \o Authorize \o Mutation("waypoint") \o Done

resolveEntity == Either({Names, ResolveNames})

planContractWindow == Args
planOpenWindow == Either({planContractWindow, resolveEntity})

eveUIOpenWindow ==
    Args \o Character \o planOpenWindow \o Authorize \o Mutation("open_window") \o Done

(* writes_fittings.go *)

resolveFittingModules == ResolveNames

eveFittingSave ==
    Character \o resolveFittingModules \o Authorize \o Mutation("fitting_save") \o Done

eveFittingDelete ==
    Character \o Get("fittings") \o Unresolved \o Authorize
    \o Mutation("fitting_delete") \o Done

(* writes_calendar.go *)

eveCalendarRespond ==
    Args \o Character \o Get("event") \o Authorize \o Mutation("calendar_respond") \o Done

=============================================================================
