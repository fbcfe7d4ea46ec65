------------------------------ MODULE ToolSteps ------------------------------
(***************************************************************************)
(* The steps a tool's handler is made of.  A tool is a sequence of them,   *)
(* in the order of its code; Tools.tla runs it.  Every character owns its  *)
(* world: the roles the corporation grants it everywhere, and whether the  *)
(* corporation is an NPC one.                                              *)
(***************************************************************************)
EXTENDS Naturals, SequencesExt

-----------------------------------------------------------------------------
(* Gates: each lets the call go on or ends it with a refusal of its name.   *)

Gate(name) == <<[do |-> "gate", of |-> name]>>
Args == Gate("args")             \* pickEnum and the other ValidationErrors
Character == Gate("character")   \* Session.Character
Unresolved == Gate("unresolved") \* a name of the arguments is not known
Scope(s) == <<[do |-> "scope", of |-> s]>>
PlayerCorp == <<[do |-> "npc"]>>
Role(needed) == <<[do |-> "role", any |-> needed]>>

(* Reads of ESI: when one fails, the handler returns its error, or goes on  *)
(* without it.                                                              *)
Get(of) == <<[do |-> "read", of |-> of, fatal |-> TRUE]>>
Try(of) == <<[do |-> "read", of |-> of, fatal |-> FALSE]>>

(* A part whose error becomes a note in the answer (sectionNote, or a count *)
(* of what is unavailable).                                                 *)
Section(name, body) == <<[do |-> "section", of |-> name, body |-> body]>>
SectionEnd(name, before) == <<[do |-> "end", of |-> name, before |-> before]>>

(* What the arguments, or the data, decide.                                 *)
Either(paths) == <<[do |-> "either", paths |-> paths]>>
Maybe(steps) == Either({<<>>, steps})
UpToTwo(steps) == Either({<<>>, steps, steps \o steps})

(* What the character's scopes and roles, as the call has read them, decide. *)
IfCan(scope, needed, then) ==
    <<[do |-> "if", scope |-> {scope}, any |-> needed, then |-> then]>>
IfRole(needed, then) == <<[do |-> "if", scope |-> {}, any |-> needed, then |-> then]>>
IfNPC(then) == <<[do |-> "ifnpc", then |-> then]>>

(* The answer: data_age is made of the ages of these reads, "oldest" first  *)
(* or by the rule of the mining ledger; {} stands for no data_age.          *)
Answer(fused) == <<[do |-> "answer", fused |-> fused, rule |-> "oldest"]>>
AnswerLedger(fused) == <<[do |-> "answer", fused |-> fused, rule |-> "ledger"]>>

(* available_tools of the corporation overview.                             *)
ListTools == <<[do |-> "list"]>>

(* Guard.Authorize, an ESI mutation, recordWrite, and the look at the error *)
(* the mutation returned.                                                   *)
Authorize == <<[do |-> "authorize"]>>
Mutation(of) == <<[do |-> "write", of |-> of], [do |-> "record"], [do |-> "check"]>>

-----------------------------------------------------------------------------
(* Shared helpers.                                                          *)

Names == Try("names")           \* an id that fails stays "Unknown #id"
ReferencePrices == Get("prices")

(* Names of the arguments turned into ids.                                  *)
ResolveNames == Get("ids") \o Unresolved

EmptyAnswer(fused) == Maybe(Answer(fused))

=============================================================================
