-------------------------- MODULE WriteGuardProofs --------------------------
(***************************************************************************)
(* Theorems about WriteGuard, for any number of calls, pods and sign-ins,  *)
(* any cap and any number of faults.                                       *)
(*                                                                         *)
(* Two inductive invariants.  BaseInv holds whatever calls share a Guard:  *)
(* it says which fields of a call mean something where, what a call that   *)
(* got past consumeConfirm has shown, and what the log may contain.        *)
(* AloneInv is about the calls that were alone on their pod all the time   *)
(* (outside `shared`), whatever other calls did before them, after them    *)
(* and on other pods: their hold belongs to nobody else, they and their    *)
(* hold keep step, and what calls that did share a Guard have left in it   *)
(* is ended before the gate or stops them there.                           *)
(***************************************************************************)
EXTENDS WriteGuard, FiniteSetTheorems, TLAPS

-----------------------------------------------------------------------------
(* The invariants                                                           *)

(* From Authorize on a call has taken a Guard.                              *)
GuardPCs == {"gate", "consume", "discard", "delete", "put", "esi", "record",
             "rel", "relTx", "relClear"}

(* Where a call has not asked ESI for anything yet.                         *)
EarlyPCs == {"new", "runtime", "character", "authorize", "gate", "consume",
             "discard", "delete", "put", "esi"}
ReleasePCs == {"rel", "relTx", "relClear"}

Placed(c) ==
    /\ call[c].pc \in EarlyPCs => ~Executed(c)
    /\ call[c].pc \in ReleasePCs /\ call[c].ret = "gate" => ~Executed(c)
    /\ call[c].pc = "record" => Executed(c)
    /\ call[c].pc # "new" => call[c].pod \in Pods
    /\ UnderWay(c) /\ call[c].pc # "runtime" => guard[call[c].pod] \in Calls
    /\ call[c].pc \in GuardPCs => call[c].g \in Calls
    /\ call[c].pc = "relTx" => call[c].h \in Calls
    /\ call[c].pc \in {"consume", "discard", "delete"} => call[c].token \in Calls
    /\ call[c].pc \in {"discard", "delete"} => confirm[call[c].token].state # "none"
    /\ confirm[c].state # "none" => call[c].pc = "done"

(* consumeConfirm has let the call through.                                 *)
Consented(c) == call[c].pc \in {"delete", "esi"} \/ Executed(c)

Previewed(c) ==
    Consented(c) =>
        /\ call[c].token \in Calls
        /\ call[call[c].token].pc = "done"
        /\ call[call[c].token].tool = call[c].tool
        /\ call[call[c].token].args = call[c].args

(* The rows in the log and in the transactions of holds.                    *)
Rows == log \cup UNION {buf[d] : d \in Calls}

BaseInv ==
    /\ TypeOK
    /\ \A c \in Calls : Placed(c) /\ Previewed(c) /\ (c \in Rows => Executed(c))

(* A call that is alone on its pod is the only one there.                   *)
Alone(c, d) ==
    c \notin shared /\ UnderWay(c) /\ UnderWay(d) /\ c # d => call[c].pod # call[d].pod

(* A pod's Guard, and the Guard a call has taken, were built on that pod.   *)
GuardsKnown ==
    \A p \in Pods : guard[p] # None =>
        call[guard[p]].pod = p /\ call[guard[p]].pc # "new"

OnPod(c) ==
    call[c].pc \in GuardPCs =>
        call[call[c].g].pod = call[c].pod /\ call[call[c].g].pc # "new"

OwnGuard(c) ==
    /\ UnderWay(c) /\ call[c].pc # "runtime" =>
          GuardSid(guard[call[c].pod]) = call[c].sid
    /\ call[c].pc \in GuardPCs => call[c].g = guard[call[c].pod]

(* A call and its hold.                                                     *)
HoldPCs == {"consume", "discard", "delete", "esi", "record"}

InHold(c) ==
    \/ tx[c] = "open" /\ call[c].pc \in HoldPCs
    \/ tx[c] = "open" /\ call[c].pc = "rel" /\ call[c].ret = "done"
    \/ tx[c] = "ending" /\ call[c].pc = "relTx" /\ call[c].ret = "done"
    \/ tx[c] = "ended" /\ call[c].pc = "relClear" /\ call[c].ret = "done"

Locks(c) == tx[c] \in {"open", "ending"}

(* The hold of a call that is alone is its Guard's, and in step with it.    *)
HoldKnown(c) ==
    \A g \in Calls : hold[g] = c => call[c].g = g /\ InHold(c)

(* ... and what else its Guard may carry: past the gate nothing, before it  *)
(* whatever calls that shared the Guard have left there.                    *)
OwnHold(c) ==
    /\ Locks(c) => call[c].g \in Calls /\ hold[call[c].g] = c
    /\ call[c].pc \in {"relTx", "relClear"} /\ call[c].ret = "done" =>
          hold[call[c].g] = c
    /\ call[c].pc = "relTx" /\ call[c].ret = "done" => call[c].h = c
    /\ call[c].pc \in HoldPCs /\ call[c].tool = "mail" => tx[c] = "open"
    /\ call[c].pc \in {"gate", "put"} => hold[call[c].g] = None
    /\ call[c].pc \in HoldPCs \/ (call[c].pc \in ReleasePCs /\ call[c].ret = "done") =>
          hold[call[c].g] \in {None, c}

(* Nobody else ends the transaction of a call that is alone.                *)
EndsOwn(d) ==
    call[d].pc = "relTx" /\ call[d].h \notin shared =>
        call[d].h = d /\ call[d].ret = "done"

OneLock(c, d) == Locks(c) /\ Locks(d) => c = d

(* A call and its row.                                                      *)
OwnRow(c) ==
    /\ c \in buf[c] => Locks(c) /\ call[c].pc \in {"rel", "relTx"}
    /\ Executed(c) => \/ call[c].pc = "record"
                      \/ c \in log \cup lost
                      \/ c \in buf[c] /\ ~call[c].err

(* The cap while nobody who is alone has the lock, and while somebody has.  *)
OwnMails == {c \in log \ shared : call[c].tool = "mail" /\ call[c].esi = "ok"}

CapKept ==
    /\ IsFiniteSet(log) /\ \A c \in Calls : IsFiniteSet(buf[c])
    /\ Cardinality(OwnMails) <= MailCap
    /\ \A c \in Calls \ shared : Locks(c) => Cardinality(OwnMails) < MailCap

(* A call and its token.                                                    *)
Sent(c) == call[c].pc = "esi" \/ Executed(c)

OwnToken(c) ==
    /\ Consented(c) /\ c \notin shared => confirm[call[c].token].sid = call[c].sid
    /\ Sent(c) => confirm[call[c].token].state = "gone"

TokenOnce(c, d) ==
    Consented(c) /\ Sent(d) /\ c # d /\ {c, d} \cap shared = {} /\ call[c].tool = "mail" =>
        call[c].token # call[d].token

GuardInv == /\ GuardsKnown
            /\ \A c \in Calls : OnPod(c) /\ \A d \in Calls : Alone(c, d)
            /\ \A c \in Calls \ shared : OwnGuard(c)
HoldInv  == /\ \A c \in Calls : EndsOwn(c) /\ \A d \in Calls : OneLock(c, d)
            /\ \A c \in Calls \ shared : HoldKnown(c) /\ OwnHold(c)
RowInv   == /\ \A c \in Calls : buf[c] \ shared \subseteq {c}
            /\ \A c \in Calls \ shared : OwnRow(c)
TokenInv == \A c \in Calls : OwnToken(c) /\ \A d \in Calls : TokenOnce(c, d)
AloneInv == GuardInv /\ HoldInv /\ RowInv /\ CapKept /\ TokenInv

-----------------------------------------------------------------------------
(* How a step moves its call                                                *)

Rest(c) == \A d \in Calls \ {c} : call'[d] = call[d]

(* The fields that a call keeps from the bearer check to its end.           *)
Keeps(c) ==
    /\ call'[c].pod = call[c].pod /\ call'[c].sid = call[c].sid
    /\ call'[c].tool = call[c].tool /\ call'[c].args = call[c].args
    /\ call'[c].token = call[c].token

LEMMA GotoMoves ==
    ASSUME TypeOK, NEW c \in Calls, NEW l \in PCs \ {"done"}, Goto(c, l)
    PROVE  /\ call' \in [Calls -> Call] /\ Rest(c) /\ Keeps(c)
           /\ call'[c].pc = l /\ call'[c].g = call[c].g /\ call'[c].h = call[c].h
           /\ call'[c].ret = call[c].ret /\ call'[c].err = call[c].err
           /\ call'[c].esi = call[c].esi
<1>1. call[c] \in Call /\ call' = [call EXCEPT ![c] = [call[c] EXCEPT !.pc = l]]
    BY DEF TypeOK, Goto
<1>2. [call[c] EXCEPT !.pc = l] \in Call
    BY <1>1 DEF Call
<1>3. QED
    BY <1>1, <1>2 DEF TypeOK, Call, Rest, Keeps

LEMMA OverMoves ==
    ASSUME TypeOK, NEW c \in Calls, Goto(c, "done")
    PROVE  /\ call' \in [Calls -> Call] /\ Rest(c) /\ Keeps(c)
           /\ call'[c].pc = "done" /\ call'[c].esi = call[c].esi
<1>1. call[c] \in Call /\ call' = [call EXCEPT ![c] = Over(call[c])]
    BY DEF TypeOK, Goto
<1>2. Over(call[c]) \in Call
    BY <1>1 DEF Call, Over, PCs
<1>3. QED
    BY <1>1, <1>2 DEF TypeOK, Call, Rest, Keeps, Over

LEMMA ReleaseMoves ==
    ASSUME TypeOK, NEW c \in Calls, NEW g \in Calls \cup {None}, NEW e \in BOOLEAN,
           NEW l \in {"gate", "done"}, ReleaseThen(c, g, e, l)
    PROVE  /\ call' \in [Calls -> Call] /\ Rest(c) /\ Keeps(c)
           /\ call'[c].pc = "rel" /\ call'[c].g = g /\ call'[c].err = e
           /\ call'[c].ret = l /\ call'[c].esi = call[c].esi
<1>1. /\ call[c] \in Call
      /\ call' = [call EXCEPT ![c] = [call[c] EXCEPT !.pc = "rel", !.g = g, !.err = e,
                                                     !.ret = l]]
    BY DEF TypeOK, ReleaseThen
<1>2. [call[c] EXCEPT !.pc = "rel", !.g = g, !.err = e, !.ret = l] \in Call
    BY <1>1 DEF Call, PCs
<1>3. QED
    BY <1>1, <1>2 DEF TypeOK, Call, Rest, Keeps

-----------------------------------------------------------------------------
(* BaseInv                                                                  *)

(* What is true of the calls a step does not move.                          *)
LEMMA BaseOfOthers ==
    ASSUME BaseInv, NEW c \in Calls, Rest(c), call[c].pc # "done",
           \A p \in Pods : guard[p] \in Calls => guard'[p] \in Calls,
           \A d \in Calls : confirm[d].state # "none" => confirm'[d].state # "none",
           \A d \in Calls \ {c} : confirm[d].state = "none" => confirm'[d].state = "none"
    PROVE  \A d \in Calls \ {c} : Placed(d)' /\ Previewed(d)'
<1> SUFFICES ASSUME NEW d \in Calls \ {c}
             PROVE  Placed(d)' /\ Previewed(d)'
    OBVIOUS
<1>1. Placed(d) /\ Previewed(d) /\ call'[d] = call[d]
    BY DEF BaseInv, Rest
<1>2. Placed(d)'
    BY <1>1 DEF Placed, Executed, UnderWay
<1>3. Previewed(d)'
    BY <1>1 DEF Previewed, Consented, Executed, Rest
<1>4. QED
    BY <1>2, <1>3

(* A step that keeps what the other calls rest on.                          *)
LEMMA BaseStep ==
    ASSUME BaseInv, TypeOK', NEW c \in Calls, Rest(c), call[c].pc # "done",
           \A p \in Pods : guard[p] \in Calls => guard'[p] \in Calls,
           \A d \in Calls : confirm[d].state # "none" => confirm'[d].state # "none",
           \A d \in Calls \ {c} : confirm[d].state = "none" => confirm'[d].state = "none",
           call[c].esi # "none" => call'[c].esi # "none",
           Rows' \subseteq Rows \cup {c}, c \in Rows' \ Rows => call'[c].esi # "none",
           Placed(c)', Previewed(c)'
    PROVE  BaseInv'
<1>1. \A d \in Calls \ {c} : Placed(d)' /\ Previewed(d)'
    BY BaseOfOthers
<1>2. ASSUME NEW d \in Calls, d \in Rows'
      PROVE  Executed(d)'
    <2>1. CASE d = c
        BY <1>2, <2>1 DEF BaseInv, Executed
    <2>2. CASE d # c
        BY <1>2, <2>2 DEF BaseInv, Executed, Rest
    <2>3. QED
        BY <2>1, <2>2
<1>3. QED
    BY <1>1, <1>2 DEF BaseInv

LEMMA BearerCheckMoves ==
    ASSUME BaseInv, NEW c \in Calls, NEW p \in Pods, NEW tool \in Tools,
           NEW args \in Args, NEW token \in Calls \cup {None},
           BearerCheck(c, p, tool, args, token)
    PROVE  /\ call[c].pc = "new" /\ call[c].esi = "none"
           /\ call' \in [Calls -> Call] /\ Rest(c) /\ call'[c].pc = "runtime"
           /\ call'[c].pod = p /\ call'[c].sid = session /\ call'[c].tool = tool
           /\ call'[c].esi = "none"
           /\ UNCHANGED <<session, guard, hold, tx, buf, confirm, log, faults, lost>>
           /\ shared \subseteq shared' /\ shared' \subseteq Calls
           /\ \A d \in Calls : UnderWay(d) /\ call[d].pod = p => {c, d} \subseteq shared'
<1>1. /\ call[c].pc = "new" /\ call[c].esi = "none" /\ call[c] \in Call /\ TypeOK
      /\ session \in 0 .. MaxSession /\ tool \in {"mail", "other"}
    BY ConstantsAssumption DEF BearerCheck, BaseInv, TypeOK, Placed, EarlyPCs, Executed
<1>2. PICK half : half = [call[c] EXCEPT !.pc = "runtime", !.pod = p, !.sid = session]
    OBVIOUS
<1>3. PICK new : new = [half EXCEPT !.tool = tool, !.args = args, !.token = token]
    OBVIOUS
<1>4. call' = [call EXCEPT ![c] = new]
    BY <1>2, <1>3 DEF BearerCheck
<1>5. /\ half \in Call /\ half.pc = "runtime" /\ half.pod = p
      /\ half.sid = session /\ half.esi = "none"
    BY <1>1, <1>2 DEF Call, PCs
<1>6. /\ new \in Call /\ new.pc = "runtime" /\ new.pod = p
      /\ new.sid = session /\ new.tool = tool /\ new.esi = "none"
    BY <1>1, <1>3, <1>5 DEF Call
<1>7. /\ shared \subseteq shared' /\ shared' \subseteq Calls
      /\ \A d \in Calls : UnderWay(d) /\ call[d].pod = p => {c, d} \subseteq shared'
    <2> DEFINE company == {d \in Calls : UnderWay(d) /\ call[d].pod = p}
    <2>1. shared' = IF company = {} THEN shared ELSE shared \cup company \cup {c}
        BY DEF BearerCheck
    <2>2. QED
        BY <1>1, <2>1 DEF TypeOK
<1>8. QED
    BY <1>1, <1>4, <1>6, <1>7 DEF TypeOK, Rest, BearerCheck

LEMMA BearerCheckBase ==
    ASSUME BaseInv, NEW c \in Calls, NEW p \in Pods, NEW tool \in Tools,
           NEW args \in Args, NEW token \in Calls \cup {None},
           BearerCheck(c, p, tool, args, token)
    PROVE  BaseInv'
<1>1. /\ call[c].pc = "new" /\ call[c].esi = "none"
      /\ call' \in [Calls -> Call] /\ Rest(c) /\ call'[c].pc = "runtime"
      /\ call'[c].pod = p /\ call'[c].esi = "none"
      /\ UNCHANGED <<session, guard, hold, tx, buf, confirm, log, faults, lost>>
      /\ shared' \subseteq Calls
    BY BearerCheckMoves
<1>2. TypeOK'
    BY <1>1 DEF BaseInv, TypeOK
<1>3. Placed(c)' /\ Previewed(c)'
    BY <1>1 DEF BaseInv, Placed, Previewed, Consented, Executed, EarlyPCs,
                ReleasePCs, GuardPCs, UnderWay
<1>4. Rows' = Rows
    BY <1>1 DEF Rows
<1>5. QED
    BY <1>1, <1>2, <1>3, <1>4, BaseStep

(* What a call has shown stays shown while it goes on.                      *)
LEMMA PreviewStays ==
    ASSUME BaseInv, NEW c \in Calls, Rest(c), Keeps(c), call[c].pc # "done",
           call'[c].esi # "none" => Consented(c),
           call'[c].pc \in {"delete", "esi"} => Consented(c)
    PROVE  Previewed(c)'
<1>1. Previewed(c)
    BY DEF BaseInv
<1>2. QED
    BY <1>1 DEF Previewed, Consented, Executed, Rest, Keeps

(* A step that goes on with the same call and leaves the log alone.         *)
LEMMA SessionForBase ==
    ASSUME BaseInv, NEW c \in Calls, SessionFor(c)
    PROVE  BaseInv'
<1>1. /\ Goto(c, "character") /\ call[c].pc = "runtime" /\ call[c].esi = "none" /\ TypeOK
      /\ call[c].pod \in Pods /\ confirm[c].state = "none"
      /\ UNCHANGED <<session, hold, tx, buf, confirm, log, faults, lost, shared>>
    BY DEF SessionFor, BaseInv, Placed, Executed, EarlyPCs
<1>2. /\ call' \in [Calls -> Call] /\ Rest(c) /\ Keeps(c)
      /\ call'[c].pc = "character" /\ call'[c].esi = "none"
    BY <1>1, GotoMoves DEF PCs
<1>3. /\ guard' \in [Pods -> Calls \cup {None}]
      /\ guard'[call[c].pod] \in Calls
      /\ \A p \in Pods : guard[p] \in Calls => guard'[p] \in Calls
    BY <1>1 DEF SessionFor, TypeOK
<1>4. TypeOK'
    BY <1>1, <1>2, <1>3 DEF TypeOK
<1>5. Placed(c)'
    BY <1>1, <1>2, <1>3 DEF Placed, Executed, EarlyPCs, ReleasePCs, GuardPCs, UnderWay, Keeps
<1>6. Previewed(c)'
    BY <1>1, <1>2, PreviewStays
<1>7. Rows' = Rows
    BY <1>1 DEF Rows
<1>8. QED
    BY <1>1, <1>2, <1>3, <1>4, <1>5, <1>6, <1>7, BaseStep

LEMMA CharacterBase ==
    ASSUME BaseInv, NEW c \in Calls, Character(c)
    PROVE  BaseInv'
<1>1. /\ call[c].pc = "character" /\ call[c].esi = "none" /\ TypeOK
      /\ call[c].pod \in Pods /\ confirm[c].state = "none"
      /\ guard[call[c].pod] \in Calls
      /\ UNCHANGED <<session, guard, hold, tx, buf, confirm, log, faults, lost, shared>>
    BY DEF Character, BaseInv, Placed, Executed, EarlyPCs, UnderWay
<1>2. /\ call' \in [Calls -> Call] /\ Rest(c) /\ Keeps(c)
      /\ call'[c].pc \in {"authorize", "done"} /\ call'[c].esi = "none"
    <2>1. CASE Goto(c, "authorize")
        BY <1>1, <2>1, GotoMoves DEF PCs
    <2>2. CASE Goto(c, "done")
        BY <1>1, <2>2, OverMoves
    <2>3. QED
        BY <2>1, <2>2 DEF Character
<1>4. TypeOK'
    BY <1>1, <1>2 DEF TypeOK
<1>5. Placed(c)'
    BY <1>1, <1>2 DEF Placed, Executed, EarlyPCs, ReleasePCs, GuardPCs, UnderWay, Keeps
<1>6. Previewed(c)'
    BY <1>1, <1>2, PreviewStays
<1>7. Rows' = Rows
    BY <1>1 DEF Rows
<1>8. QED
    BY <1>1, <1>2, <1>4, <1>5, <1>6, <1>7, BaseStep

LEMMA AuthorizeBase ==
    ASSUME BaseInv, NEW c \in Calls, Authorize(c)
    PROVE  BaseInv'
<1>1. /\ call[c].pc = "authorize" /\ call[c].esi = "none" /\ TypeOK
      /\ call[c].pod \in Pods /\ confirm[c].state = "none"
      /\ guard[call[c].pod] \in Calls
      /\ ReleaseThen(c, guard[call[c].pod], TRUE, "gate")
      /\ UNCHANGED <<session, guard, hold, tx, buf, confirm, log, faults, lost, shared>>
    BY DEF Authorize, BaseInv, Placed, Executed, EarlyPCs, UnderWay
<1>2. /\ call' \in [Calls -> Call] /\ Rest(c) /\ Keeps(c)
      /\ call'[c].pc = "rel" /\ call'[c].g = guard[call[c].pod]
      /\ call'[c].ret = "gate" /\ call'[c].esi = "none"
    BY <1>1, ReleaseMoves
<1>4. TypeOK'
    BY <1>1, <1>2 DEF TypeOK
<1>5. Placed(c)'
    BY <1>1, <1>2 DEF Placed, Executed, EarlyPCs, ReleasePCs, GuardPCs, UnderWay, Keeps
<1>6. Previewed(c)'
    BY <1>1, <1>2, PreviewStays
<1>7. Rows' = Rows
    BY <1>1 DEF Rows
<1>8. QED
    BY <1>1, <1>2, <1>4, <1>5, <1>6, <1>7, BaseStep

LEMMA GateMailCapBase ==
    ASSUME BaseInv, NEW c \in Calls, GateMailCap(c)
    PROVE  BaseInv'
<1>1. /\ call[c].pc = "gate" /\ call[c].esi = "none" /\ TypeOK
      /\ call[c].pod \in Pods /\ confirm[c].state = "none"
      /\ guard[call[c].pod] \in Calls /\ call[c].g \in Calls
      /\ UNCHANGED <<session, guard, buf, confirm, log, faults, lost, shared>>
    BY DEF GateMailCap, BaseInv, Placed, Executed, EarlyPCs, UnderWay, GuardPCs
<1>2. /\ call' \in [Calls -> Call] /\ Rest(c) /\ Keeps(c)
      /\ call'[c].pc \in {"consume", "put", "done"} /\ call'[c].esi = "none"
      /\ call'[c].pc \in {"consume", "put"} => call'[c].g = call[c].g
      /\ call'[c].pc = "consume" => call[c].token # None
    <2>1. CASE Goto(c, "consume") /\ call[c].token # None
        BY <1>1, <2>1, GotoMoves DEF PCs
    <2>2. CASE Goto(c, "put")
        BY <1>1, <2>2, GotoMoves DEF PCs
    <2>3. CASE Goto(c, "done")
        BY <1>1, <2>3, OverMoves
    <2>4. QED
        BY <2>1, <2>2, <2>3 DEF GateMailCap
<1>3. /\ tx' \in [Calls -> {"none", "open", "ending", "ended"}]
      /\ hold' \in [Calls -> Calls \cup {None}]
    <2>1. /\ tx' = tx \/ tx' = [tx EXCEPT ![c] = "ended"] \/ tx' = [tx EXCEPT ![c] = "open"]
          /\ hold' = hold \/ hold' = [hold EXCEPT ![call[c].g] = c]
        BY DEF GateMailCap
    <2>2. /\ tx \in [Calls -> {"none", "open", "ending", "ended"}]
          /\ hold \in [Calls -> Calls \cup {None}]
        BY <1>1 DEF TypeOK
    <2>3. tx' \in [Calls -> {"none", "open", "ending", "ended"}]
        BY <2>1, <2>2
    <2>4. hold' \in [Calls -> Calls \cup {None}]
        BY <1>1, <2>1, <2>2
    <2>5. QED
        BY <2>3, <2>4
<1>4. TypeOK'
    BY <1>1, <1>2, <1>3 DEF TypeOK
<1>5. Placed(c)'
    <2>1. call[c].token \in Calls \cup {None}
        BY <1>1 DEF TypeOK, Call
    <2>2. QED
        BY <1>1, <1>2, <2>1
           DEF Placed, Executed, EarlyPCs, ReleasePCs, GuardPCs, UnderWay, Keeps
<1>6. Previewed(c)'
    BY <1>1, <1>2, PreviewStays
<1>7. Rows' = Rows
    BY <1>1 DEF Rows
<1>8. QED
    BY <1>1, <1>2, <1>4, <1>5, <1>6, <1>7, BaseStep

LEMMA PutConfirmBase ==
    ASSUME BaseInv, NEW c \in Calls, PutConfirm(c)
    PROVE  BaseInv'
<1>1. /\ call[c].pc = "put" /\ call[c].esi = "none" /\ TypeOK
      /\ call[c].pod \in Pods /\ call[c].g \in Calls /\ Goto(c, "done")
      /\ UNCHANGED <<session, guard, hold, tx, buf, log, faults, lost, shared>>
    BY DEF PutConfirm, BaseInv, Placed, Executed, EarlyPCs, UnderWay, GuardPCs
<1>2. /\ call' \in [Calls -> Call] /\ Rest(c) /\ Keeps(c)
      /\ call'[c].pc = "done" /\ call'[c].esi = "none"
    BY <1>1, OverMoves
<1>3. /\ confirm' = [confirm EXCEPT ![c] = [state |-> "live", sid |-> call[call[c].g].sid]]
      /\ call[call[c].g].sid \in 0 .. MaxSession
    BY <1>1 DEF PutConfirm, GuardSid, TypeOK, Call
<1>4. TypeOK'
    BY <1>1, <1>2, <1>3 DEF TypeOK
<1>5. Placed(c)'
    BY <1>1, <1>2 DEF Placed, Executed, EarlyPCs, ReleasePCs, GuardPCs, UnderWay, Keeps
<1>6. Previewed(c)'
    BY <1>1, <1>2, PreviewStays
<1>7. Rows' = Rows
    BY <1>1 DEF Rows
<1>8. /\ \A d \in Calls \ {c} : confirm'[d].state = confirm[d].state
      /\ confirm'[c].state = "live"
    BY <1>1, <1>3 DEF TypeOK
<1>9. QED
    BY <1>1, <1>2, <1>4, <1>5, <1>6, <1>7, <1>8, BaseStep

(* consumeConfirm lets a call through that shows a preview of the same      *)
(* change.                                                                  *)
LEMMA VerdictMeans ==
    ASSUME NEW c \in Calls
    PROVE  /\ Verdict(c) = "discard" => confirm[call[c].token].state # "none"
           /\ Verdict(c) = "delete" =>
                  /\ confirm[call[c].token].state = "live"
                  /\ confirm[call[c].token].sid = GuardSid(call[c].g)
                  /\ call[call[c].token].tool = call[c].tool
                  /\ call[call[c].token].args = call[c].args
BY DEF Verdict

LEMMA ConsumeConfirmMoves ==
    ASSUME BaseInv, NEW c \in Calls, ConsumeConfirm(c)
    PROVE  /\ call[c].pc = "consume" /\ call[c].esi = "none" /\ TypeOK
           /\ call[c].pod \in Pods /\ confirm[c].state = "none" /\ call[c].g \in Calls
           /\ guard[call[c].pod] \in Calls /\ call[c].token \in Calls
           /\ UNCHANGED <<session, guard, hold, tx, buf, confirm, log, faults, lost, shared>>
           /\ call' \in [Calls -> Call] /\ Rest(c) /\ Keeps(c)
           /\ call'[c].pc \in {"delete", "discard", "rel"} /\ call'[c].esi = "none"
           /\ call'[c].g = call[c].g
           /\ call'[c].pc = "rel" => call'[c].ret = "done" /\ call'[c].err = TRUE
           /\ call'[c].pc = "discard" => confirm[call[c].token].state # "none"
           /\ call'[c].pc = "delete" =>
                  /\ confirm[call[c].token].state = "live"
                  /\ confirm[call[c].token].sid = GuardSid(call[c].g)
                  /\ call[call[c].token].tool = call[c].tool
                  /\ call[call[c].token].args = call[c].args
<1>1. /\ call[c].pc = "consume" /\ call[c].esi = "none" /\ TypeOK
      /\ call[c].pod \in Pods /\ confirm[c].state = "none" /\ call[c].g \in Calls
      /\ guard[call[c].pod] \in Calls /\ call[c].token \in Calls
      /\ UNCHANGED <<session, guard, hold, tx, buf, confirm, log, faults, lost, shared>>
    BY DEF ConsumeConfirm, BaseInv, Placed, Executed, EarlyPCs, UnderWay, GuardPCs
<1>2. CASE ReleaseThen(c, call[c].g, TRUE, "done")
    BY <1>1, <1>2, ReleaseMoves
<1>3. CASE Goto(c, "discard") /\ Verdict(c) = "discard"
    BY <1>1, <1>3, GotoMoves, VerdictMeans DEF PCs
<1>4. CASE Goto(c, "delete") /\ Verdict(c) = "delete"
    BY <1>1, <1>4, GotoMoves, VerdictMeans DEF PCs
<1>5. Verdict(c) \in {"discard", "delete", "refuse"}
    BY DEF Verdict
<1>6. QED
    BY <1>2, <1>3, <1>4, <1>5 DEF ConsumeConfirm

LEMMA ConsumeConfirmBase ==
    ASSUME BaseInv, NEW c \in Calls, ConsumeConfirm(c)
    PROVE  BaseInv'
<1>1. /\ call[c].pc = "consume" /\ call[c].esi = "none" /\ TypeOK
      /\ call[c].pod \in Pods /\ confirm[c].state = "none" /\ call[c].g \in Calls
      /\ guard[call[c].pod] \in Calls /\ call[c].token \in Calls
      /\ UNCHANGED <<session, guard, hold, tx, buf, confirm, log, faults, lost, shared>>
    BY ConsumeConfirmMoves
<1>2. /\ call' \in [Calls -> Call] /\ Rest(c) /\ Keeps(c)
      /\ call'[c].pc \in {"delete", "discard", "rel"} /\ call'[c].esi = "none"
      /\ call'[c].g = call[c].g
      /\ call'[c].pc = "discard" => confirm[call[c].token].state # "none"
    BY ConsumeConfirmMoves
<1>3. call'[c].pc = "delete" =>
                  /\ confirm[call[c].token].state = "live"
                  /\ call[call[c].token].tool = call[c].tool
                  /\ call[call[c].token].args = call[c].args
    BY ConsumeConfirmMoves
<1>4. TypeOK'
    BY <1>1, <1>2 DEF TypeOK
<1>5. Placed(c)'
    BY <1>1, <1>2, <1>3
       DEF Placed, Executed, EarlyPCs, ReleasePCs, GuardPCs, UnderWay, Keeps
<1>6. Previewed(c)'
    <2>1. confirm[call[c].token].state # "none" => call[call[c].token].pc = "done"
        BY <1>1 DEF BaseInv, Placed
    <2>2. call[c].token # c => call'[call[c].token] = call[call[c].token]
        BY <1>1, <1>2 DEF Rest
    <2>3. QED
        BY <1>1, <1>2, <1>3, <2>1, <2>2 DEF Previewed, Consented, Executed, Keeps
<1>7. Rows' = Rows
    BY <1>1 DEF Rows
<1>8. QED
    BY <1>1, <1>2, <1>4, <1>5, <1>6, <1>7, BaseStep

LEMMA DeleteConfirmMoves ==
    ASSUME BaseInv, NEW c \in Calls, DeleteConfirm(c)
    PROVE  /\ call[c].pc \in {"discard", "delete"} /\ call[c].esi = "none" /\ TypeOK
           /\ call[c].pod \in Pods /\ confirm[c].state = "none" /\ call[c].g \in Calls
           /\ guard[call[c].pod] \in Calls /\ call[c].token \in Calls
           /\ UNCHANGED <<session, guard, hold, tx, buf, log, faults, lost, shared>>
           /\ confirm' = [confirm EXCEPT ![call[c].token] =
                              [confirm[call[c].token] EXCEPT !.state = "gone"]]
           /\ call' \in [Calls -> Call] /\ Rest(c) /\ Keeps(c)
           /\ call'[c].pc \in {"esi", "rel"} /\ call'[c].esi = "none"
           /\ call'[c].g = call[c].g
           /\ call'[c].pc = "rel" =>
                  call[c].pc = "discard" /\ call'[c].ret = "done" /\ call'[c].err = TRUE
           /\ call'[c].pc = "esi" => call[c].pc = "delete"
<1>1. /\ call[c].pc \in {"discard", "delete"} /\ call[c].esi = "none" /\ TypeOK
      /\ call[c].pod \in Pods /\ confirm[c].state = "none" /\ call[c].g \in Calls
      /\ guard[call[c].pod] \in Calls /\ call[c].token \in Calls
      /\ UNCHANGED <<session, guard, hold, tx, buf, log, faults, lost, shared>>
    BY DEF DeleteConfirm, BaseInv, Placed, Executed, EarlyPCs, UnderWay, GuardPCs
<1>2. confirm' = [confirm EXCEPT ![call[c].token] =
                      [confirm[call[c].token] EXCEPT !.state = "gone"]]
    BY DEF DeleteConfirm
<1>3. CASE ReleaseThen(c, call[c].g, TRUE, "done") /\ call[c].pc = "discard"
    BY <1>1, <1>2, <1>3, ReleaseMoves
<1>4. CASE Goto(c, "esi") /\ call[c].pc = "delete"
    BY <1>1, <1>2, <1>4, GotoMoves DEF PCs
<1>5. QED
    BY <1>1, <1>3, <1>4 DEF DeleteConfirm

LEMMA DeleteConfirmBase ==
    ASSUME BaseInv, NEW c \in Calls, DeleteConfirm(c)
    PROVE  BaseInv'
<1>1. /\ call[c].pc \in {"discard", "delete"} /\ call[c].esi = "none" /\ TypeOK
      /\ call[c].pod \in Pods /\ confirm[c].state = "none" /\ call[c].g \in Calls
      /\ guard[call[c].pod] \in Calls /\ call[c].token \in Calls
      /\ UNCHANGED <<session, guard, hold, tx, buf, log, faults, lost, shared>>
    BY DeleteConfirmMoves
<1>2. /\ call' \in [Calls -> Call] /\ Rest(c) /\ Keeps(c)
      /\ call'[c].pc \in {"esi", "rel"} /\ call'[c].esi = "none"
      /\ call'[c].g = call[c].g
      /\ call'[c].pc = "esi" => call[c].pc = "delete"
    BY DeleteConfirmMoves
<1>3. confirm' = [confirm EXCEPT ![call[c].token] =
                      [confirm[call[c].token] EXCEPT !.state = "gone"]]
    BY DeleteConfirmMoves
<1>4. TypeOK'
    <2>1. /\ confirm \in [Calls -> [state : {"none", "live", "expired", "gone"},
                                    sid : 0 .. MaxSession]]
          /\ confirm[call[c].token] \in [state : {"none", "live", "expired", "gone"},
                                         sid : 0 .. MaxSession]
        BY <1>1 DEF TypeOK
    <2>2. [confirm[call[c].token] EXCEPT !.state = "gone"]
                \in [state : {"none", "live", "expired", "gone"}, sid : 0 .. MaxSession]
        BY <2>1
    <2>3. confirm' \in [Calls -> [state : {"none", "live", "expired", "gone"},
                                  sid : 0 .. MaxSession]]
        BY <1>3, <2>1, <2>2
    <2>4. QED
        BY <1>1, <1>2, <2>3 DEF TypeOK
<1>5. confirm[call[c].token].state # "none" /\ call[c].token # c
    BY <1>1 DEF BaseInv, Placed
<1>6. /\ \A d \in Calls \ {call[c].token} : confirm'[d].state = confirm[d].state
      /\ confirm'[call[c].token].state = "gone"
    BY <1>1, <1>3 DEF TypeOK
<1>7. Placed(c)'
    BY <1>1, <1>2, <1>5, <1>6
       DEF Placed, Executed, EarlyPCs, ReleasePCs, GuardPCs, UnderWay, Keeps
<1>8. Previewed(c)'
    BY <1>1, <1>2, PreviewStays DEF Consented
<1>9. Rows' = Rows
    BY <1>1 DEF Rows
<1>10. \A d \in Calls : confirm[d].state = "none" <=> confirm'[d].state = "none"
    BY <1>5, <1>6
<1>11. QED
    BY <1>1, <1>2, <1>4, <1>7, <1>8, <1>9, <1>10, BaseStep

LEMMA ESIWriteMoves ==
    ASSUME BaseInv, NEW c \in Calls, ESIWrite(c)
    PROVE  /\ call[c].pc = "esi" /\ call[c].esi = "none" /\ TypeOK
           /\ call[c].pod \in Pods /\ confirm[c].state = "none" /\ call[c].g \in Calls
           /\ guard[call[c].pod] \in Calls
           /\ UNCHANGED <<session, guard, hold, tx, buf, confirm, log, faults, lost, shared>>
           /\ call' \in [Calls -> Call] /\ Rest(c) /\ Keeps(c)
           /\ call'[c].pc = "record" /\ call'[c].esi \in {"ok", "error", "unanswered"}
           /\ call'[c].g = call[c].g
<1>1. /\ call[c].pc = "esi" /\ call[c].esi = "none" /\ TypeOK /\ call[c] \in Call
      /\ call[c].pod \in Pods /\ confirm[c].state = "none" /\ call[c].g \in Calls
      /\ guard[call[c].pod] \in Calls
      /\ UNCHANGED <<session, guard, hold, tx, buf, confirm, log, faults, lost, shared>>
    BY DEF ESIWrite, BaseInv, Placed, Executed, EarlyPCs, UnderWay, GuardPCs, TypeOK
<1>2. PICK r \in {"ok", "error", "unanswered"} :
          call' = [call EXCEPT ![c] = [call[c] EXCEPT !.esi = r, !.pc = "record"]]
    BY DEF ESIWrite
<1>3. [call[c] EXCEPT !.esi = r, !.pc = "record"] \in Call
    BY <1>1 DEF Call, PCs
<1>4. QED
    BY <1>1, <1>2, <1>3 DEF TypeOK, Call, Rest, Keeps

LEMMA ESIWriteBase ==
    ASSUME BaseInv, NEW c \in Calls, ESIWrite(c)
    PROVE  BaseInv'
<1>1. /\ call[c].pc = "esi" /\ call[c].esi = "none" /\ TypeOK
      /\ call[c].pod \in Pods /\ confirm[c].state = "none" /\ call[c].g \in Calls
      /\ guard[call[c].pod] \in Calls
      /\ UNCHANGED <<session, guard, hold, tx, buf, confirm, log, faults, lost, shared>>
    BY ESIWriteMoves
<1>2. /\ call' \in [Calls -> Call] /\ Rest(c) /\ Keeps(c)
      /\ call'[c].pc = "record" /\ call'[c].esi \in {"ok", "error", "unanswered"}
      /\ call'[c].g = call[c].g
    BY ESIWriteMoves
<1>3. TypeOK'
    BY <1>1, <1>2 DEF TypeOK
<1>4. Placed(c)'
    BY <1>1, <1>2 DEF Placed, Executed, EarlyPCs, ReleasePCs, GuardPCs, UnderWay, Keeps
<1>5. Previewed(c)'
    BY <1>1, <1>2, PreviewStays DEF Consented
<1>6. Rows' = Rows
    BY <1>1 DEF Rows
<1>7. QED
    BY <1>1, <1>2, <1>3, <1>4, <1>5, <1>6, BaseStep

LEMMA RecordMoves ==
    ASSUME BaseInv, NEW c \in Calls, Record(c)
    PROVE  /\ call[c].pc = "record" /\ call[c].esi # "none" /\ TypeOK
           /\ call[c].pod \in Pods /\ confirm[c].state = "none" /\ call[c].g \in Calls
           /\ guard[call[c].pod] \in Calls
           /\ UNCHANGED <<session, guard, hold, tx, confirm, faults, lost, shared>>
           /\ call' \in [Calls -> Call] /\ Rest(c) /\ Keeps(c)
           /\ call'[c].pc = "rel" /\ call'[c].esi = call[c].esi
           /\ call'[c].g = guard[call[c].pod] /\ call'[c].ret = "done"
           /\ \/ /\ hold[guard[call[c].pod]] \in Calls /\ log' = log
                 /\ tx[hold[guard[call[c].pod]]] = "open"
                 /\ buf' = [buf EXCEPT ![hold[guard[call[c].pod]]] = @ \cup {c}]
                 /\ call'[c].err = FALSE
              \/ /\ hold[guard[call[c].pod]] \in Calls /\ log' = log
                 /\ tx[hold[guard[call[c].pod]]] # "open"
                 /\ buf' = buf
                 /\ call'[c].err = TRUE
              \/ /\ hold[guard[call[c].pod]] = None /\ log' = log \cup {c} /\ buf' = buf
                 /\ call'[c].err = FALSE
                 /\ call[c].tool = "mail" /\ call[c].esi = "ok" => LockFree
<1>1. /\ call[c].pc = "record" /\ call[c].esi # "none" /\ TypeOK
      /\ call[c].pod \in Pods /\ confirm[c].state = "none" /\ call[c].g \in Calls
      /\ guard[call[c].pod] \in Calls
      /\ UNCHANGED <<session, guard, hold, tx, confirm, faults, lost, shared>>
    BY DEF Record, BaseInv, Placed, Executed, EarlyPCs, UnderWay, GuardPCs
<1>2. PICK g : g = guard[call[c].pod]
    OBVIOUS
<1>3. g \in Calls /\ hold[g] \in Calls \cup {None}
    BY <1>1, <1>2 DEF TypeOK
<1>4. PICK e \in BOOLEAN :
          /\ ReleaseThen(c, g, e, "done")
          /\ \/ /\ hold[g] \in Calls /\ log' = log /\ tx[hold[g]] = "open"
                /\ buf' = [buf EXCEPT ![hold[g]] = @ \cup {c}] /\ ~e
             \/ /\ hold[g] \in Calls /\ log' = log /\ tx[hold[g]] # "open"
                /\ buf' = buf /\ e
             \/ /\ hold[g] = None /\ log' = log \cup {c} /\ buf' = buf /\ ~e
                /\ call[c].tool = "mail" /\ call[c].esi = "ok" => LockFree
    <2>1. CASE hold[g] # None
        BY <1>2, <1>3, <2>1 DEF Record
    <2>2. CASE hold[g] = None
        BY <1>2, <1>3, <2>2 DEF Record
    <2>3. QED
        BY <2>1, <2>2
<1>5. /\ call' \in [Calls -> Call] /\ Rest(c) /\ Keeps(c)
      /\ call'[c].pc = "rel" /\ call'[c].esi = call[c].esi
      /\ call'[c].g = g /\ call'[c].ret = "done" /\ call'[c].err = e
    BY <1>1, <1>3, <1>4, ReleaseMoves
<1>6. QED
    BY <1>1, <1>2, <1>4, <1>5

LEMMA RecordBase ==
    ASSUME BaseInv, NEW c \in Calls, Record(c)
    PROVE  BaseInv'
<1>1. /\ call[c].pc = "record" /\ call[c].esi # "none" /\ TypeOK
      /\ call[c].pod \in Pods /\ confirm[c].state = "none" /\ call[c].g \in Calls
      /\ guard[call[c].pod] \in Calls
      /\ UNCHANGED <<session, guard, hold, tx, confirm, faults, lost, shared>>
    BY RecordMoves
<1>2. /\ call' \in [Calls -> Call] /\ Rest(c) /\ Keeps(c)
      /\ call'[c].pc = "rel" /\ call'[c].esi = call[c].esi
      /\ call'[c].g = guard[call[c].pod] /\ call'[c].ret = "done"
    BY RecordMoves
<1>. PICK h : h = hold[guard[call[c].pod]]
    OBVIOUS
<1>3. \/ h \in Calls /\ log' = log /\ buf' = [buf EXCEPT ![h] = @ \cup {c}]
      \/ log' \in {log, log \cup {c}} /\ buf' = buf
    BY RecordMoves
<1>4. /\ buf' \in [Calls -> SUBSET Calls] /\ log' \subseteq Calls
      /\ Rows' \subseteq Rows \cup {c}
    <2>1. buf \in [Calls -> SUBSET Calls] /\ log \subseteq Calls
        BY <1>1 DEF TypeOK
    <2>2. CASE h \in Calls /\ log' = log /\ buf' = [buf EXCEPT ![h] = @ \cup {c}]
        <3>1. \A d \in Calls : buf'[d] \subseteq buf[d] \cup {c} /\ buf[d] \subseteq Calls
            BY <2>1, <2>2
        <3>2. buf' \in [Calls -> SUBSET Calls]
            BY <2>1, <2>2
        <3>3. Rows' \subseteq Rows \cup {c}
            BY <2>2, <3>1 DEF Rows
        <3>4. QED
            BY <2>1, <2>2, <3>2, <3>3
    <2>3. CASE log' \in {log, log \cup {c}} /\ buf' = buf
        BY <2>1, <2>3 DEF Rows
    <2>4. QED
        BY <1>3, <2>2, <2>3
<1>5. TypeOK'
    BY <1>1, <1>2, <1>4 DEF TypeOK
<1>6. Placed(c)'
    BY <1>1, <1>2 DEF Placed, Executed, EarlyPCs, ReleasePCs, GuardPCs, UnderWay, Keeps
<1>7. Previewed(c)'
    BY <1>1, <1>2, PreviewStays DEF Consented, Executed
<1>8. QED
    BY <1>1, <1>2, <1>4, <1>5, <1>6, <1>7, BaseStep

LEMMA TakeEndMoves ==
    ASSUME BaseInv, NEW c \in Calls, TakeEnd(c)
    PROVE  /\ call[c].pc = "rel" /\ TypeOK /\ call[c].pod \in Pods
           /\ confirm[c].state = "none" /\ call[c].g \in Calls
           /\ guard[call[c].pod] \in Calls
           /\ UNCHANGED <<session, guard, hold, buf, confirm, log, faults, lost, shared>>
           /\ call' \in [Calls -> Call] /\ Rest(c) /\ Keeps(c)
           /\ call'[c].esi = call[c].esi
           /\ \/ /\ hold[call[c].g] = None /\ tx' = tx
                 /\ call[c].ret = "gate" /\ call'[c].pc = "gate" /\ call'[c].g = call[c].g
              \/ /\ hold[call[c].g] = None /\ tx' = tx
                 /\ call[c].ret = "done" /\ call'[c].pc = "done"
              \/ /\ hold[call[c].g] \in Calls /\ tx[hold[call[c].g]] = "open"
                 /\ tx' = [tx EXCEPT ![hold[call[c].g]] = "ending"]
                 /\ call'[c].pc = "relTx" /\ call'[c].g = call[c].g
                 /\ call'[c].h = hold[call[c].g]
                 /\ call'[c].ret = call[c].ret /\ call'[c].err = call[c].err
              \/ /\ hold[call[c].g] \in Calls /\ tx[hold[call[c].g]] # "open"
                 /\ tx' = tx /\ call'[c].pc = "done"
<1>1. /\ call[c].pc = "rel" /\ TypeOK /\ call[c] \in Call /\ call[c].pod \in Pods
      /\ confirm[c].state = "none" /\ call[c].g \in Calls
      /\ guard[call[c].pod] \in Calls /\ call[c].ret \in {"gate", "done"}
      /\ UNCHANGED <<session, guard, hold, buf, confirm, log, faults, lost, shared>>
    BY DEF TakeEnd, BaseInv, Placed, UnderWay, GuardPCs, TypeOK, Call
<1>2. PICK h : h = hold[call[c].g]
    OBVIOUS
<1>3. h \in Calls \cup {None}
    BY <1>1, <1>2 DEF TypeOK
<1>4. CASE h = None /\ call[c].ret = "gate" /\ Goto(c, "gate") /\ UNCHANGED tx
    BY <1>1, <1>2, <1>4, GotoMoves DEF PCs
<1>5. CASE h = None /\ call[c].ret = "done" /\ Goto(c, "done") /\ UNCHANGED tx
    BY <1>1, <1>2, <1>5, OverMoves
<1>6. CASE /\ h # None /\ tx[h] = "open"
           /\ tx' = [tx EXCEPT ![h] = "ending"]
           /\ call' = [call EXCEPT ![c] = [call[c] EXCEPT !.h = h, !.pc = "relTx"]]
    <2>1. [call[c] EXCEPT !.h = h, !.pc = "relTx"] \in Call
        BY <1>1, <1>3 DEF Call, PCs
    <2>2. QED
        BY <1>1, <1>2, <1>3, <1>6, <2>1 DEF TypeOK, Call, Rest, Keeps
<1>7. CASE h # None /\ tx[h] # "open" /\ Goto(c, "done") /\ UNCHANGED tx
    BY <1>1, <1>2, <1>3, <1>7, OverMoves
<1>8. QED
    BY <1>1, <1>2, <1>4, <1>5, <1>6, <1>7 DEF TakeEnd

LEMMA TakeEndBase ==
    ASSUME BaseInv, NEW c \in Calls, TakeEnd(c)
    PROVE  BaseInv'
<1>1. /\ call[c].pc = "rel" /\ TypeOK /\ call[c].pod \in Pods
      /\ confirm[c].state = "none" /\ call[c].g \in Calls
      /\ guard[call[c].pod] \in Calls
      /\ UNCHANGED <<session, guard, hold, buf, confirm, log, faults, lost, shared>>
    BY TakeEndMoves
<1>2. /\ call' \in [Calls -> Call] /\ Rest(c) /\ Keeps(c)
      /\ call'[c].esi = call[c].esi /\ call'[c].pc \in {"gate", "done", "relTx"}
      /\ call'[c].pc = "gate" => call[c].ret = "gate" /\ call'[c].g = call[c].g
      /\ call'[c].pc = "relTx" => /\ call'[c].h \in Calls /\ call'[c].g = call[c].g
                                  /\ call'[c].ret = call[c].ret
    BY TakeEndMoves
<1>3. tx' = tx \/ \E h \in Calls : tx' = [tx EXCEPT ![h] = "ending"]
    BY TakeEndMoves
<1>4. TypeOK'
    <2>1. tx' \in [Calls -> {"none", "open", "ending", "ended"}]
        BY <1>1, <1>3 DEF TypeOK
    <2>2. QED
        BY <1>1, <1>2, <2>1 DEF TypeOK
<1>5. Placed(c)'
    <2>1. call[c].ret = "gate" => call[c].esi = "none"
        BY <1>1 DEF BaseInv, Placed, Executed, ReleasePCs
    <2>2. QED
        BY <1>1, <1>2, <2>1
           DEF Placed, Executed, EarlyPCs, ReleasePCs, GuardPCs, UnderWay, Keeps
<1>6. Previewed(c)'
    BY <1>1, <1>2, PreviewStays DEF Consented, Executed
<1>7. Rows' = Rows
    BY <1>1 DEF Rows
<1>8. QED
    BY <1>1, <1>2, <1>4, <1>5, <1>6, <1>7, BaseStep

LEMMA EndTxMoves ==
    ASSUME BaseInv, NEW c \in Calls, EndTx(c)
    PROVE  /\ call[c].pc = "relTx" /\ TypeOK /\ call[c].pod \in Pods
           /\ confirm[c].state = "none" /\ call[c].g \in Calls /\ call[c].h \in Calls
           /\ guard[call[c].pod] \in Calls
           /\ UNCHANGED <<session, guard, hold, confirm, faults, lost, shared>>
           /\ tx' = [tx EXCEPT ![call[c].h] = "ended"]
           /\ buf' = [buf EXCEPT ![call[c].h] = {}]
           /\ call[c].err => log' = log
           /\ ~call[c].err => log' = log \cup buf[call[c].h]
           /\ call' \in [Calls -> Call] /\ Rest(c) /\ Keeps(c)
           /\ call'[c].pc = "relClear" /\ call'[c].esi = call[c].esi
           /\ call'[c].g = call[c].g /\ call'[c].h = call[c].h
           /\ call'[c].ret = call[c].ret /\ call'[c].err = call[c].err
<1>1. /\ call[c].pc = "relTx" /\ TypeOK /\ call[c].pod \in Pods
      /\ confirm[c].state = "none" /\ call[c].g \in Calls /\ call[c].h \in Calls
      /\ guard[call[c].pod] \in Calls /\ Goto(c, "relClear")
    BY DEF EndTx, BaseInv, Placed, UnderWay, GuardPCs
<1>2. QED
    BY <1>1, GotoMoves DEF EndTx, PCs

LEMMA EndTxBase ==
    ASSUME BaseInv, NEW c \in Calls, EndTx(c)
    PROVE  BaseInv'
<1>1. /\ call[c].pc = "relTx" /\ TypeOK /\ call[c].pod \in Pods
      /\ confirm[c].state = "none" /\ call[c].g \in Calls /\ call[c].h \in Calls
      /\ guard[call[c].pod] \in Calls
      /\ UNCHANGED <<session, guard, hold, confirm, faults, lost, shared>>
    BY EndTxMoves
<1>2. /\ call' \in [Calls -> Call] /\ Rest(c) /\ Keeps(c)
      /\ call'[c].pc = "relClear" /\ call'[c].esi = call[c].esi
      /\ call'[c].g = call[c].g /\ call'[c].ret = call[c].ret
    BY EndTxMoves
<1>3. PICK h \in Calls :
          /\ tx' = [tx EXCEPT ![h] = "ended"]
          /\ buf' = [buf EXCEPT ![h] = {}]
          /\ log' \in {log, log \cup buf[h]}
    BY <1>1, EndTxMoves
<1>4. /\ buf' \in [Calls -> SUBSET Calls] /\ log' \subseteq Calls
      /\ tx' \in [Calls -> {"none", "open", "ending", "ended"}]
      /\ Rows' \subseteq Rows
    <2>1. /\ buf \in [Calls -> SUBSET Calls] /\ log \subseteq Calls
          /\ tx \in [Calls -> {"none", "open", "ending", "ended"}]
        BY <1>1 DEF TypeOK
    <2>2. \A d \in Calls : buf'[d] \subseteq buf[d]
        BY <1>3, <2>1
    <2>3. Rows' \subseteq Rows
        BY <1>3, <2>2 DEF Rows
    <2>4. QED
        BY <1>3, <2>1, <2>3
<1>5. TypeOK'
    BY <1>1, <1>2, <1>4 DEF TypeOK
<1>6. Placed(c)'
    <2>1. call[c].ret = "gate" => call[c].esi = "none"
        BY <1>1 DEF BaseInv, Placed, Executed, ReleasePCs
    <2>2. QED
        BY <1>1, <1>2, <2>1
           DEF Placed, Executed, EarlyPCs, ReleasePCs, GuardPCs, UnderWay, Keeps
<1>7. Previewed(c)'
    BY <1>1, <1>2, PreviewStays DEF Consented, Executed
<1>8. QED
    BY <1>1, <1>2, <1>4, <1>5, <1>6, <1>7, BaseStep

LEMMA ClearHoldMoves ==
    ASSUME BaseInv, NEW c \in Calls, ClearHold(c)
    PROVE  /\ call[c].pc = "relClear" /\ TypeOK /\ call[c].pod \in Pods
           /\ confirm[c].state = "none" /\ call[c].g \in Calls
           /\ guard[call[c].pod] \in Calls
           /\ UNCHANGED <<session, guard, tx, buf, confirm, log, faults, lost, shared>>
           /\ hold' = [hold EXCEPT ![call[c].g] = None]
           /\ call' \in [Calls -> Call] /\ Rest(c) /\ Keeps(c)
           /\ call'[c].esi = call[c].esi
           /\ \/ call[c].ret = "gate" /\ call'[c].pc = "gate" /\ call'[c].g = call[c].g
              \/ call[c].ret = "done" /\ call'[c].pc = "done"
<1>1. /\ call[c].pc = "relClear" /\ TypeOK /\ call[c].pod \in Pods
      /\ confirm[c].state = "none" /\ call[c].g \in Calls
      /\ guard[call[c].pod] \in Calls /\ call[c].ret \in {"gate", "done"}
    BY DEF ClearHold, BaseInv, Placed, UnderWay, GuardPCs, TypeOK, Call
<1>2. CASE call[c].ret = "gate"
    BY <1>1, <1>2, GotoMoves DEF ClearHold, PCs
<1>3. CASE call[c].ret = "done"
    BY <1>1, <1>3, OverMoves DEF ClearHold
<1>4. QED
    BY <1>1, <1>2, <1>3

LEMMA ClearHoldBase ==
    ASSUME BaseInv, NEW c \in Calls, ClearHold(c)
    PROVE  BaseInv'
<1>1. /\ call[c].pc = "relClear" /\ TypeOK /\ call[c].pod \in Pods
      /\ confirm[c].state = "none" /\ call[c].g \in Calls
      /\ guard[call[c].pod] \in Calls
      /\ UNCHANGED <<session, guard, tx, buf, confirm, log, faults, lost, shared>>
      /\ hold' = [hold EXCEPT ![call[c].g] = None]
    BY ClearHoldMoves
<1>2. /\ call' \in [Calls -> Call] /\ Rest(c) /\ Keeps(c)
      /\ call'[c].esi = call[c].esi /\ call'[c].pc \in {"gate", "done"}
      /\ call'[c].pc = "gate" => call[c].ret = "gate" /\ call'[c].g = call[c].g
    BY ClearHoldMoves
<1>3. TypeOK'
    <2>1. hold' \in [Calls -> Calls \cup {None}]
        BY <1>1 DEF TypeOK
    <2>2. QED
        BY <1>1, <1>2, <2>1 DEF TypeOK
<1>4. Placed(c)'
    <2>1. call[c].ret = "gate" => call[c].esi = "none"
        BY <1>1 DEF BaseInv, Placed, Executed, ReleasePCs
    <2>2. QED
        BY <1>1, <1>2, <2>1
           DEF Placed, Executed, EarlyPCs, ReleasePCs, GuardPCs, UnderWay, Keeps
<1>5. Previewed(c)'
    BY <1>1, <1>2, PreviewStays DEF Consented, Executed
<1>6. Rows' = Rows
    BY <1>1 DEF Rows
<1>7. QED
    BY <1>1, <1>2, <1>3, <1>4, <1>5, <1>6, BaseStep

LEMMA StatementFailsMoves ==
    ASSUME BaseInv, NEW c \in Calls, StatementFails(c)
    PROVE  /\ TypeOK /\ call[c].pod \in Pods /\ confirm[c].state = "none"
           /\ guard[call[c].pod] \in Calls /\ faults' \in 0 .. MaxFaults
           /\ UNCHANGED <<session, guard, hold, tx, buf, confirm, log, shared>>
           /\ call' \in [Calls -> Call] /\ Rest(c) /\ Keeps(c)
           /\ call'[c].esi = call[c].esi
           /\ \/ /\ call[c].pc \in {"character", "gate", "put"} /\ call'[c].pc = "done"
                 /\ lost' = lost
              \/ /\ call[c].pc \in {"consume", "discard", "delete"}
                 /\ call[c].g \in Calls /\ call'[c].pc = "rel" /\ call'[c].g = call[c].g
                 /\ call'[c].ret = "done" /\ call'[c].err = TRUE /\ lost' = lost
              \/ /\ call[c].pc = "record" /\ call'[c].pc = "rel"
                 /\ call'[c].g = guard[call[c].pod]
                 /\ call'[c].ret = "done" /\ call'[c].err = TRUE
                 /\ lost' = lost \cup {c}
              \/ /\ call[c].pc = "relTx" /\ ~call[c].err /\ call'[c].pc = "relTx"
                 /\ call[c].g \in Calls /\ call[c].h \in Calls
                 /\ call'[c].g = call[c].g /\ call'[c].h = call[c].h
                 /\ call'[c].ret = call[c].ret /\ call'[c].err = TRUE
                 /\ lost' = lost \cup buf[call[c].h]
<1>1. /\ call[c].pc \in {"character", "gate", "put", "consume", "discard", "delete",
                         "record", "relTx"}
      /\ TypeOK /\ call[c] \in Call /\ call[c].pod \in Pods
      /\ confirm[c].state = "none" /\ guard[call[c].pod] \in Calls
      /\ call[c].pc \in GuardPCs => call[c].g \in Calls
      /\ call[c].pc = "relTx" => call[c].h \in Calls
      /\ UNCHANGED <<session, guard, hold, tx, buf, confirm, log, shared>>
    BY DEF StatementFails, BaseInv, Placed, UnderWay, TypeOK
<1>2. faults' \in 0 .. MaxFaults
    BY <1>1, ConstantsAssumption DEF StatementFails, TypeOK
<1>3. CASE call[c].pc \in {"character", "gate", "put"} /\ Goto(c, "done") /\ UNCHANGED lost
    BY <1>1, <1>2, <1>3, OverMoves
<1>4. CASE /\ call[c].pc \in {"consume", "discard", "delete"}
           /\ ReleaseThen(c, call[c].g, TRUE, "done") /\ UNCHANGED lost
    BY <1>1, <1>2, <1>4, ReleaseMoves DEF GuardPCs
<1>5. CASE /\ call[c].pc = "record" /\ ReleaseThen(c, guard[call[c].pod], TRUE, "done")
           /\ lost' = lost \cup {c}
    BY <1>1, <1>2, <1>5, ReleaseMoves
<1>6. CASE /\ call[c].pc = "relTx" /\ ~call[c].err
           /\ call' = [call EXCEPT ![c] = [call[c] EXCEPT !.err = TRUE]]
           /\ lost' = lost \cup buf[call[c].h]
    <2>1. [call[c] EXCEPT !.err = TRUE] \in Call
        BY <1>1 DEF Call
    <2>2. QED
        BY <1>1, <1>2, <1>6, <2>1 DEF TypeOK, Call, Rest, Keeps, GuardPCs
<1>7. QED
    BY <1>3, <1>4, <1>5, <1>6 DEF StatementFails

LEMMA StatementFailsBase ==
    ASSUME BaseInv, NEW c \in Calls, StatementFails(c)
    PROVE  BaseInv'
<1>1. /\ TypeOK /\ call[c].pod \in Pods /\ confirm[c].state = "none"
      /\ guard[call[c].pod] \in Calls /\ faults' \in 0 .. MaxFaults
      /\ UNCHANGED <<session, guard, hold, tx, buf, confirm, log, shared>>
      /\ call' \in [Calls -> Call] /\ Rest(c) /\ Keeps(c)
      /\ call'[c].esi = call[c].esi
    BY StatementFailsMoves
<1>2. /\ call[c].pc \in {"character", "gate", "put", "consume", "discard", "delete",
                         "record", "relTx"}
      /\ call'[c].pc \in {"done", "rel", "relTx"}
      /\ call'[c].pc # "done" => call'[c].g \in Calls
      /\ call'[c].pc = "rel" => call'[c].ret = "done"
      /\ call'[c].pc = "relTx" => /\ call[c].pc = "relTx" /\ call'[c].h \in Calls
                                  /\ call'[c].ret = call[c].ret
    BY <1>1, StatementFailsMoves
<1>3. lost' \subseteq Calls
    <2>1. lost \subseteq Calls /\ buf \in [Calls -> SUBSET Calls]
        BY <1>1 DEF TypeOK
    <2>2. lost' \in {lost, lost \cup {c}} \/ \E h \in Calls : lost' = lost \cup buf[h]
        BY StatementFailsMoves
    <2>3. QED
        BY <2>1, <2>2
<1>4. TypeOK'
    BY <1>1, <1>3 DEF TypeOK
<1>5. Placed(c)'
    BY <1>1, <1>2
       DEF BaseInv, Placed, Executed, EarlyPCs, ReleasePCs, GuardPCs, UnderWay, Keeps
<1>6. Previewed(c)'
    BY <1>1, <1>2, PreviewStays DEF Consented, Executed
<1>7. Rows' = Rows
    BY <1>1 DEF Rows
<1>8. QED
    BY <1>1, <1>2, <1>4, <1>5, <1>6, <1>7, BaseStep

(* The world around the calls.                                              *)
LEMMA ConfirmTimeBase ==
    ASSUME BaseInv, (\E c \in Calls : TokenExpires(c)) \/ SweepConfirms
    PROVE  BaseInv'
<1>1. UNCHANGED <<session, guard, hold, tx, buf, log, call, faults, lost, shared>>
    BY DEF TokenExpires, SweepConfirms
<1>2. /\ confirm' \in [Calls -> [state : {"none", "live", "expired", "gone"},
                                 sid : 0 .. MaxSession]]
      /\ \A d \in Calls : confirm[d].state = "none" <=> confirm'[d].state = "none"
    <2>1. confirm \in [Calls -> [state : {"none", "live", "expired", "gone"},
                                 sid : 0 .. MaxSession]]
        BY DEF BaseInv, TypeOK
    <2>2. \A s \in {"expired", "gone"}, d \in Calls :
              /\ [confirm[d] EXCEPT !.state = s]
                      \in [state : {"none", "live", "expired", "gone"}, sid : 0 .. MaxSession]
              /\ [confirm[d] EXCEPT !.state = s].state = s
        BY <2>1
    <2>3. CASE \E c \in Calls : TokenExpires(c)
        <3>1. PICK c \in Calls :
                  /\ confirm[c].state = "live"
                  /\ confirm' = [confirm EXCEPT ![c] = [confirm[c] EXCEPT !.state = "expired"]]
            BY <2>3 DEF TokenExpires
        <3>2. QED
            BY <2>1, <2>2, <3>1
    <2>4. CASE SweepConfirms
        BY <2>1, <2>2, <2>4 DEF SweepConfirms
    <2>5. QED
        BY <2>3, <2>4
<1>3. TypeOK'
    BY <1>1, <1>2 DEF BaseInv, TypeOK
<1>4. ASSUME NEW d \in Calls
      PROVE  Placed(d)' /\ Previewed(d)'
    <2>1. Placed(d) /\ Previewed(d)
        BY DEF BaseInv
    <2>2. Placed(d)'
        BY <1>1, <1>2, <2>1 DEF Placed, Executed, UnderWay
    <2>3. Previewed(d)'
        BY <1>1, <2>1 DEF Previewed, Consented, Executed
    <2>4. QED
        BY <2>2, <2>3
<1>5. \A d \in Calls : d \in Rows' => call'[d].esi # "none"
    BY <1>1 DEF BaseInv, Rows, Executed
<1>6. QED
    BY <1>3, <1>4, <1>5 DEF BaseInv, Executed

LEMMA SignInAgainBase ==
    ASSUME BaseInv, SignInAgain
    PROVE  BaseInv'
<1>1. UNCHANGED <<guard, hold, tx, buf, confirm, log, call, faults, lost, shared>>
    BY DEF SignInAgain
<1>2. TypeOK'
    BY <1>1, ConstantsAssumption DEF BaseInv, TypeOK, SignInAgain
<1>3. ASSUME NEW d \in Calls
      PROVE  Placed(d)' /\ Previewed(d)'
    BY <1>1 DEF BaseInv, Placed, Previewed, Consented, Executed, UnderWay
<1>4. \A d \in Calls : d \in Rows' => call'[d].esi # "none"
    BY <1>1 DEF BaseInv, Rows, Executed
<1>5. QED
    BY <1>2, <1>3, <1>4 DEF BaseInv, Executed

(* What a crash leaves of a call, and of everything else.                   *)
LEMMA CrashMoves ==
    ASSUME BaseInv, NEW p \in Pods, Crash(p)
    PROVE  /\ TypeOK'
           /\ UNCHANGED <<session, confirm, log, shared>>
           /\ \A q \in Pods : guard'[q] = IF q = p THEN None ELSE guard[q]
           /\ \A c \in Calls :
                  /\ call'[c].pod = call[c].pod /\ call'[c].sid = call[c].sid
                  /\ call'[c].tool = call[c].tool /\ call'[c].args = call[c].args
                  /\ call'[c].token = call[c].token /\ call'[c].esi = call[c].esi
                  /\ call[c].pod # p \/ call[c].pc \in {"new", "done"} => call'[c] = call[c]
                  /\ call[c].pod = p /\ UnderWay(c) => call'[c].pc = "done"
                  /\ call[c].pod # p => /\ hold'[c] = hold[c] /\ tx'[c] = tx[c]
                                        /\ buf'[c] = buf[c]
                  /\ call[c].pod = p => /\ hold'[c] = None /\ tx'[c] \in {"none", "ended"}
                                        /\ buf'[c] = {} /\ buf[c] \subseteq lost'
                  /\ call[c].pod = p /\ UnderWay(c) /\ Executed(c) => c \in log \cup lost'
           /\ lost \subseteq lost'
<1> DEFINE mine == {c \in Calls : call[c].pod = p}
           stopped == {c \in mine : UnderWay(c)}
<1>1. TypeOK /\ UNCHANGED <<session, confirm, log, shared>>
    BY DEF BaseInv, Crash
<1>2. /\ guard' = [guard EXCEPT ![p] = None]
      /\ hold' = [c \in Calls |-> IF c \in mine THEN None ELSE hold[c]]
      /\ tx' = [c \in Calls |-> IF c \in mine /\ tx[c] # "none" THEN "ended" ELSE tx[c]]
      /\ buf' = [c \in Calls |-> IF c \in mine THEN {} ELSE buf[c]]
      /\ faults' = faults + 1 /\ faults < MaxFaults
    BY DEF Crash
<1>3. call' = [c \in Calls |-> IF c \in stopped THEN Over(call[c]) ELSE call[c]]
    BY DEF Crash
<1>4. lost' = lost \cup {c \in stopped : call[c].esi # "none" /\ c \notin log}
                   \cup UNION {buf[c] : c \in mine}
    BY DEF Crash
<1>5. \A c \in Calls : call[c] \in Call /\ buf[c] \subseteq Calls
    BY <1>1 DEF TypeOK
<1>6. ASSUME NEW c \in Calls
      PROVE  /\ Over(call[c]) \in Call
             /\ Over(call[c]).pod = call[c].pod /\ Over(call[c]).sid = call[c].sid
             /\ Over(call[c]).tool = call[c].tool /\ Over(call[c]).args = call[c].args
             /\ Over(call[c]).token = call[c].token /\ Over(call[c]).esi = call[c].esi
             /\ Over(call[c]).pc = "done"
    <2>1. call[c] \in Call
        BY <1>5
    <2>2. Over(call[c]) \in Call
        BY <2>1 DEF Over, Call, PCs
    <2>3. QED
        BY <2>1, <2>2 DEF Over, Call
<1>7. call' \in [Calls -> Call]
    BY <1>3, <1>5, <1>6
<1>8. lost' \subseteq Calls
    BY <1>1, <1>4, <1>5 DEF TypeOK
<1>9. TypeOK'
    <2>1. guard' \in [Pods -> Calls \cup {None}] /\ hold' \in [Calls -> Calls \cup {None}]
        BY <1>1, <1>2 DEF TypeOK
    <2>2. /\ tx' \in [Calls -> {"none", "open", "ending", "ended"}]
          /\ buf' \in [Calls -> SUBSET Calls]
        BY <1>1, <1>2 DEF TypeOK
    <2>3. faults' \in 0 .. MaxFaults
        BY <1>1, <1>2, ConstantsAssumption DEF TypeOK
    <2>4. QED
        BY <1>1, <1>7, <1>8, <2>1, <2>2, <2>3 DEF TypeOK
<1>10. \A q \in Pods : guard'[q] = IF q = p THEN None ELSE guard[q]
    BY <1>1, <1>2 DEF TypeOK
<1>11. ASSUME NEW c \in Calls
       PROVE  /\ call'[c].pod = call[c].pod /\ call'[c].sid = call[c].sid
              /\ call'[c].tool = call[c].tool /\ call'[c].args = call[c].args
              /\ call'[c].token = call[c].token /\ call'[c].esi = call[c].esi
              /\ call[c].pod # p \/ call[c].pc \in {"new", "done"} => call'[c] = call[c]
              /\ call[c].pod = p /\ UnderWay(c) => call'[c].pc = "done"
    BY <1>3, <1>6 DEF UnderWay
<1>12. ASSUME NEW c \in Calls
       PROVE  /\ call[c].pod # p => hold'[c] = hold[c] /\ tx'[c] = tx[c] /\ buf'[c] = buf[c]
              /\ call[c].pod = p => hold'[c] = None /\ tx'[c] \in {"none", "ended"}
                                    /\ buf'[c] = {}
    BY <1>2
<1>13. ASSUME NEW c \in Calls
       PROVE  /\ call[c].pod = p => buf[c] \subseteq lost'
              /\ call[c].pod = p /\ UnderWay(c) /\ Executed(c) => c \in log \cup lost'
    BY <1>4 DEF Executed
<1>14. lost \subseteq lost'
    BY <1>4
<1>15. QED
    BY <1>1, <1>9, <1>10, <1>11, <1>12, <1>13, <1>14

LEMMA CrashBase ==
    ASSUME BaseInv, NEW p \in Pods, Crash(p)
    PROVE  BaseInv'
<1>1. TypeOK'
    BY CrashMoves
<1>2. \A c \in Calls :
          /\ call'[c].pod = call[c].pod /\ call'[c].tool = call[c].tool
          /\ call'[c].args = call[c].args
          /\ call'[c].token = call[c].token /\ call'[c].esi = call[c].esi
          /\ call[c].pod # p \/ call[c].pc \in {"new", "done"} => call'[c] = call[c]
          /\ call[c].pod = p /\ UnderWay(c) => call'[c].pc = "done"
          /\ buf'[c] \subseteq buf[c]
    BY CrashMoves
<1>3. /\ UNCHANGED <<confirm, log>>
      /\ \A q \in Pods : q # p => guard'[q] = guard[q]
    BY CrashMoves
<1>4. ASSUME NEW d \in Calls
      PROVE  Placed(d)' /\ Previewed(d)'
    <2>1. Placed(d) /\ Previewed(d)
        BY DEF BaseInv
    <2>2. \/ call'[d] = call[d] /\ (call[d].pod # p \/ call[d].pc \in {"new", "done"})
          \/ call[d].pod = p /\ call'[d].pc = "done" /\ UnderWay(d)
        BY <1>2 DEF UnderWay
    <2>3. Placed(d)'
        BY <1>2, <1>3, <2>1, <2>2
           DEF Placed, Executed, UnderWay, EarlyPCs, ReleasePCs, GuardPCs
    <2>4. Previewed(d)'
        BY <1>2, <2>1, <2>2 DEF Previewed, Consented, Executed
    <2>5. QED
        BY <2>3, <2>4
<1>5. \A d \in Calls : d \in Rows' => call'[d].esi # "none"
    BY <1>2, <1>3 DEF BaseInv, Rows, Executed
<1>6. QED
    BY <1>1, <1>4, <1>5 DEF BaseInv, Executed

-----------------------------------------------------------------------------
(* What holds however many calls share a Guard                              *)

LEMMA InitBase ==
    ASSUME Init
    PROVE  BaseInv
<1>1. NewCall \in Call /\ NewCall.pc = "new" /\ NewCall.esi = "none"
    BY ConstantsAssumption DEF NewCall, Call, PCs
<1>2. TypeOK
    BY <1>1, ConstantsAssumption DEF Init, TypeOK
<1>3. ASSUME NEW c \in Calls
      PROVE  Placed(c) /\ Previewed(c) /\ c \notin Rows
    BY <1>1 DEF Init, Placed, Previewed, Consented, Executed, UnderWay, Rows,
                EarlyPCs, ReleasePCs, GuardPCs
<1>4. QED
    BY <1>2, <1>3 DEF BaseInv

LEMMA NextBase ==
    ASSUME BaseInv, [Next]_vars
    PROVE  BaseInv'
<1>1. ASSUME NEW c \in Calls, Start(c)
      PROVE  BaseInv'
    BY <1>1, BearerCheckBase DEF Start
<1>2. ASSUME NEW c \in Calls, Step(c)
      PROVE  BaseInv'
    BY <1>2, SessionForBase, CharacterBase, AuthorizeBase, GateMailCapBase, PutConfirmBase,
       ConsumeConfirmBase, DeleteConfirmBase, ESIWriteBase, RecordBase, TakeEndBase,
       EndTxBase, ClearHoldBase DEF Step
<1>3. CASE UNCHANGED vars
    <2>1. TypeOK'
        BY <1>3 DEF BaseInv, TypeOK, vars
    <2>2. \A c \in Calls : /\ Placed(c) /\ Previewed(c) /\ (c \in Rows => Executed(c))
        BY DEF BaseInv
    <2>3. ASSUME NEW c \in Calls
          PROVE  Placed(c)' /\ Previewed(c)' /\ (c \in Rows' => call'[c].esi # "none")
        BY <1>3, <2>2 DEF Placed, Previewed, Consented, Executed, UnderWay, Rows, vars
    <2>4. QED
        BY <2>1, <2>3 DEF BaseInv, Executed
<1>4. QED
    BY <1>1, <1>2, <1>3, StatementFailsBase, ConfirmTimeBase, CrashBase, SignInAgainBase
       DEF Next

(* The invariant of every write Guard, shared by calls or not.              *)
THEOREM BaseInvariant == Spec => []BaseInv
BY InitBase, NextBase, PTL DEF Spec

(* Every variable keeps its type: a call never sits at a step of the Guard  *)
(* it does not know, and every hold is one of a call's.                     *)
THEOREM TypeCorrect == Spec => []TypeOK
<1>1. BaseInv => TypeOK
    BY DEF BaseInv
<1>2. QED
    BY <1>1, BaseInvariant, PTL

(* A change the server did not ask ESI for is in no audit row, committed or *)
(* buffered in a hold's transaction, whatever calls share the Guard.        *)
THEOREM LogHasOnlyAttempts == Spec => []OnlyAttemptsRecorded
<1>1. BaseInv => OnlyAttemptsRecorded
    BY DEF BaseInv, OnlyAttemptsRecorded, Rows, TypeOK
<1>2. QED
    BY <1>1, BaseInvariant, PTL

(* The player saw a preview of the very change that goes out: the same tool *)
(* with the same arguments, whoever spends the token and however late.      *)
THEOREM NoChangeUnseen == Spec => []ConsentMatches
<1>1. BaseInv => ConsentMatches
    BY ConstantsAssumption DEF BaseInv, ConsentMatches, Previewed, Consented
<1>2. QED
    BY <1>1, BaseInvariant, PTL

-----------------------------------------------------------------------------
(* Calls that are alone on their pod                                        *)

(* Nobody else goes through the Guard of a call that is alone.              *)
LEMMA SameGuard ==
    ASSUME GuardInv, NEW c \in Calls \ shared, NEW d \in Calls,
           call[c].pc \in GuardPCs, call[d].pc \in GuardPCs, call[c].g = call[d].g
    PROVE  c = d
<1>1. UnderWay(c) /\ UnderWay(d)
    BY DEF GuardPCs, UnderWay
<1>2. call[c].pod = call[d].pod
    BY DEF GuardInv, OnPod
<1>3. QED
    BY <1>1, <1>2 DEF GuardInv, Alone

(* If a call finds the hold of one that is alone, it is its own.            *)
LEMMA HoldOfGuard ==
    ASSUME BaseInv, GuardInv, HoldInv, NEW c \in Calls \ shared, NEW d \in Calls,
           call[d].pc \in GuardPCs, hold[call[d].g] = c
    PROVE  c = d /\ InHold(c)
<1>1. call[d].g \in Calls
    BY DEF BaseInv, Placed
<1>2. call[c].g = call[d].g /\ InHold(c)
    BY <1>1 DEF HoldInv, HoldKnown
<1>3. call[c].pc \in GuardPCs
    BY <1>2 DEF InHold, GuardPCs, HoldPCs
<1>4. QED
    BY <1>2, <1>3, SameGuard

LEMMA LocksInHold ==
    ASSUME HoldInv, NEW c \in Calls \ shared, Locks(c)
    PROVE  InHold(c) /\ call[c].g \in Calls /\ hold[call[c].g] = c
BY DEF HoldInv, HoldKnown, OwnHold

(* Before the gate, and where it is over, a call has no hold.               *)
LEMMA NoHold ==
    ASSUME HoldInv, NEW c \in Calls \ shared,
           call[c].pc \in {"new", "runtime", "character", "authorize", "gate", "put", "done"}
    PROVE  ~InHold(c) /\ ~Locks(c) /\ \A g \in Calls : hold[g] # c
<1>1. ~InHold(c)
    BY DEF InHold, HoldPCs
<1>2. QED
    BY <1>1, LocksInHold DEF HoldInv, HoldKnown

(* What a step of c has to show.  It works on the Guard of its own pod, so  *)
(* the calls that are alone elsewhere keep what they have.                  *)
LEMMA FrameStep ==
    ASSUME BaseInv, GuardInv, HoldInv, RowInv, NEW c \in Calls, UnderWay(c),
           Rest(c), Keeps(c), call'[c].pc \notin {"new", "runtime"},
           UNCHANGED shared, log \subseteq log', lost \subseteq lost',
           \A p \in Pods : guard'[p] # guard[p] => p = call[c].pod /\ guard'[p] = c,
           \A g \in Calls : hold'[g] # hold[g] =>
               call[c].pc \in GuardPCs /\ g = call[c].g /\ hold'[g] \in {None, c},
           \A d \in Calls \ {c} : d \notin shared => tx'[d] = tx[d] /\ buf'[d] = buf[d],
           \A d \in Calls : buf'[d] \ shared \subseteq {d},
           \A d, e \in Calls : OneLock(d, e)',
           OnPod(c)', EndsOwn(c)',
           c \notin shared => OwnGuard(c)' /\ HoldKnown(c)' /\ OwnHold(c)' /\ OwnRow(c)'
    PROVE  GuardInv' /\ HoldInv' /\ RowInv'
<1>1. \A d \in Calls : /\ call'[d].pod = call[d].pod /\ call'[d].sid = call[d].sid
                       /\ call[d].pc # "new" => call'[d].pc # "new"
                       /\ UnderWay(d)' => UnderWay(d)
                       /\ d # c => call'[d] = call[d]
    BY DEF Rest, Keeps, UnderWay
<1>2. GuardsKnown'
    <2>1. ASSUME NEW q \in Pods, guard'[q] # None
          PROVE  (call[guard[q]].pod = q /\ call[guard[q]].pc # "new")'
        <3>1. CASE guard'[q] # guard[q]
            BY <1>1, <3>1
        <3>2. CASE guard'[q] = guard[q]
            <4>1. guard[q] \in Calls
                BY <2>1, <3>2 DEF BaseInv, TypeOK
            <4>2. call[guard[q]].pod = q /\ call[guard[q]].pc # "new"
                BY <2>1, <3>2 DEF GuardInv, GuardsKnown
            <4>3. QED
                BY <1>1, <3>2, <4>1, <4>2
        <3>3. QED
            BY <3>1, <3>2
    <2>2. QED
        BY <2>1 DEF GuardsKnown
<1>3. ASSUME NEW d \in Calls
      PROVE  OnPod(d)'
    <2>1. CASE d # c
        <3>1. OnPod(d) /\ (call[d].pc \in GuardPCs => call[d].g \in Calls)
            BY DEF GuardInv, BaseInv, Placed
        <3>2. QED
            BY <1>1, <2>1, <3>1 DEF OnPod
    <2>2. QED
        BY <2>1
<1>4. ASSUME NEW d \in Calls, NEW e \in Calls
      PROVE  Alone(d, e)'
    <2>1. Alone(d, e)
        BY DEF GuardInv
    <2>2. QED
        BY <1>1, <2>1 DEF Alone
<1>5. ASSUME NEW d \in Calls \ shared, d # c
      PROVE  OwnGuard(d)' /\ HoldKnown(d)' /\ OwnHold(d)' /\ OwnRow(d)'
    <2>1. /\ call'[d] = call[d] /\ tx'[d] = tx[d] /\ buf'[d] = buf[d]
          /\ OwnGuard(d) /\ HoldKnown(d) /\ OwnHold(d) /\ OwnRow(d) /\ Alone(d, c)
        BY <1>1, <1>5 DEF GuardInv, HoldInv, RowInv
    <2>2. OwnGuard(d)'
        <3>1. UnderWay(d) /\ call[d].pc # "runtime" =>
                  call[d].pod \in Pods /\ guard[call[d].pod] \in Calls
            BY DEF BaseInv, Placed, UnderWay
        <3>2. UnderWay(d) /\ call[d].pc # "runtime" =>
                  /\ guard'[call[d].pod] = guard[call[d].pod]
                  /\ GuardSid(guard[call[d].pod])' = GuardSid(guard[call[d].pod])
            BY <1>1, <1>5, <2>1, <3>1 DEF Alone, GuardSid
        <3>3. call[d].pc \in GuardPCs => UnderWay(d) /\ call[d].pc # "runtime"
            BY DEF GuardPCs, UnderWay
        <3>4. QED
            BY <1>1, <2>1, <3>2, <3>3 DEF OwnGuard, UnderWay
    <2>3. HoldKnown(d)'
        <3>1. ASSUME NEW g \in Calls, hold'[g] = d
              PROVE  (call[d].g = g /\ InHold(d))'
            <4>1. hold[g] = d
                BY <1>5, <3>1, ConstantsAssumption
            <4>2. QED
                BY <2>1, <4>1 DEF HoldKnown, InHold
        <3>2. QED
            BY <3>1 DEF HoldKnown
    <2>4. OwnHold(d)'
        <3>1. call[d].pc \in GuardPCs =>
                  call[d].g \in Calls /\ hold'[call[d].g] = hold[call[d].g]
            BY <1>5, SameGuard DEF BaseInv, Placed
        <3>2. Locks(d) => call[d].pc \in GuardPCs
            BY LocksInHold DEF InHold, GuardPCs, HoldPCs
        <3>3. call[d].pc \in HoldPCs \cup ReleasePCs \cup {"gate", "put"} =>
                  call[d].pc \in GuardPCs
            BY DEF GuardPCs, HoldPCs, ReleasePCs
        <3>4. QED
            BY <2>1, <3>1, <3>2, <3>3 DEF OwnHold, Locks, HoldPCs, ReleasePCs
    <2>5. OwnRow(d)'
        BY <2>1 DEF OwnRow, Locks, Executed
    <2>6. QED
        BY <2>2, <2>3, <2>4, <2>5
<1>6. \A d \in Calls : EndsOwn(d)'
    BY <1>1 DEF HoldInv, EndsOwn
<1>7. QED
    BY <1>2, <1>3, <1>4, <1>5, <1>6 DEF GuardInv, HoldInv, RowInv

(* The Guard a call has taken, or takes from its pod, is of its pod ...     *)
LEMMA OnPodStays ==
    ASSUME BaseInv, GuardInv, NEW c \in Calls, Rest(c), Keeps(c),
           UnderWay(c), call[c].pc # "runtime", call'[c].pc # "new",
           call'[c].pc \in GuardPCs =>
               \/ call'[c].g = guard[call[c].pod]
               \/ call[c].pc \in GuardPCs /\ call'[c].g = call[c].g
    PROVE  OnPod(c)'
<1>1. call[c].pod \in Pods /\ guard[call[c].pod] \in Calls
    BY DEF BaseInv, Placed, UnderWay
<1>2. call[guard[call[c].pod]].pod = call[c].pod /\ call[guard[call[c].pod]].pc # "new"
    BY <1>1, ConstantsAssumption DEF GuardInv, GuardsKnown
<1>3. \A d \in Calls : /\ call'[d].pod = call[d].pod
                       /\ call[d].pc # "new" => call'[d].pc # "new"
    BY DEF Rest, Keeps
<1>4. OnPod(c) /\ (call[c].pc \in GuardPCs => call[c].g \in Calls)
    BY DEF GuardInv, BaseInv, Placed
<1>5. QED
    BY <1>1, <1>2, <1>3, <1>4 DEF OnPod

(* ... and, if the call is alone, its pod's and of its session.             *)
LEMMA OwnGuardStays ==
    ASSUME BaseInv, GuardInv, NEW c \in Calls \ shared, Rest(c), Keeps(c), UNCHANGED guard,
           UnderWay(c), call[c].pc # "runtime",
           call'[c].pc \in GuardPCs =>
               \/ call'[c].g = guard[call[c].pod]
               \/ call[c].pc \in GuardPCs /\ call'[c].g = call[c].g
    PROVE  OwnGuard(c)'
<1>1. OwnGuard(c) /\ call[c].pod \in Pods /\ guard[call[c].pod] \in Calls
    BY DEF GuardInv, BaseInv, Placed, UnderWay
<1>2. GuardSid(guard[call[c].pod])' = GuardSid(guard[call[c].pod])
    BY <1>1 DEF Rest, Keeps, GuardSid
<1>3. QED
    BY <1>1, <1>2 DEF OwnGuard, Keeps

LEMMA GuardOfStep ==
    ASSUME GuardInv, NEW c \in Calls \ shared, call[c].pc \in GuardPCs
    PROVE  /\ call[c].g = guard[call[c].pod] /\ GuardSid(call[c].g) = call[c].sid
           /\ UnderWay(c) /\ call[c].pc # "runtime"
BY DEF GuardInv, OwnGuard, GuardPCs, UnderWay

(* A step that logs nothing logs no mail that is counted.                   *)
LEMMA MailsStay ==
    ASSUME BaseInv, NEW c \in Calls, Rest(c), UNCHANGED log, shared \subseteq shared',
           c \in log => call'[c].tool = call[c].tool /\ call'[c].esi = call[c].esi
    PROVE  OwnMails' \subseteq OwnMails
BY DEF OwnMails, Rest, BaseInv, TypeOK

(* A step that logs no mail that is counted, and lets nobody take the lock. *)
LEMMA CapStays ==
    ASSUME CapKept, IsFiniteSet(log'), \A d \in Calls : IsFiniteSet(buf'[d]),
           OwnMails' \subseteq OwnMails,
           \A d \in Calls \ shared' : Locks(d)' => d \notin shared /\ Locks(d)
    PROVE  CapKept'
<1>1. IsFiniteSet(OwnMails)
    BY FS_Subset DEF CapKept, OwnMails
<1>2. /\ IsFiniteSet(OwnMails') /\ Cardinality(OwnMails') <= Cardinality(OwnMails)
      /\ Cardinality(OwnMails) \in Nat /\ Cardinality(OwnMails') \in Nat
    BY <1>1, FS_Subset, FS_CardinalityType
<1>3. MailCap \in Nat
    BY ConstantsAssumption
<1>4. Cardinality(OwnMails') <= MailCap
    BY <1>2, <1>3 DEF CapKept
<1>5. ASSUME NEW d \in Calls \ shared', Locks(d)'
      PROVE  Cardinality(OwnMails') < MailCap
    <2>1. Cardinality(OwnMails) < MailCap
        BY <1>5 DEF CapKept
    <2>2. QED
        BY <1>2, <1>3, <2>1
<1>6. QED
    BY <1>4, <1>5 DEF CapKept

(* A step that leaves the confirm tokens alone.                             *)
LEMMA TokenStays ==
    ASSUME TokenInv, NEW c \in Calls, Rest(c), UNCHANGED confirm, shared \subseteq shared',
           (Consented(c) \/ Sent(c))' => Keeps(c),
           Consented(c)' => Consented(c), Sent(c)' => Sent(c)
    PROVE  TokenInv'
<1>1. ASSUME NEW d \in Calls
      PROVE  OwnToken(d)' /\ (Consented(d)' => Consented(d)) /\ (Sent(d)' => Sent(d))
             /\ (Consented(d)' \/ Sent(d)' => call'[d].token = call[d].token
                                              /\ call'[d].tool = call[d].tool)
    <2>1. OwnToken(d)
        BY DEF TokenInv
    <2>2. CASE d = c
        BY <2>1, <2>2 DEF OwnToken, Keeps
    <2>3. CASE d # c
        BY <2>1, <2>3 DEF OwnToken, Consented, Sent, Executed, Rest
    <2>4. QED
        BY <2>2, <2>3
<1>2. ASSUME NEW d \in Calls, NEW e \in Calls
      PROVE  TokenOnce(d, e)'
    <2>1. TokenOnce(d, e)
        BY DEF TokenInv
    <2>2. /\ (Consented(d)' => Consented(d)) /\ (Sent(e)' => Sent(e))
          /\ Consented(d)' => call'[d].token = call[d].token /\ call'[d].tool = call[d].tool
          /\ Sent(e)' => call'[e].token = call[e].token
        BY <1>1
    <2>3. {d, e} \cap shared' = {} => {d, e} \cap shared = {}
        OBVIOUS
    <2>4. QED
        BY <2>1, <2>2, <2>3 DEF TokenOnce
<1>3. QED
    BY <1>1, <1>2 DEF TokenInv

(* A call that was not sent is in no log.                                   *)
LEMMA UnsentUnlogged ==
    ASSUME BaseInv, NEW c \in Calls, call[c].esi = "none"
    PROVE  c \notin log /\ log \subseteq Calls /\ \A d \in Calls : c \notin buf[d]
BY DEF BaseInv, TypeOK, Executed, Rows

(* A step of c that leaves the Guards, the holds, their transactions and    *)
(* the log as they are.                                                     *)
LEMMA PlainStep ==
    ASSUME BaseInv, AloneInv, NEW c \in Calls, UnderWay(c), call[c].pc # "runtime",
           Rest(c), Keeps(c), call'[c].pc \notin {"new", "runtime"},
           UNCHANGED <<guard, hold, tx, buf, log, shared>>, lost \subseteq lost',
           c \in log => call'[c].esi = call[c].esi,
           call'[c].pc \in GuardPCs =>
               \/ call'[c].g = guard[call[c].pod]
               \/ call[c].pc \in GuardPCs /\ call'[c].g = call[c].g,
           call'[c].pc # "relTx" \/ EndsOwn(c)',
           c \notin shared => HoldKnown(c)' /\ OwnHold(c)' /\ OwnRow(c)',
           TokenInv'
    PROVE  AloneInv'
<1>1. GuardInv /\ HoldInv /\ RowInv /\ CapKept
    BY DEF AloneInv
<1>2. OnPod(c)' /\ (c \notin shared => OwnGuard(c)')
    BY <1>1, OnPodStays, OwnGuardStays
<1>3. EndsOwn(c)'
    BY DEF EndsOwn
<1>4. \A d, e \in Calls : OneLock(d, e)'
    BY <1>1 DEF HoldInv, OneLock, Locks
<1>5. GuardInv' /\ HoldInv' /\ RowInv'
    BY <1>1, <1>2, <1>3, <1>4, FrameStep DEF RowInv
<1>6. OwnMails' \subseteq OwnMails
    BY MailsStay DEF Keeps
<1>7. CapKept'
    BY <1>1, <1>6, CapStays DEF CapKept, Locks
<1>8. QED
    BY <1>5, <1>7 DEF AloneInv

LEMMA BearerCheckAlone ==
    ASSUME BaseInv, AloneInv, NEW c \in Calls, NEW p \in Pods, NEW tool \in Tools,
           NEW args \in Args, NEW token \in Calls \cup {None},
           BearerCheck(c, p, tool, args, token)
    PROVE  AloneInv'
<1>1. /\ call[c].pc = "new" /\ call[c].esi = "none"
      /\ Rest(c) /\ call'[c].pc = "runtime" /\ call'[c].pod = p /\ call'[c].esi = "none"
      /\ UNCHANGED <<session, guard, hold, tx, buf, confirm, log, faults, lost>>
      /\ shared \subseteq shared'
      /\ \A d \in Calls : UnderWay(d) /\ call[d].pod = p => {c, d} \subseteq shared'
    BY BearerCheckMoves
<1>2. GuardInv /\ HoldInv /\ RowInv /\ CapKept /\ TokenInv
    BY DEF AloneInv
<1>3. \A d \in Calls \ {c} : call'[d] = call[d]
    BY <1>1 DEF Rest
<1>4. c \notin log /\ \A d \in Calls : c \notin buf[d]
    BY <1>1, UnsentUnlogged
<1>5. GuardInv'
    <2>1. GuardsKnown /\ \A q \in Pods : guard[q] # c
        BY <1>1, <1>2, ConstantsAssumption DEF GuardInv, GuardsKnown
    <2>2. GuardsKnown'
        BY <1>1, <1>3, <2>1 DEF GuardsKnown, BaseInv, TypeOK
    <2>3. ASSUME NEW d \in Calls
          PROVE  OnPod(d)'
        <3>1. CASE d = c
            BY <1>1, <3>1 DEF OnPod, GuardPCs
        <3>2. CASE d # c
            <4>1. OnPod(d) /\ (call[d].pc \in GuardPCs => call[d].g \in Calls)
                BY <1>2 DEF GuardInv, BaseInv, Placed
            <4>2. QED
                BY <1>1, <1>3, <3>2, <4>1 DEF OnPod
        <3>3. QED
            BY <3>1, <3>2
    <2>4. ASSUME NEW d \in Calls, NEW e \in Calls
          PROVE  Alone(d, e)'
        <3>1. Alone(d, e)
            BY <1>2 DEF GuardInv
        <3>2. CASE d # c /\ e # c
            BY <1>1, <1>3, <3>1, <3>2 DEF Alone, UnderWay
        <3>3. CASE d = c \/ e = c
            BY <1>1, <1>3, <3>3 DEF Alone, UnderWay
        <3>4. QED
            BY <3>2, <3>3
    <2>5. ASSUME NEW d \in Calls \ shared'
          PROVE  OwnGuard(d)'
        <3>1. CASE d = c
            BY <1>1, <3>1 DEF OwnGuard, GuardPCs, UnderWay
        <3>2. CASE d # c
            <4>1. OwnGuard(d) /\ call'[d] = call[d] /\ guard' = guard
                BY <1>1, <1>2, <1>3, <3>2 DEF GuardInv
            <4>2. UnderWay(d) /\ call[d].pc # "runtime" =>
                      /\ guard[call[d].pod] \in Calls /\ guard[call[d].pod] # c
                BY <2>1 DEF BaseInv, Placed, UnderWay
            <4>3. UnderWay(d) /\ call[d].pc # "runtime" =>
                      GuardSid(guard[call[d].pod])' = GuardSid(guard[call[d].pod])
                BY <1>1, <1>3, <4>1, <4>2 DEF GuardSid
            <4>4. QED
                BY <4>1, <4>2, <4>3 DEF OwnGuard, UnderWay, GuardSid
        <3>3. QED
            BY <3>1, <3>2
    <2>6. QED
        BY <2>2, <2>3, <2>4, <2>5 DEF GuardInv
<1>6. HoldInv' /\ RowInv'
    <2>1. \A d, e \in Calls : OneLock(d, e)'
        BY <1>1, <1>2 DEF HoldInv, OneLock, Locks
    <2>2. ASSUME NEW d \in Calls
          PROVE  EndsOwn(d)' /\ (buf[d] \ shared \subseteq {d})'
        BY <1>1, <1>2, <1>3 DEF HoldInv, RowInv, EndsOwn
    <2>3. ASSUME NEW d \in Calls \ shared'
          PROVE  HoldKnown(d)' /\ OwnHold(d)' /\ OwnRow(d)'
        <3>1. d \in Calls \ shared /\ HoldKnown(d) /\ OwnHold(d) /\ OwnRow(d)
            BY <1>1, <1>2 DEF HoldInv, RowInv
        <3>2. CASE d = c
            <4>1. ~Locks(c) /\ \A g \in Calls : hold[g] # c
                BY <1>1, <1>2, <3>1, <3>2, NoHold
            <4>2. QED
                BY <1>1, <1>4, <3>2, <4>1
                   DEF HoldKnown, OwnHold, OwnRow, Locks, HoldPCs, ReleasePCs, Executed
        <3>3. CASE d # c
            BY <1>1, <1>3, <3>1, <3>3
               DEF HoldKnown, OwnHold, OwnRow, InHold, Locks, Executed
        <3>4. QED
            BY <3>2, <3>3
    <2>4. QED
        BY <2>1, <2>2, <2>3 DEF HoldInv, RowInv
<1>7. CapKept'
    <2>1. OwnMails' \subseteq OwnMails
        BY <1>1, <1>4, MailsStay
    <2>2. QED
        BY <1>1, <1>2, <2>1, CapStays DEF CapKept, Locks
<1>8. TokenInv'
    <2>1. ~Consented(c)' /\ ~Sent(c)'
        BY <1>1 DEF Consented, Sent, Executed
    <2>2. QED
        BY <1>1, <1>2, <2>1, TokenStays
<1>9. QED
    BY <1>5, <1>6, <1>7, <1>8 DEF AloneInv

(* A call that has not reached the gate, or ends before it: it has no hold  *)
(* and takes none.                                                          *)
LEMMA EarlyOwn ==
    ASSUME BaseInv, AloneInv, NEW c \in Calls \ shared,
           call[c].pc \in {"runtime", "character", "authorize", "gate", "put"},
           UNCHANGED <<hold, tx, buf, shared>>, call[c].esi = "none", call'[c].esi = "none",
           \/ call'[c].pc \in {"character", "authorize", "done"}
           \/ call'[c].pc = "rel" /\ call'[c].ret = "gate"
    PROVE  HoldKnown(c)' /\ OwnHold(c)' /\ OwnRow(c)'
<1>1. ~Locks(c) /\ \A g \in Calls : hold[g] # c
    BY NoHold DEF AloneInv
<1>2. c \notin buf[c]
    BY UnsentUnlogged
<1>3. QED
    BY <1>1, <1>2 DEF HoldKnown, OwnHold, OwnRow, Locks, HoldPCs, ReleasePCs, Executed

LEMMA SessionForAlone ==
    ASSUME BaseInv, AloneInv, NEW c \in Calls, SessionFor(c)
    PROVE  AloneInv'
<1>1. /\ Goto(c, "character") /\ call[c].pc = "runtime" /\ call[c].esi = "none" /\ TypeOK
      /\ call[c].pod \in Pods
      /\ UNCHANGED <<session, hold, tx, buf, confirm, log, faults, lost, shared>>
    BY DEF SessionFor, BaseInv, Placed, Executed, EarlyPCs
<1>2. /\ Rest(c) /\ Keeps(c) /\ call'[c].pc = "character" /\ call'[c].esi = "none"
    BY <1>1, GotoMoves DEF PCs
<1>3. GuardInv /\ HoldInv /\ RowInv /\ CapKept /\ TokenInv
    BY DEF AloneInv
<1>4. /\ \A q \in Pods : guard'[q] # guard[q] => q = call[c].pod /\ guard'[q] = c
      /\ guard'[call[c].pod] \in Calls /\ call[guard'[call[c].pod]].sid = call[c].sid
    <2>1. PICK p \in Pods : p = call[c].pod
        BY <1>1
    <2>2. /\ \A q \in Pods \ {p} : guard'[q] = guard[q]
          /\ guard'[p] = c \/ (guard'[p] = guard[p] /\ guard[p] # None
                               /\ GuardSid(guard[p]) = call[c].sid)
        BY <1>1, <2>1 DEF SessionFor, TypeOK
    <2>3. QED
        BY <1>1, <2>1, <2>2 DEF GuardSid, TypeOK
<1>5. OnPod(c)' /\ EndsOwn(c)' /\ \A d, e \in Calls : OneLock(d, e)'
    BY <1>1, <1>2, <1>3 DEF OnPod, EndsOwn, GuardPCs, HoldInv, OneLock, Locks
<1>6. ASSUME c \notin shared
      PROVE  OwnGuard(c)' /\ HoldKnown(c)' /\ OwnHold(c)' /\ OwnRow(c)'
    <2>1. OwnGuard(c)'
        <3>1. call'[guard'[call[c].pod]].sid = call[c].sid /\ call'[c].sid = call[c].sid
            BY <1>2, <1>4 DEF Rest, Keeps
        <3>2. QED
            BY <1>2, <3>1 DEF OwnGuard, GuardSid, GuardPCs, Keeps
    <2>2. QED
        BY <1>1, <1>2, <1>6, <2>1, EarlyOwn
<1>7. GuardInv' /\ HoldInv' /\ RowInv'
    BY <1>1, <1>2, <1>3, <1>4, <1>5, <1>6, FrameStep DEF UnderWay, RowInv
<1>8. CapKept'
    <2>1. OwnMails' \subseteq OwnMails
        BY <1>1, <1>2, MailsStay DEF Keeps
    <2>2. QED
        BY <1>1, <1>3, <2>1, CapStays DEF CapKept, Locks
<1>9. TokenInv'
    <2>1. ~Consented(c)' /\ ~Sent(c)'
        BY <1>2 DEF Consented, Sent, Executed
    <2>2. QED
        BY <1>1, <1>2, <1>3, <2>1, TokenStays
<1>10. QED
    BY <1>7, <1>8, <1>9 DEF AloneInv

(* A step before the gate, or one that ends the call there.                 *)
LEMMA EarlyStepAlone ==
    ASSUME BaseInv, AloneInv, NEW c \in Calls, Rest(c), Keeps(c),
           call[c].pc \in {"character", "authorize", "gate", "put"}, call'[c].esi = "none",
           UNCHANGED <<guard, hold, tx, buf, log, shared>>, lost \subseteq lost', TokenInv',
           \/ call'[c].pc \in {"authorize", "done"}
           \/ call'[c].pc = "rel" /\ call'[c].ret = "gate" /\ call'[c].g = guard[call[c].pod]
    PROVE  AloneInv'
<1>1. call[c].esi = "none" /\ c \notin log /\ UnderWay(c)
    BY UnsentUnlogged DEF BaseInv, Placed, EarlyPCs, Executed, UnderWay
<1>2. c \notin shared => HoldKnown(c)' /\ OwnHold(c)' /\ OwnRow(c)'
    BY <1>1, EarlyOwn
<1>3. QED
    BY <1>1, <1>2, PlainStep DEF GuardPCs

LEMMA UnsentToken ==
    ASSUME AloneInv, NEW c \in Calls, Rest(c), UNCHANGED <<confirm, shared>>,
           call'[c].esi = "none", call'[c].pc \notin {"delete", "esi"}
    PROVE  TokenInv'
<1>1. ~Consented(c)' /\ ~Sent(c)'
    BY DEF Consented, Sent, Executed
<1>2. QED
    BY <1>1, TokenStays DEF AloneInv

LEMMA CharacterAlone ==
    ASSUME BaseInv, AloneInv, NEW c \in Calls, Character(c)
    PROVE  AloneInv'
<1>1. /\ call[c].pc = "character" /\ call[c].esi = "none" /\ TypeOK
      /\ UNCHANGED <<session, guard, hold, tx, buf, confirm, log, faults, lost, shared>>
    BY DEF Character, BaseInv, Placed, Executed, EarlyPCs
<1>2. /\ Rest(c) /\ Keeps(c) /\ call'[c].pc \in {"authorize", "done"}
      /\ call'[c].esi = "none"
    BY <1>1, GotoMoves, OverMoves DEF Character, PCs
<1>3. QED
    BY <1>1, <1>2, UnsentToken, EarlyStepAlone

LEMMA AuthorizeAlone ==
    ASSUME BaseInv, AloneInv, NEW c \in Calls, Authorize(c)
    PROVE  AloneInv'
<1>1. /\ call[c].pc = "authorize" /\ call[c].esi = "none" /\ TypeOK
      /\ guard[call[c].pod] \in Calls
      /\ ReleaseThen(c, guard[call[c].pod], TRUE, "gate")
      /\ UNCHANGED <<session, guard, hold, tx, buf, confirm, log, faults, lost, shared>>
    BY DEF Authorize, BaseInv, Placed, Executed, EarlyPCs, UnderWay
<1>2. /\ Rest(c) /\ Keeps(c) /\ call'[c].pc = "rel" /\ call'[c].esi = "none"
      /\ call'[c].g = guard[call[c].pod] /\ call'[c].ret = "gate"
    BY <1>1, ReleaseMoves
<1>3. QED
    BY <1>1, <1>2, UnsentToken, EarlyStepAlone

LEMMA PutConfirmAlone ==
    ASSUME BaseInv, AloneInv, NEW c \in Calls, PutConfirm(c)
    PROVE  AloneInv'
<1>1. /\ call[c].pc = "put" /\ call[c].esi = "none" /\ TypeOK /\ Goto(c, "done")
      /\ UNCHANGED <<session, guard, hold, tx, buf, log, faults, lost, shared>>
    BY DEF PutConfirm, BaseInv, Placed, Executed, EarlyPCs
<1>2. Rest(c) /\ Keeps(c) /\ call'[c].pc = "done" /\ call'[c].esi = "none"
    BY <1>1, OverMoves
<1>3. TokenInv
    BY DEF AloneInv
<1>4. TokenInv'
    <2>1. ~Consented(c)' /\ ~Sent(c)'
        BY <1>2 DEF Consented, Sent, Executed
    <2>2. \A d \in Calls \ {c} : confirm'[d] = confirm[d]
        BY <1>1 DEF PutConfirm, TypeOK
    <2>3. ASSUME NEW d \in Calls
          PROVE  OwnToken(d)'
        <3>1. CASE d = c
            BY <2>1, <3>1 DEF OwnToken
        <3>2. CASE d # c
            <4>1. OwnToken(d) /\ Previewed(d) /\ call'[d] = call[d]
                BY <1>2, <1>3, <3>2 DEF TokenInv, BaseInv, Rest
            <4>2. Consented(d) \/ Sent(d) => call[d].token \in Calls \ {c}
                BY <1>1, <4>1 DEF Previewed, Consented, Sent
            <4>3. QED
                BY <1>1, <2>2, <4>1, <4>2 DEF OwnToken, Consented, Sent, Executed
        <3>3. QED
            BY <3>1, <3>2
    <2>4. ASSUME NEW d \in Calls, NEW e \in Calls
          PROVE  TokenOnce(d, e)'
        <3>1. TokenOnce(d, e)
            BY <1>3 DEF TokenInv
        <3>2. CASE d = c \/ e = c
            BY <2>1, <3>2 DEF TokenOnce
        <3>3. CASE d # c /\ e # c
            BY <1>1, <1>2, <3>1, <3>3 DEF TokenOnce, Consented, Sent, Executed, Rest
        <3>4. QED
            BY <3>2, <3>3
    <2>5. QED
        BY <2>3, <2>4 DEF TokenInv
<1>5. QED
    BY <1>1, <1>2, <1>4, EarlyStepAlone

(* The gate: a confirmed mail takes the lock where there is room, or does   *)
(* not go on.                                                               *)
LEMMA GateCases ==
    ASSUME BaseInv, CapKept, NEW c \in Calls, GateMailCap(c)
    PROVE  /\ call[c].pc = "gate" /\ call[c].esi = "none" /\ TypeOK
           /\ call[c].g \in Calls /\ Rest(c) /\ Keeps(c) /\ call'[c].esi = "none"
           /\ UNCHANGED <<session, guard, buf, confirm, log, faults, lost, shared>>
           /\ \/ /\ call[c].tool = "mail" /\ LockFree /\ MailCount < MailCap
                 /\ tx' = [tx EXCEPT ![c] = "open"] /\ hold' = [hold EXCEPT ![call[c].g] = c]
                 /\ call'[c].pc = "consume" /\ call'[c].g = call[c].g
              \/ /\ tx' \in {tx, [tx EXCEPT ![c] = "ended"]} /\ hold' = hold
                 /\ \/ call'[c].pc = "done"
                    \/ call'[c].pc = "consume" /\ call[c].tool # "mail" /\ call'[c].g = call[c].g
                    \/ call'[c].pc = "put" /\ call'[c].g = call[c].g
<1>1. /\ call[c].pc = "gate" /\ call[c].esi = "none" /\ TypeOK /\ call[c].g \in Calls
      /\ UNCHANGED <<session, guard, buf, confirm, log, faults, lost, shared>>
    BY DEF GateMailCap, BaseInv, Placed, Executed, EarlyPCs, GuardPCs
<1>2. PICK full \in BOOLEAN : full <=> MailCount >= MailCap
    <2>1. CASE MailCount >= MailCap
        BY <2>1
    <2>2. CASE ~(MailCount >= MailCap)
        BY <2>2
    <2>3. QED
        BY <2>1, <2>2
<1>3. ~full => MailCount < MailCap
    <2>1. MailCount \in Nat
        BY FS_Subset, FS_CardinalityType DEF CapKept, MailCount
    <2>2. MailCap \in Nat
        BY ConstantsAssumption
    <2>3. QED
        BY <1>2, <2>1, <2>2
<1>4. /\ call[c].tool = "mail" => LockFree
      /\ IF call[c].token # None /\ call[c].tool = "mail"
         THEN /\ tx' = [tx EXCEPT ![c] = IF full THEN "ended" ELSE "open"]
              /\ hold' = IF full THEN hold ELSE [hold EXCEPT ![call[c].g] = c]
         ELSE UNCHANGED <<tx, hold>>
      /\ Goto(c, IF call[c].tool = "mail" /\ full THEN "done"
                 ELSE IF call[c].token # None THEN "consume" ELSE "put")
    BY <1>2 DEF GateMailCap
<1>5. CASE call[c].tool = "mail" /\ full
    <2>1. Goto(c, "done")
        BY <1>4, <1>5
    <2>2. tx' \in {tx, [tx EXCEPT ![c] = "ended"]} /\ hold' = hold
        BY <1>4, <1>5
    <2>3. QED
        BY <1>1, <2>1, <2>2, OverMoves
<1>6. CASE call[c].tool = "mail" /\ ~full /\ call[c].token # None
    <2>1. Goto(c, "consume")
        BY <1>4, <1>6
    <2>2. tx' = [tx EXCEPT ![c] = "open"] /\ hold' = [hold EXCEPT ![call[c].g] = c]
        BY <1>4, <1>6
    <2>3. QED
        BY <1>1, <1>3, <1>4, <1>6, <2>1, <2>2, GotoMoves DEF PCs
<1>7. CASE call[c].tool # "mail" /\ call[c].token # None
    BY <1>1, <1>4, <1>7, GotoMoves DEF PCs
<1>8. CASE (call[c].tool = "mail" => ~full) /\ call[c].token = None
    BY <1>1, <1>4, <1>8, GotoMoves DEF PCs
<1>9. QED
    BY <1>5, <1>6, <1>7, <1>8

LEMMA GateMailCapAlone ==
    ASSUME BaseInv, AloneInv, NEW c \in Calls, GateMailCap(c)
    PROVE  AloneInv'
<1>1. GuardInv /\ HoldInv /\ RowInv /\ CapKept /\ TokenInv
    BY DEF AloneInv
<1>2. /\ call[c].pc = "gate" /\ call[c].esi = "none" /\ TypeOK
      /\ call[c].g \in Calls /\ Rest(c) /\ Keeps(c) /\ call'[c].esi = "none"
      /\ UNCHANGED <<session, guard, buf, confirm, log, faults, lost, shared>>
      /\ call'[c].pc \in {"done", "consume", "put"}
      /\ call'[c].pc # "done" => call'[c].g = call[c].g
      /\ UnderWay(c) /\ call[c].pc \in GuardPCs
    <2>1. tx \in [Calls -> {"none", "open", "ending", "ended"}]
        BY DEF BaseInv, TypeOK
    <2>2. QED
        BY <1>1, <2>1, GateCases DEF UnderWay, GuardPCs
<1>3. c \notin log /\ c \notin buf[c]
    BY <1>2, UnsentUnlogged
<1>4. TokenInv'
    BY <1>2, UnsentToken
<1>5. OnPod(c)' /\ EndsOwn(c)' /\ (c \notin shared => OwnGuard(c)')
    <2>1. /\ call[c].pc # "runtime" /\ call'[c].pc \notin {"new", "relTx"}
          /\ call'[c].pc \in GuardPCs => call'[c].g = call[c].g
        BY <1>2 DEF GuardPCs
    <2>2. OnPod(c)'
        BY <1>1, <1>2, <2>1, OnPodStays
    <2>3. c \notin shared => OwnGuard(c)'
        BY <1>1, <1>2, <2>1, OwnGuardStays
    <2>4. QED
        BY <2>1, <2>2, <2>3 DEF EndsOwn
<1>6. c \notin shared => /\ ~Locks(c) /\ \A g \in Calls : hold[g] # c
                         /\ hold[call[c].g] = None
    BY <1>1, <1>2, NoHold DEF HoldInv, OwnHold
<1>7. OwnMails' \subseteq OwnMails
    BY <1>2, <1>3, MailsStay
<1>8. CASE /\ LockFree /\ MailCount < MailCap
           /\ tx' = [tx EXCEPT ![c] = "open"] /\ hold' = [hold EXCEPT ![call[c].g] = c]
           /\ call'[c].pc = "consume" /\ call'[c].g = call[c].g
    <2>1. /\ \A d \in Calls \ {c} : tx'[d] = tx[d]
          /\ tx'[c] = "open"
          /\ \A g \in Calls \ {call[c].g} : hold'[g] = hold[g]
          /\ hold'[call[c].g] = c
          /\ \A d \in Calls : ~Locks(d)
        BY <1>2, <1>8 DEF TypeOK, LockFree, Locks
    <2>2. \A d, e \in Calls : OneLock(d, e)'
        BY <2>1 DEF OneLock, Locks
    <2>3. ASSUME c \notin shared
          PROVE  HoldKnown(c)' /\ OwnHold(c)' /\ OwnRow(c)'
        <3>1. InHold(c)'
            BY <1>8, <2>1 DEF InHold, HoldPCs
        <3>2. HoldKnown(c)'
            BY <1>6, <1>8, <2>1, <2>3, <3>1 DEF HoldKnown
        <3>3. OwnHold(c)'
            BY <1>2, <1>8, <2>1 DEF OwnHold, ReleasePCs
        <3>4. OwnRow(c)'
            BY <1>2, <1>3 DEF OwnRow, Executed
        <3>5. QED
            BY <3>2, <3>3, <3>4
    <2>4. GuardInv' /\ HoldInv' /\ RowInv'
        BY <1>1, <1>2, <1>5, <1>8, <2>1, <2>2, <2>3, FrameStep DEF RowInv
    <2>5. CapKept'
        <3> DEFINE S == {d \in log : call[d].tool = "mail" /\ call[d].esi = "ok"}
        <3>1. IsFiniteSet(S) /\ OwnMails' \subseteq S /\ Cardinality(S) < MailCap
            BY <1>1, <1>7, <1>8, FS_Subset DEF CapKept, OwnMails, MailCount
        <3>2. /\ Cardinality(OwnMails') <= Cardinality(S)
              /\ Cardinality(S) \in Nat /\ Cardinality(OwnMails') \in Nat
            BY <3>1, FS_Subset, FS_CardinalityType
        <3>3. Cardinality(OwnMails') < MailCap
            BY <3>1, <3>2, ConstantsAssumption
        <3>4. QED
            BY <1>1, <1>2, <3>2, <3>3, ConstantsAssumption DEF CapKept
    <2>6. QED
        BY <1>4, <2>4, <2>5 DEF AloneInv
<1>9. CASE /\ tx' \in {tx, [tx EXCEPT ![c] = "ended"]} /\ hold' = hold
           /\ \/ call'[c].pc = "done"
              \/ call'[c].pc = "consume" /\ call[c].tool # "mail"
              \/ call'[c].pc = "put"
    <2>1. \A d \in Calls : (Locks(d)' => Locks(d)) /\ (d # c => tx'[d] = tx[d])
        BY <1>2, <1>9 DEF Locks, TypeOK
    <2>2. \A d, e \in Calls : OneLock(d, e)'
        BY <1>1, <2>1 DEF HoldInv, OneLock
    <2>3. ASSUME c \notin shared
          PROVE  HoldKnown(c)' /\ OwnHold(c)' /\ OwnRow(c)'
        <3>1. HoldKnown(c)'
            BY <1>6, <1>9, <2>3 DEF HoldKnown
        <3>2. call'[c].tool = call[c].tool /\ ~Locks(c)'
            BY <1>2, <1>6, <2>1, <2>3 DEF Keeps
        <3>3. OwnHold(c)'
            BY <1>2, <1>6, <1>9, <2>3, <3>2 DEF OwnHold, ReleasePCs, HoldPCs
        <3>4. OwnRow(c)'
            BY <1>2, <1>3 DEF OwnRow, Executed
        <3>5. QED
            BY <3>1, <3>3, <3>4
    <2>4. GuardInv' /\ HoldInv' /\ RowInv'
        BY <1>1, <1>2, <1>5, <1>9, <2>1, <2>2, <2>3, FrameStep DEF RowInv
    <2>5. CapKept'
        BY <1>1, <1>2, <1>7, <2>1, CapStays DEF CapKept
    <2>6. QED
        BY <1>4, <2>4, <2>5 DEF AloneInv
<1>10. QED
    BY <1>1, <1>8, <1>9, GateCases

(* A step past the gate and before the end of the hold, which it leaves     *)
(* alone.                                                                   *)
LEMMA HeldStepAlone ==
    ASSUME BaseInv, AloneInv, NEW c \in Calls, Rest(c), Keeps(c),
           call[c].pc \in HoldPCs, call'[c].pc \in HoldPCs \cup {"rel"},
           UNCHANGED <<guard, hold, tx, buf, log, shared>>, lost \subseteq lost',
           \/ call'[c].g = call[c].g
           \/ call'[c].g = guard[call[c].pod],
           call'[c].pc = "rel" => call'[c].ret = "done",
           call[c].pc = "esi" \/ call'[c].esi = call[c].esi,
           call[c].pc = "record" => c \in lost', call'[c].esi # "none" =>
               call'[c].pc = "record" \/ call[c].pc = "record",
           TokenInv'
    PROVE  AloneInv'
<1>1. GuardInv /\ HoldInv /\ RowInv
    BY DEF AloneInv
<1>2. /\ call[c].pc \in GuardPCs /\ UnderWay(c) /\ call[c].pc # "runtime"
      /\ call'[c].pc \notin {"new", "runtime", "relTx"}
    BY DEF HoldPCs, GuardPCs, UnderWay
<1>3. c \in log => call'[c].esi = call[c].esi
    BY UnsentUnlogged DEF BaseInv, Placed, EarlyPCs, Executed
<1>4. ASSUME c \notin shared
      PROVE  HoldKnown(c)' /\ OwnHold(c)' /\ OwnRow(c)'
    <2>1. /\ HoldKnown(c) /\ OwnHold(c) /\ OwnRow(c) /\ call'[c].g = call[c].g
          /\ InHold(c) => InHold(c)'
        BY <1>1, <1>2, <1>4, GuardOfStep DEF HoldInv, RowInv, InHold, HoldPCs
    <2>2. HoldKnown(c)'
        BY <2>1 DEF HoldKnown
    <2>3. OwnHold(c)'
        BY <2>1 DEF OwnHold, Locks, HoldPCs, ReleasePCs, Keeps
    <2>4. c \notin buf[c]
        BY <2>1 DEF OwnRow, HoldPCs
    <2>5. OwnRow(c)'
        BY <2>4 DEF OwnRow, Executed
    <2>6. QED
        BY <2>2, <2>3, <2>5
<1>5. QED
    BY <1>2, <1>3, <1>4, PlainStep

LEMMA ConsumeConfirmAlone ==
    ASSUME BaseInv, AloneInv, NEW c \in Calls, ConsumeConfirm(c)
    PROVE  AloneInv'
<1>1. GuardInv /\ TokenInv
    BY DEF AloneInv
<1>2. /\ call[c].pc = "consume" /\ call[c].esi = "none" /\ TypeOK
      /\ UNCHANGED <<session, guard, hold, tx, buf, confirm, log, faults, lost, shared>>
      /\ Rest(c) /\ Keeps(c)
      /\ call'[c].pc \in {"delete", "discard", "rel"} /\ call'[c].esi = "none"
      /\ call'[c].g = call[c].g
      /\ call'[c].pc = "rel" => call'[c].ret = "done" /\ call'[c].err = TRUE
    BY ConsumeConfirmMoves
<1>3. call'[c].pc = "delete" => /\ confirm[call[c].token].state = "live"
                                /\ confirm[call[c].token].sid = GuardSid(call[c].g)
    BY ConsumeConfirmMoves
<1>4. c \notin shared => GuardSid(call[c].g) = call[c].sid
    BY <1>1, <1>2, GuardOfStep DEF GuardPCs
<1>5. TokenInv'
    <2>1. ASSUME NEW d \in Calls
          PROVE  OwnToken(d)' /\ (Sent(d)' => Sent(d) /\ d # c)
        <3>1. CASE d = c
            BY <1>2, <1>3, <1>4, <3>1 DEF OwnToken, Consented, Sent, Executed, Keeps
        <3>2. CASE d # c
            BY <1>1, <1>2, <3>2 DEF TokenInv, OwnToken, Consented, Sent, Executed, Rest
        <3>3. QED
            BY <3>1, <3>2
    <2>2. ASSUME NEW d \in Calls, NEW e \in Calls, Consented(d)', Sent(e)', d # e,
                 {d, e} \cap shared = {}, call'[d].tool = "mail"
          PROVE  call'[d].token # call'[e].token
        <3>1. Sent(e) /\ e # c /\ call'[e] = call[e]
            BY <1>2, <2>1, <2>2 DEF Rest
        <3>2. confirm[call[e].token].state = "gone"
            BY <1>1, <3>1 DEF TokenInv, OwnToken
        <3>3. CASE d = c
            BY <1>2, <1>3, <2>2, <3>1, <3>2, <3>3 DEF Consented, Executed, Keeps
        <3>4. CASE d # c
            <4>1. Consented(d) /\ call'[d] = call[d] /\ TokenOnce(d, e)
                BY <1>1, <1>2, <2>2, <3>4 DEF TokenInv, Rest, Consented, Executed
            <4>2. QED
                BY <2>2, <3>1, <4>1 DEF TokenOnce
        <3>5. QED
            BY <3>3, <3>4
    <2>3. QED
        BY <1>2, <2>1, <2>2 DEF TokenInv, TokenOnce
<1>6. QED
    BY <1>2, <1>5, HeldStepAlone DEF HoldPCs

LEMMA DeleteConfirmAlone ==
    ASSUME BaseInv, AloneInv, NEW c \in Calls, DeleteConfirm(c)
    PROVE  AloneInv'
<1>1. GuardInv /\ HoldInv /\ TokenInv
    BY DEF AloneInv
<1>2. /\ call[c].pc \in {"discard", "delete"} /\ call[c].esi = "none" /\ TypeOK
      /\ call[c].token \in Calls
      /\ UNCHANGED <<session, guard, hold, tx, buf, log, faults, lost, shared>>
      /\ Rest(c) /\ Keeps(c)
      /\ call'[c].pc \in {"esi", "rel"} /\ call'[c].esi = "none"
      /\ call'[c].g = call[c].g
      /\ call'[c].pc = "rel" => call'[c].ret = "done" /\ call'[c].err = TRUE
      /\ call'[c].pc = "esi" => call[c].pc = "delete"
    BY DeleteConfirmMoves
<1>3. TokenInv'
    <2>1. /\ \A t \in Calls : confirm'[t].sid = confirm[t].sid
          /\ \A t \in Calls : confirm[t].state = "gone" => confirm'[t].state = "gone"
          /\ confirm'[call[c].token].state = "gone"
        <3>1. /\ confirm \in [Calls -> [state : {"none", "live", "expired", "gone"},
                                        sid : 0 .. MaxSession]]
              /\ confirm' = [confirm EXCEPT ![call[c].token] =
                                 [confirm[call[c].token] EXCEPT !.state = "gone"]]
            BY <1>2, DeleteConfirmMoves DEF TypeOK
        <3>2. confirm[call[c].token] \in [state : {"none", "live", "expired", "gone"},
                                          sid : 0 .. MaxSession]
            BY <1>2, <3>1
        <3>3. QED
            BY <1>2, <3>1, <3>2
    <2>2. \A d \in Calls : Consented(d) \/ Sent(d) => call[d].token \in Calls
        BY DEF BaseInv, Previewed, Consented, Sent
    <2>3. ASSUME NEW d \in Calls
          PROVE  OwnToken(d)' /\ (Consented(d)' => Consented(d)) /\ (d # c /\ Sent(d)' => Sent(d))
        <3>1. OwnToken(d)
            BY <1>1 DEF TokenInv
        <3>2. CASE d = c
            BY <1>2, <2>1, <2>2, <3>1, <3>2 DEF OwnToken, Consented, Sent, Executed, Keeps
        <3>3. CASE d # c
            <4>1. call'[d] = call[d]
                BY <1>2, <3>3 DEF Rest
            <4>2. QED
                BY <1>2, <2>1, <2>2, <3>1, <4>1 DEF OwnToken, Consented, Sent, Executed
        <3>4. QED
            BY <3>2, <3>3
    <2>4. ASSUME NEW d \in Calls, NEW e \in Calls, Consented(d)', Sent(e)', d # e,
                 d \notin shared, e \notin shared, call'[d].tool = "mail"
          PROVE  call'[d].token # call'[e].token
        <3>1. Consented(d) /\ call[d].tool = "mail" /\ call'[d].token = call[d].token
            BY <1>2, <2>3, <2>4 DEF Rest, Keeps
        <3>2. CASE e # c
            <4>1. Sent(e) /\ call'[e] = call[e]
                BY <1>2, <2>3, <2>4, <3>2 DEF Rest
            <4>2. QED
                BY <1>1, <2>4, <3>1, <4>1 DEF TokenInv, TokenOnce
        <3>3. CASE e = c
            <4>1. Consented(c) /\ call'[c].token = call[c].token
                BY <1>2, <2>4, <3>3 DEF Consented, Sent, Executed, Keeps
            <4>2. SUFFICES ASSUME call[d].token = call[c].token
                           PROVE  FALSE
                BY <3>1, <3>3, <4>1
            <4>3. call[c].tool = "mail"
                BY <3>1, <4>1, <4>2 DEF BaseInv, Previewed
            <4>4. CASE Sent(d)
                BY <1>1, <2>4, <3>3, <4>1, <4>2, <4>3, <4>4 DEF TokenInv, TokenOnce
            <4>5. CASE ~Sent(d)
                <5>1. tx[d] = "open"
                    BY <1>1, <2>4, <3>1, <4>5 DEF HoldInv, OwnHold, HoldPCs, Consented, Sent
                <5>2. tx[c] = "open"
                    BY <1>1, <1>2, <2>4, <3>3, <4>3 DEF HoldInv, OwnHold, HoldPCs
                <5>3. QED
                    BY <1>1, <2>4, <3>3, <5>1, <5>2 DEF HoldInv, OneLock, Locks
            <4>6. QED
                BY <4>4, <4>5
        <3>4. QED
            BY <3>2, <3>3
    <2>5. QED
        BY <1>2, <2>3, <2>4 DEF TokenInv, TokenOnce
<1>4. QED
    BY <1>2, <1>3, HeldStepAlone DEF HoldPCs

LEMMA ESIWriteAlone ==
    ASSUME BaseInv, AloneInv, NEW c \in Calls, ESIWrite(c)
    PROVE  AloneInv'
<1>1. /\ call[c].pc = "esi" /\ call[c].esi = "none" /\ TypeOK
      /\ UNCHANGED <<session, guard, hold, tx, buf, confirm, log, faults, lost, shared>>
      /\ Rest(c) /\ Keeps(c)
      /\ call'[c].pc = "record" /\ call'[c].esi # "none" /\ call'[c].g = call[c].g
    BY ESIWriteMoves
<1>2. TokenInv'
    <2>1. Consented(c) /\ Sent(c)
        BY <1>1 DEF Consented, Sent
    <2>2. QED
        BY <1>1, <2>1, TokenStays DEF AloneInv
<1>3. QED
    BY <1>1, <1>2, HeldStepAlone DEF HoldPCs

LEMMA RecordAlone ==
    ASSUME BaseInv, AloneInv, NEW c \in Calls, Record(c)
    PROVE  AloneInv'
<1>1. GuardInv /\ HoldInv /\ RowInv /\ CapKept /\ TokenInv
    BY DEF AloneInv
<1>2. /\ call[c].pc = "record" /\ call[c].esi # "none" /\ TypeOK /\ call[c].g \in Calls
      /\ call[c].pod \in Pods /\ guard[call[c].pod] \in Calls
      /\ UNCHANGED <<session, guard, hold, tx, confirm, faults, lost, shared>>
      /\ Rest(c) /\ Keeps(c)
      /\ call'[c].pc = "rel" /\ call'[c].esi = call[c].esi
      /\ call'[c].g = guard[call[c].pod] /\ call'[c].ret = "done"
      /\ UnderWay(c) /\ call[c].pc \in GuardPCs
    BY RecordMoves DEF UnderWay, GuardPCs
<1>3. PICK h : h = hold[guard[call[c].pod]]
    OBVIOUS
<1>4. \/ /\ h \in Calls /\ log' = log /\ tx[h] = "open"
         /\ buf' = [buf EXCEPT ![h] = @ \cup {c}] /\ call'[c].err = FALSE
      \/ h \in Calls /\ log' = log /\ tx[h] # "open" /\ buf' = buf
      \/ h = None /\ log' = log \cup {c} /\ buf' = buf
    BY <1>3, RecordMoves
<1>5. ASSUME h \in Calls \ shared
      PROVE  h = c /\ InHold(h)
    <2>1. call[h].g = guard[call[c].pod] /\ InHold(h)
        BY <1>1, <1>2, <1>3, <1>5 DEF HoldInv, HoldKnown
    <2>2. call[h].pc \in GuardPCs
        BY <2>1 DEF InHold, HoldPCs, GuardPCs
    <2>3. call[h].pod = call[guard[call[c].pod]].pod
        BY <1>1, <1>5, <2>1, <2>2 DEF GuardInv, OnPod
    <2>4. call[guard[call[c].pod]].pod = call[c].pod
        BY <1>1, <1>2, ConstantsAssumption DEF GuardInv, GuardsKnown
    <2>5. QED
        BY <1>1, <1>2, <1>5, <2>1, <2>2, <2>3, <2>4 DEF GuardInv, Alone, UnderWay, GuardPCs
<1>6. ASSUME c \notin shared
      PROVE  /\ call[c].g = guard[call[c].pod] /\ h \in {None, c}
             /\ HoldKnown(c) /\ OwnHold(c) /\ OwnRow(c) /\ c \notin buf[c]
             /\ (InHold(c) => tx[c] = "open")
    <2>1. call[c].g = guard[call[c].pod]
        BY <1>1, <1>2, <1>6, GuardOfStep
    <2>2. QED
        BY <1>1, <1>2, <1>3, <1>6, <2>1
           DEF HoldInv, RowInv, OwnHold, OwnRow, HoldPCs, InHold
<1>7. OnPod(c)' /\ EndsOwn(c)' /\ (c \notin shared => OwnGuard(c)')
    <2>1. call[c].pc # "runtime" /\ call'[c].pc \notin {"new", "relTx"}
        BY <1>2
    <2>2. OnPod(c)'
        BY <1>1, <1>2, <2>1, OnPodStays
    <2>3. c \notin shared => OwnGuard(c)'
        BY <1>1, <1>2, <2>1, OwnGuardStays
    <2>4. QED
        BY <2>1, <2>2, <2>3 DEF EndsOwn
<1>8. \A d, e \in Calls : OneLock(d, e)'
    BY <1>1, <1>2 DEF HoldInv, OneLock, Locks
<1>9. ASSUME c \notin shared
      PROVE  HoldKnown(c)' /\ OwnHold(c)' /\ OwnRow(c)'
    <2>1. HoldKnown(c)'
        BY <1>2, <1>6, <1>9 DEF HoldKnown, InHold
    <2>2. OwnHold(c)'
        BY <1>2, <1>3, <1>6, <1>9 DEF OwnHold, Locks, HoldPCs
    <2>3. OwnRow(c)'
        <3>1. CASE h = c
            <4>1. InHold(c)
                BY <1>5, <1>9, <3>1
            <4>2. tx[c] = "open" /\ c \in buf'[c] /\ call'[c].err = FALSE
                BY <1>2, <1>4, <1>6, <1>9, <3>1, <4>1, ConstantsAssumption DEF TypeOK
            <4>3. QED
                BY <1>2, <4>2 DEF OwnRow, Locks
        <3>2. CASE h = None
            <4>1. c \in log' /\ buf' = buf
                BY <1>4, <3>2, ConstantsAssumption
            <4>2. QED
                BY <1>6, <1>9, <4>1 DEF OwnRow
        <3>3. QED
            BY <1>6, <1>9, <3>1, <3>2
    <2>4. QED
        BY <2>1, <2>2, <2>3
<1>10. /\ \A d \in Calls : (d # c /\ d \notin shared => buf'[d] = buf[d])
                           /\ buf'[d] \in {buf[d], buf[d] \cup {c}}
                           /\ buf'[d] \ shared \subseteq {d}
       /\ log \subseteq log'
    <2>1. \A d \in Calls : buf[d] \ shared \subseteq {d}
        BY <1>1 DEF RowInv
    <2>2. CASE h \in Calls /\ buf' = [buf EXCEPT ![h] = @ \cup {c}]
        <3>1. \A d \in Calls : buf'[d] = IF d = h THEN buf[d] \cup {c} ELSE buf[d]
            BY <1>2, <2>2 DEF TypeOK
        <3>2. c \in shared \/ h = c
            BY <1>6, <2>2, ConstantsAssumption
        <3>3. log \subseteq log'
            BY <1>4
        <3>4. QED
            BY <1>5, <2>1, <2>2, <3>1, <3>2, <3>3
    <2>3. CASE buf' = buf
        BY <1>4, <2>1, <2>3
    <2>4. QED
        BY <1>4, <2>2, <2>3
<1>11. GuardInv' /\ HoldInv' /\ RowInv'
    BY <1>1, <1>2, <1>7, <1>8, <1>9, <1>10, FrameStep
<1>12. CapKept'
    <2>1. IsFiniteSet(log') /\ \A d \in Calls : IsFiniteSet(buf'[d])
        <3>1. IsFiniteSet(log) /\ \A d \in Calls : IsFiniteSet(buf[d])
            BY <1>1 DEF CapKept
        <3>2. log' = log \/ log' = log \cup {c}
            BY <1>4
        <3>3. IsFiniteSet(log')
            BY <3>1, <3>2, FS_AddElement
        <3>4. ASSUME NEW d \in Calls
              PROVE  IsFiniteSet(buf'[d])
            <4>1. buf'[d] = buf[d] \/ buf'[d] = buf[d] \cup {c}
                BY <1>10
            <4>2. QED
                BY <3>1, <4>1, FS_AddElement
        <3>5. QED
            BY <3>3, <3>4
    <2>2. OwnMails' \subseteq OwnMails
        <3>1. CASE log' = log
            BY <1>2, <3>1, MailsStay DEF Keeps
        <3>2. CASE h = None /\ log' = log \cup {c}
            <4>1. c \in shared \/ call[c].tool # "mail"
                BY <1>2, <1>3, <1>6, <3>2, ConstantsAssumption DEF OwnHold, HoldPCs, Locks
            <4>2. QED
                BY <1>2, <3>2, <4>1 DEF OwnMails, Rest, Keeps, TypeOK
        <3>3. QED
            BY <1>4, <3>1, <3>2
    <2>3. QED
        BY <1>1, <1>2, <2>1, <2>2, CapStays DEF Locks
<1>13. TokenInv'
    <2>1. Consented(c) /\ Sent(c)
        BY <1>2 DEF Consented, Sent, Executed
    <2>2. QED
        BY <1>1, <1>2, <2>1, TokenStays
<1>14. QED
    BY <1>11, <1>12, <1>13 DEF AloneInv

(* A call that is alone and releases what others left, before the gate.     *)
LEMMA BeforeGate ==
    ASSUME BaseInv, AloneInv, NEW c \in Calls \ shared,
           call[c].pc \in ReleasePCs, call[c].ret = "gate"
    PROVE  /\ ~InHold(c) /\ ~Locks(c) /\ ~Executed(c) /\ c \notin buf[c]
           /\ \A g \in Calls : hold[g] # c
<1>1. ~InHold(c) /\ ~Executed(c)
    BY DEF InHold, HoldPCs, ReleasePCs, BaseInv, Placed
<1>2. ~Locks(c)
    BY <1>1, LocksInHold DEF AloneInv
<1>3. QED
    BY <1>1, <1>2 DEF AloneInv, HoldInv, HoldKnown, RowInv, OwnRow

LEMMA TakeEndAlone ==
    ASSUME BaseInv, AloneInv, NEW c \in Calls, TakeEnd(c)
    PROVE  AloneInv'
<1>1. GuardInv /\ HoldInv /\ RowInv /\ CapKept /\ TokenInv
    BY DEF AloneInv
<1>2. /\ call[c].pc = "rel" /\ TypeOK /\ call[c].g \in Calls
      /\ UNCHANGED <<session, guard, hold, buf, confirm, log, faults, lost, shared>>
      /\ Rest(c) /\ Keeps(c) /\ call'[c].esi = call[c].esi
      /\ UnderWay(c) /\ call[c].pc \in GuardPCs /\ call[c].pc \in ReleasePCs
      /\ call[c].ret \in {"gate", "done"} /\ call[c] \in Call
    BY TakeEndMoves DEF UnderWay, GuardPCs, ReleasePCs, TypeOK, Call
<1>3. PICK h : h = hold[call[c].g]
    OBVIOUS
<1>4. \/ /\ h = None /\ tx' = tx
         /\ call[c].ret = "gate" /\ call'[c].pc = "gate" /\ call'[c].g = call[c].g
      \/ h = None /\ tx' = tx /\ call[c].ret = "done" /\ call'[c].pc = "done"
      \/ /\ h \in Calls /\ tx[h] = "open" /\ tx' = [tx EXCEPT ![h] = "ending"]
         /\ call'[c].pc = "relTx" /\ call'[c].g = call[c].g /\ call'[c].h = h
         /\ call'[c].ret = call[c].ret /\ call'[c].err = call[c].err
      \/ h \in Calls /\ tx[h] # "open" /\ tx' = tx /\ call'[c].pc = "done"
    BY <1>3, TakeEndMoves
<1>5. h \in Calls \ shared => h = c /\ InHold(c) /\ call[c].ret = "done"
    BY <1>1, <1>2, <1>3, HoldOfGuard DEF InHold, HoldPCs
<1>6. OnPod(c)' /\ EndsOwn(c)' /\ (c \notin shared => OwnGuard(c)')
    <2>1. /\ call[c].pc # "runtime" /\ call'[c].pc # "new"
          /\ call'[c].pc \in GuardPCs => call'[c].g = call[c].g
        BY <1>2, <1>4 DEF GuardPCs
    <2>2. OnPod(c)'
        BY <1>1, <1>2, <2>1, OnPodStays
    <2>3. c \notin shared => OwnGuard(c)'
        BY <1>1, <1>2, <2>1, OwnGuardStays
    <2>4. EndsOwn(c)'
        BY <1>2, <1>4, <1>5 DEF EndsOwn
    <2>5. QED
        BY <2>2, <2>3, <2>4
<1>7. \A d \in Calls : /\ Locks(d)' <=> Locks(d)
                       /\ d # c /\ d \notin shared => tx'[d] = tx[d]
    BY <1>2, <1>4, <1>5 DEF Locks, TypeOK
<1>8. \A d, e \in Calls : OneLock(d, e)'
    BY <1>1, <1>7 DEF HoldInv, OneLock
<1>9. ASSUME c \notin shared
      PROVE  HoldKnown(c)' /\ OwnHold(c)' /\ OwnRow(c)'
    <2>1. HoldKnown(c) /\ OwnHold(c) /\ OwnRow(c)
        BY <1>1, <1>9 DEF HoldInv, RowInv
    <2>2. CASE call[c].ret = "gate"
        <3>1. /\ ~Locks(c)' /\ ~Executed(c)' /\ c \notin buf'[c]
              /\ \A g \in Calls : hold'[g] # c
            BY <1>2, <1>7, <1>9, <2>2, BeforeGate DEF Executed
        <3>2. QED
            BY <1>2, <1>3, <1>4, <2>2, <3>1
               DEF HoldKnown, OwnHold, OwnRow, HoldPCs, ReleasePCs
    <2>3. CASE call[c].ret = "done"
        <3>1. h \in {None, c}
            BY <1>2, <1>3, <2>1, <2>3 DEF OwnHold
        <3>2. CASE h = None
            <4>1. call'[c].pc = "done" /\ tx' = tx
                BY <1>4, <2>3, <3>2, ConstantsAssumption
            <4>2. ~Locks(c) /\ \A g \in Calls : hold[g] # c
                BY <1>3, <2>1, <3>2, ConstantsAssumption DEF OwnHold, HoldKnown
            <4>3. QED
                BY <1>2, <2>1, <4>1, <4>2
                   DEF HoldKnown, OwnHold, OwnRow, Locks, HoldPCs, ReleasePCs, Executed
        <3>3. CASE h = c
            <4>1. InHold(c) /\ tx[c] = "open"
                BY <1>2, <1>5, <1>9, <3>3 DEF InHold, HoldPCs
            <4>2. /\ tx'[c] = "ending" /\ call'[c].pc = "relTx" /\ call'[c].g = call[c].g
                  /\ call'[c].h = c /\ call'[c].ret = "done" /\ call'[c].err = call[c].err
                BY <1>2, <1>4, <2>3, <3>3, <4>1, ConstantsAssumption DEF TypeOK
            <4>3. QED
                BY <1>2, <1>3, <2>1, <3>3, <4>2
                   DEF HoldKnown, OwnHold, OwnRow, InHold, Locks, HoldPCs, ReleasePCs, Executed
        <3>4. QED
            BY <3>1, <3>2, <3>3
    <2>4. QED
        BY <1>2, <2>2, <2>3
<1>10. GuardInv' /\ HoldInv' /\ RowInv'
    <2>1. call'[c].pc \notin {"new", "runtime"}
        BY <1>4
    <2>2. QED
        BY <1>1, <1>2, <1>6, <1>7, <1>8, <1>9, <2>1, FrameStep DEF RowInv
<1>11. CapKept'
    <2>1. OwnMails' \subseteq OwnMails
        BY <1>2, MailsStay DEF Keeps
    <2>2. QED
        BY <1>1, <1>2, <1>7, <2>1, CapStays DEF CapKept
<1>12. TokenInv'
    <2>1. call'[c].pc \notin {"delete", "esi"}
        BY <1>4
    <2>2. QED
        BY <1>1, <1>2, <2>1, TokenStays DEF Consented, Sent, Executed
<1>13. QED
    BY <1>10, <1>11, <1>12 DEF AloneInv

LEMMA EndTxAlone ==
    ASSUME BaseInv, AloneInv, NEW c \in Calls, EndTx(c)
    PROVE  AloneInv'
<1>1. GuardInv /\ HoldInv /\ RowInv /\ CapKept /\ TokenInv
    BY DEF AloneInv
<1>2. PICK h \in Calls : h = call[c].h
    BY EndTxMoves
<1>3. /\ call[c].pc = "relTx" /\ TypeOK /\ call[c].g \in Calls
      /\ UNCHANGED <<session, guard, hold, confirm, faults, lost, shared>>
      /\ call[c].err => log' = log
      /\ ~call[c].err => log' = log \cup buf[h]
      /\ Rest(c) /\ Keeps(c)
      /\ call'[c].pc = "relClear" /\ call'[c].esi = call[c].esi
      /\ call'[c].g = call[c].g /\ call'[c].ret = call[c].ret
      /\ UnderWay(c) /\ call[c].pc \in GuardPCs /\ call[c].pc \in ReleasePCs
      /\ call[c].ret \in {"gate", "done"}
    BY <1>2, EndTxMoves DEF UnderWay, GuardPCs, ReleasePCs, TypeOK, Call
<1>4. \A d \in Calls : /\ tx'[d] = IF d = h THEN "ended" ELSE tx[d]
                       /\ buf'[d] = IF d = h THEN {} ELSE buf[d]
    <2>1. /\ tx' = [tx EXCEPT ![h] = "ended"] /\ buf' = [buf EXCEPT ![h] = {}]
          /\ DOMAIN tx = Calls /\ DOMAIN buf = Calls
        BY <1>2, <1>3, EndTxMoves DEF TypeOK
    <2>2. QED
        BY <2>1
<1>5. h \notin shared => h = c /\ call[c].ret = "done"
    BY <1>1, <1>2, <1>3 DEF HoldInv, EndsOwn
<1>6. \A d \in Calls : Locks(d)' => Locks(d) /\ d # h
    BY <1>4 DEF Locks
<1>7. ASSUME c \notin shared, call[c].ret = "done"
      PROVE  /\ h = c /\ hold[call[c].g] = c /\ InHold(c) /\ Locks(c)
             /\ HoldKnown(c) /\ OwnRow(c)
    <2>1. HoldKnown(c) /\ OwnHold(c) /\ OwnRow(c)
        BY <1>1, <1>7 DEF HoldInv, RowInv
    <2>2. h = c /\ hold[call[c].g] = c
        BY <1>2, <1>3, <1>7, <2>1 DEF OwnHold
    <2>3. InHold(c)
        BY <1>3, <2>1, <2>2 DEF HoldKnown
    <2>4. Locks(c)
        BY <1>3, <2>3 DEF InHold, HoldPCs, Locks
    <2>5. QED
        BY <2>1, <2>2, <2>3, <2>4
<1>8. OnPod(c)' /\ EndsOwn(c)' /\ (c \notin shared => OwnGuard(c)')
    <2>1. call[c].pc # "runtime" /\ call'[c].pc \notin {"new", "relTx"}
        BY <1>3
    <2>2. OnPod(c)'
        BY <1>1, <1>3, <2>1, OnPodStays
    <2>3. c \notin shared => OwnGuard(c)'
        BY <1>1, <1>3, <2>1, OwnGuardStays
    <2>4. QED
        BY <2>1, <2>2, <2>3 DEF EndsOwn
<1>9. \A d, e \in Calls : OneLock(d, e)'
    BY <1>1, <1>6 DEF HoldInv, OneLock
<1>10. ASSUME c \notin shared
       PROVE  HoldKnown(c)' /\ OwnHold(c)' /\ OwnRow(c)'
    <2>1. CASE call[c].ret = "gate"
        <3>1. /\ ~Locks(c)' /\ ~Executed(c)' /\ c \notin buf'[c]
              /\ \A g \in Calls : hold'[g] # c
            BY <1>3, <1>4, <1>6, <1>10, <2>1, BeforeGate DEF Executed
        <3>2. QED
            BY <1>3, <2>1, <3>1 DEF HoldKnown, OwnHold, OwnRow, HoldPCs, ReleasePCs
    <2>2. CASE call[c].ret = "done"
        <3>1. /\ h = c /\ hold[call[c].g] = c /\ HoldKnown(c) /\ OwnRow(c)
              /\ tx'[c] = "ended" /\ buf'[c] = {}
            BY <1>4, <1>7, <1>10, <2>2
        <3>2. HoldKnown(c)'
            BY <1>3, <2>2, <3>1 DEF HoldKnown, InHold
        <3>3. OwnHold(c)'
            BY <1>3, <2>2, <3>1 DEF OwnHold, Locks, HoldPCs, ReleasePCs
        <3>4. OwnRow(c)'
            <4>1. Executed(c)' => c \in log' \cup lost'
                BY <1>3, <3>1 DEF OwnRow, Executed
            <4>2. QED
                BY <3>1, <4>1 DEF OwnRow
        <3>5. QED
            BY <3>2, <3>3, <3>4
    <2>3. QED
        BY <1>3, <2>1, <2>2
<1>11. GuardInv' /\ HoldInv' /\ RowInv'
    <2>1. \A d \in Calls \ {c} : d \notin shared => tx'[d] = tx[d] /\ buf'[d] = buf[d]
        BY <1>4, <1>5
    <2>2. \A d \in Calls : buf'[d] \ shared \subseteq {d}
        BY <1>1, <1>4 DEF RowInv
    <2>3. log \subseteq log'
        BY <1>3
    <2>4. QED
        BY <1>1, <1>3, <1>8, <1>9, <1>10, <2>1, <2>2, <2>3, FrameStep
<1>12. CapKept'
    <2>1. IsFiniteSet(log') /\ \A d \in Calls : IsFiniteSet(buf'[d])
        <3>1. IsFiniteSet(log) /\ \A d \in Calls : IsFiniteSet(buf[d])
            BY <1>1 DEF CapKept
        <3>2. IsFiniteSet(log \cup buf[h])
            BY <3>1, FS_Union
        <3>3. IsFiniteSet({})
            BY FS_EmptySet
        <3>4. QED
            BY <1>3, <1>4, <3>1, <3>2, <3>3
    <2>2. OwnMails' \subseteq OwnMails \cup (buf[h] \ shared)
        <3>1. buf[h] \subseteq Calls /\ log \subseteq Calls
            BY <1>3 DEF TypeOK
        <3>2. \A d \in Calls : call'[d].tool = call[d].tool /\ call'[d].esi = call[d].esi
            BY <1>3 DEF Rest, Keeps
        <3>3. QED
            BY <1>3, <3>1, <3>2 DEF OwnMails
    <2>3. CASE h \in shared
        <3>1. buf[h] \ shared = {}
            BY <1>1, <2>3 DEF RowInv
        <3>2. OwnMails' \subseteq OwnMails
            BY <2>2, <3>1
        <3>3. QED
            BY <1>1, <1>3, <1>6, <2>1, <3>2, CapStays
    <2>4. CASE h \notin shared
        <3>1. h = c /\ Locks(c) /\ c \notin shared
            BY <1>5, <1>7, <2>4
        <3>2. OwnMails' \subseteq OwnMails \cup {c}
            BY <1>1, <2>2, <3>1 DEF RowInv
        <3>3. Cardinality(OwnMails) < MailCap /\ IsFiniteSet(OwnMails)
            BY <1>1, <3>1, FS_Subset DEF CapKept, OwnMails
        <3>4. /\ IsFiniteSet(OwnMails \cup {c})
              /\ Cardinality(OwnMails \cup {c}) <= Cardinality(OwnMails) + 1
              /\ Cardinality(OwnMails) \in Nat /\ Cardinality(OwnMails \cup {c}) \in Nat
            <4>1. /\ IsFiniteSet(OwnMails \cup {c})
                  /\ \/ Cardinality(OwnMails \cup {c}) = Cardinality(OwnMails)
                     \/ Cardinality(OwnMails \cup {c}) = Cardinality(OwnMails) + 1
                BY <3>3, FS_AddElement
            <4>2. Cardinality(OwnMails) \in Nat
                BY <3>3, FS_CardinalityType
            <4>3. QED
                BY <4>1, <4>2
        <3>5. /\ Cardinality(OwnMails') <= Cardinality(OwnMails \cup {c})
              /\ Cardinality(OwnMails') \in Nat
            BY <3>2, <3>4, FS_Subset, FS_CardinalityType
        <3>6. MailCap \in Nat
            BY ConstantsAssumption
        <3>7. Cardinality(OwnMails') <= MailCap
            BY <3>3, <3>4, <3>5, <3>6
        <3>8. \A d \in Calls : ~Locks(d)'
            BY <1>1, <1>6, <3>1 DEF HoldInv, OneLock
        <3>9. QED
            BY <2>1, <3>7, <3>8 DEF CapKept
    <2>5. QED
        BY <2>3, <2>4
<1>13. TokenInv'
    BY <1>1, <1>3, TokenStays DEF Consented, Sent, Executed
<1>14. QED
    BY <1>11, <1>12, <1>13 DEF AloneInv

LEMMA ClearHoldAlone ==
    ASSUME BaseInv, AloneInv, NEW c \in Calls, ClearHold(c)
    PROVE  AloneInv'
<1>1. GuardInv /\ HoldInv /\ RowInv /\ CapKept /\ TokenInv
    BY DEF AloneInv
<1>2. /\ call[c].pc = "relClear" /\ TypeOK /\ call[c].g \in Calls
      /\ UNCHANGED <<session, guard, tx, buf, confirm, log, faults, lost, shared>>
      /\ Rest(c) /\ Keeps(c) /\ call'[c].esi = call[c].esi
      /\ UnderWay(c) /\ call[c].pc \in GuardPCs /\ call[c].pc \in ReleasePCs
      /\ \/ call[c].ret = "gate" /\ call'[c].pc = "gate" /\ call'[c].g = call[c].g
         \/ call[c].ret = "done" /\ call'[c].pc = "done"
    BY ClearHoldMoves DEF UnderWay, GuardPCs, ReleasePCs
<1>3. \A g \in Calls : hold'[g] = IF g = call[c].g THEN None ELSE hold[g]
    BY <1>2, ClearHoldMoves DEF TypeOK
<1>4. OnPod(c)' /\ EndsOwn(c)' /\ (c \notin shared => OwnGuard(c)')
    <2>1. /\ call[c].pc # "runtime" /\ call'[c].pc \notin {"new", "relTx", "runtime"}
          /\ call'[c].pc \in GuardPCs => call'[c].g = call[c].g
        BY <1>2 DEF GuardPCs
    <2>2. OnPod(c)'
        BY <1>1, <1>2, <2>1, OnPodStays
    <2>3. c \notin shared => OwnGuard(c)'
        BY <1>1, <1>2, <2>1, OwnGuardStays
    <2>4. QED
        BY <2>1, <2>2, <2>3 DEF EndsOwn
<1>5. \A d, e \in Calls : OneLock(d, e)'
    BY <1>1, <1>2 DEF HoldInv, OneLock, Locks
<1>6. ASSUME c \notin shared
      PROVE  HoldKnown(c)' /\ OwnHold(c)' /\ OwnRow(c)'
    <2>1. HoldKnown(c) /\ OwnHold(c) /\ OwnRow(c)
        BY <1>1, <1>6 DEF HoldInv, RowInv
    <2>2. ~Locks(c) /\ c \notin buf[c] /\ \A g \in Calls : hold'[g] # c
        <3>1. CASE call[c].ret = "gate"
            BY <1>2, <1>3, <1>6, <3>1, BeforeGate, ConstantsAssumption
        <3>2. CASE call[c].ret = "done"
            <4>1. hold[call[c].g] = c /\ InHold(c)
                BY <1>2, <2>1, <3>2 DEF OwnHold, HoldKnown
            <4>2. tx[c] = "ended"
                BY <1>2, <4>1 DEF InHold, HoldPCs
            <4>3. QED
                BY <1>2, <1>3, <2>1, <4>2, ConstantsAssumption DEF HoldKnown, OwnRow, Locks
        <3>3. QED
            BY <1>2, <3>1, <3>2
    <2>3. HoldKnown(c)'
        BY <2>2 DEF HoldKnown
    <2>4. OwnHold(c)'
        BY <1>2, <1>3, <2>2 DEF OwnHold, Locks, HoldPCs, ReleasePCs
    <2>5. OwnRow(c)'
        BY <1>2, <2>1, <2>2 DEF OwnRow, Locks, Executed
    <2>6. QED
        BY <2>3, <2>4, <2>5
<1>7. GuardInv' /\ HoldInv' /\ RowInv'
    <2>1. /\ \A g \in Calls : hold'[g] # hold[g] => g = call[c].g /\ hold'[g] \in {None, c}
          /\ call'[c].pc \notin {"new", "runtime"}
        BY <1>2, <1>3
    <2>2. QED
        BY <1>1, <1>2, <1>4, <1>5, <1>6, <2>1, FrameStep DEF RowInv
<1>8. CapKept'
    <2>1. OwnMails' \subseteq OwnMails
        BY <1>2, MailsStay DEF Keeps
    <2>2. QED
        BY <1>1, <1>2, <2>1, CapStays DEF CapKept, Locks
<1>9. TokenInv'
    <2>1. call'[c].pc \notin {"delete", "esi"}
        BY <1>2
    <2>2. QED
        BY <1>1, <1>2, <2>1, TokenStays DEF Consented, Sent, Executed
<1>10. QED
    BY <1>7, <1>8, <1>9 DEF AloneInv

LEMMA StatementFailsAlone ==
    ASSUME BaseInv, AloneInv, NEW c \in Calls, StatementFails(c)
    PROVE  AloneInv'
<1>1. GuardInv /\ HoldInv /\ RowInv /\ CapKept /\ TokenInv
    BY DEF AloneInv
<1>2. /\ TypeOK /\ UNCHANGED <<session, guard, hold, tx, buf, confirm, log, shared>>
      /\ Rest(c) /\ Keeps(c) /\ call'[c].esi = call[c].esi
    BY StatementFailsMoves
<1>3. lost \subseteq lost'
    BY StatementFailsMoves
<1>4. CASE call[c].pc \in {"character", "gate", "put"} /\ call'[c].pc = "done"
    <2>1. call[c].esi = "none"
        BY <1>4 DEF BaseInv, Placed, EarlyPCs, Executed
    <2>2. TokenInv'
        BY <1>2, <1>4, <2>1, UnsentToken
    <2>3. QED
        BY <1>2, <1>3, <1>4, <2>1, <2>2, EarlyStepAlone
<1>5. CASE /\ call[c].pc \in {"consume", "discard", "delete"}
           /\ call'[c].pc = "rel" /\ call'[c].g = call[c].g /\ call'[c].ret = "done"
    <2>1. call'[c].esi = "none"
        BY <1>2, <1>5 DEF BaseInv, Placed, EarlyPCs, Executed
    <2>2. TokenInv'
        BY <1>2, <1>5, <2>1, UnsentToken
    <2>3. QED
        BY <1>2, <1>3, <1>5, <2>1, <2>2, HeldStepAlone DEF HoldPCs
<1>6. CASE /\ call[c].pc = "record" /\ call'[c].pc = "rel"
           /\ call'[c].g = guard[call[c].pod] /\ call'[c].ret = "done"
           /\ lost' = lost \cup {c}
    <2>1. Consented(c) /\ Sent(c)
        BY <1>6 DEF BaseInv, Placed, Consented, Sent
    <2>2. TokenInv'
        BY <1>1, <1>2, <2>1, TokenStays
    <2>3. QED
        BY <1>2, <1>3, <1>6, <2>2, HeldStepAlone DEF HoldPCs
<1>7. CASE /\ call[c].pc = "relTx" /\ call'[c].pc = "relTx"
           /\ call'[c].g = call[c].g /\ call'[c].h = call[c].h
           /\ call'[c].ret = call[c].ret /\ call'[c].err = TRUE
           /\ lost' = lost \cup buf[call[c].h]
    <2>1. UnderWay(c) /\ call[c].pc \in GuardPCs
        BY <1>7 DEF UnderWay, GuardPCs
    <2>2. TokenInv'
        BY <1>1, <1>2, <1>7, TokenStays DEF Consented, Sent, Executed
    <2>3. EndsOwn(c)'
        BY <1>1, <1>2, <1>7 DEF HoldInv, EndsOwn
    <2>4. ASSUME c \notin shared
          PROVE  HoldKnown(c)' /\ OwnHold(c)' /\ OwnRow(c)'
        <3>1. HoldKnown(c) /\ OwnHold(c) /\ OwnRow(c)
            BY <1>1, <2>4 DEF HoldInv, RowInv
        <3>2. HoldKnown(c)'
            BY <1>2, <1>7, <3>1 DEF HoldKnown, InHold, HoldPCs
        <3>3. OwnHold(c)'
            BY <1>2, <1>7, <3>1 DEF OwnHold, Locks, HoldPCs, ReleasePCs
        <3>4. c \in buf[c] => call[c].h = c
            BY <1>1, <1>7, <2>4, <3>1, LocksInHold DEF OwnRow, InHold, HoldPCs, OwnHold
        <3>5. OwnRow(c)'
            BY <1>2, <1>7, <3>1, <3>4 DEF OwnRow, Locks, Executed
        <3>6. QED
            BY <3>2, <3>3, <3>5
    <2>5. QED
        BY <1>2, <1>3, <1>7, <2>1, <2>2, <2>3, <2>4, PlainStep
<1>8. QED
    BY <1>4, <1>5, <1>6, <1>7, StatementFailsMoves

LEMMA ConfirmTimeAlone ==
    ASSUME BaseInv, AloneInv, (\E c \in Calls : TokenExpires(c)) \/ SweepConfirms
    PROVE  AloneInv'
<1>1. UNCHANGED <<session, guard, hold, tx, buf, log, call, faults, lost, shared>>
    BY DEF TokenExpires, SweepConfirms
<1>2. \A t \in Calls : /\ confirm'[t].sid = confirm[t].sid
                       /\ confirm[t].state = "gone" => confirm'[t].state = "gone"
    <2>1. \A t \in Calls : confirm[t] \in [state : {"none", "live", "expired", "gone"},
                                           sid : 0 .. MaxSession]
        BY DEF BaseInv, TypeOK
    <2>2. \A s \in {"expired", "gone"}, d \in Calls :
              /\ [confirm[d] EXCEPT !.state = s].sid = confirm[d].sid
              /\ [confirm[d] EXCEPT !.state = s].state = s
        BY <2>1
    <2>3. CASE \E c \in Calls : TokenExpires(c)
        <3>1. PICK c \in Calls :
                  /\ confirm[c].state = "live"
                  /\ confirm' = [confirm EXCEPT ![c] = [confirm[c] EXCEPT !.state = "expired"]]
            BY <2>3 DEF TokenExpires
        <3>2. confirm \in [Calls -> [state : {"none", "live", "expired", "gone"},
                                     sid : 0 .. MaxSession]]
            BY DEF BaseInv, TypeOK
        <3>3. QED
            BY <2>2, <3>1, <3>2
    <2>4. CASE SweepConfirms
        BY <2>2, <2>4 DEF SweepConfirms
    <2>5. QED
        BY <2>3, <2>4
<1>3. GuardInv'
    BY <1>1 DEF AloneInv, GuardInv, GuardsKnown, OnPod, OwnGuard, Alone, UnderWay, GuardSid
<1>4. HoldInv'
    BY <1>1 DEF AloneInv, HoldInv, EndsOwn, HoldKnown, OwnHold, OneLock, Locks, InHold
<1>5. RowInv' /\ CapKept'
    BY <1>1 DEF AloneInv, RowInv, OwnRow, Locks, Executed, CapKept, OwnMails
<1>6. TokenInv'
    <2>1. \A d \in Calls : Consented(d) \/ Sent(d) => call[d].token \in Calls
        BY DEF BaseInv, Previewed, Consented, Sent
    <2>2. ASSUME NEW d \in Calls
          PROVE  OwnToken(d)'
        <3>1. OwnToken(d)
            BY DEF AloneInv, TokenInv
        <3>2. QED
            BY <1>1, <1>2, <2>1, <3>1 DEF OwnToken, Consented, Sent, Executed
    <2>3. \A d, e \in Calls : TokenOnce(d, e)'
        BY <1>1 DEF AloneInv, TokenInv, TokenOnce, Consented, Sent, Executed
    <2>4. QED
        BY <2>2, <2>3 DEF TokenInv
<1>7. QED
    BY <1>3, <1>4, <1>5, <1>6 DEF AloneInv

LEMMA IdleAlone ==
    ASSUME AloneInv, UNCHANGED <<guard, hold, tx, buf, confirm, log, call, lost, shared>>
    PROVE  AloneInv'
<1>1. GuardInv'
    BY DEF AloneInv, GuardInv, GuardsKnown, OnPod, OwnGuard, Alone, UnderWay, GuardSid
<1>2. HoldInv'
    BY DEF AloneInv, HoldInv, EndsOwn, HoldKnown, OwnHold, OneLock, Locks, InHold
<1>3. RowInv' /\ CapKept'
    BY DEF AloneInv, RowInv, OwnRow, Locks, Executed, CapKept, OwnMails
<1>4. TokenInv'
    BY DEF AloneInv, TokenInv, OwnToken, TokenOnce, Consented, Sent, Executed
<1>5. QED
    BY <1>1, <1>2, <1>3, <1>4 DEF AloneInv


LEMMA CrashAlone ==
    ASSUME BaseInv, AloneInv, NEW p \in Pods, Crash(p)
    PROVE  AloneInv'
<1>1. GuardInv /\ HoldInv /\ RowInv /\ CapKept /\ TokenInv
    BY DEF AloneInv
<1>2. /\ UNCHANGED <<session, confirm, log, shared>> /\ lost \subseteq lost'
      /\ \A q \in Pods : guard'[q] = IF q = p THEN None ELSE guard[q]
    BY CrashMoves
<1>3. \A c \in Calls :
          /\ call'[c].pod = call[c].pod /\ call'[c].sid = call[c].sid
          /\ call'[c].tool = call[c].tool /\ call'[c].args = call[c].args
          /\ call'[c].token = call[c].token /\ call'[c].esi = call[c].esi
          /\ call[c].pod # p \/ call[c].pc \in {"new", "done"} => call'[c] = call[c]
          /\ call[c].pod = p /\ UnderWay(c) => call'[c].pc = "done"
    BY CrashMoves
<1>4. \A c \in Calls :
          /\ call[c].pod # p => hold'[c] = hold[c] /\ tx'[c] = tx[c] /\ buf'[c] = buf[c]
          /\ call[c].pod = p => /\ hold'[c] = None /\ tx'[c] \in {"none", "ended"}
                                /\ buf'[c] = {} /\ buf[c] \subseteq lost'
          /\ call[c].pod = p /\ UnderWay(c) /\ Executed(c) => c \in log \cup lost'
    BY CrashMoves
<1>5. \A c \in Calls : /\ (Locks(c)' => Locks(c) /\ call[c].pod # p)
                       /\ call'[c] = call[c] \/ call'[c].pc = "done"
                       /\ (UnderWay(c)' => call[c].pod # p /\ call'[c] = call[c])
    BY <1>3, <1>4 DEF Locks, UnderWay
<1>6. GuardInv'
    <2>1. ASSUME NEW q \in Pods, guard'[q] # None
          PROVE  (call[guard[q]].pod = q /\ call[guard[q]].pc # "new")'
        <3>1. q # p /\ guard'[q] = guard[q] /\ guard[q] \in Calls
            BY <1>2, <2>1 DEF BaseInv, TypeOK
        <3>2. call[guard[q]].pod = q /\ call[guard[q]].pc # "new"
            BY <1>1, <2>1, <3>1 DEF GuardInv, GuardsKnown
        <3>3. QED
            BY <1>3, <3>1, <3>2
    <2>2. ASSUME NEW d \in Calls
          PROVE  OnPod(d)'
        <3>1. OnPod(d) /\ (call[d].pc \in GuardPCs => call[d].g \in Calls)
            BY <1>1 DEF GuardInv, BaseInv, Placed
        <3>2. CASE call'[d].pc \in GuardPCs
            <4>1. call[d].pod # p /\ call'[d] = call[d]
                BY <1>5, <3>2 DEF UnderWay, GuardPCs
            <4>2. QED
                BY <1>3, <3>1, <4>1 DEF OnPod
        <3>3. QED
            BY <3>2 DEF OnPod
    <2>3. ASSUME NEW d \in Calls \ shared
          PROVE  OwnGuard(d)'
        <3>1. OwnGuard(d)
            BY <1>1 DEF GuardInv
        <3>2. CASE UnderWay(d)'
            <4>1. call[d].pod # p /\ call'[d] = call[d] /\ UnderWay(d)
                BY <1>5, <3>2 DEF UnderWay
            <4>2. call[d].pc # "runtime" =>
                      call[d].pod \in Pods /\ guard[call[d].pod] \in Calls
                BY <4>1 DEF BaseInv, Placed, UnderWay
            <4>3. call[d].pc # "runtime" => guard'[call[d].pod] = guard[call[d].pod]
                BY <1>2, <4>1, <4>2
            <4>4. call[d].pc \in GuardPCs => call[d].pc # "runtime"
                BY DEF GuardPCs
            <4>5. QED
                BY <1>3, <3>1, <4>1, <4>2, <4>3, <4>4 DEF OwnGuard, GuardSid, UnderWay
        <3>3. CASE ~UnderWay(d)'
            BY <3>3 DEF OwnGuard, UnderWay, GuardPCs
        <3>4. QED
            BY <3>2, <3>3
    <2>4. ASSUME NEW d \in Calls, NEW e \in Calls
          PROVE  Alone(d, e)'
        <3>1. Alone(d, e)
            BY <1>1 DEF GuardInv
        <3>2. QED
            BY <1>2, <1>5, <3>1 DEF Alone, UnderWay
    <2>5. QED
        BY <1>2, <2>1, <2>2, <2>3, <2>4 DEF GuardInv, GuardsKnown
<1>7. ASSUME NEW c \in Calls, call[c].pc \in GuardPCs
      PROVE  call[c].g \in Calls /\ call[call[c].g].pod = call[c].pod
    BY <1>1, <1>7 DEF GuardInv, OnPod, BaseInv, Placed
<1>8. HoldInv'
    <2>1. ASSUME NEW d \in Calls \ shared
          PROVE  HoldKnown(d)'
        <3>1. ASSUME NEW g \in Calls, hold'[g] = d
              PROVE  (call[d].g = g /\ InHold(d))'
            <4>1. call[g].pod # p /\ hold[g] = d
                BY <1>4, <3>1, ConstantsAssumption
            <4>2. call[d].g = g /\ InHold(d)
                BY <1>1, <4>1 DEF HoldInv, HoldKnown
            <4>3. call[d].pod # p
                BY <1>7, <4>1, <4>2 DEF InHold, HoldPCs, GuardPCs
            <4>4. call'[d] = call[d] /\ tx'[d] = tx[d]
                BY <1>3, <1>4, <4>3
            <4>5. QED
                BY <4>2, <4>4 DEF InHold
        <3>2. QED
            BY <3>1 DEF HoldKnown
    <2>2. ASSUME NEW d \in Calls \ shared
          PROVE  OwnHold(d)'
        <3>1. OwnHold(d)
            BY <1>1 DEF HoldInv
        <3>2. CASE Locks(d)' \/ UnderWay(d)'
            <4>1. call[d].pod # p /\ tx'[d] = tx[d] /\ call'[d] = call[d]
                BY <1>3, <1>4, <1>5, <3>2
            <4>2. Locks(d) => call[d].pc \in GuardPCs
                BY <1>1, LocksInHold DEF InHold, HoldPCs, GuardPCs
            <4>3. call[d].pc \in GuardPCs =>
                      call[d].g \in Calls /\ hold'[call[d].g] = hold[call[d].g]
                BY <1>4, <1>7, <4>1
            <4>4. call[d].pc \in HoldPCs \cup ReleasePCs \cup {"gate", "put"} =>
                      call[d].pc \in GuardPCs
                BY DEF GuardPCs, HoldPCs, ReleasePCs
            <4>5. QED
                BY <3>1, <4>1, <4>2, <4>3, <4>4 DEF OwnHold, Locks, HoldPCs, ReleasePCs
        <3>3. CASE ~Locks(d)' /\ ~UnderWay(d)'
            BY <3>3 DEF OwnHold, UnderWay, HoldPCs, ReleasePCs
        <3>4. QED
            BY <3>2, <3>3
    <2>3. ASSUME NEW d \in Calls
          PROVE  EndsOwn(d)'
        <3>1. EndsOwn(d)
            BY <1>1 DEF HoldInv
        <3>2. call'[d].pc = "relTx" => call'[d] = call[d]
            BY <1>5 DEF UnderWay
        <3>3. QED
            BY <1>2, <3>1, <3>2 DEF EndsOwn
    <2>4. ASSUME NEW d \in Calls, NEW e \in Calls
          PROVE  OneLock(d, e)'
        BY <1>1, <1>5 DEF HoldInv, OneLock
    <2>5. QED
        BY <1>2, <2>1, <2>2, <2>3, <2>4 DEF HoldInv
<1>9. RowInv'
    <2>1. ASSUME NEW d \in Calls \ shared
          PROVE  OwnRow(d)'
        <3>1. OwnRow(d)
            BY <1>1 DEF RowInv
        <3>2. CASE call[d].pod # p
            BY <1>2, <1>3, <1>4, <3>1, <3>2 DEF OwnRow, Locks, Executed
        <3>3. CASE call[d].pod = p
            <4>1. buf'[d] = {} /\ call'[d].esi = call[d].esi /\ buf[d] \subseteq lost'
                BY <1>3, <1>4, <3>3
            <4>2. CASE UnderWay(d)
                BY <1>2, <1>4, <3>3, <4>1, <4>2 DEF OwnRow, Executed
            <4>3. CASE ~UnderWay(d)
                <5>1. call[d].pc # "record"
                    BY <4>3 DEF UnderWay
                <5>2. QED
                    BY <1>2, <3>1, <4>1, <5>1 DEF OwnRow, Executed
            <4>4. QED
                BY <4>2, <4>3
        <3>4. QED
            BY <3>2, <3>3
    <2>2. \A d \in Calls : buf'[d] \ shared \subseteq {d}
        BY <1>1, <1>4 DEF RowInv
    <2>3. QED
        BY <1>2, <2>1, <2>2 DEF RowInv
<1>10. CapKept'
    <2>1. OwnMails' \subseteq OwnMails
        BY <1>2, <1>3 DEF OwnMails, BaseInv, TypeOK
    <2>2. IsFiniteSet(log') /\ \A d \in Calls : IsFiniteSet(buf'[d])
        BY <1>1, <1>2, <1>4, FS_EmptySet DEF CapKept
    <2>3. \A d \in Calls \ shared' : Locks(d)' => d \notin shared /\ Locks(d)
        BY <1>2, <1>5
    <2>4. QED
        BY <1>1, <2>1, <2>2, <2>3, CapStays
<1>11. TokenInv'
    <2>1. \A d \in Calls : /\ (Consented(d)' => Consented(d)) /\ (Sent(d)' => Sent(d))
        BY <1>3, <1>5 DEF Consented, Sent, Executed
    <2>2. \A d \in Calls : OwnToken(d)'
        BY <1>1, <1>2, <1>3, <2>1 DEF TokenInv, OwnToken
    <2>3. \A d, e \in Calls : TokenOnce(d, e)'
        BY <1>1, <1>2, <1>3, <2>1 DEF TokenInv, TokenOnce
    <2>4. QED
        BY <2>2, <2>3 DEF TokenInv
<1>12. QED
    BY <1>6, <1>8, <1>9, <1>10, <1>11 DEF AloneInv

LEMMA InitAlone ==
    ASSUME Init
    PROVE  AloneInv
<1>1. NewCall.pc = "new" /\ NewCall.esi = "none"
    BY DEF NewCall
<1>2. /\ \A c \in Calls : call[c].pc = "new" /\ call[c].esi = "none" /\ hold[c] = None
                          /\ tx[c] = "none" /\ buf[c] = {}
      /\ \A p \in Pods : guard[p] = None
      /\ log = {}
    BY <1>1 DEF Init
<1>3. GuardInv
    BY <1>2 DEF GuardInv, GuardsKnown, OnPod, OwnGuard, Alone, UnderWay, GuardPCs
<1>4. HoldInv
    <2>1. \A c \in Calls : EndsOwn(c) /\ \A d \in Calls : OneLock(c, d)
        BY <1>2 DEF EndsOwn, OneLock, Locks
    <2>2. \A c \in Calls : HoldKnown(c) /\ OwnHold(c)
        BY <1>2, ConstantsAssumption DEF HoldKnown, OwnHold, Locks, HoldPCs, ReleasePCs
    <2>3. QED
        BY <2>1, <2>2 DEF HoldInv
<1>5. RowInv
    BY <1>2 DEF RowInv, OwnRow, Executed
<1>6. CapKept
    <2>1. OwnMails = {}
        BY <1>2 DEF OwnMails
    <2>2. Cardinality(OwnMails) = 0 /\ IsFiniteSet(log) /\ \A c \in Calls : IsFiniteSet(buf[c])
        BY <1>2, <2>1, FS_EmptySet
    <2>3. \A c \in Calls : ~Locks(c)
        BY <1>2 DEF Locks
    <2>4. MailCap \in Nat
        BY ConstantsAssumption
    <2>5. QED
        BY <2>2, <2>3, <2>4 DEF CapKept
<1>7. TokenInv
    BY <1>2 DEF TokenInv, OwnToken, TokenOnce, Consented, Sent, Executed
<1>8. QED
    BY <1>3, <1>4, <1>5, <1>6, <1>7 DEF AloneInv

LEMMA NextAlone ==
    ASSUME BaseInv, AloneInv, [Next]_vars
    PROVE  AloneInv'
<1>1. ASSUME NEW c \in Calls, Start(c)
      PROVE  AloneInv'
    BY <1>1, BearerCheckAlone DEF Start
<1>2. ASSUME NEW c \in Calls, Step(c)
      PROVE  AloneInv'
    BY <1>2, SessionForAlone, CharacterAlone, AuthorizeAlone, GateMailCapAlone,
       PutConfirmAlone, ConsumeConfirmAlone, DeleteConfirmAlone, ESIWriteAlone, RecordAlone,
       TakeEndAlone, EndTxAlone, ClearHoldAlone DEF Step
<1>3. CASE SignInAgain \/ UNCHANGED vars
    BY <1>3, IdleAlone DEF SignInAgain, vars
<1>4. QED
    BY <1>1, <1>2, <1>3, StatementFailsAlone, ConfirmTimeAlone, CrashAlone DEF Next

(* The invariant of the Guards: what a call that had its Guard to itself    *)
(* finds in it and leaves in it, whatever calls that shared a Guard did on  *)
(* the same pods and in the same database.                                  *)
THEOREM AloneInvariant == Spec => [](BaseInv /\ AloneInv)
<1>1. Init => BaseInv /\ AloneInv
    BY InitBase, InitAlone
<1>2. BaseInv /\ AloneInv /\ [Next]_vars => BaseInv' /\ AloneInv'
    BY NextBase, NextAlone
<1>3. QED
    BY <1>1, <1>2, PTL DEF Spec

(* Every change the server asked ESI for, refused, confirmed or unanswered, *)
(* has its audit row once the call is over, unless a fault lost the row or  *)
(* the call shared its Guard.                                               *)
THEOREM LogHasEveryAttempt == Spec => []EveryAttemptRecorded
<1>1. BaseInv /\ AloneInv => EveryAttemptRecorded
    <2> SUFFICES ASSUME AloneInv, NEW c \in Calls, c \notin shared,
                        call[c].pc = "done", Executed(c)
                 PROVE  c \in log \cup lost
        BY DEF EveryAttemptRecorded
    <2> QED
        BY DEF AloneInv, RowInv, OwnRow
<1>2. QED
    BY <1>1, AloneInvariant, PTL

(* Consent dies with the session: what a call executes that had its Guard   *)
(* to itself was previewed in the session that executes it, also where      *)
(* another session's calls used the Guard before.                           *)
THEOREM ConsentOfTheSession == Spec => []ConsentDiesWithSession
<1>1. BaseInv /\ AloneInv => ConsentDiesWithSession
    BY DEF AloneInv, TokenInv, OwnToken, Consented, ConsentDiesWithSession
<1>2. QED
    BY <1>1, AloneInvariant, PTL

(* The mail-cap lock taken for a call that had its Guard to itself does not *)
(* outlive the call: Release, the next Authorize or the end of the pod ends *)
(* its transaction.                                                         *)
THEOREM HoldEndsWithCall == Spec => []NoStrandedHold
<1>1. BaseInv /\ AloneInv => NoStrandedHold
    <2>1. SUFFICES ASSUME AloneInv, NEW c \in Calls \ shared, tx[c] \in {"open", "ending"}
                   PROVE  UnderWay(c)
        BY DEF NoStrandedHold
    <2>2. InHold(c)
        BY <2>1, LocksInHold DEF AloneInv, Locks
    <2>3. QED
        BY <2>2 DEF InHold, HoldPCs, UnderWay
<1>2. QED
    BY <1>1, AloneInvariant, PTL

(* Two calls that had their Guards to themselves never send a mail on the   *)
(* same confirm token, although GetConfirm and DeleteConfirm are two        *)
(* statements: the hold keeps them apart.                                   *)
THEOREM MailTokenOnce == Spec => []MailConfirmedOnce
<1>1. BaseInv /\ AloneInv => MailConfirmedOnce
    BY DEF AloneInv, TokenInv, TokenOnce, Consented, Sent, MailConfirmedOnce
<1>2. QED
    BY <1>1, AloneInvariant, PTL

(* The cap is exact for the mails ESI confirmed to calls that had their     *)
(* Guard to themselves: each is counted in the log, or is the one the       *)
(* holder of the lock has yet to record, for which there was room.          *)
THEOREM MailCapHolds == Spec => []MailCapExact
<1> DEFINE Kept == Mailed \ (lost \cup shared)
<1>1. ASSUME BaseInv, AloneInv
      PROVE  MailCapExact
    <2>1. RowInv /\ HoldInv /\ CapKept
        BY <1>1 DEF AloneInv
    <2>2. IsFiniteSet(OwnMails) /\ Cardinality(OwnMails) \in Nat /\ MailCap \in Nat
        BY <2>1, FS_Subset, FS_CardinalityType, ConstantsAssumption DEF CapKept, OwnMails
    <2>3. ASSUME NEW c \in Kept, c \notin OwnMails
          PROVE  c \in Calls \ shared /\ Locks(c)
        <3>1. /\ c \in Calls \ shared /\ c \notin log \cup lost
              /\ Executed(c) /\ call[c].tool = "mail"
            BY <2>3 DEF Mailed, Executed, OwnMails
        <3>2. CASE call[c].pc = "record"
            BY <2>1, <3>1, <3>2 DEF HoldInv, OwnHold, HoldPCs, Locks
        <3>3. CASE call[c].pc # "record"
            BY <2>1, <3>1, <3>3 DEF RowInv, OwnRow
        <3>4. QED
            BY <3>1, <3>2, <3>3
    <2>4. CASE \A c \in Kept : c \in OwnMails
        <3>1. Cardinality(Kept) <= Cardinality(OwnMails)
            BY <2>2, <2>4, FS_Subset
        <3>2. IsFiniteSet(Kept) /\ Cardinality(Kept) \in Nat
            BY <2>2, <2>4, FS_Subset, FS_CardinalityType
        <3>3. QED
            BY <2>1, <2>2, <3>1, <3>2 DEF CapKept, MailCapExact
    <2>5. CASE \E c \in Kept : c \notin OwnMails
        <3>1. PICK l \in Kept : l \notin OwnMails
            BY <2>5
        <3>2. l \in Calls \ shared /\ Locks(l)
            BY <2>3, <3>1
        <3>3. Kept \subseteq OwnMails \cup {l}
            BY <2>1, <2>3, <3>2 DEF HoldInv, OneLock
        <3>4. Cardinality(OwnMails) < MailCap
            BY <2>1, <3>2 DEF CapKept
        <3>5. /\ IsFiniteSet(OwnMails \cup {l})
              /\ Cardinality(OwnMails \cup {l}) = Cardinality(OwnMails) + 1
            BY <2>2, <3>1, FS_AddElement
        <3>6. /\ Cardinality(Kept) <= Cardinality(OwnMails \cup {l})
              /\ IsFiniteSet(Kept) /\ Cardinality(Kept) \in Nat
            BY <3>3, <3>5, FS_Subset, FS_CardinalityType
        <3>7. QED
            BY <2>2, <3>4, <3>5, <3>6 DEF MailCapExact
    <2>6. QED
        BY <2>4, <2>5
<1>2. QED
    BY <1>1, AloneInvariant, PTL

=============================================================================
