-------------------------- MODULE SignInGrantProofs --------------------------
(***************************************************************************)
(* More theorems about SignIn: where the EVE grants are.  On top of the    *)
(* invariant of SignInProofs, every step keeps                             *)
(*   - the version of a stream: the one a code, a session row or a job on  *)
(*     its way to either has, is CCP's, but for a rotation between CCP and *)
(*     the row, or a fault;                                                *)
(*   - the whereabouts of a live stream: in a code, in an open session, or *)
(*     with a process that will put it there or revoke it.                 *)
(***************************************************************************)
EXTENDS SignInProofs

-----------------------------------------------------------------------------
(* The invariant                                                            *)

(* A grant between CCP and its code.                                        *)
GrantPCs == CallbackPCs \ {"cbExchange"}

(* The stream of a session a job works on.                                  *)
StreamOf(j) == sess[j.sid].login

(* A token on its way to CCP is of no use to anybody any more, and the one  *)
(* CCP knows, unless a fault parted the two.                                *)
Spent(t) ==
    /\ code[t[1]] = "gone"
    /\ \A s \in Sids : Open(s) => sess[s].login # t[1]
    /\ ccp[t[1]].ver = t[2] \/ t[1] \in lost

(* What a job knows of the stream it has to do with.                        *)
FitsGrant(j) ==
    /\ j.pc \in GrantPCs => ccp[j.login].ver = 1
    /\ j.pc = "drift" => ScopesFallShort(StreamOf(j))
    /\ j.pc = "rfCall" => j.ver = sess[j.sid].ver
    /\ j.pc = "rfWrite" => j.ver = ccp[StreamOf(j)].ver
    /\ j.pc = "rfRevoke" => ~ccp[StreamOf(j)].live \/ StreamOf(j) \in lost
    /\ j.toks # {} => j.pc \in CCPRevokePCs
    /\ \A t \in j.toks : Spent(t)

GrantFits(P) == \A p \in P : FitsGrant(req[p])

(* A stream begins after its handshake, and a code has its first version.   *)
Streams ==
    /\ \A l \in Logins : ccp[l].live => login[l] = "gone"
    /\ \A l \in Logins : code[l] \in {"parked", "expired"} => ccp[l].ver = 1

(* The streams somebody answers for.                                        *)
Kept == {l \in Logins : Accounted(l) \/ l \in lost \/ ScopesFallShort(l)}

GrantInv ==
    /\ GrantFits(Procs)
    /\ Streams
    /\ RotationSafe
    /\ \A l \in Logins : ccp[l].live => l \in Kept

-----------------------------------------------------------------------------
(* What a step leaves alone                                                 *)

(* The streams a job has a version of.                                      *)
Refers(j, l) ==
    \/ j.pc \in GrantPCs /\ l = j.login
    \/ j.pc = "rfWrite" /\ l = StreamOf(j)
    \/ \E t \in j.toks : l = t[1]

(* The stream of a session has a code that is gone, and a handshake.        *)
LEMMA SessionStream ==
    ASSUME IInv, NEW s \in Sids, Existed(s)
    PROVE  /\ sess[s].login \in Logins /\ code[sess[s].login] = "gone"
           /\ login[sess[s].login] = "gone"
           /\ \A t \in Sids : Existed(t) /\ sess[t].login = sess[s].login => t = s
BY DEF IInv, RowInv

(* A job with a session has one that exists.                                *)
LEMMA JobStream ==
    ASSUME IInv, NEW p \in Procs, req[p].pc \in OwnPCs
    PROVE  /\ req[p].sid \in Sids /\ Existed(req[p].sid) /\ StreamOf(req[p]) \in Logins
           /\ code[StreamOf(req[p])] = "gone" /\ login[StreamOf(req[p])] = "gone"
<1>1. req[p].sid \in Sids /\ Existed(req[p].sid)
    BY DEF IInv, JobInv, Fits
<1>2. QED
    BY <1>1, SessionStream DEF StreamOf

(* Tokens are of streams.                                                   *)
LEMMA TokenTypes ==
    ASSUME IInv, NEW p \in Procs, NEW t \in req[p].toks
    PROVE  t[1] \in Logins /\ t[2] \in Vers
<1>1. req[p].toks \in SUBSET (Logins \X Vers)
    BY DEF IInv, TypeOK, Job
<1>2. QED
    BY <1>1

(* A gone code does not come back and a session keeps its stream; what      *)
(* opens comes from a code.                                                 *)
RowsForward ==
    /\ \A l \in Logins : code[l] = "gone" => code'[l] = "gone"
    /\ \A s \in Sids : sess[s].state # "none" => sess'[s].login = sess[s].login
    /\ \A s \in Sids : sess'[s].state = "open" =>
           sess[s].state = "open" \/ code[sess'[s].login] # "gone"

(* A build keeps wanting what it wants, a stream that is over stays over,   *)
(* a loss stays on record.                                                  *)
WorldForward ==
    /\ \A l \in Logins : login[l] = "gone" /\ grant[l].scopes < build
                             => grant'[l].scopes < build'
    /\ \A l \in Logins : code[l] # "none" /\ ccp'[l].live => ccp[l].live
    /\ lost \subseteq lost'

(* The jobs a step does not touch fit on, if rows and world move forward    *)
(* and the streams those jobs have a version of stay where they are.        *)
LEMMA OthersFit ==
    ASSUME IInv, GrantInv, RowsForward, WorldForward,
           NEW P \in SUBSET Procs, \A q \in P : req'[q] = req[q],
           \A q \in P : req[q].pc = "rfCall" =>
               sess'[req[q].sid].ver = sess[req[q].sid].ver,
           \A q \in P, l \in Logins : Refers(req[q], l) => ccp'[l].ver = ccp[l].ver
    PROVE  GrantFits(P)'
<1>1. SUFFICES ASSUME NEW q \in P
               PROVE  FitsGrant(req[q])'
    BY DEF GrantFits
<1>2. q \in Procs /\ req'[q] = req[q] /\ FitsGrant(req[q]) /\ Fits(req[q])
    BY DEF GrantInv, GrantFits, IInv, JobInv
<1>3. req[q].pc \in GrantPCs => ccp'[req[q].login].ver = 1
    BY <1>2 DEF Refers, FitsGrant, Fits, GrantPCs
<1>4. req[q].pc \in OwnPCs => sess'[req[q].sid].login = sess[req[q].sid].login
    BY <1>2, JobStream DEF RowsForward, Existed
<1>5. req[q].pc = "drift" => ScopesFallShort(StreamOf(req[q]))'
    <2>1. SUFFICES ASSUME req[q].pc = "drift"
                   PROVE  grant'[sess'[req[q].sid].login].scopes < build'
        BY <1>2 DEF ScopesFallShort, StreamOf
    <2>2. /\ StreamOf(req[q]) \in Logins /\ login[StreamOf(req[q])] = "gone"
          /\ ScopesFallShort(StreamOf(req[q]))
        BY <1>2, <2>1, JobStream DEF FitsGrant, OwnPCs
    <2>3. grant'[sess[req[q].sid].login].scopes < build'
        BY <2>2 DEF WorldForward, ScopesFallShort, StreamOf
    <2>4. QED
        BY <1>4, <2>1, <2>3 DEF OwnPCs
<1>6. req[q].pc = "rfCall" => req[q].ver = sess'[req[q].sid].ver
    BY <1>2 DEF FitsGrant
<1>7. req[q].pc = "rfWrite" => req[q].ver = ccp'[sess'[req[q].sid].login].ver
    <2>1. SUFFICES ASSUME req[q].pc = "rfWrite"
                   PROVE  req[q].ver = ccp'[sess'[req[q].sid].login].ver
        OBVIOUS
    <2>2. StreamOf(req[q]) \in Logins /\ req[q].ver = ccp[StreamOf(req[q])].ver
        BY <1>2, <2>1, JobStream DEF FitsGrant, OwnPCs
    <2>3. ccp'[StreamOf(req[q])].ver = ccp[StreamOf(req[q])].ver
        BY <2>1, <2>2 DEF Refers
    <2>4. QED
        BY <1>4, <2>1, <2>2, <2>3 DEF StreamOf, OwnPCs
<1>8. req[q].pc = "rfRevoke" =>
          ~ccp'[sess'[req[q].sid].login].live \/ sess'[req[q].sid].login \in lost'
    <2>1. SUFFICES ASSUME req[q].pc = "rfRevoke"
                   PROVE  ~ccp'[sess'[req[q].sid].login].live \/ sess'[req[q].sid].login \in lost'
        OBVIOUS
    <2>2. /\ StreamOf(req[q]) \in Logins /\ code[StreamOf(req[q])] = "gone"
          /\ ~ccp[StreamOf(req[q])].live \/ StreamOf(req[q]) \in lost
        BY <1>2, <2>1, JobStream DEF FitsGrant, OwnPCs
    <2>3. sess'[req[q].sid].login = StreamOf(req[q])
        BY <1>4, <2>1 DEF StreamOf, OwnPCs
    <2>4. QED
        BY <2>2, <2>3 DEF WorldForward
<1>9. ASSUME NEW t \in req[q].toks
      PROVE  Spent(t)'
    <2>1. t[1] \in Logins /\ Spent(t) /\ Refers(req[q], t[1])
        BY <1>2, TokenTypes DEF FitsGrant, Refers
    <2>2. code'[t[1]] = "gone"
        BY <2>1 DEF RowsForward, Spent
    <2>3. ASSUME NEW s \in Sids, sess'[s].state = "open"
          PROVE  sess'[s].login # t[1]
        <3>1. CASE sess[s].state = "open"
            BY <2>1, <3>1 DEF RowsForward, Spent, Open
        <3>2. CASE code[sess'[s].login] # "gone"
            BY <2>1, <3>2 DEF Spent
        <3>3. QED
            BY <2>3, <3>1, <3>2 DEF RowsForward
    <2>4. ccp'[t[1]].ver = t[2] \/ t[1] \in lost'
        BY <2>1 DEF Spent, WorldForward
    <2>5. QED
        BY <2>2, <2>3, <2>4 DEF Spent, Open
<1>10. QED
    BY <1>2, <1>3, <1>5, <1>6, <1>7, <1>8, <1>9 DEF FitsGrant, StreamOf

(* The stored token of s is CCP's, or why it is not.                        *)
InStep(s) ==
    \/ sess[s].ver = ccp[sess[s].login].ver
    \/ sess[s].login \in lost
    \/ \E r \in Requests : req[r].pc = "rfWrite" /\ req[r].sid = s

(* A session whose row and stream do not move stays in step.                *)
LEMMA StaysInStep ==
    ASSUME IInv, GrantInv, lost \subseteq lost', NEW s \in Sids, Open(s),
           sess'[s].ver = sess[s].ver, sess'[s].login = sess[s].login,
           ccp'[sess[s].login].ver = ccp[sess[s].login].ver,
           \A r \in Requests : req[r].pc = "rfWrite" /\ req[r].sid = s =>
               \/ req'[r].pc = "rfWrite" /\ req'[r].sid = s
               \/ sess[s].login \in lost'
    PROVE  InStep(s)'
BY DEF GrantInv, RotationSafe, InStep

(* Sessions whose rows and streams do not move stay in step.                *)
LEMMA RotationStays ==
    ASSUME IInv, GrantInv, lost \subseteq lost',
           \A s \in Sids : sess'[s].state = "open" =>
               /\ sess[s].state = "open" /\ sess'[s].ver = sess[s].ver
               /\ sess'[s].login = sess[s].login
               /\ ccp'[sess[s].login].ver = ccp[sess[s].login].ver,
           \A r \in Requests : req[r].pc = "rfWrite" =>
               \/ req'[r].pc = "rfWrite" /\ req'[r].sid = req[r].sid
               \/ StreamOf(req[r]) \in lost'
    PROVE  RotationSafe'
<1>1. ASSUME NEW s \in Sids, sess'[s].state = "open"
      PROVE  InStep(s)'
    BY <1>1, StaysInStep DEF Open, StreamOf
<1>2. QED
    BY <1>1 DEF RotationSafe, InStep, Open

(* A stream is answered for by what has not moved, or else is still.        *)
LEMMA KeptMoves ==
    ASSUME IInv, GrantInv, RowsForward, WorldForward,
           NEW P \in SUBSET Procs, \A q \in P : req'[q] = req[q],
           NEW l \in Logins, ccp'[l].live => ccp[l].live,
           code[l] \in {"parked", "expired"} =>
               code'[l] \in {"parked", "expired"} \/ l \in Kept',
           \A s \in Sids : sess[s].state = "open" /\ sess[s].login = l =>
               \/ sess'[s].state = "open"
               \/ l \in Kept' \/ ~ccp'[l].live,
           \A q \in Procs \ P : l \in Carried(q) => l \in Kept' \/ ~ccp'[l].live
    PROVE  ccp'[l].live => l \in Kept'
<1>1. SUFFICES ASSUME ccp'[l].live, l \notin Kept'
               PROVE  FALSE
    OBVIOUS
<1>2. ccp[l].live /\ l \in Kept /\ login[l] = "gone"
    BY <1>1 DEF GrantInv, Streams
<1>3. ~Accounted(l)' /\ l \notin lost' /\ ~ScopesFallShort(l)'
    BY <1>1 DEF Kept
<1>4. Accounted(l)
    BY <1>2, <1>3 DEF Kept, WorldForward, ScopesFallShort
<1>5. CASE code[l] \in {"parked", "expired"}
    BY <1>1, <1>3, <1>5 DEF Accounted
<1>6. ASSUME NEW s \in Sids, Open(s), sess[s].login = l
      PROVE  FALSE
    <2>1. sess'[s].state = "open" /\ sess'[s].login = l
        BY <1>1, <1>6 DEF Open, RowsForward
    <2>2. QED
        BY <1>3, <2>1 DEF Accounted, Open
<1>7. ASSUME NEW q \in Procs, l \in Carried(q)
      PROVE  FALSE
    <2>1. q \in P
        BY <1>1, <1>7
    <2>2. req'[q] = req[q]
        BY <2>1
    <2>3. req[q].pc = "rfWrite" => sess'[req[q].sid].login = sess[req[q].sid].login
        BY <2>1, JobStream DEF RowsForward, Existed, OwnPCs
    <2>4. l \in Carried(q)'
        BY <1>7, <2>2, <2>3 DEF Carried
    <2>5. QED
        BY <1>3, <2>4 DEF Accounted
<1>8. QED
    BY <1>4, <1>5, <1>6, <1>7 DEF Accounted

(* All of them, when no stream comes alive.                                 *)
LEMMA AllKept ==
    ASSUME IInv, GrantInv, RowsForward, WorldForward,
           NEW P \in SUBSET Procs, \A q \in P : req'[q] = req[q],
           \A l \in Logins : ccp'[l].live => ccp[l].live,
           \A l \in Logins : code[l] \in {"parked", "expired"} =>
               code'[l] \in {"parked", "expired"} \/ l \in Kept',
           \A s \in Sids : sess[s].state = "open" =>
               \/ sess'[s].state = "open"
               \/ sess[s].login \in Kept' \/ ~ccp'[sess[s].login].live,
           \A q \in Procs \ P : \A l \in Carried(q) : l \in Kept' \/ ~ccp'[l].live
    PROVE  \A l \in Logins : ccp'[l].live => l \in Kept'
<1>1. ASSUME NEW l \in Logins
      PROVE  ccp'[l].live => l \in Kept'
    BY KeptMoves
<1>2. QED
    BY <1>1

-----------------------------------------------------------------------------
(* Steps that write to no code, no session and no stream                    *)

(* A job that has nothing to do with a grant.                               *)
NoGrantPCs == AllPCs \ (GrantPCs \cup CCPRevokePCs \cup {"drift", "rfCall", "rfWrite",
                                                         "rfRevoke"})

(* It fits whatever the rest does ...                                       *)
LEMMA NoGrant ==
    ASSUME NEW p \in Procs, req'[p].toks = {}, req'[p].pc \in NoGrantPCs
    PROVE  FitsGrant(req[p])'
BY DEF FitsGrant, NoGrantPCs

(* ... and has nothing to lose.                                             *)
LEMMA NothingCarried ==
    ASSUME GrantInv, NEW p \in Procs,
           req[p].pc \notin GrantPCs \cup CCPRevokePCs \cup {"rfWrite"}
    PROVE  req[p].toks = {} /\ Carried(p) = {}
<1>1. req[p].toks = {}
    BY DEF GrantInv, GrantFits, FitsGrant
<1>2. QED
    BY <1>1 DEF Carried, GrantPCs, CallbackPCs

(* All processes, one and the others.                                       *)
LEMMA AllFit ==
    ASSUME NEW p \in Procs, GrantFits(Procs \ {p})', FitsGrant(req[p])'
    PROVE  GrantFits(Procs)'
BY DEF GrantFits

(* A step of p that writes to none of them, given that p's new job fits.     *)
LEMMA Quiet ==
    ASSUME IInv, GrantInv, WorldForward, NEW p \in Procs,
           UNCHANGED <<code, sess, ccp>>,
           \A q \in Procs \ {p} : req'[q] = req[q],
           \A l \in Logins : login[l] = "gone" => login'[l] = "gone",
           FitsGrant(req[p])', req[p].pc # "rfWrite",
           \A l \in Carried(p) : l \in Carried(p)' \/ l \in lost'
    PROVE  GrantInv'
<1>1. RowsForward
    BY DEF RowsForward
<1>2. GrantFits(Procs \ {p})'
    BY <1>1, OthersFit
<1>3. GrantFits(Procs)'
    BY <1>2, AllFit
<1>4. Streams'
    BY DEF GrantInv, Streams
<1>5. RotationSafe'
    <2>1. \A r \in Requests : req[r].pc = "rfWrite" =>
              req'[r].pc = "rfWrite" /\ req'[r].sid = req[r].sid
        BY DEF Procs
    <2>2. QED
        BY <2>1, RotationStays DEF WorldForward
<1>6. \A l \in Logins : ccp'[l].live => l \in Kept'
    <2>1. \A l \in Carried(p) : l \in Kept'
        <3>1. ASSUME NEW l \in Carried(p)
              PROVE  l \in Kept'
            <4>1. l \in Logins /\ (l \in Carried(p)' \/ l \in lost')
                BY DEF Carried
            <4>2. QED
                BY <4>1 DEF Kept, Accounted
        <3>2. QED
            BY <3>1
    <2>2. QED
        BY <1>1, <2>1, AllKept
<1>7. QED
    BY <1>3, <1>4, <1>5, <1>6 DEF GrantInv

(* A step that leaves the database's grants alone, of a job with none.      *)
LEMMA Passes ==
    ASSUME IInv, GrantInv, NEW p \in Procs,
           UNCHANGED <<code, grant, sess, ccp, build, lost>>,
           \A q \in Procs \ {p} : req'[q] = req[q],
           \A l \in Logins : login[l] = "gone" => login'[l] = "gone",
           req[p].pc \in NoGrantPCs, req'[p].pc \in NoGrantPCs,
           req'[p].toks \in {{}, req[p].toks}
    PROVE  GrantInv'
<1>1. req[p].toks = {} /\ Carried(p) = {} /\ req[p].pc # "rfWrite"
    BY NothingCarried DEF NoGrantPCs
<1>2. FitsGrant(req[p])'
    BY <1>1, NoGrant
<1>3. WorldForward
    BY DEF WorldForward
<1>4. QED
    BY <1>1, <1>2, <1>3, Quiet

(* The steps of a request before it has a grant, or after.                  *)
LEMMA PlainSteps ==
    ASSUME IInv, GrantInv, NEW r \in Requests,
           \/ \E l \in Logins : StartCallback(r, l) \/ StartExchange(r, l)
           \/ LockCharacter(r) \/ TakeCode(r) \/ DoomPredecessors(r)
           \/ CreateSession(r) \/ CallLogout(r) \/ LogoutRevoke(r)
           \/ LogoutDelete(r) \/ (SnapPredecessors(r) /\ req[r].pc = "exSnap")
    PROVE  GrantInv'
<1>1. r \in Procs /\ req[r] \in Job /\ req \in [Procs -> Job]
    BY DEF IInv, TypeOK, Procs
<1>2. ASSUME NEW l \in Logins, StartCallback(r, l)
      PROVE  GrantInv'
    <2>1. \A q \in Procs \ {r} : req'[q] = req[q]
        BY <1>1, <1>2 DEF StartCallback
    <2>2. /\ req[r].pc = "idle" /\ req'[r].pc \in {"idle", "cbExchange"}
          /\ req'[r].toks \in {{}, req[r].toks}
        BY <1>1, <1>2 DEF StartCallback, Idle
    <2>3. \A k \in Logins : login[k] = "gone" => login'[k] = "gone"
        BY <1>2 DEF StartCallback, IInv, TypeOK
    <2>4. UNCHANGED <<code, grant, sess, ccp, build, lost>>
        BY <1>2 DEF StartCallback, world
    <2>5. QED
        BY <1>1, <2>1, <2>2, <2>3, <2>4, Passes
           DEF NoGrantPCs, GrantPCs, CallbackPCs, CCPRevokePCs, AllPCs, RequestPCs
<1>3. CASE ~\E l \in Logins : StartCallback(r, l)
    <2>1. \A q \in Procs \ {r} : req'[q] = req[q]
        BY <1>1, <1>3 DEF StartExchange, LockCharacter, TakeCode, DoomPredecessors,
               CreateSession, CallLogout, LogoutRevoke, LogoutDelete,
               SnapPredecessors, Goto, Finish
    <2>2. UNCHANGED <<login, code, grant, sess, ccp, build, lost>>
        BY <1>3 DEF StartExchange, LockCharacter, TakeCode, DoomPredecessors,
               CreateSession, CallLogout, LogoutRevoke, LogoutDelete,
               SnapPredecessors, rows, world
    <2>3. /\ req[r].pc \in {"idle", "exLock", "loLock", "exTake", "exSnap", "exDoom",
                            "exCreate", "tool", "loRevoke", "loDelete"}
          /\ req'[r].pc \in {"idle", "exLock", "exTake", "exSnap", "exDoom",
                             "exCreate", "exCommit", "loLock", "loRevoke",
                             "loDelete", "loCommit"}
          /\ req'[r].toks \in {{}, req[r].toks}
        <3>1. CASE \E l \in Logins : StartExchange(r, l)
            BY <1>1, <3>1 DEF StartExchange, Idle
        <3>2. CASE LockCharacter(r)
            BY <1>1, <3>2 DEF LockCharacter, Goto, Job
        <3>3. CASE TakeCode(r)
            BY <1>1, <3>3 DEF TakeCode, Goto, Finish, Idle, Job
        <3>4. CASE DoomPredecessors(r)
            BY <1>1, <3>4 DEF DoomPredecessors, Job
        <3>5. CASE CreateSession(r)
            BY <1>1, <3>5 DEF CreateSession, Finish, Idle, Job
        <3>6. CASE CallLogout(r)
            BY <1>1, <3>6 DEF CallLogout, Goto, Job
        <3>7. CASE LogoutRevoke(r)
            BY <1>1, <3>7 DEF LogoutRevoke, Job
        <3>8. CASE LogoutDelete(r)
            BY <1>1, <3>8 DEF LogoutDelete, Goto, Finish, Idle, Job
        <3>9. CASE SnapPredecessors(r) /\ req[r].pc = "exSnap"
            BY <1>1, <3>9 DEF SnapPredecessors, Job
        <3>10. QED
            BY <1>3, <3>1, <3>2, <3>3, <3>4, <3>5, <3>6, <3>7, <3>8, <3>9
    <2>4. QED
        BY <1>1, <2>1, <2>2, <2>3, Passes
           DEF NoGrantPCs, GrantPCs, CallbackPCs, CCPRevokePCs, AllPCs, RequestPCs
<1>4. QED
    BY <1>2, <1>3

(* The sweep's rules that touch no grant, and a rule that fails.            *)
LEMMA PlainSweeps ==
    ASSUME IInv, GrantInv, NEW w \in Sweepers,
           \/ StartSweep(w) \/ SweepLogins(w) \/ SweepRuleFails(w)
    PROVE  GrantInv'
<1>1. w \in Procs /\ req[w] \in Job /\ req \in [Procs -> Job]
    BY DEF IInv, TypeOK, Procs
<1>2. \A q \in Procs \ {w} : req'[q] = req[q]
    BY <1>1 DEF StartSweep, SweepLogins, SweepRuleFails, Goto, Finish
<1>3. UNCHANGED <<code, grant, sess, ccp, build, lost>>
    BY DEF StartSweep, SweepLogins, SweepRuleFails, rows, world
<1>4. \A l \in Logins : login[l] = "gone" => login'[l] = "gone"
    BY DEF StartSweep, SweepLogins, SweepRuleFails, rows
<1>5. /\ req[w].pc \in {"idle", "swLogins", "swCodes", "swSess", "swPurge"}
      /\ req'[w].pc \in {"idle", "swLogins", "swCodes", "swSess", "swPurge"}
      /\ req'[w].toks \in {{}, req[w].toks}
    <2>1. CASE StartSweep(w)
        BY <1>1, <2>1 DEF StartSweep, Goto, Job
    <2>2. CASE SweepLogins(w)
        BY <1>1, <2>2 DEF SweepLogins, Goto, Job
    <2>3. CASE SweepRuleFails(w)
        BY <1>1, <2>3 DEF SweepRuleFails, Goto, Finish, Idle, Job
    <2>4. QED
        BY <2>1, <2>2, <2>3
<1>6. QED
    BY <1>1, <1>2, <1>3, <1>4, <1>5, Passes
       DEF NoGrantPCs, GrantPCs, CallbackPCs, CCPRevokePCs, AllPCs, SweepPCs

(* The callback's steps between the grant and the character row.            *)
LEMMA CallbackPasses ==
    ASSUME IInv, GrantInv, NEW r \in Requests,
           \/ CheckOwner(r) \/ UpsertCharacter(r)
           \/ (SnapPredecessors(r) /\ req[r].pc = "cbSnap")
    PROVE  GrantInv'
<1>1. /\ r \in Procs /\ req[r] \in Job /\ req \in [Procs -> Job]
      /\ FitsGrant(req[r])
    BY DEF IInv, TypeOK, Procs, GrantInv, GrantFits
<1>2. \A q \in Procs \ {r} : req'[q] = req[q]
    BY <1>1 DEF CheckOwner, UpsertCharacter, SnapPredecessors, Goto
<1>3. UNCHANGED <<login, code, grant, sess, ccp, build, lost>>
    BY DEF CheckOwner, UpsertCharacter, SnapPredecessors, rows, world
<1>4. /\ req[r].pc \in {"cbOwner", "cbSnap", "cbUpsert"}
      /\ req'[r].pc \in {"cbSnap", "cbDoom", "cbUpsert", "cbPut"}
      /\ req'[r].login = req[r].login /\ req'[r].toks = req[r].toks
    <2>1. CASE CheckOwner(r)
        BY <1>1, <2>1 DEF CheckOwner, Goto, Job
    <2>2. CASE UpsertCharacter(r)
        BY <1>1, <2>2 DEF UpsertCharacter, Goto, Job
    <2>3. CASE SnapPredecessors(r) /\ req[r].pc = "cbSnap"
        BY <1>1, <2>3 DEF SnapPredecessors, Job
    <2>4. QED
        BY <2>1, <2>2, <2>3
<1>5. req'[r].toks = {} /\ ccp'[req'[r].login].ver = 1
    BY <1>1, <1>3, <1>4 DEF FitsGrant, GrantPCs, CallbackPCs, CCPRevokePCs
<1>6. FitsGrant(req[r])'
    BY <1>4, <1>5 DEF FitsGrant
<1>7. \A l \in Carried(r) : l \in Carried(r)'
    BY <1>4 DEF Carried
<1>8. WorldForward
    BY <1>3 DEF WorldForward
<1>9. QED
    BY <1>1, <1>2, <1>3, <1>4, <1>6, <1>7, <1>8, Quiet

(* A bearer call, a tool call and the row lock of a refresh.                *)
LEMMA SessionPasses ==
    ASSUME IInv, GrantInv, NEW r \in Requests,
           \/ \E s \in Sids : BearerCall(r, s)
           \/ CallTool(r) \/ LockForRefresh(r)
    PROVE  GrantInv'
<1>1. /\ r \in Procs /\ req[r] \in Job /\ req \in [Procs -> Job]
    BY DEF IInv, TypeOK, Procs
<1>2. \A q \in Procs \ {r} : req'[q] = req[q]
    BY <1>1 DEF BearerCall, CallTool, LockForRefresh, Goto, Finish
<1>3. UNCHANGED <<login, code, grant, sess, ccp, build, lost>>
    BY DEF BearerCall, CallTool, LockForRefresh, rows, world
<1>4. req[r].pc \in {"idle", "tool", "rfLock"}
    BY DEF BearerCall, CallTool, LockForRefresh
<1>5. req[r].toks = {} /\ Carried(r) = {}
    BY <1>1, <1>4, NothingCarried DEF GrantPCs, CallbackPCs, CCPRevokePCs
<1> DEFINE Lands(j) ==
              /\ j.toks = {}
              /\ \/ j.pc \in {"idle", "tool", "rfLock"}
                 \/ j.pc = "drift" /\ ScopesFallShort(sess[j.sid].login)
                 \/ j.pc = "rfCall" /\ j.ver = sess[j.sid].ver
<1>6. Lands(req'[r])
    <2>1. ASSUME NEW s \in Sids, BearerCall(r, s)
          PROVE  Lands(req'[r])
        BY <1>1, <2>1 DEF BearerCall, Idle
    <2>2. CASE CallTool(r)
        BY <1>1, <1>5, <2>2 DEF CallTool, Goto, Finish, Idle, Job
    <2>3. CASE LockForRefresh(r)
        BY <1>1, <1>5, <2>3 DEF LockForRefresh, Goto, Finish, Idle, Job
    <2>4. QED
        BY <2>1, <2>2, <2>3
<1>7. FitsGrant(req[r])'
    BY <1>3, <1>6 DEF FitsGrant, StreamOf, ScopesFallShort, GrantPCs, CallbackPCs
<1>8. WorldForward
    BY <1>3 DEF WorldForward
<1>9. QED
    BY <1>1, <1>2, <1>3, <1>4, <1>5, <1>7, <1>8, Quiet

-----------------------------------------------------------------------------
(* Steps that end sessions                                                  *)

(* What AfterRevoke makes of a job.                                         *)
LEMMA AfterRevokeShape ==
    ASSUME NEW p \in Procs, req[p] \in Job, NEW w \in CCPRevokePCs,
           NEW T \in SUBSET (Logins \X Vers), req'[p] = AfterRevoke(p, w, T)
    PROVE  /\ req'[p].toks = T
           /\ T # {} => req'[p].pc = w
           /\ T = {} => req'[p].pc \in {"idle", "cbUpsert", "swSess", "swPurge"}
           /\ w = "cbCCP" => req'[p].login = req[p].login
           /\ req'[p].pc = "cbUpsert" => w = "cbCCP"
           /\ w = "cbCCP" => req'[p].pc \in {"cbCCP", "cbUpsert"}
<1>1. PICK next : next = IF T = {} THEN Then[w] ELSE w
    OBVIOUS
<1>2. req'[p] = IF next = "idle" THEN Idle
                ELSE [req[p] EXCEPT !.pc = next, !.seen = {}, !.doomed = {}, !.toks = T]
    BY <1>1 DEF AfterRevoke
<1>3. /\ next = "idle" <=> (T = {} /\ w \in {"exCCP", "loCCP"})
      /\ T = {} => next \in {"idle", "cbUpsert", "swSess", "swPurge"}
      /\ next = "cbUpsert" => w = "cbCCP"
      /\ w = "cbCCP" => next \in {"cbCCP", "cbUpsert"}
      /\ T # {} => next = w
    BY <1>1 DEF CCPRevokePCs, Then
<1>4. CASE next = "idle"
    <2>1. req'[p].toks = {} /\ req'[p].pc = "idle"
        BY <1>2, <1>4 DEF Idle
    <2>2. QED
        BY <1>3, <1>4, <2>1
<1>5. CASE next # "idle"
    <2>1. /\ req'[p].toks = T /\ req'[p].pc = next
          /\ req'[p].login = req[p].login
        BY <1>2, <1>5 DEF Job
    <2>2. QED
        BY <1>3, <2>1
<1>6. QED
    BY <1>4, <1>5

(* Such a job fits when its tokens are spent.                               *)
LEMMA AfterRevokeFits ==
    ASSUME NEW p \in Procs, req[p] \in Job, NEW w \in CCPRevokePCs,
           NEW T \in SUBSET (Logins \X Vers), req'[p] = AfterRevoke(p, w, T),
           \A t \in T : Spent(t)',
           w = "cbCCP" => ccp'[req[p].login].ver = 1
    PROVE  FitsGrant(req[p])'
<1>1. /\ req'[p].toks = T
      /\ T # {} => req'[p].pc = w
      /\ T = {} => req'[p].pc \in {"idle", "cbUpsert", "swSess", "swPurge"}
      /\ w = "cbCCP" => req'[p].login = req[p].login
      /\ req'[p].pc = "cbUpsert" => w = "cbCCP"
    BY AfterRevokeShape
<1>2. req'[p].pc \in GrantPCs => ccp'[req'[p].login].ver = 1
    BY <1>1 DEF GrantPCs, CallbackPCs, CCPRevokePCs
<1>3. req'[p].pc \notin {"drift", "rfCall", "rfWrite", "rfRevoke"}
    BY <1>1 DEF CCPRevokePCs
<1>4. QED
    BY <1>1, <1>2, <1>3 DEF FitsGrant

(* The rows a revocation leaves.                                            *)
LEMMA RevokedRows ==
    ASSUME IInv, NEW S \in SUBSET Sids, sess' = RevokeRows(S)
    PROVE  \A s \in Sids :
              /\ sess'[s].login = sess[s].login
              /\ s \in S => sess'[s].state = "revoked"
              /\ s \notin S => sess'[s] = sess[s]
<1>1. SUFFICES ASSUME NEW s \in Sids
               PROVE  /\ sess'[s].login = sess[s].login
                      /\ s \in S => sess'[s].state = "revoked"
                      /\ s \notin S => sess'[s] = sess[s]
    OBVIOUS
<1>2. sess[s] \in Row
    BY DEF IInv, TypeOK
<1>3. CASE s \in S
    <2>1. sess'[s] = [sess[s] EXCEPT !.state = "revoked", !.ver = 0]
        BY <1>3 DEF RevokeRows, Revoked
    <2>2. QED
        BY <1>2, <1>3, <2>1 DEF Row
<1>4. CASE s \notin S
    BY <1>4 DEF RevokeRows
<1>5. QED
    BY <1>3, <1>4

(* The tokens a revocation returns, of sessions no refresh is rotating.     *)
LEMMA TokensSpent ==
    ASSUME IInv, GrantInv, NEW S \in SUBSET Sids,
           \A s \in S : /\ Open(s) /\ sess'[s].state # "open"
                        /\ \A r \in Requests : ~(req[r].pc = "rfWrite" /\ req[r].sid = s),
           \A l \in Logins : code[l] = "gone" => code'[l] = "gone",
           \A s \in Sids : sess'[s].state = "open" =>
               (Open(s) /\ sess'[s].login = sess[s].login)
               \/ code[sess'[s].login] # "gone",
           UNCHANGED <<ccp, lost>>
    PROVE  /\ \A t \in TokensOf(S) : Spent(t)'
           /\ \A s \in S : \E t \in TokensOf(S) : t[1] = sess[s].login
<1>1. ASSUME NEW s \in S
      PROVE  /\ sess[s].ver # 0 /\ sess[s].login \in Logins
             /\ code[sess[s].login] = "gone"
             /\ sess[s].ver = ccp[sess[s].login].ver \/ sess[s].login \in lost
             /\ \A u \in Sids : Open(u) /\ sess[u].login = sess[s].login => u = s
    <2>1. s \in Sids /\ Open(s) /\ Existed(s)
        BY DEF Open, Existed
    <2>2. sess[s].ver # 0
        BY <2>1 DEF IInv, RowInv, RevokedHoldsNoToken
    <2>3. sess[s].ver = ccp[sess[s].login].ver \/ sess[s].login \in lost
        BY <2>1 DEF GrantInv, RotationSafe
    <2>4. QED
        BY <2>1, <2>2, <2>3, SessionStream DEF Open, Existed
<1>2. ASSUME NEW s \in S, NEW t, t = <<sess[s].login, sess[s].ver>>
      PROVE  Spent(t)'
    <2>1. code'[sess[s].login] = "gone"
        BY <1>1
    <2>2. ASSUME NEW u \in Sids, sess'[u].state = "open", sess'[u].login = sess[s].login
          PROVE  FALSE
        <3>1. Open(u) /\ sess[u].login = sess[s].login
            BY <1>1, <2>2
        <3>2. u = s
            BY <1>1, <3>1
        <3>3. QED
            BY <2>2, <3>2
    <2>3. sess[s].ver = ccp'[sess[s].login].ver \/ sess[s].login \in lost'
        BY <1>1
    <2>4. t[1] = sess[s].login /\ t[2] = sess[s].ver
        BY <1>2
    <2>5. QED
        BY <2>1, <2>2, <2>3, <2>4 DEF Spent, Open
<1>3. TokensOf(S) = {<<sess[s].login, sess[s].ver>> : s \in S}
    BY <1>1 DEF TokensOf
<1>4. \A t \in TokensOf(S) : Spent(t)'
    BY <1>2, <1>3
<1>5. ASSUME NEW s \in S
      PROVE  \E t \in TokensOf(S) : t[1] = sess[s].login
    <2>1. PICK t : t = <<sess[s].login, sess[s].ver>>
        OBVIOUS
    <2>2. t \in TokensOf(S)
        BY <1>3, <2>1
    <2>3. t[1] = sess[s].login
        BY <2>1
    <2>4. QED
        BY <2>2, <2>3
<1>6. QED
    BY <1>4, <1>5

(* A step that only ends sessions, and knows what becomes of their streams. *)
LEMMA Revokes ==
    ASSUME IInv, GrantInv, NEW p \in Procs, NEW S \in SUBSET Sids,
           sess' = RevokeRows(S),
           \A s \in S : Open(s) /\ \A q \in Procs \ {p} : ~HoldsRow(req[q], s),
           UNCHANGED <<login, code, grant, ccp, build, lost>>,
           \A q \in Procs \ {p} : req'[q] = req[q],
           req[p].pc # "rfWrite", FitsGrant(req[p])',
           \A l \in Carried(p) : l \in Carried(p)',
           \A s \in S : sess[s].login \in Kept' \/ ~ccp'[sess[s].login].live
    PROVE  GrantInv'
<1>1. \A s \in Sids :
         /\ sess'[s].login = sess[s].login
         /\ s \in S => sess'[s].state = "revoked"
         /\ s \notin S => sess'[s] = sess[s]
    BY RevokedRows
<1>2. RowsForward
    BY <1>1 DEF RowsForward
<1>3. WorldForward
    BY DEF WorldForward
<1>4. \A q \in Procs \ {p} : req[q].pc = "rfCall" =>
          sess'[req[q].sid].ver = sess[req[q].sid].ver
    <2>1. SUFFICES ASSUME NEW q \in Procs \ {p}, req[q].pc = "rfCall"
                   PROVE  sess'[req[q].sid].ver = sess[req[q].sid].ver
        OBVIOUS
    <2>2. req[q].sid \in Sids /\ req[q].sid \notin S
        BY <2>1, JobStream DEF OwnPCs, HoldsRow
    <2>3. QED
        BY <1>1, <2>2
<1>5. GrantFits(Procs \ {p})'
    BY <1>2, <1>3, <1>4, OthersFit
<1>6. GrantFits(Procs)'
    BY <1>5, AllFit
<1>7. Streams'
    BY DEF GrantInv, Streams
<1>8. RotationSafe'
    <2>1. \A r \in Requests : req[r].pc = "rfWrite" =>
              req'[r].pc = "rfWrite" /\ req'[r].sid = req[r].sid
        BY DEF Procs
    <2>2. \A s \in Sids : sess'[s].state = "open" =>
               /\ sess[s].state = "open" /\ sess'[s].ver = sess[s].ver
               /\ sess'[s].login = sess[s].login
               /\ ccp'[sess[s].login].ver = ccp[sess[s].login].ver
        BY <1>1
    <2>3. QED
        BY <2>1, <2>2, RotationStays
<1>9. \A l \in Logins : ccp'[l].live => l \in Kept'
    <2>1. ASSUME NEW l \in Carried(p)
          PROVE  l \in Kept'
        <3>1. l \in Logins /\ l \in Carried(p)'
            BY DEF Carried
        <3>2. QED
            BY <3>1 DEF Kept, Accounted
    <2>2. \A s \in Sids : sess[s].state = "open" =>
               \/ sess'[s].state = "open"
               \/ sess[s].login \in Kept' \/ ~ccp'[sess[s].login].live
        BY <1>1
    <2>3. QED
        BY <1>2, <1>3, <2>1, <2>2, AllKept
<1>10. QED
    BY <1>6, <1>7, <1>8, <1>9 DEF GrantInv

(* A stream whose token is on its way to CCP is answered for.               *)
LEMMA TokenKept ==
    ASSUME NEW p \in Procs, NEW t \in req'[p].toks, t[1] \in Logins
    PROVE  t[1] \in Kept'
BY DEF Kept, Accounted, Carried

(* A revocation that takes the tokens along to CCP.                         *)
LEMMA RevokesTaking ==
    ASSUME IInv, GrantInv, NEW p \in Procs, NEW S \in SUBSET Sids,
           sess' = RevokeRows(S),
           \A s \in S : Open(s) /\ \A q \in Procs \ {p} : ~HoldsRow(req[q], s),
           UNCHANGED <<login, code, grant, ccp, build, lost>>,
           \A q \in Procs \ {p} : req'[q] = req[q],
           req[p].pc # "rfWrite", NEW w \in CCPRevokePCs,
           req'[p] = AfterRevoke(p, w, TokensOf(S)),
           w = "cbCCP" => req[p].pc = "cbDoom",
           w # "cbCCP" => Carried(p) = {}
    PROVE  GrantInv'
<1>1. req[p] \in Job /\ TokensOf(S) \in SUBSET (Logins \X Vers)
    BY OpenTokens DEF IInv, TypeOK
<1>2. \A s \in Sids :
         /\ sess'[s].login = sess[s].login
         /\ s \in S => sess'[s].state = "revoked"
         /\ s \notin S => sess'[s] = sess[s]
    BY RevokedRows
<1>3. /\ \A t \in TokensOf(S) : Spent(t)'
      /\ \A s \in S : \E t \in TokensOf(S) : t[1] = sess[s].login
    <2>1. \A s \in S : /\ Open(s) /\ sess'[s].state # "open"
                       /\ \A r \in Requests : ~(req[r].pc = "rfWrite" /\ req[r].sid = s)
        BY <1>2 DEF HoldsRow, Procs
    <2>2. \A s \in Sids : sess'[s].state = "open" =>
               (Open(s) /\ sess'[s].login = sess[s].login)
        BY <1>2 DEF Open
    <2>3. QED
        BY <2>1, <2>2, TokensSpent
<1>4. w = "cbCCP" => ccp'[req[p].login].ver = 1
    BY DEF GrantInv, GrantFits, FitsGrant, GrantPCs, CallbackPCs
<1>5. FitsGrant(req[p])'
    BY <1>1, <1>3, <1>4, AfterRevokeFits
<1>6. \A l \in Carried(p) : l \in Carried(p)'
    <2>1. CASE w # "cbCCP"
        BY <2>1
    <2>2. CASE w = "cbCCP"
        <3>1. req[p].pc = "cbDoom" /\ req[p].toks = {}
            BY <2>2 DEF GrantInv, GrantFits, FitsGrant, CCPRevokePCs
        <3>2. req'[p].login = req[p].login /\ req'[p].pc \in {"cbCCP", "cbUpsert"}
            BY <1>1, <2>2, AfterRevokeShape
        <3>3. QED
            BY <3>1, <3>2 DEF Carried
    <2>3. QED
        BY <2>1, <2>2
<1>7. \A s \in S : sess[s].login \in Kept'
    <2>1. req'[p].toks = TokensOf(S)
        BY <1>1, AfterRevokeShape
    <2>2. \A t \in TokensOf(S) : t[1] \in Logins
        BY <1>1
    <2>3. QED
        BY <1>3, <2>1, <2>2, TokenKept
<1>8. QED
    BY <1>5, <1>6, <1>7, Revokes

(* The owner change, the commit of a logout and the sweep of sessions.      *)
LEMMA SessionsEnd ==
    ASSUME IInv, GrantInv, NEW p \in Procs,
           RevokeOnOwnerChange(p) \/ CommitLogout(p) \/ SweepSessions(p)
    PROVE  GrantInv'
<1>1. /\ req[p] \in Job /\ req \in [Procs -> Job] /\ Fits(req[p])
      /\ \A q \in Procs \ {p} : Apart(req[p], req[q])
    BY DEF IInv, TypeOK, JobInv
<1>2. CASE RevokeOnOwnerChange(p)
    <2>1. /\ StillOpen(p) \in SUBSET Sids /\ req[p].seen \subseteq Sids
          /\ sess' = RevokeRows(StillOpen(p))
        BY <1>1, <1>2 DEF RevokeOnOwnerChange, StillOpen, Job
    <2>2. \A s \in StillOpen(p) : Open(s) /\ \A q \in Procs \ {p} : ~HoldsRow(req[q], s)
        BY <1>2 DEF RevokeOnOwnerChange, StillOpen, RowsFree
    <2>3. /\ UNCHANGED <<login, code, grant, ccp, build, lost>>
          /\ \A q \in Procs \ {p} : req'[q] = req[q]
          /\ req[p].pc = "cbDoom"
          /\ req'[p] = AfterRevoke(p, "cbCCP", TokensOf(StillOpen(p)))
        BY <1>1, <1>2 DEF RevokeOnOwnerChange, world
    <2>4. QED
        BY <2>1, <2>2, <2>3, RevokesTaking DEF CCPRevokePCs
<1>3. CASE CommitLogout(p)
    <2>1. /\ req[p].doomed \in SUBSET Sids /\ req[p].pc = "loCommit"
          /\ sess' = RevokeRows(req[p].doomed)
        BY <1>1, <1>3 DEF CommitLogout, Job
    <2>2. \A s \in req[p].doomed : HoldsRow(req[p], s)
        BY <2>1 DEF HoldsRow
    <2>3. \A s \in req[p].doomed : Open(s) /\ \A q \in Procs \ {p} : ~HoldsRow(req[q], s)
        BY <1>1, <2>1, <2>2 DEF Fits, Apart
    <2>4. /\ UNCHANGED <<login, code, grant, ccp, build, lost>>
          /\ \A q \in Procs \ {p} : req'[q] = req[q]
          /\ req'[p] = AfterRevoke(p, "loCCP", TokensOf(req[p].doomed))
        BY <1>1, <1>3 DEF CommitLogout, world
    <2>5. Carried(p) = {}
        BY <2>1, NothingCarried DEF GrantPCs, CallbackPCs, CCPRevokePCs
    <2>6. QED
        BY <2>1, <2>3, <2>4, <2>5, RevokesTaking DEF CCPRevokePCs
<1>4. CASE SweepSessions(p)
    <2>1. PICK b \in SUBSET ExpiredSessions :
             /\ RowsFree(b) /\ sess' = RevokeRows(b)
             /\ req' = [req EXCEPT ![p] = AfterRevoke(p, "swSessCCP", TokensOf(b))]
        BY <1>4 DEF SweepSessions
    <2>2. b \in SUBSET Sids /\ \A s \in b : Open(s)
        BY DEF ExpiredSessions
    <2>3. \A s \in b : \A q \in Procs \ {p} : ~HoldsRow(req[q], s)
        BY <2>1 DEF RowsFree
    <2>4. /\ UNCHANGED <<login, code, grant, ccp, build, lost>>
          /\ req[p].pc = "swSess"
        BY <1>4 DEF SweepSessions, world
    <2>5. /\ \A q \in Procs \ {p} : req'[q] = req[q]
          /\ req'[p] = AfterRevoke(p, "swSessCCP", TokensOf(b))
        BY <1>1, <2>1
    <2>6. Carried(p) = {}
        BY <2>4, NothingCarried DEF GrantPCs, CallbackPCs, CCPRevokePCs
    <2>7. QED
        BY <2>1, <2>2, <2>3, <2>4, <2>5, <2>6, RevokesTaking DEF CCPRevokePCs
<1>5. QED
    BY <1>2, <1>3, <1>4

(* Revoke after scope drift and after invalid_grant drops the tokens: CCP   *)
(* has ended the stream, a fault has, or the build wants more scopes.       *)
LEMMA OwnSessionEnds ==
    ASSUME IInv, GrantInv, NEW r \in Requests, RevokeOwnSession(r)
    PROVE  GrantInv'
<1>1. /\ r \in Procs /\ req[r] \in Job /\ req \in [Procs -> Job]
      /\ FitsGrant(req[r]) /\ req[r].pc \in {"drift", "rfRevoke"}
    BY DEF IInv, TypeOK, Procs, GrantInv, GrantFits, RevokeOwnSession
<1>2. req[r].sid \in Sids /\ StreamOf(req[r]) \in Logins
    BY <1>1, JobStream DEF OwnPCs
<1>3. PICK S \in SUBSET Sids : S = {t \in {req[r].sid} : Open(t)}
    BY <1>2
<1>4. sess' = RevokeRows(S) /\ \A s \in S : s = req[r].sid /\ Open(s)
    BY <1>3 DEF RevokeOwnSession
<1>5. \A s \in S : \A q \in Procs \ {r} : ~HoldsRow(req[q], s)
    BY <1>4 DEF RevokeOwnSession, RowsFree
<1>6. /\ UNCHANGED <<login, code, grant, ccp, build, lost>>
      /\ \A q \in Procs \ {r} : req'[q] = req[q]
      /\ req'[r].pc = "idle" /\ req'[r].toks = {}
    BY <1>1 DEF RevokeOwnSession, world, Finish, Idle
<1>7. Carried(r) = {}
    BY <1>1, NothingCarried DEF GrantPCs, CallbackPCs, CCPRevokePCs
<1>8. FitsGrant(req[r])'
    BY <1>6, NoGrant, <1>1 DEF NoGrantPCs, AllPCs, GrantPCs, CallbackPCs, CCPRevokePCs
<1>9. StreamOf(req[r]) \in Kept' \/ ~ccp'[StreamOf(req[r])].live
    <2>1. CASE req[r].pc = "drift"
        BY <1>1, <1>2, <1>6, <2>1 DEF FitsGrant, Kept, ScopesFallShort
    <2>2. CASE req[r].pc = "rfRevoke"
        BY <1>1, <1>2, <1>6, <2>2 DEF FitsGrant, Kept
    <2>3. QED
        BY <1>1, <2>1, <2>2
<1>10. QED
    BY <1>1, <1>4, <1>5, <1>6, <1>7, <1>8, <1>9, Revokes DEF StreamOf

-----------------------------------------------------------------------------
(* Steps at CCP                                                             *)

(* The stream of a handshake without code is in nobody's hands but its      *)
(* callback's.                                                              *)
LEMMA Unreferred ==
    ASSUME IInv, GrantInv, NEW p \in Procs, NEW q \in Procs \ {p},
           req[p].pc = "cbExchange"
    PROVE  ~Refers(req[q], req[p].login)
<1>1. /\ Fits(req[p]) /\ Fits(req[q]) /\ Apart(req[p], req[q]) /\ FitsGrant(req[q])
    BY DEF IInv, JobInv, GrantInv, GrantFits
<1>2. code[req[p].login] = "none"
    BY <1>1 DEF Fits, CallbackPCs
<1>3. req[q].pc \in GrantPCs => req[q].login # req[p].login
    BY <1>1 DEF Apart, GrantPCs, CallbackPCs
<1>4. req[q].pc = "rfWrite" => StreamOf(req[q]) # req[p].login
    BY <1>2, JobStream DEF OwnPCs
<1>5. \A t \in req[q].toks : t[1] # req[p].login
    BY <1>1, <1>2 DEF FitsGrant, Spent
<1>6. QED
    BY <1>3, <1>4, <1>5 DEF Refers

(* CCP issues a stream: its callback has it, or wants more scopes by now.   *)
LEMMA ExchangeStarts ==
    ASSUME IInv, GrantInv, NEW r \in Requests, ExchangeAtCCP(r)
    PROVE  GrantInv'
<1>1. /\ r \in Procs /\ req[r] \in Job /\ req \in [Procs -> Job]
      /\ req[r].pc = "cbExchange" /\ FitsGrant(req[r]) /\ Fits(req[r])
    BY DEF IInv, TypeOK, Procs, JobInv, GrantInv, GrantFits, ExchangeAtCCP
<1>2. PICK l : l = req[r].login
    OBVIOUS
<1>3. l \in Logins /\ login[l] = "gone" /\ code[l] = "none"
    BY <1>1, <1>2 DEF Fits, CallbackPCs
<1>4. /\ UNCHANGED <<login, code, sess, build, lost>>
      /\ \A q \in Procs \ {r} : req'[q] = req[q]
      /\ \A k \in Logins : grant'[k].scopes = grant[k].scopes
    BY <1>1 DEF ExchangeAtCCP, Goto, Finish, IInv, TypeOK
<1>5. /\ ccp'[l].live /\ ccp'[l].ver = 1
      /\ \A k \in Logins \ {l} : ccp'[k] = ccp[k]
    BY <1>2, <1>3 DEF ExchangeAtCCP, IInv, TypeOK
<1>6. /\ req[r].toks = {} /\ Carried(r) = {}
    BY <1>1, NothingCarried DEF GrantPCs, CCPRevokePCs
<1>7. \/ req'[r].pc = "idle" /\ req'[r].toks = {} /\ ScopesFallShort(l)
      \/ req'[r].pc = "cbOwner" /\ req'[r].toks = {} /\ req'[r].login = l
    BY <1>1, <1>2, <1>6 DEF ExchangeAtCCP, Goto, Finish, Idle, Job
<1>8. RowsForward
    BY <1>4 DEF RowsForward
<1>9. WorldForward
    BY <1>3, <1>4, <1>5 DEF WorldForward
<1>10. GrantFits(Procs \ {r})'
    <2>1. \A q \in Procs \ {r}, k \in Logins : Refers(req[q], k) => ccp'[k].ver = ccp[k].ver
        BY <1>1, <1>2, <1>5, Unreferred
    <2>2. QED
        BY <1>4, <1>8, <1>9, <2>1, OthersFit
<1>11. FitsGrant(req[r])'
    BY <1>5, <1>7 DEF FitsGrant, GrantPCs, CallbackPCs, CCPRevokePCs
<1>12. GrantFits(Procs)'
    BY <1>1, <1>10, <1>11, AllFit
<1>13. Streams'
    <2>1. \A k \in Logins : ccp'[k].live => login'[k] = "gone"
        BY <1>3, <1>4, <1>5 DEF GrantInv, Streams
    <2>2. \A k \in Logins : code'[k] \in {"parked", "expired"} => ccp'[k].ver = 1
        BY <1>4, <1>5 DEF GrantInv, Streams
    <2>3. QED
        BY <2>1, <2>2 DEF Streams
<1>14. RotationSafe'
    <2>1. \A s \in Sids : sess[s].state = "open" =>
              ccp'[sess[s].login].ver = ccp[sess[s].login].ver
        BY <1>3, <1>5, SessionStream DEF Existed
    <2>2. \A q \in Requests : req[q].pc = "rfWrite" =>
              req'[q].pc = "rfWrite" /\ req'[q].sid = req[q].sid
        BY <1>1, <1>4 DEF Procs
    <2>3. QED
        BY <1>4, <2>1, <2>2, RotationStays
<1>15. ASSUME NEW k \in Logins, ccp'[k].live
       PROVE  k \in Kept'
    <2>1. CASE k = l /\ req'[r].pc = "cbOwner"
        <3>1. l \in Carried(r)'
            BY <1>3, <1>7, <2>1 DEF Carried
        <3>2. QED
            BY <1>1, <1>3, <2>1, <3>1 DEF Kept, Accounted
    <2>2. CASE k = l /\ req'[r].pc # "cbOwner"
        BY <1>3, <1>4, <1>7, <2>2 DEF Kept, ScopesFallShort
    <2>3. CASE k # l
        <3>1. ccp'[k].live => ccp[k].live
            BY <1>5, <2>3
        <3>2. \A s \in Sids : sess[s].state = "open" => sess'[s].state = "open"
            BY <1>4
        <3>3. \A q \in Procs \ (Procs \ {r}) : k \notin Carried(q)
            BY <1>6
        <3>4. code[k] \in {"parked", "expired"} => code'[k] \in {"parked", "expired"}
            BY <1>4
        <3>5. QED
            BY <1>4, <1>8, <1>9, <1>15, <3>1, <3>2, <3>3, <3>4, KeptMoves
    <2>4. QED
        BY <2>1, <2>2, <2>3
<1>16. QED
    BY <1>12, <1>13, <1>14, <1>15 DEF GrantInv

(* The stream of a session whose row r has locked for its refresh: open,    *)
(* and no other job's.                                                      *)
LEMMA RefreshOwns ==
    ASSUME IInv, GrantInv, NEW r \in Requests, req[r].pc \in {"rfCall", "rfWrite"}
    PROVE  /\ req[r].sid \in Sids /\ Open(req[r].sid)
           /\ StreamOf(req[r]) \in Logins /\ code[StreamOf(req[r])] = "gone"
           /\ \A s \in Sids : Open(s) /\ sess[s].login = StreamOf(req[r])
                                  => s = req[r].sid
           /\ \A q \in Procs \ {r} : req[q].pc \in {"rfCall", "rfWrite"}
                                         => req[q].sid # req[r].sid
           /\ \A q \in Procs \ {r} : ~Refers(req[q], StreamOf(req[r]))
<1>1. r \in Procs /\ Fits(req[r]) /\ req[r].pc \in OwnPCs
    BY DEF Procs, IInv, JobInv, OwnPCs
<1>2. /\ req[r].sid \in Sids /\ Existed(req[r].sid) /\ StreamOf(req[r]) \in Logins
      /\ code[StreamOf(req[r])] = "gone"
    BY <1>1, JobStream
<1>3. Open(req[r].sid)
    BY <1>1, <1>2 DEF Fits, HoldsRow
<1>4. \A s \in Sids : Existed(s) /\ sess[s].login = StreamOf(req[r]) => s = req[r].sid
    BY <1>2, SessionStream DEF StreamOf
<1>5. ASSUME NEW q \in Procs \ {r}, req[q].pc \in {"rfCall", "rfWrite"}
      PROVE  req[q].sid # req[r].sid
    <2>1. Apart(req[r], req[q])
        BY <1>1 DEF IInv, JobInv
    <2>2. QED
        BY <1>2, <1>5, <2>1 DEF Apart, HoldsRow
<1>6. ASSUME NEW q \in Procs \ {r}, Refers(req[q], StreamOf(req[r]))
      PROVE  FALSE
    <2>1. Fits(req[q]) /\ FitsGrant(req[q])
        BY DEF IInv, JobInv, GrantInv, GrantFits
    <2>2. CASE req[q].pc \in GrantPCs /\ StreamOf(req[r]) = req[q].login
        BY <1>2, <2>1, <2>2 DEF Fits, GrantPCs
    <2>3. CASE req[q].pc = "rfWrite" /\ StreamOf(req[r]) = StreamOf(req[q])
        <3>1. req[q].sid \in Sids /\ Existed(req[q].sid)
            BY <2>3, JobStream DEF OwnPCs
        <3>2. req[q].sid = req[r].sid
            BY <1>4, <2>3, <3>1 DEF StreamOf
        <3>3. QED
            BY <1>5, <2>3, <3>2
    <2>4. ASSUME NEW t \in req[q].toks, StreamOf(req[r]) = t[1]
          PROVE  FALSE
        BY <1>2, <1>3, <2>1, <2>4 DEF FitsGrant, Spent, StreamOf
    <2>5. QED
        BY <1>6, <2>2, <2>3, <2>4 DEF Refers
<1>7. QED
    BY <1>2, <1>3, <1>4, <1>5, <1>6 DEF Open, Existed

(* A refresh at CCP: nothing, a rotated token, or invalid_grant.            *)
LEMMA RefreshKeepsGrants ==
    ASSUME IInv, GrantInv, NEW r \in Requests, RefreshAtCCP(r)
    PROVE  GrantInv'
<1>1. /\ r \in Procs /\ req[r] \in Job /\ req \in [Procs -> Job]
      /\ req[r].pc = "rfCall" /\ FitsGrant(req[r])
    BY DEF IInv, TypeOK, Procs, GrantInv, GrantFits, RefreshAtCCP
<1>2. PICK s, l : s = req[r].sid /\ l = StreamOf(req[r])
    OBVIOUS
<1>3. /\ s \in Sids /\ Open(s) /\ l \in Logins /\ code[l] = "gone"
      /\ l = sess[s].login
      /\ \A u \in Sids : Open(u) /\ sess[u].login = l => u = s
      /\ \A q \in Procs \ {r} : req[q].pc \in {"rfCall", "rfWrite"} => req[q].sid # s
      /\ \A q \in Procs \ {r} : ~Refers(req[q], l)
    BY <1>1, <1>2, RefreshOwns DEF StreamOf
<1>4. /\ UNCHANGED <<login, code, grant, sess, build, lost>>
      /\ \A q \in Procs \ {r} : req'[q] = req[q]
    BY <1>1 DEF RefreshAtCCP, rows, Goto, Finish
<1>5. /\ req[r].toks = {} /\ Carried(r) = {}
    BY <1>1, NothingCarried DEF GrantPCs, CallbackPCs, CCPRevokePCs
<1>6. req[r].ver = sess[s].ver /\ req[r].ver \in Vers
    BY <1>1, <1>2 DEF FitsGrant, Job
<1>7. CASE UNCHANGED ccp
    <2>1. /\ req'[r].toks = {}
          /\ \/ req'[r].pc = "idle"
             \/ /\ req'[r].pc = "rfRevoke" /\ req'[r].sid = s
                /\ ~(ccp[l].live /\ ccp[l].ver = req[r].ver)
        <3>1. CASE Finish(r)
            BY <1>1, <3>1 DEF Finish, Idle
        <3>2. CASE Goto(r, "rfRevoke") /\ ~(ccp[l].live /\ ccp[l].ver = req[r].ver)
            BY <1>1, <1>2, <1>5, <3>2 DEF Goto, Job
        <3>3. CASE ccp[l].ver \in Nat /\ ccp' = [ccp EXCEPT ![l].ver = @ + 1]
            <4>1. ccp'[l].ver = ccp[l].ver + 1
                BY <1>3, <3>3 DEF IInv, TypeOK
            <4>2. QED
                BY <1>7, <3>3, <4>1
        <3>4. ccp[l].ver \in Nat
            BY <1>3 DEF IInv, TypeOK, Vers
        <3>5. QED
            BY <1>2, <1>3, <3>1, <3>2, <3>3, <3>4 DEF RefreshAtCCP
    <2>2. sess[s].ver = ccp[l].ver \/ l \in lost
        BY <1>1, <1>3 DEF GrantInv, RotationSafe, Procs
    <2>3. FitsGrant(req[r])'
        BY <1>3, <1>4, <1>6, <1>7, <2>1, <2>2
           DEF FitsGrant, StreamOf, GrantPCs, CallbackPCs
    <2>4. WorldForward
        BY <1>4, <1>7 DEF WorldForward
    <2>5. QED
        BY <1>1, <1>4, <1>5, <1>7, <2>3, <2>4, Quiet
<1>8. CASE ~UNCHANGED ccp
    <2>1. /\ ccp[l].live /\ ccp[l].ver = req[r].ver
          /\ ccp' = [ccp EXCEPT ![l].ver = @ + 1]
          /\ req' = [req EXCEPT ![r].pc = "rfWrite", ![r].ver = @ + 1]
        BY <1>2, <1>3, <1>8 DEF RefreshAtCCP
    <2>2. /\ ccp'[l].live = ccp[l].live /\ ccp'[l].ver = ccp[l].ver + 1
          /\ \A k \in Logins \ {l} : ccp'[k] = ccp[k]
        BY <1>3, <2>1 DEF IInv, TypeOK
    <2>3. /\ req'[r].pc = "rfWrite" /\ req'[r].ver = req[r].ver + 1
          /\ req'[r].sid = s /\ req'[r].toks = {}
        <3>1. req'[r] = [req[r] EXCEPT !.pc = "rfWrite", !.ver = req[r].ver + 1]
            BY <1>1, <2>1
        <3>2. QED
            BY <1>1, <1>2, <1>5, <3>1 DEF Job
    <2>4. RowsForward
        BY <1>4 DEF RowsForward
    <2>5. \A k \in Logins : ccp'[k].live = ccp[k].live
        BY <2>2
    <2>6. WorldForward
        BY <1>4, <2>5 DEF WorldForward
    <2>7. GrantFits(Procs \ {r})'
        <3>1. \A q \in Procs \ {r}, k \in Logins :
                  Refers(req[q], k) => ccp'[k].ver = ccp[k].ver
            BY <1>3, <2>2
        <3>2. QED
            BY <1>4, <2>4, <2>6, <3>1, OthersFit
    <2>8. FitsGrant(req[r])'
        <3>1. req'[r].ver = ccp'[sess'[req'[r].sid].login].ver
            BY <1>3, <1>4, <2>1, <2>2, <2>3
        <3>2. QED
            BY <2>3, <3>1 DEF FitsGrant, StreamOf, GrantPCs, CallbackPCs
    <2>9. GrantFits(Procs)'
        BY <1>1, <2>7, <2>8, AllFit
    <2>10. Streams'
        BY <1>3, <1>4, <2>2, <2>5 DEF GrantInv, Streams
    <2>11. ASSUME NEW u \in Sids, sess'[u].state = "open"
           PROVE  InStep(u)'
        <3>1. CASE u = s
            BY <2>3, <3>1 DEF InStep
        <3>2. CASE u # s
            <4>1. Open(u) /\ sess[u].login \in Logins \ {l}
                BY <1>3, <1>4, <2>11, <3>2, SessionStream DEF Open, Existed
            <4>2. ccp'[sess[u].login].ver = ccp[sess[u].login].ver
                BY <2>2, <4>1
            <4>3. \A q \in Requests : req[q].pc = "rfWrite" /\ req[q].sid = u =>
                      req'[q].pc = "rfWrite" /\ req'[q].sid = u
                BY <1>1, <1>4 DEF Procs
            <4>4. QED
                BY <1>4, <4>1, <4>2, <4>3, StaysInStep
        <3>3. QED
            BY <3>1, <3>2
    <2>12. RotationSafe'
        BY <2>11 DEF RotationSafe, InStep, Open
    <2>13. \A k \in Logins : ccp'[k].live => k \in Kept'
        <3>1. \A q \in Procs \ (Procs \ {r}) : Carried(q) = {}
            BY <1>5
        <3>2. QED
            BY <1>4, <2>4, <2>5, <2>6, <3>1, AllKept
    <2>14. QED
        BY <2>9, <2>10, <2>12, <2>13 DEF GrantInv
<1>9. QED
    BY <1>7, <1>8

(* The rotated token reaches the row, which no revocation can have taken.   *)
LEMMA WriteKeepsGrants ==
    ASSUME IInv, GrantInv, NEW r \in Requests, WriteRefresh(r)
    PROVE  GrantInv'
<1>1. /\ r \in Procs /\ req[r] \in Job /\ req \in [Procs -> Job]
      /\ req[r].pc = "rfWrite" /\ FitsGrant(req[r])
    BY DEF IInv, TypeOK, Procs, GrantInv, GrantFits, WriteRefresh
<1>2. PICK s, l : s = req[r].sid /\ l = StreamOf(req[r])
    OBVIOUS
<1>3. /\ s \in Sids /\ Open(s) /\ l \in Logins
      /\ l = sess[s].login
      /\ \A q \in Procs \ {r} : req[q].pc \in {"rfCall", "rfWrite"} => req[q].sid # s
    BY <1>1, <1>2, RefreshOwns DEF StreamOf
<1>4. /\ UNCHANGED <<login, code, grant, ccp, build, lost>>
      /\ \A q \in Procs \ {r} : req'[q] = req[q]
      /\ req'[r].pc = "idle" /\ req'[r].toks = {}
    BY <1>1 DEF WriteRefresh, world, Finish, Idle
<1>5. /\ sess'[s].ver = ccp[l].ver /\ sess'[s].state = sess[s].state
      /\ sess'[s].login = l
      /\ \A u \in Sids \ {s} : sess'[u] = sess[u]
    <2>1. sess \in [Sids -> Row] /\ sess[s] \in Row /\ req[r].ver \in Vers
        BY <1>1, <1>3 DEF IInv, TypeOK, Job
    <2>2. sess' = [sess EXCEPT ![s] = [sess[s] EXCEPT !.ver = req[r].ver]]
        BY <1>2, <2>1 DEF WriteRefresh
    <2>3. req[r].ver = ccp[l].ver
        BY <1>1, <1>2 DEF FitsGrant
    <2>4. QED
        BY <1>3, <2>1, <2>2, <2>3 DEF Row
<1>6. \A u \in Sids : sess'[u].state = sess[u].state /\ sess'[u].login = sess[u].login
    BY <1>3, <1>5
<1>7. RowsForward
    BY <1>4, <1>6 DEF RowsForward
<1>8. WorldForward
    BY <1>4 DEF WorldForward
<1>9. GrantFits(Procs)'
    <2>1. \A q \in Procs \ {r} : req[q].pc = "rfCall" =>
              sess'[req[q].sid].ver = sess[req[q].sid].ver
        BY <1>3, <1>5, JobStream DEF OwnPCs
    <2>2. GrantFits(Procs \ {r})'
        BY <1>4, <1>7, <1>8, <2>1, OthersFit
    <2>3. FitsGrant(req[r])'
        BY <1>1, <1>4, NoGrant DEF NoGrantPCs, AllPCs, GrantPCs, CallbackPCs, CCPRevokePCs
    <2>4. QED
        BY <1>1, <2>2, <2>3, AllFit
<1>10. Streams'
    BY <1>4 DEF GrantInv, Streams
<1>11. ASSUME NEW u \in Sids, sess'[u].state = "open"
       PROVE  InStep(u)'
    <2>1. CASE u = s
        BY <1>4, <1>5, <2>1 DEF InStep
    <2>2. CASE u # s
        <3>1. Open(u) /\ sess'[u] = sess[u]
            BY <1>5, <1>11, <2>2 DEF Open
        <3>2. \A q \in Requests : req[q].pc = "rfWrite" /\ req[q].sid = u =>
                  req'[q].pc = "rfWrite" /\ req'[q].sid = u
            BY <1>2, <1>4, <2>2 DEF Procs
        <3>3. QED
            BY <1>4, <3>1, <3>2, StaysInStep
    <2>3. QED
        BY <2>1, <2>2
<1>12. RotationSafe'
    BY <1>11 DEF RotationSafe, InStep, Open
<1>13. \A k \in Logins : ccp'[k].live => k \in Kept'
    <2>1. Carried(r) = {l}
        <3>1. req[r].toks = {}
            BY <1>1 DEF FitsGrant, CCPRevokePCs
        <3>2. QED
            BY <1>1, <1>2, <1>3, <3>1 DEF Carried
    <2>2. l \in Kept'
        BY <1>3, <1>5 DEF Kept, Accounted, Open
    <2>3. \A q \in Procs \ (Procs \ {r}) : \A k \in Carried(q) : k \in Kept'
        BY <2>1, <2>2
    <2>4. QED
        BY <1>4, <1>6, <1>7, <1>8, <2>3, AllKept
<1>14. QED
    BY <1>9, <1>10, <1>12, <1>13 DEF GrantInv

(* A token revoked at CCP, or forgotten when CCP cannot be reached.         *)
LEMMA RevokeAtCCPKeepsGrants ==
    ASSUME IInv, GrantInv, NEW p \in Procs, RevokeAtCCP(p)
    PROVE  GrantInv'
<1>1. /\ req[p] \in Job /\ req \in [Procs -> Job]
      /\ req[p].pc \in CCPRevokePCs /\ FitsGrant(req[p])
    BY DEF IInv, TypeOK, GrantInv, GrantFits, RevokeAtCCP
<1>2. PICK t \in req[p].toks :
         /\ req' = [req EXCEPT ![p] = AfterRevoke(p, @.pc, @.toks \ {t})]
         /\ \/ /\ ccp' = [ccp EXCEPT ![t[1]].live = @ /\ ccp[t[1]].ver # t[2]]
               /\ UNCHANGED lost
            \/ lost' = lost \cup {t[1]} /\ UNCHANGED ccp
    BY DEF RevokeAtCCP
<1>3. PICK l, T : l = t[1] /\ T = req[p].toks \ {t}
    OBVIOUS
<1>4. l \in Logins /\ Spent(t)
    BY <1>1, <1>3, TokenTypes DEF FitsGrant
<1>5. /\ UNCHANGED <<login, code, grant, sess, build>>
      /\ \A q \in Procs \ {p} : req'[q] = req[q]
      /\ req'[p] = AfterRevoke(p, req[p].pc, T)
      /\ T \in SUBSET (Logins \X Vers)
    BY <1>1, <1>2, <1>3 DEF RevokeAtCCP, rows, Job
<1>6. /\ \A k \in Logins : ccp'[k].ver = ccp[k].ver /\ (ccp'[k].live => ccp[k].live)
      /\ lost \subseteq lost'
      /\ ~ccp'[l].live \/ l \in lost'
    <2>1. CASE lost' = lost \cup {t[1]} /\ UNCHANGED ccp
        BY <1>3, <2>1
    <2>2. CASE /\ ccp' = [ccp EXCEPT ![t[1]].live = @ /\ ccp[t[1]].ver # t[2]]
               /\ UNCHANGED lost
        <3>1. ccp \in [Logins -> [live : BOOLEAN, ver : Vers]]
            BY DEF IInv, TypeOK
        <3>2. PICK b \in BOOLEAN : b = (ccp[l].live /\ ccp[l].ver # t[2])
            BY Zenon
        <3>3. ccp' = [ccp EXCEPT ![l] = [ccp[l] EXCEPT !.live = b]]
            BY <1>3, <1>4, <2>2, <3>1, <3>2, Zenon
        <3>4. /\ ccp'[l] = [ccp[l] EXCEPT !.live = b]
              /\ \A k \in Logins \ {l} : ccp'[k] = ccp[k]
            BY <1>4, <3>1, <3>3
        <3>5. ccp'[l].ver = ccp[l].ver /\ ccp'[l].live = b
            BY <1>4, <3>1, <3>4
        <3>6. ~b \/ l \in lost
            BY <1>3, <1>4, <3>2 DEF Spent
        <3>7. b => ccp[l].live
            BY <3>2
        <3>8. QED
            BY <2>2, <3>4, <3>5, <3>6, <3>7
    <2>3. QED
        BY <1>2, <2>1, <2>2
<1>7. RowsForward
    BY <1>5 DEF RowsForward
<1>8. WorldForward
    BY <1>5, <1>6 DEF WorldForward
<1>9. GrantFits(Procs)'
    <2>1. GrantFits(Procs \ {p})'
        BY <1>5, <1>6, <1>7, <1>8, OthersFit
    <2>2. ASSUME NEW u \in T
          PROVE  Spent(u)'
        <3>1. u \in req[p].toks /\ u[1] \in Logins
            BY <1>3, TokenTypes
        <3>2. Spent(u)
            BY <1>1, <3>1 DEF FitsGrant
        <3>3. QED
            BY <1>5, <1>6, <3>1, <3>2 DEF Spent, Open
    <2>3. req[p].pc = "cbCCP" => ccp'[req[p].login].ver = 1
        <3>1. SUFFICES ASSUME req[p].pc = "cbCCP"
                       PROVE  ccp'[req[p].login].ver = 1
            OBVIOUS
        <3>2. ccp[req[p].login].ver = 1 /\ req[p].login \in Logins
            BY <1>1, <3>1 DEF FitsGrant, GrantPCs, CallbackPCs, IInv, JobInv, Fits
        <3>3. QED
            BY <1>6, <3>2
    <2>4. FitsGrant(req[p])'
        BY <1>1, <1>5, <2>2, <2>3, AfterRevokeFits
    <2>5. QED
        BY <2>1, <2>4, AllFit
<1>10. Streams'
    BY <1>5, <1>6 DEF GrantInv, Streams
<1>11. RotationSafe'
    <2>1. \A s \in Sids : sess[s].state = "open" => sess[s].login \in Logins
        BY SessionStream DEF Existed
    <2>2. \A q \in Requests : req[q].pc = "rfWrite" =>
              req'[q].pc = "rfWrite" /\ req'[q].sid = req[q].sid
        BY <1>1, <1>5 DEF Procs, CCPRevokePCs
    <2>3. QED
        BY <1>5, <1>6, <2>1, <2>2, RotationStays
<1>12. \A k \in Logins : ccp'[k].live => k \in Kept'
    <2>1. /\ req'[p].toks = T
          /\ req[p].pc = "cbCCP" => /\ req'[p].login = req[p].login
                                    /\ req'[p].pc \in {"cbCCP", "cbUpsert"}
        BY <1>1, <1>5, AfterRevokeShape
    <2>2. ASSUME NEW k \in Carried(p)
          PROVE  k \in Kept' \/ ~ccp'[k].live
        <3>1. k \in Logins
            BY DEF Carried
        <3>2. CASE req[p].pc = "cbCCP" /\ k = req[p].login
            <4>1. k \in Carried(p)'
                BY <2>1, <3>1, <3>2 DEF Carried
            <4>2. QED
                BY <3>1, <4>1 DEF Kept, Accounted
        <3>3. ASSUME NEW u \in req[p].toks, k = u[1], u # t
              PROVE  k \in Kept'
            <4>1. u \in req'[p].toks
                BY <1>3, <2>1, <3>3
            <4>2. QED
                BY <3>1, <3>3, <4>1, TokenKept
        <3>4. CASE k = t[1]
            BY <1>3, <1>6, <3>1, <3>4 DEF Kept
        <3>5. QED
            BY <1>1, <2>2, <3>2, <3>3, <3>4 DEF Carried, CCPRevokePCs
    <2>3. \A q \in Procs \ (Procs \ {p}) : \A k \in Carried(q) : k \in Kept' \/ ~ccp'[k].live
        BY <2>2
    <2>4. QED
        BY <1>5, <1>6, <1>7, <1>8, <2>3, AllKept
<1>13. QED
    BY <1>9, <1>10, <1>11, <1>12 DEF GrantInv

-----------------------------------------------------------------------------
(* Codes                                                                    *)

(* The grant is parked with its first token.                                *)
LEMMA ParkKeepsGrants ==
    ASSUME IInv, GrantInv, NEW r \in Requests, ParkCode(r)
    PROVE  GrantInv'
<1>1. /\ r \in Procs /\ req[r] \in Job /\ req \in [Procs -> Job]
      /\ req[r].pc = "cbPut" /\ FitsGrant(req[r]) /\ Fits(req[r])
    BY DEF IInv, TypeOK, Procs, GrantInv, GrantFits, JobInv, ParkCode
<1>2. PICK l : l = req[r].login
    OBVIOUS
<1>3. /\ l \in Logins /\ code[l] = "none" /\ login[l] = "gone" /\ ccp[l].ver = 1
      /\ req[r].toks = {}
    BY <1>1, <1>2 DEF Fits, FitsGrant, GrantPCs, CallbackPCs, CCPRevokePCs
<1>4. /\ UNCHANGED <<login, grant, sess, ccp, build, lost>>
      /\ \A q \in Procs \ {r} : req'[q] = req[q]
      /\ req'[r].pc = "idle" /\ req'[r].toks = {}
    BY <1>1 DEF ParkCode, world, Finish, Idle
<1>5. code'[l] = "parked" /\ \A k \in Logins \ {l} : code'[k] = code[k]
    BY <1>2, <1>3 DEF ParkCode, IInv, TypeOK
<1>6. RowsForward
    BY <1>3, <1>4, <1>5 DEF RowsForward
<1>7. WorldForward
    BY <1>4 DEF WorldForward
<1>8. GrantFits(Procs)'
    <2>1. GrantFits(Procs \ {r})'
        BY <1>4, <1>6, <1>7, OthersFit
    <2>2. FitsGrant(req[r])'
        BY <1>1, <1>4, NoGrant DEF NoGrantPCs, AllPCs, GrantPCs, CallbackPCs, CCPRevokePCs
    <2>3. QED
        BY <1>1, <2>1, <2>2, AllFit
<1>9. Streams'
    BY <1>3, <1>4, <1>5 DEF GrantInv, Streams
<1>10. RotationSafe'
    <2>1. \A q \in Requests : req[q].pc = "rfWrite" =>
              req'[q].pc = "rfWrite" /\ req'[q].sid = req[q].sid
        BY <1>1, <1>4 DEF Procs
    <2>2. QED
        BY <1>4, <2>1, RotationStays
<1>11. \A k \in Logins : ccp'[k].live => k \in Kept'
    <2>1. Carried(r) = {l}
        BY <1>1, <1>2, <1>3 DEF Carried
    <2>2. l \in Kept'
        BY <1>3, <1>5 DEF Kept, Accounted
    <2>3. \A q \in Procs \ (Procs \ {r}) : \A k \in Carried(q) : k \in Kept'
        BY <2>1, <2>2
    <2>4. \A k \in Logins : code[k] \in {"parked", "expired"} =>
              code'[k] \in {"parked", "expired"}
        BY <1>5
    <2>5. QED
        BY <1>4, <1>6, <1>7, <2>3, <2>4, AllKept
<1>12. QED
    BY <1>8, <1>9, <1>10, <1>11 DEF GrantInv

(* The sweep takes expired codes, which no exchange holds.                  *)
LEMMA SweepCodesKeepsGrants ==
    ASSUME IInv, GrantInv, NEW w \in Sweepers, SweepCodes(w)
    PROVE  GrantInv'
<1>1. /\ w \in Procs /\ req[w] \in Job /\ req \in [Procs -> Job]
      /\ req[w].pc = "swCodes"
    BY DEF IInv, TypeOK, Procs, SweepCodes
<1>2. PICK b \in SUBSET ExpiredCodes :
         /\ code' = [l \in Logins |-> IF l \in b THEN "gone" ELSE code[l]]
         /\ req' = [req EXCEPT ![w] = AfterRevoke(w, "swCodesCCP", b \X {1})]
    BY DEF SweepCodes
<1>3. /\ b \subseteq Logins /\ \A l \in b : code[l] = "expired" /\ code'[l] = "gone"
      /\ \A l \in Logins \ b : code'[l] = code[l]
    BY <1>2 DEF ExpiredCodes
<1>4. /\ UNCHANGED <<login, grant, sess, ccp, build, lost>>
      /\ \A q \in Procs \ {w} : req'[q] = req[q]
      /\ req'[w] = AfterRevoke(w, "swCodesCCP", b \X {1})
    BY <1>1, <1>2 DEF SweepCodes, world
<1>5. b \X {1} \in SUBSET (Logins \X Vers) /\ Carried(w) = {}
    BY <1>1, <1>3, Bounds, NothingCarried DEF GrantPCs, CallbackPCs, CCPRevokePCs
<1>6. RowsForward
    BY <1>3, <1>4 DEF RowsForward
<1>7. WorldForward
    BY <1>4 DEF WorldForward
<1>8. GrantFits(Procs)'
    <2>1. GrantFits(Procs \ {w})'
        BY <1>4, <1>6, <1>7, OthersFit
    <2>2. ASSUME NEW t \in b \X {1}
          PROVE  Spent(t)'
        <3>1. /\ t[1] \in Logins /\ code[t[1]] = "expired" /\ code'[t[1]] = "gone"
              /\ t[2] = 1
            BY <1>3
        <3>2. ccp[t[1]].ver = 1
            BY <3>1 DEF GrantInv, Streams
        <3>3. \A s \in Sids : Open(s) => sess[s].login # t[1]
            BY <3>1, SessionStream DEF Open, Existed
        <3>4. QED
            BY <1>4, <3>1, <3>2, <3>3 DEF Spent, Open
    <2>3. FitsGrant(req[w])'
        BY <1>1, <1>4, <1>5, <2>2, AfterRevokeFits DEF CCPRevokePCs
    <2>4. QED
        BY <1>1, <2>1, <2>3, AllFit
<1>9. Streams'
    BY <1>3, <1>4 DEF GrantInv, Streams
<1>10. RotationSafe'
    <2>1. \A q \in Requests : req[q].pc = "rfWrite" =>
              req'[q].pc = "rfWrite" /\ req'[q].sid = req[q].sid
        BY <1>1, <1>4 DEF Procs
    <2>2. QED
        BY <1>4, <2>1, RotationStays
<1>11. \A k \in Logins : ccp'[k].live => k \in Kept'
    <2>1. req'[w].toks = b \X {1}
        BY <1>1, <1>4, <1>5, AfterRevokeShape DEF CCPRevokePCs
    <2>2. ASSUME NEW k \in b
          PROVE  k \in Kept'
        <3>1. PICK t : t = <<k, 1>>
            OBVIOUS
        <3>2. t \in req'[w].toks /\ t[1] = k
            BY <2>1, <3>1
        <3>3. QED
            BY <1>1, <1>3, <3>2, TokenKept
    <2>3. \A k \in Logins : code[k] \in {"parked", "expired"} =>
              code'[k] \in {"parked", "expired"} \/ k \in Kept'
        BY <1>3, <2>2
    <2>4. \A q \in Procs \ (Procs \ {w}) : Carried(q) = {}
        BY <1>5
    <2>5. QED
        BY <1>4, <1>6, <1>7, <2>3, <2>4, AllKept
<1>12. QED
    BY <1>8, <1>9, <1>10, <1>11 DEF GrantInv

(* Redeem's commit: the code's grant becomes the session's, the tokens of   *)
(* the predecessors go to CCP.                                              *)
LEMMA CommitKeepsGrants ==
    ASSUME IInv, GrantInv, NEW r \in Requests, CommitExchange(r)
    PROVE  GrantInv'
<1>1. /\ r \in Procs /\ req[r] \in Job /\ req \in [Procs -> Job]
      /\ req[r].pc = "exCommit" /\ Fits(req[r])
      /\ \A q \in Procs \ {r} : Apart(req[r], req[q])
    BY DEF IInv, TypeOK, Procs, JobInv, CommitExchange
<1>2. PICK l, n, D : l = req[r].login /\ n = req[r].sid /\ D = req[r].doomed
    OBVIOUS
<1>3. /\ l \in Logins /\ code[l] \in {"parked", "expired"} /\ ccp[l].ver = 1
      /\ n \in Sids /\ ~Existed(n) /\ D \in SUBSET Sids
    BY <1>1, <1>2 DEF Fits, ExchangePCs, GrantInv, Streams, Job
<1>4. \A s \in D : HoldsRow(req[r], s)
    BY <1>1, <1>2 DEF HoldsRow
<1>5. \A s \in D : Open(s) /\ \A q \in Procs \ {r} : ~HoldsRow(req[q], s)
    BY <1>1, <1>3, <1>4 DEF Fits, Apart
<1>6. /\ UNCHANGED <<login, grant, ccp, build, lost>>
      /\ \A q \in Procs \ {r} : req'[q] = req[q]
      /\ req'[r] = AfterRevoke(r, "exCCP", TokensOf(D))
    BY <1>1, <1>2 DEF CommitExchange, world
<1>7. code'[l] = "gone" /\ \A k \in Logins \ {l} : code'[k] = code[k]
    BY <1>2, <1>3 DEF CommitExchange, IInv, TypeOK
<1>8. /\ sess'[n].state = "open" /\ sess'[n].login = l /\ sess'[n].ver = 1
      /\ n \notin D
      /\ \A s \in D : sess'[s].login = sess[s].login /\ sess'[s].state = "revoked"
      /\ \A s \in Sids \ (D \cup {n}) : sess'[s] = sess[s]
    <2>1. n \notin D
        BY <1>3, <1>5 DEF Open, Existed
    <2>2. sess' = [RevokeRows(D) EXCEPT ![n] =
                      [state |-> "open", login |-> l, ver |-> 1, expired |-> FALSE]]
        BY <1>2 DEF CommitExchange
    <2>3. ASSUME NEW s \in D
          PROVE  sess'[s].login = sess[s].login /\ sess'[s].state = "revoked"
        <3>1. sess'[s] = [sess[s] EXCEPT !.state = "revoked", !.ver = 0] /\ sess[s] \in Row
            BY <1>3, <2>1, <2>2 DEF RevokeRows, Revoked, IInv, TypeOK
        <3>2. QED
            BY <3>1 DEF Row
    <2>4. sess'[n] = [state |-> "open", login |-> l, ver |-> 1, expired |-> FALSE]
        BY <1>3, <2>2 DEF RevokeRows
    <2>5. \A s \in Sids \ (D \cup {n}) : sess'[s] = sess[s]
        BY <1>3, <2>2 DEF RevokeRows
    <2>6. QED
        BY <2>1, <2>3, <2>4, <2>5
<1>9. \A s \in Sids \ {n} : sess'[s].state = "open" =>
          Open(s) /\ s \notin D /\ sess'[s] = sess[s]
    BY <1>3, <1>8 DEF Open
<1>10. RowsForward
    <2>1. \A k \in Logins : code[k] = "gone" => code'[k] = "gone"
        BY <1>7
    <2>2. \A s \in Sids : sess[s].state # "none" => sess'[s].login = sess[s].login
        BY <1>3, <1>8 DEF Existed
    <2>3. \A s \in Sids : sess'[s].state = "open" =>
              sess[s].state = "open" \/ code[sess'[s].login] # "gone"
        BY <1>3, <1>8, <1>9 DEF Open
    <2>4. QED
        BY <2>1, <2>2, <2>3 DEF RowsForward
<1>11. WorldForward
    BY <1>6 DEF WorldForward
<1>12. TokensOf(D) \in SUBSET (Logins \X Vers)
    BY <1>3, <1>5, OpenTokens
<1>13. /\ \A t \in TokensOf(D) : Spent(t)'
       /\ \A s \in D : \E t \in TokensOf(D) : t[1] = sess[s].login
    <2>1. \A s \in D : /\ Open(s) /\ sess'[s].state # "open"
                       /\ \A q \in Requests : ~(req[q].pc = "rfWrite" /\ req[q].sid = s)
        BY <1>1, <1>5, <1>8 DEF HoldsRow, Procs
    <2>2. \A s \in Sids : sess'[s].state = "open" =>
               (Open(s) /\ sess'[s].login = sess[s].login)
               \/ code[sess'[s].login] # "gone"
        BY <1>3, <1>8, <1>9
    <2>3. \A k \in Logins : code[k] = "gone" => code'[k] = "gone"
        BY <1>7
    <2>4. QED
        BY <1>3, <1>6, <2>1, <2>2, <2>3, TokensSpent
<1>14. GrantFits(Procs)'
    <2>1. \A q \in Procs \ {r} : req[q].pc = "rfCall" =>
              sess'[req[q].sid].ver = sess[req[q].sid].ver
        <3>1. SUFFICES ASSUME NEW q \in Procs \ {r}, req[q].pc = "rfCall"
                       PROVE  sess'[req[q].sid].ver = sess[req[q].sid].ver
            OBVIOUS
        <3>2. req[q].sid \in Sids \ (D \cup {n})
            BY <1>3, <1>5, <3>1, JobStream DEF OwnPCs, HoldsRow
        <3>3. QED
            BY <1>8, <3>2
    <2>2. GrantFits(Procs \ {r})'
        BY <1>6, <1>10, <1>11, <2>1, OthersFit
    <2>3. FitsGrant(req[r])'
        BY <1>1, <1>6, <1>12, <1>13, AfterRevokeFits DEF CCPRevokePCs
    <2>4. QED
        BY <1>1, <2>2, <2>3, AllFit
<1>15. Streams'
    BY <1>6, <1>7 DEF GrantInv, Streams
<1>16. ASSUME NEW u \in Sids, sess'[u].state = "open"
       PROVE  InStep(u)'
    <2>1. CASE u = n
        BY <1>3, <1>6, <1>8, <2>1 DEF InStep
    <2>2. CASE u # n
        <3>1. Open(u) /\ sess'[u] = sess[u]
            BY <1>9, <1>16, <2>2
        <3>2. \A q \in Requests : req[q].pc = "rfWrite" /\ req[q].sid = u =>
                  req'[q].pc = "rfWrite" /\ req'[q].sid = u
            BY <1>1, <1>6 DEF Procs
        <3>3. QED
            BY <1>6, <3>1, <3>2, StaysInStep
    <2>3. QED
        BY <2>1, <2>2
<1>17. RotationSafe'
    BY <1>16 DEF RotationSafe, InStep, Open
<1>18. \A k \in Logins : ccp'[k].live => k \in Kept'
    <2>1. req'[r].toks = TokensOf(D)
        BY <1>1, <1>6, <1>12, AfterRevokeShape DEF CCPRevokePCs
    <2>2. l \in Kept'
        BY <1>3, <1>8 DEF Kept, Accounted, Open
    <2>3. \A k \in Logins : code[k] \in {"parked", "expired"} =>
              code'[k] \in {"parked", "expired"} \/ k \in Kept'
        BY <1>7, <2>2
    <2>4. \A s \in D : sess[s].login \in Kept'
        BY <1>1, <1>12, <1>13, <2>1, TokenKept
    <2>5. \A s \in Sids : sess[s].state = "open" =>
               sess'[s].state = "open" \/ sess[s].login \in Kept'
        BY <1>3, <1>8, <2>4 DEF Existed
    <2>6. \A q \in Procs \ (Procs \ {r}) : Carried(q) = {}
        BY <1>1, NothingCarried DEF GrantPCs, CallbackPCs, CCPRevokePCs
    <2>7. QED
        BY <1>6, <1>10, <1>11, <2>3, <2>5, <2>6, AllKept
<1>19. QED
    BY <1>14, <1>15, <1>17, <1>18 DEF GrantInv

-----------------------------------------------------------------------------
(* The purge, faults and the environment                                    *)

(* PurgeRevoked deletes rows that hold no token any more.                   *)
LEMMA PurgeKeepsGrants ==
    ASSUME IInv, GrantInv, NEW w \in Sweepers, SweepPurge(w)
    PROVE  GrantInv'
<1>1. /\ w \in Procs /\ req[w] \in Job /\ req \in [Procs -> Job]
      /\ req[w].pc = "swPurge"
    BY DEF IInv, TypeOK, Procs, SweepPurge
<1>2. /\ UNCHANGED <<login, code, grant, ccp, build, lost>>
      /\ \A q \in Procs \ {w} : req'[q] = req[q]
      /\ req'[w].pc = "idle" /\ req'[w].toks = {}
    BY <1>1 DEF SweepPurge, world, Finish, Idle
<1>3. ASSUME NEW s \in Sids
      PROVE  /\ sess'[s].login = sess[s].login /\ sess'[s].ver = sess[s].ver
             /\ sess'[s].state = "open" <=> sess[s].state = "open"
    <2>1. sess[s] \in Row
        BY DEF IInv, TypeOK
    <2>2. \/ sess'[s] = sess[s]
          \/ sess'[s] = [sess[s] EXCEPT !.state = "purged"] /\ sess[s].state = "revoked"
        BY DEF SweepPurge
    <2>3. QED
        BY <2>1, <2>2 DEF Row
<1>4. RowsForward
    BY <1>2, <1>3 DEF RowsForward
<1>5. WorldForward
    BY <1>2 DEF WorldForward
<1>6. GrantFits(Procs)'
    <2>1. \A q \in Procs \ {w} : req[q].pc = "rfCall" =>
              sess'[req[q].sid].ver = sess[req[q].sid].ver
        BY <1>3, JobStream DEF OwnPCs
    <2>2. GrantFits(Procs \ {w})'
        BY <1>2, <1>4, <1>5, <2>1, OthersFit
    <2>3. FitsGrant(req[w])'
        BY <1>1, <1>2, NoGrant DEF NoGrantPCs, AllPCs, GrantPCs, CallbackPCs, CCPRevokePCs
    <2>4. QED
        BY <1>1, <2>2, <2>3, AllFit
<1>7. Streams'
    BY <1>2 DEF GrantInv, Streams
<1>8. RotationSafe'
    <2>1. \A q \in Requests : req[q].pc = "rfWrite" =>
              req'[q].pc = "rfWrite" /\ req'[q].sid = req[q].sid
        BY <1>1, <1>2 DEF Procs
    <2>2. QED
        BY <1>2, <1>3, <2>1, RotationStays
<1>9. \A k \in Logins : ccp'[k].live => k \in Kept'
    <2>1. \A q \in Procs \ (Procs \ {w}) : Carried(q) = {}
        BY <1>1, NothingCarried DEF GrantPCs, CallbackPCs, CCPRevokePCs
    <2>2. QED
        BY <1>2, <1>3, <1>4, <1>5, <2>1, AllKept
<1>10. QED
    BY <1>6, <1>7, <1>8, <1>9 DEF GrantInv

(* What a stopped process carried is lost, nothing else.                    *)
LEMMA AbortKeepsGrants ==
    ASSUME IInv, GrantInv, NEW p \in Procs, Abort(p)
    PROVE  GrantInv'
<1>1. req[p] \in Job /\ req \in [Procs -> Job]
    BY DEF IInv, TypeOK
<1>2. /\ UNCHANGED <<login, code, grant, sess, ccp, build>>
      /\ lost' = lost \cup Carried(p)
      /\ \A q \in Procs \ {p} : req'[q] = req[q]
      /\ req'[p].pc = "idle" /\ req'[p].toks = {}
    BY <1>1 DEF Abort, rows, Finish, Idle
<1>3. RowsForward /\ WorldForward
    BY <1>2 DEF RowsForward, WorldForward
<1>4. GrantFits(Procs)'
    <2>1. GrantFits(Procs \ {p})'
        BY <1>2, <1>3, OthersFit
    <2>2. FitsGrant(req[p])'
        BY <1>2, NoGrant DEF NoGrantPCs, AllPCs, GrantPCs, CallbackPCs, CCPRevokePCs
    <2>3. QED
        BY <2>1, <2>2, AllFit
<1>5. Streams'
    BY <1>2 DEF GrantInv, Streams
<1>6. RotationSafe'
    <2>1. ASSUME NEW q \in Requests, req[q].pc = "rfWrite"
          PROVE  \/ req'[q].pc = "rfWrite" /\ req'[q].sid = req[q].sid
                 \/ StreamOf(req[q]) \in lost'
        <3>1. CASE q = p
            <4>1. StreamOf(req[p]) \in Carried(p)
                BY <2>1, <3>1, RefreshOwns DEF Carried, StreamOf
            <4>2. QED
                BY <1>2, <3>1, <4>1
        <3>2. CASE q # p
            BY <1>2, <2>1, <3>2 DEF Procs
        <3>3. QED
            BY <3>1, <3>2
    <2>2. QED
        BY <1>2, <2>1, RotationStays
<1>7. \A k \in Logins : ccp'[k].live => k \in Kept'
    <2>1. \A k \in Carried(p) : k \in Kept'
        BY <1>2 DEF Kept, Carried
    <2>2. QED
        BY <1>2, <1>3, <2>1, AllKept
<1>8. QED
    BY <1>4, <1>5, <1>6, <1>7 DEF GrantInv

(* Time, the player, a deployment: nothing that moves is a process.         *)
LEMMA BesideKeepsGrants ==
    ASSUME IInv, GrantInv, req' = req, RowsForward, WorldForward, lost' = lost,
           \A l \in Logins : /\ ccp'[l].ver = ccp[l].ver
                             /\ ccp'[l].live => ccp[l].live
                             /\ login[l] = "gone" => login'[l] = "gone"
                             /\ code'[l] \in {"parked", "expired"}
                                    <=> code[l] \in {"parked", "expired"},
           \A s \in Sids : /\ sess'[s].state = sess[s].state
                           /\ sess'[s].login = sess[s].login
                           /\ sess'[s].ver = sess[s].ver
    PROVE  GrantInv'
<1>1. GrantFits(Procs)'
    <2>1. \A q \in Procs : req[q].pc = "rfCall" =>
              sess'[req[q].sid].ver = sess[req[q].sid].ver
        BY JobStream DEF OwnPCs
    <2>2. QED
        BY <2>1, OthersFit
<1>2. Streams'
    BY DEF GrantInv, Streams
<1>3. RotationSafe'
    <2>1. \A s \in Sids : sess[s].state = "open" => sess[s].login \in Logins
        BY SessionStream DEF Existed
    <2>2. QED
        BY <2>1, RotationStays
<1>4. \A l \in Logins : ccp'[l].live => l \in Kept'
    BY AllKept
<1>5. QED
    BY <1>1, <1>2, <1>3, <1>4 DEF GrantInv

(* Each of these is such a step.                                            *)
LEMMA EnvironmentKeepsGrants ==
    ASSUME IInv, GrantInv, Environment \/ UNCHANGED vars
    PROVE  GrantInv'
<1>1. /\ req' = req /\ lost' = lost
      /\ login \in [Logins -> {"new", "pending", "stale", "gone"}]
      /\ code \in [Logins -> {"none", "parked", "expired", "gone"}]
      /\ sess \in [Sids -> Row] /\ build \in Nat
      /\ ccp \in [Logins -> [live : BOOLEAN, ver : Vers]]
      /\ grant \in [Logins -> [char : Characters \cup {None},
                               owner : Owners \cup {None}, scopes : 0 .. MaxBuild]]
    <2>1. req' = req /\ lost' = lost
        BY DEF Environment, Authorize, LoginGoesStale, CodeExpires, PlayerWithdraws,
               SessionExpires, Deploy, vars, world
    <2>2. build \in Nat
        BY ConstantsAssumption DEF IInv, TypeOK
    <2>3. QED
        BY <2>1, <2>2 DEF IInv, TypeOK
<1> DEFINE Gentle ==
              /\ \A l \in Logins : /\ ccp'[l].ver = ccp[l].ver
                                   /\ ccp'[l].live => ccp[l].live
                                   /\ login[l] = "gone" => login'[l] = "gone"
                                   /\ code'[l] \in {"parked", "expired"}
                                          <=> code[l] \in {"parked", "expired"}
                                   /\ code[l] = "gone" => code'[l] = "gone"
                                   /\ login[l] = "gone" /\ grant[l].scopes < build
                                          => grant'[l].scopes < build'
              /\ \A s \in Sids : /\ sess'[s].state = sess[s].state
                                 /\ sess'[s].login = sess[s].login
                                 /\ sess'[s].ver = sess[s].ver
<1>2. ASSUME UNCHANGED vars
      PROVE  Gentle
    BY <1>1, <1>2 DEF vars, rows, world
<1>3. ASSUME NEW l \in Logins, Authorize(l)
      PROVE  Gentle
    BY <1>1, <1>3 DEF Authorize, world
<1>4. ASSUME NEW l \in Logins, LoginGoesStale(l)
      PROVE  Gentle
    BY <1>1, <1>4 DEF LoginGoesStale, world
<1>5. ASSUME NEW l \in Logins, CodeExpires(l)
      PROVE  Gentle
    BY <1>1, <1>5 DEF CodeExpires, world
<1>6. ASSUME NEW l \in Logins, PlayerWithdraws(l)
      PROVE  Gentle
    BY <1>1, <1>6 DEF PlayerWithdraws, rows
<1>7. ASSUME NEW s \in Sids, SessionExpires(s)
      PROVE  Gentle
    BY <1>1, <1>7 DEF SessionExpires, world, Row
<1>8. ASSUME Deploy
      PROVE  Gentle
    <2>1. \A l \in Logins : grant[l].scopes \in Nat
        BY <1>1, ConstantsAssumption
    <2>2. QED
        BY <1>1, <1>8, <2>1 DEF Deploy, rows
<1>9. Gentle
    BY <1>2, <1>3, <1>4, <1>5, <1>6, <1>7, <1>8 DEF Environment
<1>10. RowsForward
    BY <1>9 DEF RowsForward
<1>11. WorldForward
    BY <1>1, <1>9 DEF WorldForward
<1>12. QED
    BY <1>1, <1>9, <1>10, <1>11, BesideKeepsGrants

-----------------------------------------------------------------------------
(* The theorems                                                             *)

(* GrantInv holds at first ...                                              *)
LEMMA InitGrantInv == Init => GrantInv
<1>1. SUFFICES ASSUME Init
               PROVE  GrantInv
    OBVIOUS
<1>2. GrantFits(Procs)
    BY <1>1 DEF Init, Idle, GrantFits, FitsGrant, GrantPCs, CallbackPCs
<1>3. Streams
    BY <1>1 DEF Init, Streams
<1>4. RotationSafe
    BY <1>1 DEF Init, RotationSafe, Open, NoSession
<1>5. \A l \in Logins : ~ccp[l].live
    BY <1>1 DEF Init
<1>6. QED
    BY <1>2, <1>3, <1>4, <1>5 DEF GrantInv

(* ... and every step keeps it.                                             *)
LEMMA NextGrantInv == IInv /\ GrantInv /\ [Next]_vars => GrantInv'
<1>1. SUFFICES ASSUME IInv, GrantInv, [Next]_vars
               PROVE  GrantInv'
    OBVIOUS
<1>2. ASSUME NEW r \in Requests, Start(r) \/ Step(r)
      PROVE  GrantInv'
    <2>1. SnapPredecessors(r) => req[r].pc \in {"cbSnap", "exSnap"}
        BY DEF SnapPredecessors
    <2>2. QED
        BY <1>1, <1>2, <2>1, PlainSteps, CallbackPasses, SessionPasses, SessionsEnd,
           OwnSessionEnds, ExchangeStarts, RefreshKeepsGrants, WriteKeepsGrants,
           RevokeAtCCPKeepsGrants, ParkKeepsGrants, CommitKeepsGrants
           DEF Start, Step, Procs
<1>3. ASSUME NEW w \in Sweepers, SweepStep(w) \/ SweepRuleFails(w)
      PROVE  GrantInv'
    BY <1>1, <1>3, PlainSweeps, SweepCodesKeepsGrants, SessionsEnd, PurgeKeepsGrants,
       RevokeAtCCPKeepsGrants DEF SweepStep, Procs
<1>4. ASSUME NEW p \in Procs, Abort(p)
      PROVE  GrantInv'
    BY <1>1, <1>4, AbortKeepsGrants
<1>5. CASE Environment \/ UNCHANGED vars
    BY <1>1, <1>5, EnvironmentKeepsGrants
<1>6. QED
    BY <1>1, <1>2, <1>3, <1>4, <1>5 DEF Next

(* Every stream is where it should be, in the version it should have: the   *)
(* invariant behind the three theorems below, over callbacks, exchanges,    *)
(* refreshes, logouts, the sweep, deployments and faults.                   *)
THEOREM GrantInvariant == Spec => [](IInv /\ GrantInv)
<1>1. Init => IInv /\ GrantInv
    BY InitIInv, InitGrantInv
<1>2. IInv /\ GrantInv /\ [Next]_vars => (IInv /\ GrantInv)'
    BY NextIInv, NextGrantInv
<1>3. QED
    BY <1>1, <1>2, PTL DEF Spec

(* eveAccess never strands a session on a rotated token: what the row holds *)
(* is what CCP would accept, but between rotation and write, or after a     *)
(* fault there.                                                             *)
THEOREM RotationIsSafe == Spec => []RotationSafe
<1>1. IInv /\ GrantInv => RotationSafe
    BY DEF GrantInv
<1>2. QED
    BY <1>1, GrantInvariant, PTL

(* No grant is forgotten: whatever is alive at CCP is in a code, in an      *)
(* unrevoked session or with a process that will put it there or revoke it, *)
(* or a fault or a wider build has dropped it.                              *)
THEOREM GrantsAreAccounted == Spec => []GrantAccounted
<1>1. IInv /\ GrantInv => GrantAccounted
    BY DEF GrantInv, Kept, GrantAccounted
<1>2. QED
    BY <1>1, GrantInvariant, PTL

(* No token on its way to CCP's revocation is of a parked code or of an     *)
(* unrevoked session.                                                       *)
THEOREM UsedGrantsAreKept == Spec => []NoUsedGrantRevoked
<1>1. IInv /\ GrantInv => NoUsedGrantRevoked
    BY DEF GrantInv, GrantFits, FitsGrant, Spent, NoUsedGrantRevoked
<1>2. QED
    BY <1>1, GrantInvariant, PTL

=============================================================================
